--------------------------- MODULE ShellExpression ---------------------------
(***************************************************************************)
(* Shell words of an rc file: what a word evaluates to                     *)
(* (src/config/shell_eval.rs), what can be known of it before a message is *)
(* read (ExpressionAnalysis of src/config/expand.rs), and the binding of   *)
(* the variables whose values are final.                                   *)
(*                                                                         *)
(* A word is a sequence of parts.  The parser is not modelled: a word is   *)
(* given as the parts it is parsed into.                                   *)
(***************************************************************************)
EXTENDS ShellPattern

CONSTANTS MaxExpansionDepth,  \* MAX_EXPANSION_DEPTH
          MaxPositional,      \* MAX_POSITIONAL_ARGUMENTS
          MinLinebuf, MaxLinebuf, DefaultLinebuf,
          MaxValueLen,        \* MAX_ASSIGNMENT_VALUE_LEN
          MaxPathLen          \* MAX_PATH_EXPRESSION_LEN

Lit(text) == [k |-> "lit", text |-> text]
Var(name) == [k |-> "var", name |-> name, op |-> "value", word |-> <<>>]
VarOp(name, op, word) == [k |-> "var", name |-> name, op |-> op, word |-> word]
RegexVar(name) == [k |-> "regex", name |-> name]
Command(output) == [k |-> "command", output |-> output]
PatternQuote(word) == [k |-> "quote", word |-> word]

(***************************************************************************)
(* ParameterOperation, named by its spelling.                              *)
(***************************************************************************)
Removals == {"#", "##", "%", "%%"}
CaseChanges == {"^", "^^", ",", ",,"}
HasWord(op) == op \notin {"value", "length", ":?"}

\* selected_word
SelectsWord(op, isSet, isEmpty) ==
    \/ op = "-" /\ ~isSet
    \/ op \in {":-", ":="} /\ (~isSet \/ isEmpty)
    \/ op = "+" /\ isSet
    \/ op = ":+" /\ isSet /\ ~isEmpty

IsValueTransform(op) == op = "length" \/ op \in Removals \/ op \in CaseChanges
RequiresValue(op) == op = "value" \/ IsValueTransform(op)

\* evaluates_word
EvaluatesWord(op, isSet, isEmpty) ==
    IF op \in Removals \union CaseChanges THEN isSet
    ELSE SelectsWord(op, isSet, isEmpty)

\* uses_value_when_word_is_not_selected
UsesValue(op) == op \in {"-", ":-", ":?"} \/ RequiresValue(op)

\* has_commands
RECURSIVE HasCommands(_)
HasCommands(word) ==
    \E i \in DOMAIN word :
        \/ word[i].k = "command"
        \/ word[i].k = "quote" /\ HasCommands(word[i].word)
        \/ word[i].k = "var" /\ HasWord(word[i].op) /\ HasCommands(word[i].word)

\* for_each_assignment: the names := may assign
RECURSIVE Assigned(_)
Assigned(word) ==
    UNION {IF word[i].k = "var"
           THEN (IF word[i].op = ":=" THEN {word[i].name} ELSE {}) \union
                (IF HasWord(word[i].op) THEN Assigned(word[i].word) ELSE {})
           ELSE IF word[i].k = "quote" THEN Assigned(word[i].word) ELSE {}
           : i \in DOMAIN word}

HasAssignments(word) == Assigned(word) # {}
RequiresOrderedEvaluation(word) == HasCommands(word) \/ HasAssignments(word)

(***************************************************************************)
(* Numbers as text.                                                        *)
(***************************************************************************)
RECURSIVE Decimal(_)
Decimal(n) ==
    IF n < 10 THEN <<48 + n>> ELSE Decimal(n \div 10) \o <<48 + (n % 10)>>

IsNumber(text) == text # <<>> /\ \A i \in DOMAIN text : text[i] \in 48..57
Number(text) == FoldLeft(LAMBDA n, b : 10 * n + b - 48, 0, text)
Smaller(m, n) == IF m < n THEN m ELSE n
Larger(m, n) == IF m < n THEN n ELSE m

Positional(i) == ToString(i)
PositionalNames == {"#"} \union {Positional(i) : i \in 1..MaxPositional}

\* variable_policy: the names only the running program assigns; `$` and `?`,
\* the process id and the status of the last command, are left out
RuntimeOnly == {"MATCH", "MATCH1", "LASTFOLDER", "_", "-"}

(***************************************************************************)
(* shell_eval: evaluation of a word in a context.  The context holds the   *)
(* visible values with the depth of the chain that made them, how depth is *)
(* counted, and whether commands and regex quoting are allowed.            *)
(***************************************************************************)
Context(vals, mode, commands, regex) ==
    [vals |-> vals, mode |-> mode, commands |-> commands, regex |-> regex]

Fail(acc, error) == [acc EXCEPT !.err = error]

\* append: nothing is added when the limit would be exceeded
Extend(acc, text, depth, limit) ==
    IF Len(acc.bytes) + Len(text) > limit THEN Fail(acc, "length")
    ELSE [acc EXCEPT !.bytes = @ \o text, !.depth = Larger(@, depth)]

\* selected_depth
SelectedDepth(mode, valueDepth, nesting, usedWord, emptyValue) ==
    CASE mode = "none" -> 0
      [] mode = "chain" -> valueDepth + 1
      [] usedWord -> valueDepth
      [] emptyValue -> nesting
      [] OTHER -> nesting + 1

\* quote_pattern_bytes
QuotePattern(text) ==
    FlattenSeq([i \in DOMAIN text |->
        IF text[i] \in {Star, Question, Open, Backslash}
        THEN <<Backslash, text[i]>> ELSE <<text[i]>>])

\* push_regex_escaped: an empty group, then the text without special bytes
RegexMeta == {36, 40, 41, Star, 43, 46, Question, Open, Backslash, 93, Caret,
              123, 124, 125}
EscapeRegex(text) ==
    <<40, Question, 58, 41>> \o FlattenSeq([i \in DOMAIN text |->
        IF text[i] \in RegexMeta THEN <<Backslash, text[i]>> ELSE <<text[i]>>])

\* The value of a name: an assignment earlier in the same word, then the context
Lookup(name, ctx, made) ==
    IF name \in DOMAIN made THEN <<[text |-> made[name], depth |-> 0]>>
    ELSE IF name \in DOMAIN ctx.vals THEN <<ctx.vals[name]>> ELSE <<>>

RECURSIVE EvaluateAt(_, _, _, _, _)

\* evaluate_word: the word gets what is left of the limit
EvaluateWord(word, acc, limit, nesting, ctx) ==
    EvaluateAt(word, limit - Len(acc.bytes), nesting + 1, ctx, acc.made)

\* Length, removal_operation and ChangeCase of a value
Transform(part, value, pattern) ==
    CASE part.op = "length" -> Decimal(Len(value))
      [] part.op \in Removals ->
            RemoveMatch(value, pattern, IF part.op \in {"#", "##"} THEN "prefix" ELSE "suffix",
                        part.op \in {"##", "%%"})
      [] OTHER -> ChangeCase(value, pattern, part.op \in {"^", "^^"},
                             part.op \in {"^^", ",,"})

EvaluateTransform(part, found, acc, limit, nesting, ctx) ==
    With(IF HasWord(part.op)
         THEN EvaluateWord(part.word, acc, limit, nesting, ctx)
         ELSE [err |-> "none", bytes |-> <<>>, depth |-> 0,
               made |-> acc.made], LAMBDA word :
    With(Transform(part, found[1].text, word.bytes), LAMBDA result :
        CASE found = <<>> -> Fail(acc, "missing")
          [] found # <<>> /\ word.err # "none" -> Fail(acc, word.err)
          [] found # <<>> /\ word.err = "none" /\ result = TooComplex ->
                Fail(acc, "pattern")
          [] OTHER -> [Extend(acc, result,
                              Larger(found[1].depth, word.depth), limit)
                       EXCEPT !.made = word.made]))

\* The other operations: a word, the value, or nothing
EvaluateSelection(part, found, acc, limit, nesting, ctx) ==
    LET isSet   == found # <<>>
        isEmpty == isSet /\ found[1].text = <<>>
        selects == SelectsWord(part.op, isSet, isEmpty)
    IN  With(EvaluateWord(part.word, acc, limit, nesting, ctx), LAMBDA word :
        LET uses    == ~selects /\ UsesValue(part.op)
            text    == IF selects THEN word.bytes
                       ELSE IF uses THEN found[1].text ELSE <<>>
            depth   == SelectedDepth(ctx.mode,
                           IF selects THEN word.depth
                           ELSE IF uses THEN found[1].depth ELSE 0,
                           nesting, selects, ~selects /\ text = <<>>)
            made    == IF selects
                       THEN IF part.op = ":="
                            THEN [n \in DOMAIN word.made \union {part.name} |->
                                    IF n = part.name THEN word.bytes ELSE word.made[n]]
                            ELSE word.made
                       ELSE acc.made
        IN  IF part.op = ":?" /\ (~isSet \/ isEmpty) THEN Fail(acc, "required")
            ELSE IF selects /\ word.err # "none" THEN Fail(acc, word.err)
            ELSE IF uses /\ ~isSet THEN Fail(acc, "missing")
            ELSE IF depth > MaxExpansionDepth THEN Fail(acc, "depth")
            ELSE [Extend(acc, text, depth, limit) EXCEPT !.made = made])

\* CapturedNewlineRule::StripAll
StripAll(output) == SubSeq(output, 1, SelectLastInSeq(output, LAMBDA x : x # 10))

EvaluatePart(part, acc, limit, nesting, ctx) ==
    CASE part.k = "lit" -> Extend(acc, part.text, 0, limit)
      [] part.k = "var" ->
            LET found == Lookup(part.name, ctx, acc.made)
            IN  IF IsValueTransform(part.op)
                THEN EvaluateTransform(part, found, acc, limit, nesting, ctx)
                ELSE EvaluateSelection(part, found, acc, limit, nesting, ctx)
      [] part.k = "command" ->
            IF ~ctx.commands THEN Fail(acc, "unsupported")
            ELSE IF Len(acc.bytes) + Len(part.output) > limit THEN Fail(acc, "length")
            ELSE Extend(acc, StripAll(part.output), 0, limit)
      [] part.k = "regex" ->
            IF ~ctx.regex THEN Fail(acc, "unsupported")
            ELSE IF part.name \notin DOMAIN ctx.vals THEN Fail(acc, "missing")
            ELSE Extend(acc, EscapeRegex(ctx.vals[part.name].text), 0, limit)
      [] part.k = "quote" ->
            With(EvaluateAt(part.word, limit - Len(acc.bytes), nesting,
                            ctx, acc.made), LAMBDA value :
                IF value.err # "none" THEN Fail(acc, value.err)
                ELSE [Extend(acc, QuotePattern(value.bytes), value.depth, limit)
                      EXCEPT !.made = value.made])

\* evaluate_at
EvaluateAt(word, limit, nesting, ctx, made) ==
    LET start == [err |-> IF nesting > MaxExpansionDepth THEN "depth" ELSE "none",
                  bytes |-> <<>>, made |-> made,
                  depth |-> IF ctx.mode = "nesting" THEN nesting ELSE 0]
    IN  FoldLeft(LAMBDA acc, part :
                    IF acc.err # "none" THEN acc
                    ELSE EvaluatePart(part, acc, limit, nesting, ctx),
                 start, word)

NoNames == [n \in {} |-> <<>>]
Evaluate(word, limit, ctx) == EvaluateAt(word, limit, 0, ctx, NoNames)

\* evaluate_config_expression: the preparation, no assignment allowed
EvaluateConfig(word, limit, known) ==
    With(Evaluate(word, limit, Context(known, "chain", FALSE, FALSE)), LAMBDA r :
        IF r.err = "none" /\ DOMAIN r.made # {} THEN Fail(r, "assigns") ELSE r)

\* active_linebuf: the limit in force, which a statement may have changed
ActiveLinebuf(vals) ==
    IF "LINEBUF" \in DOMAIN vals /\ IsNumber(vals["LINEBUF"].text)
    THEN Number(vals["LINEBUF"].text) ELSE DefaultLinebuf

\* evaluate_with_linebuf: the runtime evaluation of values and paths
EvaluateRuntime(word, hardLimit, vals) ==
    With(Evaluate(word, Smaller(ActiveLinebuf(vals), hardLimit),
                  Context(vals, "nesting", FALSE, FALSE)), LAMBDA r :
        IF r.err = "none" /\ DOMAIN r.made # {} THEN Fail(r, "assigns") ELSE r)

(***************************************************************************)
(* ExpressionAnalysis: what the preparation can say of a word.  `missing`, *)
(* `missingShell` and `missingPath` are the first names without a value    *)
(* ("" if there is none) as the three kinds of references see it.          *)
(***************************************************************************)
NothingKnown ==
    [missing |-> "", missingShell |-> "", missingPath |-> "", needs |-> FALSE,
     dynamic |-> FALSE, runtime |-> FALSE, command |-> FALSE, assigns |-> FALSE,
     regex |-> FALSE, static |-> TRUE]

\* merge_first_missing
FirstMissing(target, nested, current) ==
    IF target # "" THEN target ELSE IF nested # "" THEN nested ELSE current

Merge(acc, child) ==
    [missing |-> FirstMissing(acc.missing, child.missing, ""),
     missingShell |-> FirstMissing(acc.missingShell, child.missingShell, ""),
     missingPath |-> FirstMissing(acc.missingPath, child.missingPath, ""),
     needs |-> acc.needs \/ child.needs,
     dynamic |-> acc.dynamic \/ child.dynamic,
     runtime |-> acc.runtime \/ child.runtime,
     command |-> acc.command \/ child.command,
     assigns |-> acc.assigns \/ child.assigns,
     regex |-> acc.regex \/ child.regex,
     static |-> acc.static /\ child.static]

RECURSIVE Analysis(_, _, _)

AnalyseVariable(part, known, dynamic) ==
    LET isKnown   == part.name \in DOMAIN known
        isEmpty   == isKnown /\ known[part.name].text = <<>>
        isRuntime == part.name \in RuntimeOnly
        available == isKnown \/ part.name \in dynamic \/ isRuntime
    IN  With(IF isKnown THEN EvaluatesWord(part.op, TRUE, isEmpty)
             ELSE IF available THEN HasWord(part.op)
             ELSE EvaluatesWord(part.op, FALSE, FALSE), LAMBDA wordRuns :
        With(IF wordRuns THEN Analysis(part.word, known, dynamic)
             ELSE NothingKnown, LAMBDA child :
        LET absent    == IF ~available /\ RequiresValue(part.op)
                         THEN part.name ELSE ""
        IN  [missing |-> FirstMissing("", absent, child.missing),
             missingShell |-> FirstMissing("", absent, child.missingShell),
             missingPath |->
                IF isRuntime THEN ""
                ELSE FirstMissing("", child.missingPath,
                        IF ~isKnown /\ RequiresValue(part.op) THEN part.name ELSE ""),
             needs |-> isRuntime \/ child.needs,
             dynamic |-> isRuntime \/ part.name \in dynamic \/ child.dynamic,
             runtime |-> isRuntime \/ child.runtime,
             command |-> child.command,
             assigns |-> part.op = ":=" \/ child.assigns,
             regex |-> child.regex,
             static |-> /\ part.name \notin dynamic
                        /\ ~isRuntime
                        /\ IF wordRuns THEN child.static
                           ELSE available \/ ~RequiresValue(part.op)]))

AnalyseRegexVariable(part, known, dynamic) ==
    LET isKnown == part.name \in DOMAIN known
    IN  [NothingKnown EXCEPT
            !.missingShell = IF isKnown \/ part.name \in dynamic \union RuntimeOnly
                             THEN "" ELSE part.name,
            !.dynamic = part.name \in dynamic,
            !.regex = TRUE,
            !.needs = TRUE,
            !.static = isKnown /\ part.name \notin dynamic \union RuntimeOnly]

AnalysePart(part, known, dynamic) ==
    CASE part.k = "lit" -> NothingKnown
      [] part.k = "var" -> AnalyseVariable(part, known, dynamic)
      [] part.k = "regex" -> AnalyseRegexVariable(part, known, dynamic)
      [] part.k = "command" -> [NothingKnown EXCEPT !.command = TRUE,
                                   !.needs = TRUE, !.static = FALSE]
      [] part.k = "quote" -> Analysis(part.word, known, dynamic)

Analysis(word, known, dynamic) ==
    FoldLeft(LAMBDA acc, part : Merge(acc, AnalysePart(part, known, dynamic)),
             NothingKnown, word)

\* has_runtime_part
HasRuntimePart(analysis) ==
    analysis.runtime \/ analysis.command \/ analysis.assigns \/ analysis.regex

(***************************************************************************)
(* bind_static_expression: replace what has a value, keep the references   *)
(* to runtime variables.  The result is <<error, word>>.                   *)
(***************************************************************************)
\* push_literal_part
PushLiteral(word, text) ==
    IF text = <<>> THEN word
    ELSE IF word # <<>> /\ Last(word).k = "lit"
         THEN Front(word) \o <<Lit(Last(word).text \o text)>>
         ELSE Append(word, Lit(text))

PushPart(word, part) ==
    IF part.k = "lit" THEN PushLiteral(word, part.text) ELSE Append(word, part)

RECURSIVE BindStatic(_, _, _)

BindPart(word, part, vals, nesting) ==
    CASE part.k = "lit" -> <<"none", PushLiteral(word, part.text)>>
      [] part.k = "var" /\ IsValueTransform(part.op) ->
            With(EvaluateRuntime(<<part>>, MaxValueLen, vals), LAMBDA r :
                <<r.err, PushLiteral(word, r.bytes)>>)
      [] part.k = "var" /\ ~IsValueTransform(part.op) /\ part.name \in RuntimeOnly ->
            With(IF HasWord(part.op)
                 THEN BindStatic(part.word, vals, nesting + 1)
                 ELSE <<"none", part.word>>, LAMBDA bound :
                <<bound[1], Append(word, [part EXCEPT !.word = bound[2]])>>)
      [] part.k = "var" /\ ~IsValueTransform(part.op) /\ part.name \notin RuntimeOnly ->
            LET isSet   == part.name \in DOMAIN vals
                text    == IF isSet THEN vals[part.name].text ELSE <<>>
                selects == SelectsWord(part.op, isSet, isSet /\ text = <<>>)
            IN  With(BindStatic(part.word, vals, nesting + 1), LAMBDA bound :
                    IF selects THEN <<bound[1], FoldLeft(PushPart, word, bound[2])>>
                    ELSE IF ~UsesValue(part.op) THEN <<"none", word>>
                    ELSE IF isSet THEN <<"none", PushLiteral(word, text)>>
                    ELSE <<IF part.op = ":?" THEN "required" ELSE "missing", word>>)
      [] part.k = "quote" ->
            With(BindStatic(part.word, vals, nesting + 1), LAMBDA bound :
                <<bound[1], Append(word, PatternQuote(bound[2]))>>)
      [] OTHER -> <<"unsupported", word>>

BindStatic(word, vals, nesting) ==
    IF nesting > MaxExpansionDepth THEN <<"depth", <<>>>>
    ELSE FoldLeft(LAMBDA acc, part :
                    IF acc[1] # "none" THEN acc
                    ELSE BindPart(acc[2], part, vals, nesting),
                  <<"none", <<>>>>, word)
=============================================================================
