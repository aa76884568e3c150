------------------------- MODULE ConfigPreparation -------------------------
(***************************************************************************)
(* The preparation of an rc file before a message is read                  *)
(* (src/config/expand.rs): values that are final are computed once, the    *)
(* names that may change later are remembered as dynamic, every reference  *)
(* is checked, and paths are validated.  The second half of the module is  *)
(* what the prepared statements do when they are executed.                 *)
(*                                                                         *)
(* Statements are records with a kind k:                                   *)
(*   assign  name, word, baked  (baked: <<>> or the value fixed here)      *)
(*   command name, word         (a word with a command or an assignment)   *)
(*   unset   name               include, switch  id, word                  *)
(*   recipe  id, control, copy, conds, act, lock                           *)
(* A path word has the fields word, base, rtdep and rtbase of              *)
(* PathExpression.  Optional values are sequences of length at most one.   *)
(***************************************************************************)
EXTENDS RuntimeVariables, HeaderEdit

CONSTANT Reparsed      \* the condition a text is parsed into, by its text

(***************************************************************************)
(* Paths.                                                                  *)
(***************************************************************************)
Dot == 46
Blank == 32
DevNull == <<Slash, 100, 101, 118, Slash, 110, 117, 108, 108>>
Destinations == {"maildir", "mbox", "file", "discard"}

\* resolve_relative_path
JoinPath(path, base) ==
    IF base = <<>> \/ path = <<>> THEN path
    ELSE IF base[1] = <<>> \/ path[1] = Slash THEN path
    ELSE base[1] \o (IF Last(base[1]) = Slash THEN <<>> ELSE <<Slash>>) \o path

\* The components of a path as it is spelled
Components(path) ==
    LET n == Len(path)
    IN  {SubSeq(path, i, j - 1) : <<i, j>> \in
            {<<i, j>> \in (1..(n + 1)) \X (1..(n + 1)) :
                /\ i <= j
                /\ i = 1 \/ path[i - 1] = Slash
                /\ j = n + 1 \/ path[j] = Slash
                /\ \A k \in i..(j - 1) : path[k] # Slash}}

\* validate_filesystem_path
ValidPath(path, allowsTrailingSlash) ==
    LET relative == IF path # <<>> /\ path[1] = Slash THEN Tail(path) ELSE path
        named    == IF allowsTrailingSlash /\ relative # <<>>
                       /\ Last(relative) = Slash
                    THEN Front(relative) ELSE relative
    IN  /\ \A i \in DOMAIN path : path[i] # 0
        /\ named # <<>>
        /\ \A c \in Components(named) : c \notin {<<>>, <<Dot>>, <<Dot, Dot>>}

\* PathResolver::resolve: <<error, path>>
ResolvePath(purpose, source, base, typed) ==
    LET path == JoinPath(source, base)
    IN  IF source = <<>> /\ purpose \in {"lock", "log", "rc"} THEN <<"none", <<>>>>
        ELSE IF /\ purpose \in Destinations /\ ~typed
                /\ \E i \in DOMAIN source : source[i] = Blank
        THEN <<"multiple", <<>>>>
        ELSE IF path # source /\ Len(path) > MaxPathLen THEN <<"length", <<>>>>
        ELSE IF ~ValidPath(path, purpose = "maildir") THEN <<"path", <<>>>>
        ELSE IF purpose = "discard" /\ path # DevNull THEN <<"discard", <<>>>>
        ELSE <<"none", path>>

\* assignment_path
TargetPurpose(name) ==
    CASE name = "MAILDIR" -> "maildir"
      [] name = "LOGFILE" -> "log"
      [] name = "LOCKFILE" -> "lock"

\* PathResolver::evaluate
EvaluatePath(purpose, word, vals, base, typed) ==
    With(EvaluateRuntime(word, MaxPathLen, vals), LAMBDA r :
        IF r.err # "none" THEN <<r.err, <<>>>>
        ELSE ResolvePath(purpose, r.bytes, base, typed))

Option(vals, name) == IF name \in DOMAIN vals THEN <<vals[name].text>> ELSE <<>>

\* The base in force: the current MAILDIR for a word whose base may change
ActiveBase(path, vals) ==
    IF path.rtbase /\ "MAILDIR" \in DOMAIN vals THEN <<vals["MAILDIR"].text>>
    ELSE path.base

\* Destination::rebuild: an unmarked file is a mailbox or /dev/null
Classified(kind, path) ==
    IF kind # "file" THEN kind ELSE IF path = DevNull THEN "discard" ELSE "mbox"

\* Destination::resolve_with: <<error, kind, path>>
ResolveDestination(dest, vals) ==
    IF HasCommands(dest.word) THEN <<"commands", dest.kind, <<>>>>
    ELSE With(EvaluatePath(dest.kind, dest.word, vals,
                           ActiveBase(dest, vals), dest.typed), LAMBDA p :
             <<p[1], Classified(dest.kind, p[2]), p[2]>>)

\* Destination::bind_with: <<error, destination>>
BindDestination(dest, vals) ==
    With(BindStatic(dest.word, vals, 0), LAMBDA bound :
        IF RequiresOrderedEvaluation(dest.word) THEN <<"ordered", dest>>
        ELSE <<bound[1], [dest EXCEPT !.word = bound[2],
                  !.rtdep = HasRuntimePart(Analysis(bound[2], NoNames, {}))]>>)

\* Destination::resolve_ordered_output
ResolveOutput(dest, source, maildir) ==
    With(ResolvePath(dest.kind, source,
                     IF dest.rtbase THEN maildir ELSE dest.base, dest.typed), LAMBDA p :
        <<p[1], Classified(dest.kind, p[2]), p[2]>>)

\* PathExpression::resolve_with, for lock files
ResolveLock(lock, vals) ==
    EvaluatePath("lock", lock.word, vals, ActiveBase(lock, vals), TRUE)

\* RcFileExpression::resolve_with: relative to the MAILDIR of this moment
ResolveRcPath(word, vals) ==
    EvaluatePath("rc", word, vals, Option(vals, "MAILDIR"), TRUE)

\* Assignment::resolve_with: <<error, text>>
ResolveAssignment(stmt, vals) ==
    With(EvaluateRuntime(stmt.word, ValueLimit(stmt.name), vals), LAMBDA r :
    LET text == IF stmt.baked # <<>> THEN stmt.baked[1] ELSE r.bytes
    IN  IF stmt.baked = <<>> /\ r.err # "none" THEN <<r.err, <<>>>>
        ELSE IF ~ValidResolved(stmt.name, text) THEN <<"invalid", <<>>>>
        ELSE IF stmt.name \notin PathTargets THEN <<"none", text>>
        ELSE ResolvePath(TargetPurpose(stmt.name), text,
                         Option(vals, "MAILDIR"), TRUE))

\* HeaderValue::resolve_with with validate_header_value: <<error, text>>
ResolveHeaderValue(op, vals) ==
    With(EvaluateRuntime(op.word, MaxValueLen, vals), LAMBDA r :
        <<IF r.err # "none" THEN r.err ELSE FieldError(r.bytes), r.bytes>>)

HasValue(op) == op.op \in {"add", "set", "prepend"}

FirstError(errors) ==
    LET wrong == {i \in DOMAIN errors : errors[i] # "none"}
    IN  IF wrong = {} THEN "none" ELSE errors[CHOOSE i \in wrong :
                                                 \A j \in wrong : i <= j]

\* HeaderAction::resolve_with: <<error, operations>>
ResolveHeaderAction(ops, vals) ==
    With([i \in DOMAIN ops |-> IF HasValue(ops[i])
                               THEN ResolveHeaderValue(ops[i], vals)
                               ELSE <<"none", <<>>>>], LAMBDA value :
        <<FirstError([i \in DOMAIN ops |-> value[i][1]]),
          [i \in DOMAIN ops |-> [ops[i] EXCEPT !.text = value[i][2]]]>>)

(***************************************************************************)
(* ConfigPreparer.                                                         *)
(***************************************************************************)
NewPreparer(known, maildir, linebuf, phase) ==
    [err |-> "none", known |-> known, dynamic |-> {}, maildir |-> maildir,
     linebuf |-> linebuf, phase |-> phase]

Reject(p, error) == [p EXCEPT !.err = error]
Learn(p, name, text, depth) ==
    [p EXCEPT !.known = [n \in DOMAIN @ \union {name} |->
        IF n = name THEN [text |-> text, depth |-> depth] ELSE @[n]]]
MarkDynamic(p, names) == [p EXCEPT !.dynamic = @ \union names]
Analyse(p, word) == Analysis(word, p.known, p.dynamic)

\* The names an assignment statement changes
AssignedNames(name) == IF name = "SHIFT" THEN PositionalNames ELSE {name}

\* populate_missing_positionals
WithPositionals(known) ==
    [n \in DOMAIN known \union PositionalNames |->
        IF n \in DOMAIN known THEN known[n]
        ELSE [text |-> IF n = "#" THEN <<48>> ELSE <<>>, depth |-> 0]]

\* shift_known_positionals
ShiftKnown(known, text) ==
    With(Number(known["#"].text), LAMBDA count :
    With(Smaller(ShiftAmount(text), count), LAMBDA amount :
    LET remaining == count - amount
        index(n)  == CHOOSE i \in 1..MaxPositional : Positional(i) = n
    IN  [n \in DOMAIN known |->
            IF n = "#" THEN [text |-> Decimal(remaining), depth |-> 0]
            ELSE IF n \notin PositionalNames THEN known[n]
            ELSE IF index(n) <= remaining THEN known[Positional(index(n) + amount)]
            ELSE [text |-> <<>>, depth |-> 0]]))

\* validate_known_deferred_assignment
KnownDeferredError(p, stmt, analysis) ==
    With(EvaluateConfig(stmt.word, ValueLimit(stmt.name), p.known), LAMBDA r :
        IF analysis.needs \/ analysis.dynamic THEN "none"
        ELSE IF r.err # "none" THEN r.err
        ELSE IF ~ValidKnown(stmt.name, r.bytes) THEN "invalid" ELSE "none")

\* prepare_deferred_assignment
PrepareDeferredAssignment(p, stmt) ==
    With(Analyse(p, stmt.word), LAMBDA analysis :
    With(KnownDeferredError(p, stmt, analysis), LAMBDA error :
        IF ~ConditionalAllowed(stmt.name) THEN <<Reject(p, "conditional"), stmt>>
        ELSE IF analysis.missing # "" THEN <<Reject(p, "missing"), stmt>>
        ELSE IF error # "none" THEN <<Reject(p, error), stmt>>
        ELSE <<MarkDynamic(p, AssignedNames(stmt.name)), stmt>>))

\* The eager half of prepare_assignment: the value is computed and fixed
BakeAssignment(p, stmt) ==
    With(EvaluateConfig(stmt.word, Smaller(ValueLimit(stmt.name), p.linebuf),
                        p.known), LAMBDA r :
    With(IF stmt.name \in PathTargets
         THEN ResolvePath(TargetPurpose(stmt.name), r.bytes, p.maildir, TRUE)
         ELSE <<"none", r.bytes>>, LAMBDA path :
    LET baked  == [stmt EXCEPT !.baked = <<path[2]>>]
        learnt == Learn(p, stmt.name, path[2], r.depth)
    IN  IF r.err # "none" THEN <<Reject(p, r.err), stmt>>
        ELSE IF ~ValidKnown(stmt.name, r.bytes) THEN <<Reject(p, "invalid"), stmt>>
        ELSE IF stmt.name = "LINEBUF" /\ ~ValidLinebuf(r.bytes)
             THEN <<Reject(p, "linebuf"), stmt>>
        ELSE IF stmt.name = "SHIFT"
             THEN <<[p EXCEPT !.known = ShiftKnown(@, r.bytes)], baked>>
        ELSE IF path[1] # "none" THEN <<Reject(p, path[1]), stmt>>
        ELSE <<CASE stmt.name = "LINEBUF" -> [learnt EXCEPT !.linebuf = Number(r.bytes)]
                 [] stmt.name = "MAILDIR" -> [learnt EXCEPT !.maildir = <<path[2]>>]
                 [] OTHER -> learnt, baked>>))

\* prepare_assignment
PrepareAssignment(p, stmt) ==
    With(Analyse(p, stmt.word), LAMBDA analysis :
        IF p.phase = "deferred" THEN PrepareDeferredAssignment(p, stmt)
        ELSE IF ~analysis.dynamic THEN BakeAssignment(p, stmt)
        ELSE IF analysis.missing # "" THEN <<Reject(p, "missing"), stmt>>
        ELSE <<MarkDynamic(p, {stmt.name}), stmt>>)

\* prepare_statement, CommandAssignment
PrepareCommand(p, stmt) ==
    With(Analysis(stmt.word, p.known,
                  p.dynamic \union Assigned(stmt.word)), LAMBDA analysis :
    With(BindStatic(stmt.word, p.known, 0), LAMBDA bound :
        IF analysis.missing # "" THEN <<Reject(p, "missing"), stmt>>
        ELSE IF p.phase = "eager" /\ ~HasRuntimePart(analysis) /\ ~analysis.dynamic
        THEN IF bound[1] # "none" THEN <<Reject(p, bound[1]), stmt>>
             ELSE PrepareAssignment(p, [k |-> "assign", name |-> stmt.name,
                                        word |-> bound[2], baked |-> <<>>])
        ELSE <<MarkDynamic(p, Assigned(stmt.word) \union AssignedNames(stmt.name)),
               stmt>>))

\* prepare_statement, Unset
PrepareUnset(p, stmt) ==
    IF p.phase = "deferred" /\ ~ConditionalAllowed(stmt.name)
    THEN <<Reject(p, "conditional"), stmt>>
    ELSE <<[p EXCEPT !.known = [n \in DOMAIN @ \ {stmt.name} |-> @[n]],
                     !.dynamic = @ \ {stmt.name},
                     !.maildir = IF stmt.name = "MAILDIR" THEN <<>> ELSE @,
                     !.linebuf = IF stmt.name = "LINEBUF" THEN DefaultLinebuf ELSE @],
           stmt>>

\* prepare_statement, Include and Switch
PrepareRcFile(p, stmt) ==
    IF HasAssignments(stmt.word) \/ HasCommands(stmt.word)
    THEN <<Reject(p, "unsupported"), stmt>>
    ELSE IF Analyse(p, stmt.word).missing # "" THEN <<Reject(p, "missing"), stmt>>
    ELSE <<MarkDynamic(p, PositionalNames), stmt>>

\* prepare_shell_conditions, one condition: expanded while its text is known
RECURSIVE PrepareCondition(_, _, _)
PrepareCondition(p, cond, pass) ==
    With(Analyse(p, cond.word), LAMBDA analysis :
    With(Evaluate(cond.word, Number(p.known["LINEBUF"].text),
                  Context(p.known, "none", FALSE, TRUE)), LAMBDA r :
        IF cond.k # "shell" THEN <<"none", cond>>
        ELSE IF HasAssignments(cond.word) THEN <<"unsupported", cond>>
        ELSE IF analysis.missingShell # "" THEN <<"missing", cond>>
        ELSE IF ~analysis.static THEN <<"none", cond>>
        ELSE IF pass = MaxExpansionDepth THEN <<"depth", cond>>
        ELSE IF r.err # "none" THEN <<r.err, cond>>
        ELSE IF r.bytes \notin DOMAIN Reparsed THEN <<"syntax", cond>>
        ELSE PrepareCondition(p, [Reparsed[r.bytes] EXCEPT !.neg = @ # cond.neg],
                              pass + 1)))

\* prepare_lock_expression
PrepareLock(p, lock, pipe) ==
    With(Analyse(p, lock.word), LAMBDA analysis :
    LET runtime  == analysis.needs \/ analysis.dynamic
        prepared == [lock EXCEPT !.base = p.maildir, !.rtdep = runtime,
                                 !.rtbase = runtime]
    IN  IF HasAssignments(lock.word) THEN <<"unsupported", lock>>
        ELSE IF analysis.missing # "" THEN <<"missing", lock>>
        ELSE IF ~runtime /\ lock.word # <<>>
             THEN <<ResolveLock(prepared, p.known)[1], prepared>>
        ELSE IF lock.word = <<>> /\ pipe THEN <<"implicit", lock>>
        ELSE <<"none", prepared>>)

\* prepare_destination
PrepareDestination(p, dest, phase) ==
    With(RequiresOrderedEvaluation(dest.word), LAMBDA ordered :
    With(Analysis(dest.word, p.known,
             IF ordered THEN p.dynamic \union Assigned(dest.word)
             ELSE p.dynamic), LAMBDA analysis :
    LET runtime  == ordered \/ analysis.dynamic \/ analysis.needs
        prepared == [dest EXCEPT !.base = p.maildir, !.rtdep = runtime,
                                 !.rtbase = "MAILDIR" \in p.dynamic]
    IN  With(ResolveDestination(prepared, p.known), LAMBDA resolved :
        LET missing  == IF phase = "eager" /\ ~ordered THEN analysis.missingPath
                        ELSE analysis.missing
        IN  IF missing # "" THEN <<"missing", prepared>>
            ELSE IF phase = "eager" /\ ~runtime
                 THEN <<resolved[1], [prepared EXCEPT !.kind =
                            IF @ = "file" /\ resolved[2] = "discard"
                            THEN "discard" ELSE @]>>
            ELSE <<"none", prepared>>)))

\* prepare_header_action, one operation with a value
HeaderValueError(p, op) ==
    With(Analyse(p, op.word), LAMBDA analysis :
        IF ~HasValue(op) THEN "none"
        ELSE IF HasAssignments(op.word) THEN "unsupported"
        ELSE IF analysis.missing # "" THEN "missing"
        ELSE IF analysis.needs \/ analysis.dynamic THEN "none"
        ELSE ResolveHeaderValue(op, p.known)[1])

RECURSIVE RecipeDynamicNames(_)

\* Mutant of RecipeDynamicNames: the assignments of a block are overlooked
ActionDynamicNames(act) ==
    CASE act.k = "capture" -> {act.name}
      [] act.k = "deliver" -> Assigned(act.word)
      [] act.k = "headers" -> {act.ops[i].name : i \in
                                {i \in DOMAIN act.ops : act.ops[i].op = "extract"}}
      [] OTHER -> {}

\* record_recipe_dynamic_names
RecipeDynamicNames(act) ==
    CASE act.k = "capture" -> {act.name}
      [] act.k = "deliver" -> Assigned(act.word)
      [] act.k = "headers" -> {act.ops[i].name : i \in
                                {i \in DOMAIN act.ops : act.ops[i].op = "extract"}}
      [] act.k = "pipe" -> {}
      [] act.k = "block" -> UNION {
            LET stmt == act.items[i]
            IN  CASE stmt.k \in {"assign", "command"} -> AssignedNames(stmt.name)
                  [] stmt.k = "unset" -> {stmt.name}
                  [] stmt.k = "recipe" -> RecipeDynamicNames(stmt.act)
                  [] OTHER -> {}
            : i \in DOMAIN act.items}

RECURSIVE PrepareStatements(_, _)

\* prepare_recipe, the action: <<error, action>>
PrepareAction(p, act, phase) ==
    CASE act.k = "deliver" -> PrepareDestination(p, act, phase)
      [] act.k = "headers" ->
            <<FirstError([i \in DOMAIN act.ops |-> HeaderValueError(p, act.ops[i])]),
              act>>
      [] act.k = "block" ->
            With(PrepareStatements([p EXCEPT !.dynamic = IF phase = "eager" THEN {} ELSE @,
                                             !.phase = "deferred"], act.items), LAMBDA child :
                <<child[1].err, [act EXCEPT !.items = child[2]]>>)
      [] act.k \in {"pipe", "capture"} -> <<"none", act>>

\* prepare_statement, Recipe, with prepare_recipe
PrepareRecipe(p, stmt) ==
    LET phase == IF p.phase = "eager" /\ p.dynamic = {} THEN "eager" ELSE "deferred"
    IN  With([i \in DOMAIN stmt.conds |-> PrepareCondition(p, stmt.conds[i], 0)], LAMBDA conds :
        With([i \in DOMAIN stmt.lock |->
                PrepareLock(p, stmt.lock[i], stmt.act.k = "pipe")], LAMBDA lock :
        With(PrepareAction(p, stmt.act, phase), LAMBDA act :
        LET error == FirstError([i \in DOMAIN conds |-> conds[i][1]] \o
                                [i \in DOMAIN lock |-> lock[i][1]] \o <<act[1]>>)
        IN  IF error # "none" THEN <<Reject(p, error), stmt>>
            ELSE <<MarkDynamic(p, RecipeDynamicNames(act[2])),
                   [stmt EXCEPT !.conds = [i \in DOMAIN conds |-> conds[i][2]],
                                !.lock = [i \in DOMAIN lock |-> lock[i][2]],
                                !.act = act[2]]>>)))

\* prepare_statement
PrepareStatement(p, stmt) ==
    CASE stmt.k = "assign" -> PrepareAssignment(p, stmt)
      [] stmt.k = "command" -> PrepareCommand(p, stmt)
      [] stmt.k = "unset" -> PrepareUnset(p, stmt)
      [] stmt.k = "recipe" -> PrepareRecipe(p, stmt)
      [] stmt.k \in {"include", "switch"} -> PrepareRcFile(p, stmt)

\* prepare_statements: <<preparer, statements>>
PrepareStatements(p, stmts) ==
    FoldLeft(LAMBDA acc, stmt :
                IF acc[1].err # "none" THEN acc
                ELSE With(PrepareStatement(acc[1], stmt), LAMBDA next :
                         <<next[1], Append(acc[2], next[2])>>),
             <<p, <<>>>>, stmts)

\* expand_config: <<error, statements>>
ExpandConfig(stmts, known, maildir) ==
    With(PrepareStatements(
             NewPreparer([n \in DOMAIN known \union {"LINEBUF", "LOCKEXT"} |->
                             IF n \in DOMAIN known THEN known[n]
                             ELSE [text |-> DefaultVariables.vals[n], depth |-> 0]],
                         maildir, DefaultLinebuf, "eager"), stmts), LAMBDA done :
        <<done[1].err, done[2]>>)

\* expand_with_arguments: the root file
ExpandRoot(stmts, supplied, arguments) ==
    With(InitialAssignments(supplied, arguments), LAMBDA initial :
    LET known   == [n \in {initial[i].name : i \in DOMAIN initial} |->
                      [text |-> initial[CHOOSE i \in DOMAIN initial :
                                            initial[i].name = n].text,
                       depth |-> 0]]
    IN  ExpandConfig(stmts, WithPositionals(known), <<>>))

\* expand_with_runtime_values: a file loaded while a message is processed
ExpandLoaded(stmts, rt) ==
    ExpandConfig(stmts, WithPositionals(VisibleValues(rt)),
                 Option(VisibleValues(rt), "MAILDIR"))
=============================================================================
