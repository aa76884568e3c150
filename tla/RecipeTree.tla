----------------------------- MODULE RecipeTree -----------------------------
(***************************************************************************)
(* The compiled form of prepared statements (src/eval/tree.rs) and the     *)
(* conditions of recipes (src/eval/condition.rs).                          *)
(*                                                                         *)
(* Compilation attaches statements to the recipe behind them and computes  *)
(* what a sequence needs: which parts of the message (needs), whether it   *)
(* must be executed in order (ordered), whether that is so before anything *)
(* else is done (preempt), and whether the unfolded message must be        *)
(* available as one piece (full).                                          *)
(*                                                                         *)
(* A regular expression is the byte sequence it looks for (want).  With    *)
(* cap = "match" the rest of the line follows the mark \/ and becomes      *)
(* MATCH, with "group" it is a group and becomes MATCH1.                   *)
(***************************************************************************)
EXTENDS ConfigPreparation, RecipeGate

CONSTANT MaxMatchBytes          \* MAX_MATCH_BYTES

(***************************************************************************)
(* PlanProperties and InputRequirements.                                   *)
(***************************************************************************)
Everything == {"headers", "body", "end"}
NoProperties == [needs |-> {}, ordered |-> FALSE, preempt |-> FALSE, full |-> FALSE]
Needing(needs) == [NoProperties EXCEPT !.needs = needs]
InOrder(needs) == [NoProperties EXCEPT !.needs = needs, !.ordered = TRUE,
                                       !.preempt = TRUE]

\* PlanProperties::union
Both(p, q) ==
    [needs |-> p.needs \union q.needs, ordered |-> p.ordered \/ q.ordered,
     preempt |-> p.preempt \/ q.preempt, full |-> p.full \/ q.full]
All(seq) == FoldLeft(Both, NoProperties, seq)

\* CompiledCondition::properties
ConditionProperties(cond) ==
    CASE cond.k = "shell" -> [InOrder(Everything) EXCEPT !.full = TRUE]
      [] cond.k \in {"header", "address"} -> Needing({"headers"})
      [] cond.k = "body" -> Needing(Everything)
      [] cond.k = "message" -> [Needing(Everything) EXCEPT !.full = TRUE]
      [] cond.k = "var" -> NoProperties
      [] cond.k = "program" ->
            InOrder(IF cond.input = "headers" THEN {"headers", "end"} ELSE Everything)
      [] cond.k \in {"smaller", "larger"} -> Needing({"end"})

\* LOCKFILE and a TRAP with a text take effect where they stand
TakesEffect(stmt) ==
    \/ stmt.k \in {"assign", "unset"} /\ stmt.name = "LOCKFILE"
    \/ /\ stmt.k = "assign" /\ stmt.name = "TRAP"
       /\ IF stmt.baked # <<>> THEN stmt.baked[1] # <<>> ELSE stmt.word # <<>>

\* statement_properties
StatementProperties(stmt) ==
    CASE stmt.k = "command" -> InOrder(Everything)
      [] TakesEffect(stmt) -> InOrder({})
      [] stmt.k \in {"include", "switch"} -> [NoProperties EXCEPT !.full = TRUE]
      [] OTHER -> NoProperties

\* statements_properties
StatementsProperties(stmts) ==
    All([i \in DOMAIN stmts |-> StatementProperties(stmts[i])])

\* needs_runtime_variables and requires_ordered_delivery of a destination
NeedsRuntime(dest) == dest.rtdep \/ dest.rtbase
OrderedKind(dest) == dest.kind \in {"mbox", "file"}

\* Mutant of ActionProperties: only a pipe that filters keeps the order
PipesNeedTheMessage(act) ==
    CASE act.k = "pipe" -> [InOrder(Everything) EXCEPT !.ordered = act.filter,
                                                       !.preempt = act.filter]
      [] act.k = "capture" -> [Needing({"headers"}) EXCEPT !.ordered = TRUE]
      [] act.k = "deliver" -> IF NeedsRuntime(act) \/ OrderedKind(act)
                              THEN InOrder({}) ELSE NoProperties
      [] act.k = "block" -> act.seq.props
      [] act.k = "headers" -> [Needing({"headers"}) EXCEPT !.ordered = TRUE]

\* action_properties; a block is compiled already
ActionProperties(act) ==
    CASE act.k = "pipe" -> InOrder(Everything)
      [] act.k = "capture" ->
            IF act.input = "headers"
            THEN [Needing({"headers"}) EXCEPT !.ordered = TRUE]
            ELSE InOrder(Everything)
      [] act.k = "deliver" ->
            With(IF RequiresOrderedEvaluation(act.word) THEN Everything ELSE {}, LAMBDA needs :
                IF NeedsRuntime(act) \/ OrderedKind(act)
                THEN InOrder(needs) ELSE Needing(needs))
      [] act.k = "block" -> act.seq.props
      [] act.k = "headers" -> [Needing({"headers"}) EXCEPT !.ordered = TRUE]

(***************************************************************************)
(* Compilation.                                                            *)
(***************************************************************************)
\* header_action_result_is_known
ResultKnownInHeaders(node) ==
    \/ node.act.k = "headers"
    \/ node.act.k = "capture" /\ node.act.input = "headers"

FollowsResult(node) == node.control \in {"a", "e"}

RECURSIVE CompileSequence(_, _)

\* CompiledNode::compile
CompileNode(recipe, preceding) ==
    With(IF recipe.act.k # "block" THEN recipe.act
         ELSE [k |-> "block", seq |-> CompileSequence(recipe.act.items, <<>>)], LAMBDA act :
    With(Both(ActionProperties(act),
              IF (act.k = "block" /\ recipe.copy) \/ recipe.lock # <<>>
              THEN InOrder({}) ELSE NoProperties), LAMBDA own :
        [id |-> recipe.id, pre |-> preceding, lock |-> recipe.lock,
         control |-> recipe.control, copy |-> recipe.copy, conds |-> recipe.conds,
         act |-> act,
         props |-> Both(Both(own, All([i \in DOMAIN recipe.conds |->
                                        ConditionProperties(recipe.conds[i])])),
                        StatementsProperties(preceding))]))

\* CompiledSequence::compile, the properties: a recipe behind another one
\* may depend on its result
SequenceProperties(recipes, trailing) ==
    With(Both(All([i \in DOMAIN recipes |-> recipes[i].props]),
              StatementsProperties(trailing)), LAMBDA each :
    LET chained == {i \in 2..Len(recipes) : FollowsResult(recipes[i])}
    IN  [each EXCEPT
            !.ordered = @ \/ chained # {},
            !.preempt = @ \/ \E i \in chained : ~ResultKnownInHeaders(recipes[i - 1])])

\* CompiledSequence::compile: statements go to the next recipe
CompileSequence(stmts, preceding) ==
    With(FoldLeft(LAMBDA acc, stmt :
             IF stmt.k = "recipe"
             THEN <<<<>>, Append(acc[2], CompileNode(stmt, acc[1]))>>
             ELSE <<Append(acc[1], stmt), acc[2]>>,
             <<preceding, <<>>>>, stmts), LAMBDA done :
        [recipes |-> done[2], trailing |-> done[1],
         props |-> SequenceProperties(done[2], done[1])])

\* has_error_handler
HasErrorHandler(seq, i) ==
    i < Len(seq.recipes) /\ seq.recipes[i + 1].control = "e"

\* Mutant of RequirementsFrom: the recipe at which the plan stops is left out
RequirementsBehind(seq, start) ==
    LET rest == SubSeq(seq.recipes, start + 1, Len(seq.recipes))
    IN  All([i \in DOMAIN rest |-> rest[i].props]).needs
        \union StatementsProperties(seq.trailing).needs
        \union (IF \E i \in DOMAIN rest : rest[i].props.ordered THEN {"end"} ELSE {})

\* requirements_from
RequirementsFrom(seq, start) ==
    LET rest == SubSeq(seq.recipes, start, Len(seq.recipes))
    IN  All([i \in DOMAIN rest |-> rest[i].props]).needs
        \union StatementsProperties(seq.trailing).needs
        \union (IF \E i \in DOMAIN rest : rest[i].props.ordered THEN {"end"} ELSE {})

(***************************************************************************)
(* Matching.  Results are <<error, matched, variables>>.                   *)
(***************************************************************************)
Occurrences(want, bytes) ==
    {i \in 1..(Len(bytes) - Len(want) + 1) :
        SubSeq(bytes, i, i + Len(want) - 1) = want}

\* The rest of the line behind the first occurrence
RestOfLine(want, bytes) ==
    LET found == Occurrences(want, bytes)
        start == (CHOOSE i \in found : \A j \in found : i <= j) + Len(want)
        ends  == {i \in start..Len(bytes) : bytes[i] = LF}
    IN  SubSeq(bytes, start, IF ends = {} THEN Len(bytes)
                             ELSE (CHOOSE i \in ends : \A j \in ends : i <= j) - 1)

\* regex_matches with selected_match_start, capture_value and match_value
RegexMatches(cond, input, rt) ==
    LET matched == Occurrences(cond.want, input) # {}
    IN  With(RestOfLine(cond.want, input), LAMBDA value :
            IF cond.cap = "none" THEN <<"none", matched, rt>>
            ELSE IF ~matched \/ cond.neg THEN <<"none", matched, ClearMatch(rt)>>
            ELSE IF Len(value) > MaxMatchBytes THEN <<"match", FALSE, ClearNumbered(rt)>>
            ELSE <<"none", TRUE,
                   SetVariable(ClearNumbered(rt),
                               IF cond.cap = "match" THEN "MATCH" ELSE "MATCH1", value)>>)

\* matches_addresses (and identifiers, keywords): the values of the chosen
\* fields, one after the other, until one matches
MatchesFields(cond, h, rt) ==
    With([i \in DOMAIN Named(h, cond.field) |->
           UnfoldValue(Tail(FieldAt(h.store, Named(h, cond.field)[i])))], LAMBDA values :
    With(FoldLeft(LAMBDA acc, v : IF acc[2] \/ acc[1] # "none" THEN acc
                                  ELSE RegexMatches(cond, v, acc[3]),
                  <<"none", FALSE, rt>>, values), LAMBDA done :
        IF done[1] = "none" /\ ~done[2] /\ cond.cap # "none"
        THEN <<"none", FALSE, ClearMatch(done[3])>> ELSE done))

\* VariableRegex: a name without a value matches like an empty one
MatchesVariable(cond, rt) ==
    With(View(rt), LAMBDA view :
    LET value == IF cond.name \in DOMAIN view THEN view[cond.name].text ELSE <<>>
    IN  IF Len(value) > MaxValueLen THEN <<"length", FALSE, rt>>
        ELSE RegexMatches(cond, value, rt))

\* apply_negation
Negated(cond, result) == <<result[1], result[2] # cond.neg, result[3]>>

\* CompiledCondition::matches_headers: the second element may be "deferred"
MatchesHeaders(cond, h, rt) ==
    LET decided(result) == <<result[1], IF result[2] # cond.neg THEN "true" ELSE "false",
                             result[3]>>
    IN  CASE cond.k \in {"shell", "body", "message", "program"} ->
                <<"none", "deferred", rt>>
          [] cond.k = "header" -> decided(RegexMatches(cond, Unfold(Serialized(h)), rt))
          [] cond.k = "address" -> decided(MatchesFields(cond, h, rt))
          [] cond.k = "var" -> decided(MatchesVariable(cond, rt))
          [] cond.k = "smaller" -> IF h.size >= cond.size
                                   THEN decided(<<"none", FALSE, rt>>)
                                   ELSE <<"none", "deferred", rt>>
          [] cond.k = "larger" -> IF h.size > cond.size
                                  THEN decided(<<"none", TRUE, rt>>)
                                  ELSE <<"none", "deferred", rt>>

(***************************************************************************)
(* A complete message: its header and body, and the bytes that conditions  *)
(* on the header and on the whole message see.                             *)
(***************************************************************************)
\* MappedMessageInput::complete_message with CompleteMessage::full: the whole
\* message is unfolded only where that was asked for
MappedMessage(h, body, needsFull) ==
    With(Serialized(h), LAMBDA raw :
        [head |-> h, body |-> body, header |-> Unfold(raw),
         full |-> (IF needsFull THEN Unfold(raw) ELSE raw) \o body])

\* CurrentMessage::replace_header with OwnedCompleteMessage::full
WithHeader(msg, h) ==
    [msg EXCEPT !.head = h, !.header = Unfold(Serialized(h)),
                !.full = Unfold(Serialized(h)) \o msg.body]

\* CompleteMessage::len
MessageLen(msg) == msg.head.size + Len(msg.body)

\* CompiledCondition::matches_complete, for a condition without a word
MatchesComplete(cond, msg, rt) ==
    CASE cond.k = "header" -> Negated(cond, RegexMatches(cond, msg.header, rt))
      [] cond.k = "address" -> Negated(cond, MatchesFields(cond, msg.head, rt))
      [] cond.k = "body" -> Negated(cond, RegexMatches(cond, msg.body, rt))
      [] cond.k = "message" -> Negated(cond, RegexMatches(cond, msg.full, rt))
      [] cond.k = "var" -> Negated(cond, MatchesVariable(cond, rt))
      [] cond.k = "smaller" -> Negated(cond, <<"none", MessageLen(msg) < cond.size, rt>>)
      [] cond.k = "larger" -> Negated(cond, <<"none", MessageLen(msg) > cond.size, rt>>)
      [] cond.k = "program" -> <<"unsupported", FALSE, rt>>

\* evaluate_shell_expression: assignments made by the word are kept; without
\* commands it is expand_shell_condition.  <<error, text, variables>>
EvaluateOrdered(word, limit, rt, commands) ==
    With(Evaluate(word, limit, Context(View(rt), "none", commands, TRUE)), LAMBDA r :
        IF r.err # "none" THEN <<r.err, <<>>, rt>>
        ELSE IF ~commands /\ DOMAIN r.made # {} THEN <<"assigns", <<>>, rt>>
        ELSE <<"none", r.bytes,
               FoldLeft(LAMBDA acc, n : SetVariable(acc, n, r.made[n]), rt,
                        SetToSeq(DOMAIN r.made))>>)

\* resolve_shell_expansion_with: <<error, condition, variables>>.  Commands
\* run only in ordered execution.
RECURSIVE ResolveExpansion(_, _, _, _)
ResolveExpansion(cond, rt, commands, pass) ==
    With(EvaluateOrdered(cond.word, LinebufSetting(rt), rt, commands), LAMBDA text :
        IF pass > MaxExpansionDepth THEN <<"depth", cond, rt>>
        ELSE IF ~SettingIsValid(rt, "LINEBUF") THEN <<"setting", cond, rt>>
        ELSE IF text[1] # "none" THEN <<text[1], cond, rt>>
        ELSE IF text[2] \notin DOMAIN Reparsed THEN <<"syntax", cond, text[3]>>
        ELSE LET next == [Reparsed[text[2]] EXCEPT !.neg = @ # cond.neg]
             IN  IF next.k # "shell" THEN <<"none", next, text[3]>>
                 ELSE ResolveExpansion(next, text[3], commands, pass + 1))
=============================================================================
