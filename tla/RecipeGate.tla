----------------------------- MODULE RecipeGate -----------------------------
(***************************************************************************)
(* When a recipe may run, given what happened to the recipes before it in  *)
(* the same sequence: ControlFlow, execution_gate and else_handled of      *)
(* src/src/eval.rs and SequenceState of src/src/eval/tree.rs.              *)
(*                                                                         *)
(* A state records the preceding recipe and whether the base of the        *)
(* current A chain matched.                                                *)
(***************************************************************************)

\* I no flag, A AfterChainMatch, a AfterPreviousSuccess, E Else,
\* e AfterPreviousError.
ControlFlow == {"I", "A", "a", "E", "e"}

\* ActionExecution; "none" is NotAttempted.
ActionExecution == {"none", "succeeded", "failed"}

RecipeExecution == [matched : BOOLEAN, handled : BOOLEAN, action : ActionExecution]

SequenceState == [previous : RecipeExecution, chain : BOOLEAN]

\* SequenceState::default: a missing previous recipe and a missing chain base
\* answer every question like these values do.
DefaultState ==
    [previous |-> [matched |-> FALSE, handled |-> FALSE, action |-> "none"],
     chain |-> FALSE]

ExecutionGate(control, state) ==
    \/ control = "I"
    \/ control = "A" /\ state.chain
    \/ control = "a" /\ state.previous.matched /\ state.previous.action = "succeeded"
    \/ control = "E" /\ ~state.previous.handled
    \/ control = "e" /\ state.previous.action = "failed"

\* Mutant of ElseHandled: a skipped E recipe forgets the one that ran.
ElseForgets(control, state, matched) == matched

ElseHandled(control, state, matched) ==
    matched \/ (control = "E" /\ state.previous.handled)

\* Mutant of Record: only a recipe without a control flag starts a chain.
RecordPlainBase(state, control, matched, action, handled) ==
    [previous |-> [matched |-> matched, handled |-> handled, action |-> action],
     chain |-> IF control = "I" THEN matched ELSE state.chain]

Record(state, control, matched, action, handled) ==
    [previous |-> [matched |-> matched, handled |-> handled, action |-> action],
     chain |-> IF control \in {"A", "a"} THEN state.chain ELSE matched]
=============================================================================
