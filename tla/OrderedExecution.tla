-------------------------- MODULE OrderedExecution --------------------------
(***************************************************************************)
(* Recipes executed in order on a complete message (src/eval/ordered.rs):  *)
(* every delivery, command and edit happens where its recipe stands.       *)
(* OrderedEval models the same code with failing deliveries and copy       *)
(* blocks on their own threads; here the data matters: which bytes go      *)
(* where, with which variables.  Deliveries and locks succeed, commands    *)
(* fail when the context says so, blocks are not copies.                   *)
(***************************************************************************)
EXTENDS HeaderPlanning

\* The selected part of the current message: action_input, program_input
Selected(msg, input) ==
    CASE input = "headers" -> Serialized(msg.head)
      [] input = "body" -> msg.body
      [] input = "message" -> Serialized(msg.head) \o msg.body

\* action_succeeded, action_failed
Succeeded(ctx, control) ==
    [ctx EXCEPT !.pend = FALSE, !.action = "succeeded", !.ctl = control]
ActionFailed(ctx) == [ctx EXCEPT !.pend = TRUE, !.action = "failed"]

(***************************************************************************)
(* Conditions.                                                             *)
(***************************************************************************)
\* One turn of matches_ordered: <<context, matched>>
MatchesOneOrdered(ctx, given) ==
    With(IF given.k = "shell" THEN ResolveExpansion(given, ctx.rt, TRUE, 0)
         ELSE <<"none", given, ctx.rt>>, LAMBDA resolved :
    LET cond     == resolved[2]
    IN  With(MatchesComplete(cond, ctx.msg, resolved[3]), LAMBDA m :
            IF resolved[1] # "none" THEN <<Failed(ctx, resolved[1]), FALSE>>
            ELSE IF cond.k = "program"
            THEN <<Logged([ctx EXCEPT !.rt = resolved[3]],
                          <<"program", cond.id, Selected(ctx.msg, cond.input)>>),
                   cond.answer # cond.neg>>
            ELSE IF m[1] # "none" THEN <<Failed(ctx, m[1]), FALSE>>
            ELSE <<[ctx EXCEPT !.rt = m[3]], m[2]>>))

\* matches_ordered
MatchesOrdered(ctx, node) ==
    FoldLeft(LAMBDA acc, cond :
                IF ~Going(acc[1]) \/ ~acc[2] THEN acc
                ELSE MatchesOneOrdered(acc[1], cond),
             <<ctx, TRUE>>, node.conds)

(***************************************************************************)
(* Actions.                                                                *)
(***************************************************************************)
\* The Headers arm: the version is replaced only when the header changed
EditMessage(ctx, node) ==
    With(ResolveHeaderAction(node.act.ops, View(ctx.rt)), LAMBDA ops :
    With(ApplyHeaderAction(ctx.msg.head, ops[2], Len(ctx.msg.body)), LAMBDA done :
    With(IF Serialized(done.header) = Serialized(ctx.msg.head) THEN ctx.msg
         ELSE WithHeader(ctx.msg, done.header), LAMBDA msg :
        IF ops[1] # "none" THEN Failed(ctx, ops[1])
        ELSE IF done.err # "none" THEN Failed(ctx, "edit")
        ELSE Succeeded(Logged([ctx EXCEPT !.msg = msg, !.rt = Extracted(@, done.found)],
                              <<"edit", node.id>>), "continue"))))

\* The Pipe arm: a filter replaces the message, another pipe delivers it
RunPipe(ctx, node) ==
    With(LockOf(node, ctx.rt), LAMBDA lock :
    With(Logged(ctx, <<"pipe", node.id, Selected(ctx.msg, node.act.input)>>), LAMBDA ran :
    With(NewHeader(node.act.header), LAMBDA new :
        IF lock[1] # "none" THEN Failed(ctx, lock[1])
        ELSE IF node.id \in ctx.failing THEN ActionFailed(ran)
        ELSE IF node.act.filter
        THEN Succeeded([ran EXCEPT !.msg = WithHeader([@ EXCEPT !.head = new], new)],
                       "continue")
        ELSE Succeeded([ran EXCEPT !.orig = @ \/ ~node.copy],
                       IF node.copy THEN "continue" ELSE "stop"))))

\* The destination of the Deliver arm: <<error, variables, kind, path>>
DestinationNow(dest, rt) ==
    With(Smaller(Smaller(LinebufSetting(rt), MaxValueLen), MaxPathLen), LAMBDA limit :
    With(EvaluateOrdered(dest.word, limit, rt, TRUE), LAMBDA text :
    With(ResolveOutput(dest, text[2], MaildirSetting(text[3])), LAMBDA out :
    With(BindDestination(dest, View(rt)), LAMBDA bound :
    With(ResolveDestination(bound[2], View(rt)), LAMBDA found :
        IF RequiresOrderedEvaluation(dest.word)
        THEN IF ~SettingIsValid(rt, "LINEBUF") THEN <<"setting", rt, dest.kind, <<>>>>
             ELSE IF text[1] # "none" THEN <<text[1], rt, dest.kind, <<>>>>
             ELSE <<out[1], text[3], out[2], out[3]>>
        ELSE IF bound[1] # "none" THEN <<bound[1], rt, dest.kind, <<>>>>
        ELSE <<found[1], rt, found[2], found[3]>>)))))

\* What a delivery leaves behind
Delivery(id, kind, path, lock, head, body) ==
    [id |-> id, kind |-> kind, path |-> path, lock |-> lock,
     bytes |-> Serialized(head) \o body]

\* The Deliver arm with the host's deliver
Deliver(ctx, node) ==
    With(DestinationNow(node.act, ctx.rt), LAMBDA dest :
    With(LockOf(node, dest[2]), LAMBDA lock :
    With([ctx EXCEPT !.rt = SetVariable(dest[2], "LASTFOLDER", dest[4]),
                     !.out = Append(@, Delivery(node.id, dest[3], dest[4], lock[2],
                                                ctx.msg.head, ctx.msg.body)),
                     !.orig = @ \/ ~node.copy], LAMBDA done :
        IF dest[1] # "none" THEN Failed(ctx, dest[1])
        ELSE IF lock[1] # "none" THEN Failed(ctx, lock[1])
        ELSE IF ~SettingIsValid(dest[2], "UMASK") THEN Failed(ctx, "setting")
        ELSE Succeeded(done, IF node.copy THEN "continue" ELSE "stop"))))

RECURSIVE ExecuteFrom(_, _, _, _, _)

\* execute_ordered_action
ExecuteAction(ctx, node) ==
    CASE node.act.k = "capture" ->
            CaptureWith(ctx, node, Selected(ctx.msg, node.act.input))
      [] node.act.k = "headers" -> EditMessage(ctx, node)
      [] node.act.k = "pipe" -> RunPipe(ctx, node)
      [] node.act.k = "deliver" -> Deliver(ctx, node)
      [] node.act.k = "block" ->
            With(LockOf(node, ctx.rt), LAMBDA lock :
                IF lock[1] # "none" THEN Failed(ctx, lock[1])
                ELSE ExecuteFrom([ctx EXCEPT !.pend = FALSE], node.act.seq, 1,
                                 DefaultState, "succeeded"))

(***************************************************************************)
(* Statements and sequences.                                               *)
(***************************************************************************)
\* execute_command_assignment
ExecuteCommand(ctx, stmt) ==
    With(Smaller(LinebufSetting(ctx.rt), ValueLimit(stmt.name)), LAMBDA limit :
    With(EvaluateOrdered(stmt.word, limit, ctx.rt, TRUE), LAMBDA value :
    With(ApplyAssignment(value[3], stmt.name, value[2]), LAMBDA done :
        IF ~SettingIsValid(ctx.rt, "LINEBUF") THEN Failed(ctx, "setting")
        ELSE IF value[1] # "none" THEN Failed(ctx, value[1])
        ELSE IF done[1] # "none" THEN Failed(ctx, done[1])
        ELSE [ctx EXCEPT !.rt = done[2]])))

\* replace_global_lock, behind an assignment or unset of LOCKFILE
GlobalLock(ctx) ==
    IF ~Going(ctx) THEN ctx
    ELSE Logged(ctx, <<"lock", Option(View(ctx.rt), "LOCKFILE")>>)

\* INCLUDERC and SWITCHRC of execute_statements_ordered
RcOrdered(ctx, stmt) ==
    With(Entered(ctx, stmt), LAMBDA entered :
        IF entered[1] # "none" \/ entered[3].k = "failed" THEN Counted(ctx, entered)
        ELSE IF entered[3].k = "empty" THEN Boundary(Counted(ctx, entered), stmt)
        ELSE Boundary(Back(ExecuteFrom(Inside(ctx, entered), entered[3].seq, 1,
                                       DefaultState, "succeeded"), ctx), stmt))

\* execute_statements_ordered: a message for another host has no open error
StatementOrdered(ctx, stmt) ==
    With(PlanHost(ctx, stmt), LAMBDA host :
        CASE stmt.k \in {"include", "switch"} -> RcOrdered(ctx, stmt)
          [] stmt.k = "command" -> ExecuteCommand(ctx, stmt)
          [] IsHost(stmt) -> [host EXCEPT !.pend = @ /\ host.ctl # "end"]
          [] stmt.k \in {"assign", "initial"} /\ ~IsHost(stmt) ->
                IF stmt.name = "LOCKFILE" THEN GlobalLock(ExecuteAssignment(ctx, stmt))
                ELSE ExecuteAssignment(ctx, stmt)
          [] stmt.k = "unset" ->
                IF stmt.name = "LOCKFILE" THEN GlobalLock(ExecuteUnset(ctx, stmt))
                ELSE ExecuteUnset(ctx, stmt))
StatementsOrdered(ctx, stmts) ==
    FoldLeft(LAMBDA acc, stmt : IF Going(acc) THEN StatementOrdered(acc, stmt) ELSE acc,
             ctx, stmts)

\* execute_ordered_from; total is the result of the sequence so far, which
\* is the result of the block
ExecuteFrom(ctx, seq, i, state, total) ==
    LET node   == seq.recipes[i]
    IN  With(StatementsOrdered(ctx, StatementsAt(seq, i)), LAMBDA before :
        With(IF ExecutionGate(node.control, state)
             THEN MatchesOrdered(before, node) ELSE <<before, FALSE>>, LAMBDA match :
        With(IF match[2] THEN ExecuteAction(match[1], node)
             ELSE [match[1] EXCEPT !.action = "none"], LAMBDA after :
        LET result == IF after.action = "none" THEN total ELSE after.action
        IN  IF i > Len(seq.recipes) \/ ~Going(before) THEN [before EXCEPT !.action = total]
            ELSE IF ~Going(after) THEN [after EXCEPT !.action = result]
            ELSE ExecuteFrom(after, seq, i + 1,
                     Record(state, node.control, match[2], after.action,
                            ElseHandled(node.control, state, match[2])), result))))

\* execute_ordered of the plan
ExecuteOrdered(ctx, root) ==
    With(ExecuteFrom(ctx, root, 1, DefaultState, "succeeded"), LAMBDA done :
        IF done.ctl = "error" THEN done
        ELSE IF done.pend THEN Failed(done, "command")
        ELSE [done EXCEPT !.ctl = "decided"])
=============================================================================
