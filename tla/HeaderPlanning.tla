--------------------------- MODULE HeaderPlanning ---------------------------
(***************************************************************************)
(* The evaluation of recipes before the body of the message is known       *)
(* (src/eval/header.rs).  Deliveries are planned, not made; `headers` and  *)
(* header captures take effect at once.  A recipe that needs more than the *)
(* header defers the rest: the frames say where the plan is resumed, or a  *)
(* restart is requested because the place is inside a loaded file.         *)
(*                                                                         *)
(* A context record carries what the code passes along: the head, the      *)
(* complete message once there is one, the variables, the plan (out, orig),*)
(* the state of loaded files, the frames and the pending error.  ctl is    *)
(* the control result: continue, stop, end (EndRcFile), deferred or error. *)
(* Observers: log records every external effect, reads the parts of the    *)
(* message that conditions looked at in the complete message, head in a    *)
(* planned delivery the header at that point.                              *)
(***************************************************************************)
EXTENDS RuntimeRc

CONSTANT Hostname               \* the system's node name

NewContext(head, msg, rt, rc, failing) ==
    [head |-> head, msg |-> msg, rt |-> rt, out |-> <<>>, orig |-> FALSE,
     rc |-> rc, at |-> <<>>, depth |-> 0, frames |-> <<>>, restart |-> FALSE,
     needs |-> {}, pend |-> FALSE, err |-> "none", ctl |-> "continue",
     action |-> "succeeded", failing |-> failing, log |-> <<>>, reads |-> {}]

Going(ctx) == ctx.ctl = "continue"
Failed(ctx, error) == [ctx EXCEPT !.err = error, !.ctl = "error"]
Logged(ctx, what) == [ctx EXCEPT !.log = Append(@, what)]

(***************************************************************************)
(* Statements that every evaluation executes alike (src/eval.rs).          *)
(***************************************************************************)
\* execute_assignment
ExecuteAssignment(ctx, stmt) ==
    With(IF stmt.k = "initial" THEN <<"none", stmt.text>>
         ELSE ResolveAssignment(stmt, View(ctx.rt)), LAMBDA value :
    With(ApplyAssignment(ctx.rt, stmt.name, value[2]), LAMBDA done :
        IF value[1] # "none" THEN Failed(ctx, value[1])
        ELSE IF done[1] # "none" THEN Failed(ctx, done[1])
        ELSE [ctx EXCEPT !.rt = done[2]]))

\* execute_unset
ExecuteUnset(ctx, stmt) == [ctx EXCEPT !.rt = RemoveVariable(@, stmt.name)]

\* execute_host_assignment: another host ends the file
IsHost(stmt) == stmt.k = "assign" /\ stmt.name = "HOST"
ExecuteHost(ctx, stmt) ==
    With(ExecuteAssignment(ctx, stmt), LAMBDA done :
        IF ~Going(done) \/ done.rt.vals["HOST"] = Hostname THEN done
        ELSE [done EXCEPT !.ctl = "end"])

\* The plans count a message for another host as delivered
PlanHost(ctx, stmt) ==
    With(ExecuteHost(ctx, stmt), LAMBDA done :
        [done EXCEPT !.orig = @ \/ done.ctl = "end"])

\* execute_statements: without a loader
ExecuteStatements(ctx, stmts) ==
    FoldLeft(LAMBDA acc, stmt :
        IF ~Going(acc) THEN acc
        ELSE CASE IsHost(stmt) -> ExecuteHost(acc, stmt)
               [] stmt.k \in {"assign", "initial"} /\ ~IsHost(stmt) ->
                    ExecuteAssignment(acc, stmt)
               [] stmt.k = "unset" -> ExecuteUnset(acc, stmt)
               [] stmt.k = "command" -> Failed(acc, "unsupported")
               [] stmt.k \in {"include", "switch"} -> Failed(acc, "unsupported"),
        ctx, stmts)

\* Entering a file and leaving it: what execute_runtime_rc saves and restores
Entered(ctx, stmt) == EnterRc(ctx.rc, stmt, ctx.rt, ctx.at, ctx.depth)
Counted(ctx, entered) ==
    IF entered[1] = "none" THEN [ctx EXCEPT !.rc = entered[2]]
    ELSE Failed([ctx EXCEPT !.rc = entered[2]], entered[1])
Inside(ctx, entered) ==
    [ctx EXCEPT !.rc = entered[2], !.at = entered[4], !.depth = @ + 1,
                !.rt.rc = entered[3].path]
Back(ctx, caller) ==
    [ctx EXCEPT !.at = caller.at, !.depth = caller.depth, !.rt.rc = caller.rt.rc]

\* What an INCLUDERC or a SWITCHRC makes of the result of its file
Boundary(ctx, stmt) ==
    IF ctx.ctl \in {"stop", "error"} THEN ctx
    ELSE [ctx EXCEPT !.ctl = IF stmt.k = "include" THEN "continue" ELSE "end"]

(***************************************************************************)
(* Recipes.                                                                *)
(***************************************************************************)
\* planning_gate
PlanningGate(control, state) ==
    /\ ExecutionGate(control, state)
    /\ control = "e" => state.previous.matched

\* matches_complete of one condition, with resolve_shell_expansion
MatchesOne(cond, msg, rt) ==
    With(ResolveExpansion(cond, rt, FALSE, 0), LAMBDA r :
        IF cond.k # "shell" THEN MatchesComplete(cond, msg, rt)
        ELSE IF r[1] # "none" THEN <<r[1], FALSE, r[3]>>
        ELSE MatchesComplete(r[2], msg, r[3]))

\* The parts of a complete message a condition looks at
Reads(cond) ==
    CASE cond.k \in {"body", "message"} -> {"body", "end"}
      [] cond.k \in {"smaller", "larger"} -> {"end"}
      [] OTHER -> {}

\* matches_resumed; matches_complete of a recipe is the case without results
MatchesResumed(ctx, node, results) ==
    FoldLeft(LAMBDA acc, i :
        With(MatchesOne(node.conds[i], acc[1].msg, acc[1].rt), LAMBDA m :
            IF ~Going(acc[1]) \/ ~acc[2] THEN acc
            ELSE IF i \in DOMAIN results /\ results[i] # "deferred"
            THEN <<acc[1], results[i] = "true">>
            ELSE IF m[1] # "none" THEN <<Failed(acc[1], m[1]), FALSE>>
            ELSE <<[acc[1] EXCEPT !.rt = m[3], !.reads = @ \union Reads(node.conds[i])],
                   m[2]>>),
        <<ctx, TRUE>>, [i \in DOMAIN node.conds |-> i])

\* matches_headers: later conditions are tried behind a deferred one
MatchesHeader(ctx, node) ==
    FoldLeft(LAMBDA acc, cond :
        With(MatchesHeaders(cond, acc[1].head, acc[1].rt), LAMBDA m :
            IF ~Going(acc[1]) \/ acc[2] = "false" THEN acc
            ELSE IF m[1] # "none" THEN <<Failed(acc[1], m[1]), "false", acc[3]>>
            ELSE <<[acc[1] EXCEPT !.rt = m[3]],
                   IF m[2] = "true" THEN acc[2] ELSE m[2], Append(acc[3], m[2])>>),
        <<ctx, "true", <<>>>>, node.conds)

\* resolve_lock: <<error, path or nothing>>
LockOf(node, rt) ==
    IF node.lock = <<>> THEN <<"none", <<>>>>
    ELSE ResolveLock(node.lock[1], View(rt))

\* plan_delivery
PlanDelivery(ctx, node, handler) ==
    With(BindDestination(node.act, View(ctx.rt)), LAMBDA dest :
    With(LockOf(node, ctx.rt), LAMBDA lock :
        IF dest[1] # "none" THEN Failed(ctx, dest[1])
        ELSE IF lock[1] # "none" THEN Failed(ctx, lock[1])
        ELSE IF ~SettingIsValid(ctx.rt, "UMASK") THEN Failed(ctx, "setting")
        ELSE [ctx EXCEPT !.out = Append(@, [id |-> node.id, dest |-> dest[2],
                                            lock |-> lock[2], head |-> ctx.head]),
                         !.orig = @ \/ ~node.copy,
                         !.ctl = IF node.copy \/ handler THEN "continue" ELSE "stop"]))

\* The statements in front of a recipe, or behind the last one
StatementsAt(seq, i) ==
    IF i > Len(seq.recipes) THEN seq.trailing ELSE seq.recipes[i].pre

(***************************************************************************)
(* Planning with the complete message.                                     *)
(***************************************************************************)
RECURSIVE PlanCompleteFrom(_, _, _, _)

\* plan_action
PlanAction(ctx, node, handler) ==
    CASE node.act.k = "deliver" -> PlanDelivery(ctx, node, handler)
      [] node.act.k = "block" -> IF node.lock # <<>> THEN Failed(ctx, "unsupported")
                                 ELSE PlanCompleteFrom(ctx, node.act.seq, 1, DefaultState)
      [] node.act.k \in {"pipe", "capture", "headers"} -> Failed(ctx, "unsupported")

\* INCLUDERC and SWITCHRC of plan_statements_complete
RcComplete(ctx, stmt) ==
    With(Entered(ctx, stmt), LAMBDA entered :
        IF entered[1] # "none" \/ entered[3].k = "failed" THEN Counted(ctx, entered)
        ELSE IF entered[3].k = "empty" THEN Boundary(Counted(ctx, entered), stmt)
        ELSE Boundary(Back(PlanCompleteFrom(Inside(ctx, entered), entered[3].seq, 1,
                                            DefaultState), ctx), stmt))

\* plan_statements_complete
StatementsComplete(ctx, stmts) ==
    FoldLeft(LAMBDA acc, stmt :
        IF ~Going(acc) THEN acc
        ELSE IF stmt.k \in {"include", "switch"} THEN RcComplete(acc, stmt)
        ELSE IF IsHost(stmt) THEN PlanHost(acc, stmt)
        ELSE ExecuteStatements(acc, <<stmt>>),
        ctx, stmts)

\* plan_complete_from
PlanCompleteFrom(ctx, seq, i, state) ==
    LET node   == seq.recipes[i]
    IN  With(StatementsComplete(ctx, StatementsAt(seq, i)), LAMBDA before :
        With(IF PlanningGate(node.control, state)
             THEN MatchesResumed(before, node, <<>>) ELSE <<before, FALSE>>, LAMBDA match :
        With(IF match[2] THEN PlanAction(match[1], node, HasErrorHandler(seq, i))
             ELSE match[1], LAMBDA after :
            IF i > Len(seq.recipes) \/ ~Going(before) THEN before
            ELSE IF ~Going(after) THEN after
            ELSE PlanCompleteFrom(after, seq, i + 1,
                     Record(state, node.control, match[2],
                            IF match[2] THEN "succeeded" ELSE "none",
                            ElseHandled(node.control, state, match[2]))))))

\* resume_from_frames
RECURSIVE ResumeFromFrames(_, _, _)
ResumeFromFrames(ctx, seq, depth) ==
    LET frame  == ctx.frames[depth]
        node   == seq.recipes[frame.index]
    IN  With(IF frame.applied THEN ctx ELSE ExecuteStatements(ctx, node.pre), LAMBDA before :
        With(IF depth < Len(ctx.frames) THEN <<before, TRUE>>
             ELSE IF PlanningGate(node.control, frame.state)
             THEN MatchesResumed(before, node, frame.results) ELSE <<before, FALSE>>, LAMBDA match :
        With(IF depth < Len(ctx.frames)
             THEN ResumeFromFrames(before, node.act.seq, depth + 1)
             ELSE IF match[2]
             THEN PlanAction(match[1], node, HasErrorHandler(seq, frame.index))
             ELSE match[1], LAMBDA after :
            IF ~Going(before) THEN before
            ELSE IF ~Going(after) THEN after
            ELSE PlanCompleteFrom(after, seq, frame.index + 1,
                     Record(frame.state, node.control, match[2],
                            IF match[2] THEN "succeeded" ELSE "none",
                            ElseHandled(node.control, frame.state, match[2]))))))

(***************************************************************************)
(* Planning with the header only.                                          *)
(***************************************************************************)
\* delivery_defers_header; captures are always available
DeliveryDefers(act) ==
    \/ act.k = "pipe"
    \/ act.k = "capture" /\ act.input # "headers"
    \/ act.k = "deliver" /\ (NeedsRuntime(act) \/ OrderedKind(act))

\* validate_captured_value of an action: one line end is taken off.  Its limit
\* was enforced when the output was read.
CapturedValue(output) ==
    IF output # <<>> /\ Last(output) = LF THEN Front(output) ELSE output

\* The Capture arm of plan_headers and of execute_ordered_action: the input
\* differs, a failure is pending until an action succeeds
CaptureWith(ctx, node, input) ==
    With(Smaller(LinebufSetting(ctx.rt), ValueLimit(node.act.name)), LAMBDA limit :
    LET value == CapturedValue(node.act.output)
        ran   == Logged(ctx, <<"capture", node.id, input>>)
    IN  IF ~SettingIsValid(ctx.rt, "LINEBUF") THEN Failed(ctx, "setting")
        ELSE IF node.id \in ctx.failing \/ Len(node.act.output) > limit
        THEN [ran EXCEPT !.pend = TRUE, !.action = "failed"]
        ELSE [ran EXCEPT !.rt = SetVariable(@, node.act.name, value),
                         !.pend = FALSE, !.action = "succeeded"])

\* apply_header_extractions
Extracted(rt, found) ==
    FoldLeft(LAMBDA acc, f : SetVariable(acc, f[1], f[2]), rt, found)

\* The Headers arm of plan_headers: the body is not counted yet
EditHead(ctx, node) ==
    With(ResolveHeaderAction(node.act.ops, View(ctx.rt)), LAMBDA ops :
    With(ApplyHeaderAction(ctx.head, ops[2], 0), LAMBDA done :
        IF ops[1] # "none" THEN Failed(ctx, ops[1])
        ELSE IF done.err # "none" THEN Failed(ctx, "edit")
        ELSE Logged([ctx EXCEPT !.head = done.header, !.rt = Extracted(@, done.found),
                                !.action = "succeeded"], <<"edit", node.id>>)))

RECURSIVE PlanHeaders(_, _, _, _, _)

\* Mutant of Frame: the results of the recipes before are not kept
FrameWithoutState(i, state, results) ==
    [index |-> i, state |-> DefaultState, results |-> results, applied |-> TRUE]

\* ContinuationFrame: where a plan stopped
Frame(i, state, results) ==
    [index |-> i, state |-> state, results |-> results, applied |-> TRUE]

\* The Block arm of plan_headers: the frame of the parent goes first
PlanBlock(ctx, seq, i, state, following) ==
    With(PlanHeaders([ctx EXCEPT !.frames = Append(@, Frame(i, state, <<>>))],
                     seq.recipes[i].act.seq, 1, DefaultState,
                     RequirementsFrom(seq, i + 1) \union following), LAMBDA child :
        [child EXCEPT !.action = "succeeded",
                      !.frames = IF child.ctl = "deferred" THEN @ ELSE Front(@)])

\* The actions of plan_headers
PlanHeaderAction(ctx, seq, i, state, following) ==
    LET node == seq.recipes[i]
    IN  With(PlanDelivery(ctx, node, HasErrorHandler(seq, i)), LAMBDA done :
            CASE node.act.k = "pipe" -> Failed(ctx, "unsupported")
              [] node.act.k = "capture" -> CaptureWith(ctx, node, Serialized(ctx.head))
              [] node.act.k = "headers" -> EditHead(ctx, node)
              [] node.act.k = "deliver" -> [done EXCEPT !.action = "succeeded"]
              [] node.act.k = "block" -> PlanBlock(ctx, seq, i, state, following))

\* Ask for another evaluation from the root: its frames mean nothing in a
\* loaded file
Restart(ctx, needs) ==
    [ctx EXCEPT !.frames = <<>>, !.restart = TRUE, !.ctl = "deferred", !.needs = needs]

\* INCLUDERC and SWITCHRC of plan_statements_headers
RcHeaders(ctx, stmt, following) ==
    With(Entered(ctx, stmt), LAMBDA entered :
    LET seq     == entered[3].seq
        later   == IF stmt.k = "include" THEN following ELSE {}
    IN  With(Back(PlanHeaders(Inside(ctx, entered), seq, 1, DefaultState, later), ctx), LAMBDA child :
            IF entered[1] # "none" \/ entered[3].k = "failed" THEN Counted(ctx, entered)
            ELSE IF entered[3].k = "empty" THEN Boundary(Counted(ctx, entered), stmt)
            ELSE IF seq.props.preempt
            THEN Restart(Counted(ctx, entered), seq.props.needs \union later \union {"end"})
            ELSE IF child.ctl = "deferred"
            THEN Restart(child, child.needs \union seq.props.needs \union later)
            ELSE Boundary(child, stmt)))

\* plan_statements_headers
StatementsHeaders(ctx, stmts, following) ==
    FoldLeft(LAMBDA acc, stmt :
        IF ~Going(acc) THEN acc
        ELSE IF stmt.k \in {"include", "switch"} THEN RcHeaders(acc, stmt, following)
        ELSE IF IsHost(stmt) THEN PlanHost(acc, stmt)
        ELSE ExecuteStatements(acc, <<stmt>>),
        ctx, stmts)

\* plan_headers
PlanHeaders(ctx, seq, i, state, following) ==
    LET node    == seq.recipes[i]
    IN  With(following \union
                  IF i > Len(seq.recipes) THEN {} ELSE RequirementsFrom(seq, i), LAMBDA needs :
        With(StatementsHeaders(ctx, StatementsAt(seq, i), needs), LAMBDA before :
        With(IF PlanningGate(node.control, state)
             THEN MatchesHeader(before, node) ELSE <<before, "false", <<>>>>, LAMBDA match :
        LET matched == match[2] = "true"
            defer   == match[2] = "deferred" \/ (matched /\ DeliveryDefers(node.act))
        IN  With(IF matched
                 THEN PlanHeaderAction(match[1], seq, i, state, following)
                 ELSE [match[1] EXCEPT !.action = "none"], LAMBDA acted :
            LET after   == [acted EXCEPT !.pend = @ /\ acted.action # "succeeded"]
            IN  IF i > Len(seq.recipes) \/ ~Going(before) THEN before
                ELSE IF ~Going(match[1]) THEN match[1]
                ELSE IF defer
                THEN [match[1] EXCEPT !.frames = Append(@, Frame(i, state, match[3])),
                                      !.needs = needs, !.ctl = "deferred"]
                ELSE IF acted.ctl \in {"deferred", "error"} THEN acted
                ELSE IF ~Going(after) THEN after
                ELSE PlanHeaders(after, seq, i + 1,
                         Record(state, node.control, matched, after.action,
                                ElseHandled(node.control, state, matched)), following)))))

(***************************************************************************)
(* ExecutionPlan.                                                          *)
(***************************************************************************)
\* requirements()
PlanRequirements(root, rc) ==
    root.props.needs \union (IF rc.body THEN {"body", "end"} ELSE {})
                     \union (IF root.props.preempt THEN {"end"} ELSE {})

\* evaluate_headers_editing_inner: ctl is "decided", "needs" or "error"
EvaluateHeaders(ctx, root) ==
    With(PlanHeaders(ctx, root, 1, DefaultState, {}), LAMBDA plan :
        IF root.props.preempt
        THEN [ctx EXCEPT !.ctl = "needs", !.needs = PlanRequirements(root, ctx.rc),
                         !.frames = <<[Frame(1, DefaultState, <<>>)
                                         EXCEPT !.applied = FALSE]>>]
        ELSE IF plan.ctl = "error" THEN plan
        ELSE IF plan.ctl = "deferred"
        THEN IF plan.restart
             THEN [plan EXCEPT !.ctl = "needs", !.out = <<>>, !.orig = FALSE]
             ELSE [plan EXCEPT !.ctl = "needs"]
        ELSE IF plan.pend THEN Failed(plan, "command")
        ELSE [plan EXCEPT !.ctl = "decided"])

\* resume_input with the staged message; initial is the runtime a restart
\* begins with
Resume(ctx, root, initial) ==
    LET start == [ctx EXCEPT !.ctl = "continue"]
        again == [start EXCEPT !.rt = initial, !.rc = ResetTransitions(@)]
    IN  With(IF ctx.restart THEN PlanCompleteFrom(again, root, 1, DefaultState)
             ELSE ResumeFromFrames(start, root, 1), LAMBDA done :
            IF ctx.frames = <<>> /\ ~ctx.restart THEN Failed(ctx, "unsupported")
            ELSE IF done.ctl = "error" THEN done
            ELSE [done EXCEPT !.ctl = "decided"])
=============================================================================
