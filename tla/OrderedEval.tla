----------------------------- MODULE OrderedEval -----------------------------
(***************************************************************************)
(* Ordered execution of a compiled recipe tree (src/src/eval/ordered.rs,   *)
(* with the gates of eval.rs, SequenceState of eval/tree.rs and the lock   *)
(* slots of OrderedDeliveryHost in delivery_runtime.rs).                   *)
(*                                                                         *)
(* The Rust call stack is an explicit stack of frames per thread: one      *)
(* frame per activation of execute_ordered_from.  Thread 0 processes the   *)
(* original message; every unwaited copy block starts a thread of its own. *)
(* Conditions, and the results of deliveries, commands and locks, are      *)
(* nondeterministic.  A program maps the number of a sequence to its       *)
(* items; statements and recipes are items, in source order.               *)
(***************************************************************************)
EXTENDS RecipeGate, Integers, Sequences

CONSTANTS
    Programs,       \* the recipe trees to consider; sequence 1 is the root
    Locks,          \* names of lock files
    NoLock,
    MaxBranches,    \* MAX_BACKGROUND_COPY_BRANCHES
    MaxFailures     \* bound: operations that fail in one run

Threads == 0..MaxBranches
Nobody == -1

\* A statement or a recipe of a sequence; child is the sequence it enters, or 0.
ProgramItem ==
    [op : {"host", "include", "switch", "lockfile", "deliver", "pipe", "edit", "block"},
     ctl : ControlFlow, cond : BOOLEAN, copy : BOOLEAN, wait : BOOLEAN,
     lock : Locks \cup {NoLock}, child : Nat]

ASSUME OrderedEvalAssumption ==
    /\ MaxBranches \in Nat
    /\ MaxFailures \in Nat
    /\ NoLock \notin Locks

\* The compiler builds a tree: a block has its children, an rc file that is
\* entered is one of the compiled ones.
ASSUME ProgramsAssumption ==
    \A p \in Programs :
        /\ p \in Seq(Seq(ProgramItem)) /\ Len(p) > 0
        /\ \A s \in DOMAIN p : \A i \in DOMAIN p[s] :
            /\ p[s][i].child # 0 => p[s][i].child \in DOMAIN p
            /\ p[s][i].op = "block" => p[s][i].child # 0

VARIABLES
    prog,
    stack,        \* frames of each thread, innermost last
    mode,         \* "idle", "run", "block", "copy", "return", "unwind", "done"
    ret,          \* (ActionExecution, SequenceControl) being returned
    fault,        \* error that unwinds the thread, or "none"
    pendingError, \* context.pending_error is set
    delivered,    \* context.original_delivered
    published,    \* context.published
    edits,        \* version of context.current_message
    owner,        \* who holds each lock file: a thread, or Nobody
    globalLock,   \* host.global_lock of each thread
    started,      \* copy branches started (BackgroundCopyBudget)
    failures,
    history       \* observer: see Observed

context == <<pendingError, delivered, published, edits>>
locks == <<owner, globalLock>>
vars == <<prog, stack, mode, ret, fault, context, locks, started, failures, history>>

\* What an outside observer of the run sees.
Observed == [deliveries : Nat,     \* destinations that got the message
             late : Nat,           \* those whose delivery failed behind publication
             finals : Nat,         \* final actions done for the original message
             afterStop : BOOLEAN,  \* an action was done for a delivered message
             hostEnded : BOOLEAN,  \* HOST ended the root rc file for the original
             original : Nat]       \* edits made to the original message

-----------------------------------------------------------------------------
\* One activation of execute_ordered_from.  kind says who called it; a block frame
\* owns its local lock; handled is the else_handled its caller will record; saved
\* is what a waited branch gives back, branch the thread a parent frame joins; ran
\* counts the recipes executed in the current chain of E recipes (observer).
NewFrame(kind, seq, at, state, lock, handled) ==
    [kind |-> kind, seq |-> seq, at |-> at, state |-> state, action |-> "succeeded",
     lock |-> lock, handled |-> handled,
     saved |-> [edits |-> 0, delivered |-> FALSE, lock |-> NoLock],
     branch |-> Nobody, ran |-> 0]

Entered(kind, seq, lock, handled) ==
    NewFrame(kind, seq, 1, DefaultState, lock, handled)

Top(t) == stack[t][Len(stack[t])]
Rest(t) == SubSeq(stack[t], 1, Len(stack[t]) - 1)
Item(frame) == prog[frame.seq][frame.at]
Push(t, frame) == [stack EXCEPT ![t] = Append(@, frame)]
SetMode(t, m) == mode' = [mode EXCEPT ![t] = m]

\* A recipe of frame is finished with (action, control), and rest are the frames
\* below it: record the result (SequenceState::record, sequence_action), then
\* continue with the next item or leave the sequence.
RecipeDone(t, rest, frame, matched, action, handled, control) ==
    LET f == [frame EXCEPT
                !.state = Record(@, Item(frame).ctl, matched, action, handled),
                !.action = IF action = "none" THEN @ ELSE action,
                !.ran = (IF Item(frame).ctl = "E" THEN @ ELSE 0) + (IF matched THEN 1 ELSE 0),
                !.at = IF control = "continue" THEN @ + 1 ELSE @]
    IN /\ stack' = [stack EXCEPT ![t] = Append(rest, f)]
       /\ IF control = "continue"
          THEN SetMode(t, "run") /\ UNCHANGED ret
          ELSE /\ SetMode(t, "return")
               /\ ret' = [ret EXCEPT ![t] = [action |-> f.action, control |-> control]]

Handled(t, matched) == ElseHandled(Item(Top(t)).ctl, Top(t).state, matched)

\* The result of the action of the recipe at the top frame.
ActionDone(t, action, control) ==
    RecipeDone(t, Rest(t), Top(t), TRUE, action, Handled(t, TRUE), control)

\* A statement ends the sequence of frame with the given control.
Leave(t, rest, frame, control) ==
    /\ stack' = [stack EXCEPT ![t] = Append(rest, frame)]
    /\ SetMode(t, "return")
    /\ ret' = [ret EXCEPT ![t] = [action |-> frame.action, control |-> control]]

\* A statement is done: the next item.
Advance(t, rest, frame) ==
    /\ stack' = [stack EXCEPT ![t] = Append(rest, [frame EXCEPT !.at = @ + 1])]
    /\ SetMode(t, "run")
    /\ UNCHANGED ret

\* The error path: `?` leaves every frame.
Raise(t, error) ==
    /\ fault' = [fault EXCEPT ![t] = error]
    /\ SetMode(t, "unwind")
    /\ UNCHANGED <<stack, ret>>

Failing == failures < MaxFailures /\ failures' = failures + 1

\* Thread t works for the original message: it is not inside a copy branch.
OnOriginal(t) == t = 0 /\ \A i \in 1..Len(stack[0]) : stack[0][i].kind # "waited"

Init ==
    /\ prog \in Programs
    /\ stack = [t \in Threads |-> IF t = 0 THEN <<Entered("root", 1, NoLock, FALSE)>> ELSE <<>>]
    /\ mode = [t \in Threads |-> IF t = 0 THEN "run" ELSE "idle"]
    /\ ret = [t \in Threads |-> [action |-> "none", control |-> "continue"]]
    /\ fault = [t \in Threads |-> "none"]
    /\ pendingError = [t \in Threads |-> FALSE]
    /\ delivered = [t \in Threads |-> FALSE]
    /\ published = [t \in Threads |-> 0]
    /\ edits = [t \in Threads |-> 0]
    /\ owner = [l \in Locks |-> Nobody]
    /\ globalLock = [t \in Threads |-> NoLock]
    /\ started = 0
    /\ failures = 0
    /\ history = [deliveries |-> 0, late |-> 0, finals |-> 0, afterStop |-> FALSE,
                  hostEnded |-> FALSE, original |-> 0]

-----------------------------------------------------------------------------
\* Thread t is at an item with one of these operations.
At(t, ops) ==
    /\ mode[t] = "run"
    /\ Top(t).at <= Len(prog[Top(t).seq])
    /\ Item(Top(t)).op \in ops

Free(l) == l \in Locks => owner[l] = Nobody
Acquired(t, l) == [k \in Locks |-> IF k = l THEN t ELSE owner[k]]
Released(l) == [k \in Locks |-> IF k = l THEN Nobody ELSE owner[k]]

EndOfSequence(t) ==
    /\ mode[t] = "run"
    /\ Top(t).at > Len(prog[Top(t).seq])
    /\ Leave(t, Rest(t), Top(t), "continue")
    /\ UNCHANGED <<prog, fault, context, locks, started, failures, history>>

\* HOST: a mismatch ends the rc file and counts as a successful end; the
\* value may fail to expand.
Host(t) ==
    /\ At(t, {"host"})
    /\ \/ /\ Advance(t, Rest(t), Top(t))
          /\ UNCHANGED <<fault, pendingError, delivered, failures, history>>
       \/ /\ Failing
          /\ Raise(t, "evaluation")
          /\ UNCHANGED <<pendingError, delivered, history>>
       \/ /\ Leave(t, Rest(t), Top(t), "endrc")
          /\ delivered' = [delivered EXCEPT ![t] = TRUE]
          /\ pendingError' = [pendingError EXCEPT ![t] = FALSE]
          /\ history' = [history EXCEPT !.hostEnded =
                @ \/ (OnOriginal(t) /\ \A i \in DOMAIN stack[t] : stack[t][i].kind # "include")]
          /\ UNCHANGED <<fault, failures>>
    /\ UNCHANGED <<prog, published, edits, locks, started>>

\* INCLUDERC and SWITCHRC: nothing to enter, an error, or the other file.  A
\* switch to the empty path ends the rc file.
RuntimeRc(t) ==
    /\ At(t, {"include", "switch"})
    /\ LET item == Item(Top(t)) IN
       \/ /\ item.child # 0
          /\ stack' = Push(t, Entered(item.op, item.child, NoLock, FALSE))
          /\ UNCHANGED <<mode, ret, fault, failures>>
       \/ /\ item.op = "switch" /\ item.child = 0
          /\ Leave(t, Rest(t), Top(t), "endrc")
          /\ UNCHANGED <<fault, failures>>
       \/ /\ item.child # 0
          /\ Advance(t, Rest(t), Top(t))
          /\ UNCHANGED <<fault, failures>>
       \/ Failing /\ Raise(t, "evaluation")
    /\ UNCHANGED <<prog, context, locks, started, history>>

\* LOCKFILE: replace_global_lock gives up the old lock before it waits for the
\* new one; failing to get it is an error of the delivery.
LockFile(t) ==
    /\ At(t, {"lockfile"})
    /\ LET new == Item(Top(t)).lock IN
       \/ /\ globalLock[t] # NoLock
          /\ owner' = Released(globalLock[t])
          /\ globalLock' = [globalLock EXCEPT ![t] = NoLock]
          /\ UNCHANGED <<stack, mode, ret, fault, failures>>
       \/ /\ globalLock[t] = NoLock
          /\ Free(new)
          /\ owner' = Acquired(t, new)
          /\ globalLock' = [globalLock EXCEPT ![t] = new]
          /\ Advance(t, Rest(t), Top(t))
          /\ UNCHANGED <<fault, failures>>
       \/ /\ globalLock[t] = NoLock /\ new # NoLock
          /\ Failing \/ (~Free(new) /\ UNCHANGED failures)
          /\ Raise(t, "delivery")
          /\ UNCHANGED locks
    /\ UNCHANGED <<prog, context, started, history>>

-----------------------------------------------------------------------------
Recipes == {"deliver", "pipe", "edit", "block"}

Selected(t, ops) ==
    At(t, ops) /\ ExecutionGate(Item(Top(t)).ctl, Top(t).state)

\* The gate is closed or a condition does not match.
Skip(t) ==
    /\ At(t, Recipes)
    /\ ~ExecutionGate(Item(Top(t)).ctl, Top(t).state) \/ Item(Top(t)).cond
    /\ RecipeDone(t, Rest(t), Top(t), FALSE, "none", Handled(t, FALSE), "continue")
    /\ UNCHANGED <<prog, fault, context, locks, started, failures, history>>

\* Deliver, Pipe, and the actions that only change the message or a variable
\* (filter, capture, headers: "edit").
ActionSucceeds(t) ==
    /\ Selected(t, {"deliver", "pipe", "edit"})
    /\ LET item == Item(Top(t))
           final == item.op # "edit" /\ ~item.copy
       IN
       /\ Free(item.lock)
       /\ ActionDone(t, "succeeded", IF final THEN "stop" ELSE "continue")
       /\ pendingError' = [pendingError EXCEPT ![t] = FALSE]
       /\ delivered' = [delivered EXCEPT ![t] = @ \/ final]
       /\ published' = [published EXCEPT ![t] = @ + (IF item.op = "deliver" THEN 1 ELSE 0)]
       /\ edits' = [edits EXCEPT ![t] = @ + (IF item.op = "edit" THEN 1 ELSE 0)]
       /\ history' = [history EXCEPT
            !.deliveries = @ + (IF item.op = "deliver" THEN 1 ELSE 0),
            !.finals = @ + (IF final /\ OnOriginal(t) THEN 1 ELSE 0),
            !.afterStop = @ \/ delivered[t],
            !.original = @ + (IF item.op = "edit" /\ OnOriginal(t) THEN 1 ELSE 0)]
    /\ UNCHANGED <<prog, fault, locks, started, failures>>

\* Recoverable: the local lock or the destination failed before publication.
ActionFails(t) ==
    /\ Selected(t, {"deliver", "pipe", "edit"})
    /\ Failing \/ (~Free(Item(Top(t)).lock) /\ UNCHANGED failures)
    /\ ActionDone(t, "failed", "continue")
    /\ pendingError' = [pendingError EXCEPT ![t] = TRUE]
    /\ UNCHANGED <<prog, fault, delivered, published, edits, locks, started, history>>

\* A condition or an expansion fails, or a signal is seen before anything is
\* published: the error leaves the whole tree.
ActionAborts(t) ==
    /\ Selected(t, Recipes)
    /\ Failing
    /\ \E error \in {"evaluation", "delivery"} : Raise(t, error)
    /\ UNCHANGED <<prog, context, locks, started, history>>

\* The destination has the message, and then its sink reports a late error or a
\* signal is seen.  The error leaves the whole tree, and context.published does
\* not count the publication.
DeliveryFailsLate(t) ==
    /\ Selected(t, {"deliver"})
    /\ Free(Item(Top(t)).lock)
    /\ Failing
    /\ Raise(t, "delivery")
    /\ history' = [history EXCEPT !.deliveries = @ + 1, !.late = @ + 1,
                                  !.afterStop = @ \/ delivered[t]]
    /\ UNCHANGED <<prog, context, locks, started>>

\* The condition of a block matched.  A plain block runs in this sequence; a
\* copy block first sets up its branch.
SelectBlock(t) ==
    /\ Selected(t, {"block"})
    /\ ~Item(Top(t)).copy
    /\ SetMode(t, "block")
    /\ UNCHANGED <<prog, stack, ret, fault, context, locks, started, failures, history>>

\* execute_waited_copy_block: the branch starts at the block with its own
\* variables, message and lock slot; the caller's are put aside.
SelectWaitedCopy(t) ==
    /\ Selected(t, {"block"})
    /\ LET item == Item(Top(t)) IN
       /\ item.copy
       /\ item.wait \/ item.lock # NoLock
       /\ stack' = Push(t, [NewFrame("waited", Top(t).seq, Top(t).at, Top(t).state, NoLock,
                                     Handled(t, TRUE)) EXCEPT
                !.saved = [edits |-> edits[t], delivered |-> delivered[t], lock |-> globalLock[t]],
                !.ran = Top(t).ran])
    /\ SetMode(t, "copy")
    /\ pendingError' = [pendingError EXCEPT ![t] = FALSE]
    /\ globalLock' = [globalLock EXCEPT ![t] = NoLock]
    /\ UNCHANGED <<prog, ret, fault, delivered, published, edits, owner, started, failures, history>>

\* Mutant of BranchAvailable: one branch too many.
BranchAvailableOffByOne == started <= MaxBranches

\* BackgroundCopyBudget: the number of branches of one run is limited.
BranchAvailable == started < MaxBranches

\* execute_unwaited_copy_block: the branch is a new thread; the caller goes on
\* behind the block in a nested activation, and joins the branch at its end.
SelectUnwaitedCopy(t) ==
    /\ Selected(t, {"block"})
    /\ LET item == Item(Top(t))
           f == Top(t)
           u == started + 1
       IN
       /\ item.copy /\ ~item.wait /\ item.lock = NoLock
       /\ \/ /\ BranchAvailable
             /\ started' = u
             /\ stack' = [Push(t, [NewFrame("parent", f.seq, f.at + 1,
                                            Record(f.state, item.ctl, TRUE, "succeeded", FALSE),
                                            NoLock, Handled(t, TRUE))
                                   EXCEPT !.branch = u])
                           EXCEPT ![u] = <<[NewFrame("branch", f.seq, f.at, f.state, NoLock, FALSE)
                                            EXCEPT !.ran = f.ran]>>]
             /\ mode' = [mode EXCEPT ![u] = "copy"]
             /\ edits' = [edits EXCEPT ![u] = edits[t]]
             /\ UNCHANGED <<ret, fault>>
          \/ /\ ~BranchAvailable
             /\ Raise(t, "evaluation")
             /\ UNCHANGED <<started, edits>>
    /\ UNCHANGED <<prog, pendingError, delivered, published, locks, failures, history>>

\* Mutant of EnterBlock: the wait for the lock has no timeout.
EnterBlockWaits(t) ==
    /\ mode[t] \in {"block", "copy"}
    /\ LET item == Item(Top(t)) IN
       IF Free(item.lock)
       THEN /\ owner' = Acquired(t, item.lock)
            /\ stack' = Push(t, Entered("block", item.child, item.lock, FALSE))
            /\ SetMode(t, "run")
       ELSE UNCHANGED <<owner, stack, mode>>
    /\ UNCHANGED <<prog, ret, fault, context, globalLock, started, failures, history>>

\* CompiledAction::Block: drop an older error, take the lock, run the children.
\* A branch records its own block with else_handled = false.
EnterBlock(t) ==
    /\ mode[t] \in {"block", "copy"}
    /\ LET item == Item(Top(t))
           handled == mode[t] = "block" /\ Handled(t, TRUE)
       IN
       \/ /\ Free(item.lock)
          /\ owner' = Acquired(t, item.lock)
          /\ stack' = Push(t, Entered("block", item.child, item.lock, handled))
          /\ SetMode(t, "run")
          /\ pendingError' = [pendingError EXCEPT ![t] = FALSE]
          /\ UNCHANGED <<ret, failures>>
       \/ /\ item.lock # NoLock
          /\ Failing \/ (~Free(item.lock) /\ UNCHANGED failures)
          /\ RecipeDone(t, Rest(t), Top(t), TRUE, "failed", handled, "continue")
          /\ pendingError' = [pendingError EXCEPT ![t] = TRUE]
          /\ UNCHANGED owner
    /\ UNCHANGED <<prog, fault, delivered, published, edits, globalLock, started, history>>

-----------------------------------------------------------------------------
\* The top frame returns ret[t] to the activation below it.
Returning(t, kinds) == mode[t] = "return" /\ Top(t).kind \in kinds
Caller(t) == stack[t][Len(stack[t]) - 1]
CallerRest(t) == SubSeq(stack[t], 1, Len(stack[t]) - 2)

\* Mutant of ReturnBlock: the guard outlives the block.
ReturnBlockLocked(t) ==
    /\ Returning(t, {"block"})
    /\ RecipeDone(t, CallerRest(t), Caller(t), TRUE, ret[t].action, Top(t).handled,
            IF ret[t].control = "complete" THEN "continue" ELSE ret[t].control)
    /\ UNCHANGED <<prog, fault, context, locks, started, failures, history>>

\* Block: the guard is dropped and SequenceComplete ends here.
ReturnBlock(t) ==
    /\ Returning(t, {"block"})
    /\ owner' = Released(Top(t).lock)
    /\ RecipeDone(t, CallerRest(t), Caller(t), TRUE, ret[t].action, Top(t).handled,
            IF ret[t].control = "complete" THEN "continue" ELSE ret[t].control)
    /\ UNCHANGED <<prog, fault, context, globalLock, started, failures, history>>

\* Mutant of ReturnRc: Stop does not leave an included file.
ReturnRcContinues(t) ==
    /\ Returning(t, {"include", "switch"})
    /\ Advance(t, CallerRest(t), Caller(t))
    /\ UNCHANGED <<prog, fault, context, locks, started, failures, history>>

\* Only Stop leaves an included file; a switch never comes back.
ReturnRc(t) ==
    /\ Returning(t, {"include", "switch"})
    /\ CASE ret[t].control = "stop" -> Leave(t, CallerRest(t), Caller(t), "stop")
         [] ret[t].control # "stop" /\ Top(t).kind = "switch" ->
                Leave(t, CallerRest(t), Caller(t), "endrc")
         [] OTHER -> Advance(t, CallerRest(t), Caller(t))
    /\ UNCHANGED <<prog, fault, context, locks, started, failures, history>>

\* Mutants of LeaveCopy: the branch's message, or its delivery, is kept.
LeaveCopyEdited(t) ==
    /\ owner' = Released(globalLock[t])
    /\ globalLock' = [globalLock EXCEPT ![t] = Top(t).saved.lock]
    /\ delivered' = [delivered EXCEPT ![t] = Top(t).saved.delivered]
    /\ UNCHANGED edits

LeaveCopyDelivered(t) ==
    /\ owner' = Released(globalLock[t])
    /\ globalLock' = [globalLock EXCEPT ![t] = Top(t).saved.lock]
    /\ edits' = [edits EXCEPT ![t] = Top(t).saved.edits]
    /\ UNCHANGED delivered

\* leave_copy_branch and the values put aside: the branch's global lock is
\* released and the caller's slot comes back.
LeaveCopy(t) ==
    LET saved == Top(t).saved IN
    /\ owner' = Released(globalLock[t])
    /\ globalLock' = [globalLock EXCEPT ![t] = saved.lock]
    /\ edits' = [edits EXCEPT ![t] = saved.edits]
    /\ delivered' = [delivered EXCEPT ![t] = saved.delivered]

\* The end of a waited branch: its pending error is the result of the block.
ReturnWaited(t) ==
    /\ Returning(t, {"waited"})
    /\ LeaveCopy(t)
    /\ RecipeDone(t, CallerRest(t), Caller(t), TRUE,
            IF pendingError[t] THEN "failed" ELSE "succeeded", Top(t).handled, "continue")
    /\ UNCHANGED <<prog, fault, pendingError, published, started, failures, history>>

\* Joining an unwaited branch adds its publications.  A failed action of the
\* branch does not count; an evaluation or supervision error does.
JoinError(u) ==
    CASE fault[u] = "supervision" -> "delivery"
      [] fault[u] = "evaluation" -> "evaluation"
      [] OTHER -> "none"

\* Mutant of Join: the publications of the branch are lost.
JoinForgets(t, u) == mode[u] = "done" /\ UNCHANGED published

Join(t, u) ==
    /\ mode[u] = "done"
    /\ published' = [published EXCEPT ![t] = @ + published[u]]

ReturnParent(t) ==
    /\ Returning(t, {"parent"})
    /\ Join(t, Top(t).branch)
    /\ IF JoinError(Top(t).branch) # "none"
       THEN /\ fault' = [fault EXCEPT ![t] = JoinError(Top(t).branch)]
            /\ SetMode(t, "unwind")
            /\ stack' = [stack EXCEPT ![t] = Rest(t)]
            /\ UNCHANGED ret
       ELSE /\ RecipeDone(t, CallerRest(t), Caller(t), TRUE, ret[t].action, Top(t).handled, "complete")
            /\ UNCHANGED fault
    /\ UNCHANGED <<prog, pendingError, delivered, edits, locks, started, failures, history>>

\* The error path through one activation: guards are dropped, a branch that is
\* still running is joined and its error takes precedence.
Unwind(t) ==
    /\ mode[t] = "unwind"
    /\ Top(t).kind \notin {"root", "branch"}
    /\ stack' = [stack EXCEPT ![t] = Rest(t)]
    /\ CASE Top(t).kind = "waited" -> LeaveCopy(t) /\ UNCHANGED <<fault, published>>
         [] Top(t).kind = "parent" ->
                /\ Join(t, Top(t).branch)
                /\ fault' = IF JoinError(Top(t).branch) = "none" THEN fault
                            ELSE [fault EXCEPT ![t] = JoinError(Top(t).branch)]
                /\ UNCHANGED <<delivered, edits, locks>>
         [] OTHER ->
                /\ owner' = Released(Top(t).lock)
                /\ UNCHANGED <<fault, delivered, published, edits, globalLock>>
    /\ UNCHANGED <<prog, mode, ret, pendingError, started, failures, history>>

\* The end of a thread: finish_background, then the host and its global lock go.
ThreadEnds(t) ==
    /\ mode[t] \in {"return", "unwind"}
    /\ Top(t).kind \in {"root", "branch"}
    /\ SetMode(t, "done")
    /\ stack' = [stack EXCEPT ![t] = <<>>]
    /\ owner' = Released(globalLock[t])
    /\ globalLock' = [globalLock EXCEPT ![t] = NoLock]
    /\ \/ UNCHANGED <<fault, failures>>
       \/ Failing /\ fault' = [fault EXCEPT ![t] = "supervision"]
    /\ UNCHANGED <<prog, ret, context, started, history>>

Running(t) ==
    \/ EndOfSequence(t)
    \/ Host(t)
    \/ RuntimeRc(t)
    \/ LockFile(t)
    \/ Skip(t)
    \/ ActionSucceeds(t)
    \/ ActionFails(t)
    \/ ActionAborts(t)
    \/ DeliveryFailsLate(t)
    \/ SelectBlock(t)
    \/ SelectWaitedCopy(t)
    \/ SelectUnwaitedCopy(t)
    \/ EnterBlock(t)
    \/ ReturnBlock(t)
    \/ ReturnRc(t)
    \/ ReturnWaited(t)
    \/ ReturnParent(t)
    \/ Unwind(t)
    \/ ThreadEnds(t)

Terminated == mode[0] = "done" /\ UNCHANGED vars

Next == (\E t \in Threads : Running(t)) \/ Terminated

\* Threads are scheduled fairly by the operating system.
Spec == Init /\ [][Next]_vars /\ \A t \in Threads : WF_vars(Running(t))

-----------------------------------------------------------------------------
\* The status run derives from the result of execute_ordered: -1 while running,
\* 1 for any error, 0 and 79 as PublicationTracker::finish says.
Status ==
    IF mode[0] # "done" THEN -1
    ELSE IF fault[0] # "none" \/ pendingError[0] THEN 1
    ELSE IF delivered[0] THEN 0 ELSE 79

TypeOK ==
    /\ \A t \in Threads : \A i \in DOMAIN stack[t] :
        LET f == stack[t][i] IN
        /\ f.state \in SequenceState
        /\ f.at \in 1..(Len(prog[f.seq]) + 1)
        /\ f.lock \in Locks \cup {NoLock}
    /\ fault \in [Threads -> {"none", "evaluation", "delivery", "supervision"}]
    /\ pendingError \in [Threads -> BOOLEAN]
    /\ delivered \in [Threads -> BOOLEAN]
    /\ published \in [Threads -> Nat]
    /\ owner \in [Locks -> Threads \cup {Nobody}]
    /\ globalLock \in [Threads -> Locks \cup {NoLock}]
    /\ started \in 0..MaxBranches
    /\ history \in Observed

\* Status 0 is earned: a final recipe delivered the original message, or HOST
\* ended the rc file the run started with.  What a copy branch delivers, and a
\* HOST inside it, never counts (original_delivered in ordered.rs; README,
\* "Exit statuses").
StatusIsEarned ==
    Status = 0 => history.finals > 0 \/ history.hostEnded

\* A final delivery ends its path: the thread does nothing more for a message it
\* has delivered, so the original is delivered at most once
\* (SequenceControl::Stop; procmail-rs.rc(5), "Recipes").
StopEndsPath == ~history.afterStop /\ history.finals <= 1

\* The message the original path sees is changed by the actions of that path
\* alone, however copy branches edit theirs and in whatever order they run
\* (the saved and forked state of both kinds of copy block).
OriginalIsolated == OnOriginal(0) => edits[0] = history.original

\* However the run ends, the publications that context.published adds up are the
\* destinations that got the message, those of joined branches included, but for
\* deliveries that failed behind publication.  So what a run without an error
\* reports lacks one only where an unwaited branch failed, whose error the join
\* ignores (execute_unwaited_copy_block).
CountsAllDeliveries ==
    mode[0] = "done" =>
        /\ published[0] + history.late = history.deliveries
        /\ Status \in {0, 79} /\ history.late > 0 => \E u \in Threads \ {0} : fault[u] # "none"

\* `a` is `A` and more: in every activation a preceding recipe that matched
\* belongs to a chain whose base matched (SequenceState::record;
\* procmail-rs.rc(5): "Like `A`, and additionally require ...").
ChainCoherent ==
    \A t \in Threads : \A i \in DOMAIN stack[t] :
        LET s == stack[t][i].state IN
        ExecutionGate("a", s) => ExecutionGate("A", s)

\* In a chain of recipes joined by E at most one is executed (else_handled).
ElseExclusive ==
    \A t \in Threads : \A i \in DOMAIN stack[t] : stack[t][i].ran <= 1

\* A lock file is held exactly as long as a scope that took it is alive: the
\* frame of its block, the global slot, or the slot put aside for a branch.  So
\* no error path, Stop, HOST or SWITCHRC leaks one, and when the run is over
\* nothing is held and no branch is still running (guards, enter_copy_branch).
\* The scope of a block's lock is the frame of the block, as in the code, for a
\* copy block too: the rest of its branch runs without the lock, although
\* procmail-rs.rc(5) lets it cover "the complete branch execution".
HeldBy(t) ==
    {globalLock[t]} \cup
    UNION {{stack[t][i].lock} \cup
           (IF stack[t][i].kind = "waited" THEN {stack[t][i].saved.lock} ELSE {})
           : i \in DOMAIN stack[t]}

LocksScoped ==
    /\ \A l \in Locks, t \in Threads : owner[l] = t <=> l \in HeldBy(t)
    /\ mode[0] = "done" =>
        /\ \A l \in Locks : owner[l] = Nobody
        /\ \A t \in Threads : mode[t] \in {"idle", "done"}

\* Processing a message comes to an end: no join and no lock waits for ever,
\* because a lock wait times out (wait_for_retry) and branches are joined only
\* by the activation that started them.
Termination == <>(mode[0] = "done")
=============================================================================
