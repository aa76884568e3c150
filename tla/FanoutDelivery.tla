--------------------------- MODULE FanoutDelivery ---------------------------
(***************************************************************************)
(* One filter run that delivers a fan-out plan: deliver_decided and the    *)
(* streaming half of deliver_staged (src/src/delivery_runtime.rs), the     *)
(* PendingFanout and ValidatedFanout they drive (src/src/delivery.rs), the *)
(* private staging file (delivery/staging.rs), publication bookkeeping     *)
(* (delivery_runtime/publication.rs), and the choice of the exit status in *)
(* run (bin/procmail-rs.rs).                                               *)
(*                                                                         *)
(* Evaluation of the recipes is the choice of a plan: how many             *)
(* destinations the header decided (early), how many the whole message     *)
(* adds, and whether the original is among them.  Sinks are numbered in    *)
(* plan order and behave as module PendingSink promises.  A signal may     *)
(* arrive, and the process may be killed, before every step.               *)
(***************************************************************************)
EXTENDS PendingSink, FiniteSets

CONSTANTS
    MaxPlan,      \* destinations of the largest plan considered
    SinkLimit     \* MAX_PENDING_SINKS

ASSUME FanoutAssumption ==
    /\ MaxPlan \in Nat
    /\ SinkLimit \in Nat \ {0}
    /\ Chunks \in Nat \ {0}
    /\ Sinks = 1..MaxPlan

VARIABLES
    plan,         \* the decision: [route, dryrun, early, total, original]
    exitcode,     \* EXITCODE after the recipes: "unset", "invalid" or a status
    pc,
    next,         \* the sink the current loop is at
    streamed,     \* chunks of the message read from stdin
    signal,       \* RECEIVED_SIGNAL, 0 when none
    staging,      \* the staging file: "none", "named", "gone" or "left"
    lastfolder,   \* LASTFOLDER as the number of a destination, 0 initially
    blamed,       \* destination of the reported failure, 0 when none
    outcome,      \* the result of the delivery as an exit status
    exit          \* exit status of the process, -1 while it runs

run == <<plan, exitcode>>
vars == <<sinkVars, run, pc, next, streamed, signal, staging, lastfolder,
          blamed, outcome, exit>>

Success == 0
Input == 65
Internal == 70
PermanentDestination == 73
TemporaryDelivery == 75
Undelivered == 79
SigTerm == 15

\* DeliveryFailureClass of an I/O error.
FailureClass == {Internal, PermanentDestination, TemporaryDelivery}

Plan == {p \in [route : {"decided", "staged"}, dryrun : BOOLEAN,
                early : 0..MaxPlan, total : 0..MaxPlan, original : BOOLEAN] :
            /\ p.early <= p.total
            /\ p.route = "decided" => p.early = p.total
            /\ p.original => p.total > 0}

Init ==
    /\ SinkInit
    /\ plan \in Plan
    /\ exitcode \in {"unset", "invalid", "zero"}
    /\ pc = "start"
    /\ next = 1
    /\ streamed = 0
    /\ signal = 0
    /\ staging = "none"
    /\ lastfolder = 0
    /\ blamed = 0
    /\ outcome = Success
    /\ exit = -1

Goto(from, to) == pc = from /\ pc' = to

\* An error return: every value still alive is dropped, so the sinks that are
\* not published are aborted.
Fail(from, status) == Goto(from, "abort") /\ outcome' = status

Blame(s) == blamed' = s

\* check_signal: continue, or return Signaled.
CheckSignal(from, to) ==
    IF signal = 0 THEN Goto(from, to) /\ UNCHANGED outcome ELSE Fail(from, 128 + signal)

\* The sinks that exist while the message streams from stdin.
Width == IF plan.dryrun THEN 0 ELSE plan.early

-----------------------------------------------------------------------------
Start ==
    /\ UNCHANGED <<sinkVars, run, next, streamed, signal, staging, lastfolder, blamed, exit>>
    /\ CheckSignal("start", "open")

\* open_sinks, one destination at a time, then PendingFanout::new.
OpenRange(from, last, to) ==
    /\ UNCHANGED <<run, streamed, signal, staging, lastfolder, exit>>
    /\ \/ /\ next <= last
          /\ Goto(from, from)
          /\ OpenSink(next)
          /\ next' = next + 1
          /\ UNCHANGED <<blamed, outcome>>
       \/ /\ next <= last
          /\ \E class \in FailureClass : Fail(from, class)
          /\ RefuseSink(next)
          /\ Blame(next)
          /\ UNCHANGED next
       \/ /\ next > last
          /\ IF Cardinality({s \in Sinks : phase[s] = "pending" /\ (from = "openlate" => s > plan.early)})
                  > SinkLimit
             THEN Fail(from, Internal)
             ELSE Goto(from, to) /\ UNCHANGED outcome
          /\ next' = IF from = "openlate" THEN plan.early + 1 ELSE 1
          /\ UNCHANGED <<sinkVars, blamed>>

OpenSinks == OpenRange("open", Width, IF plan.route = "staged" THEN "stage" ELSE "read")

\* StagingFile::create.
CreateStaging ==
    /\ UNCHANGED <<sinkVars, run, next, streamed, signal, lastfolder, blamed, exit>>
    /\ \/ Goto("stage", "read") /\ staging' = "named" /\ UNCHANGED outcome
       \/ Fail("stage", TemporaryDelivery) /\ UNCHANGED staging

\* fill_buf on stdin inside stream_to: the InterruptibleReader turns a pending
\* signal into an error, and the message may be rejected at any point.
ReadInput ==
    /\ UNCHANGED <<sinkVars, run, streamed, signal, staging, lastfolder, blamed, exit>>
    /\ next' = 1
    /\ \/ /\ signal = 0
          /\ Goto("read", IF streamed < Chunks THEN "tee" ELSE "validated")
          /\ UNCHANGED outcome
       \/ Fail("read", Input)

\* PendingFanout::write: the chunk goes to the sinks in order and stops at the
\* first failing one, whose index is remembered.
WriteFanout ==
    /\ next <= Width
    /\ UNCHANGED <<run, streamed, signal, staging, lastfolder, exit>>
    /\ \/ /\ Goto("tee", "tee")
          /\ WriteSink(next)
          /\ next' = next + 1
          /\ UNCHANGED <<blamed, outcome>>
       \/ /\ \E class \in FailureClass : Fail("tee", class)
          /\ Blame(next)
          /\ UNCHANGED <<sinkVars, next>>

\* TeeWriter: the staging file gets the chunk after all the sinks.
WriteStaging ==
    /\ next > Width
    /\ UNCHANGED <<sinkVars, run, next, signal, staging, lastfolder, blamed, exit>>
    /\ \/ Goto("tee", "read") /\ streamed' = streamed + 1 /\ UNCHANGED outcome
       \/ /\ plan.route = "staged"
          /\ \E class \in FailureClass : Fail("tee", class)
          /\ UNCHANGED streamed

\* The input ended well: ValidatedFanout.
Validated ==
    /\ UNCHANGED <<sinkVars, run, next, streamed, signal, staging, lastfolder, blamed, exit>>
    /\ IF plan.route = "decided" /\ plan.dryrun
       THEN Goto("validated", "simulate") /\ UNCHANGED outcome
       ELSE CheckSignal("validated", IF plan.route = "decided" THEN "check" ELSE "map")

\* StagingFile::map unlinks the name and then maps the file.
MapStaging ==
    /\ UNCHANGED <<sinkVars, run, next, streamed, signal, lastfolder, blamed, exit>>
    /\ \/ Goto("map", "resume") /\ staging' = "gone" /\ UNCHANGED outcome
       \/ Fail("map", Internal) /\ staging' \in {"named", "gone"}

\* stage_matching_message and resume_with_trace may fail; then check_signal.
Resume ==
    /\ UNCHANGED <<sinkVars, run, streamed, signal, staging, lastfolder, blamed, exit>>
    /\ next' = plan.early + 1
    /\ \/ CheckSignal("resume", IF plan.dryrun THEN "simulate" ELSE "openlate")
       \/ \E class \in FailureClass : Fail("resume", class)

OpenLate == OpenRange("openlate", plan.total, "append")

\* Mutant of AppendLate: the failing index is not moved past the early sinks.
AppendLateBlamesEarly ==
    /\ UNCHANGED <<run, streamed, signal, staging, lastfolder, exit, sinkVars, next>>
    /\ next <= plan.total
    /\ \E class \in FailureClass : Fail("append", class)
    /\ Blame(next - plan.early)

\* append_bytes: the joint limit, then the whole staged message to the late
\* sinks; a failure aborts the late and the early sinks.
AppendLate ==
    /\ UNCHANGED <<run, streamed, signal, staging, lastfolder, exit>>
    /\ \/ /\ plan.total > SinkLimit
          /\ Fail("append", PermanentDestination)
          /\ UNCHANGED <<sinkVars, next, blamed>>
       \/ /\ plan.total <= SinkLimit
          /\ next <= plan.total
          /\ Goto("append", "append")
          /\ phase[next] = "pending"
          /\ written' = [written EXCEPT ![next] = Chunks]
          /\ next' = next + 1
          /\ UNCHANGED <<phase, visible, blamed, outcome>>
       \/ /\ plan.total <= SinkLimit
          /\ next <= plan.total
          /\ \E class \in FailureClass : Fail("append", class)
          /\ Blame(next)
          /\ UNCHANGED <<sinkVars, next>>
       \/ /\ plan.total <= SinkLimit
          /\ next > plan.total
          /\ Goto("append", "check")
          /\ next' = 1
          /\ UNCHANGED <<sinkVars, blamed, outcome>>

\* Mutant of CheckBeforeCommit: the last check_signal is missing.
CommitUnchecked ==
    /\ UNCHANGED <<sinkVars, run, next, streamed, signal, staging, lastfolder, blamed, exit, outcome>>
    /\ Goto("check", "commit")

\* The last check_signal, in commit_delivery.
CheckBeforeCommit ==
    /\ UNCHANGED <<sinkVars, run, next, streamed, signal, staging, lastfolder, blamed, exit>>
    /\ CheckSignal("check", "commit")

\* apply_publication: LASTFOLDER is the last destination that became visible.
RecordLastFolder(count) == lastfolder' = IF count > 0 THEN count ELSE lastfolder

\* Mutant of CommitNext: the sinks are committed from the last one.
CommitFromLast ==
    /\ UNCHANGED <<run, next, streamed, signal, staging, exit, lastfolder, blamed, outcome>>
    /\ next <= plan.total
    /\ Goto("commit", "visible")
    /\ Publish(plan.total + 1 - next)

\* ValidatedFanout::commit, sink by sink; the first failure ends it.  The report
\* of a fully published plan goes to the PublicationTracker.
CommitNext ==
    /\ UNCHANGED <<run, next, streamed, signal, staging, exit>>
    /\ \/ /\ next <= plan.total
          /\ Goto("commit", "visible")
          /\ Publish(next)
          /\ UNCHANGED <<lastfolder, blamed, outcome>>
       \/ /\ next <= plan.total
          /\ \E class \in FailureClass : Fail("commit", class)
          /\ CommitFailed(next)
          /\ Blame(next)
          /\ RecordLastFolder(next - 1)
       \/ /\ next > plan.total
          /\ Goto("commit", "finish")
          /\ outcome' = IF plan.original THEN Success ELSE Undelivered
          /\ RecordLastFolder(plan.total)
          /\ UNCHANGED <<sinkVars, blamed>>

\* Mutant of CommitReturns: an error after publication is taken for success.
LateIsOk ==
    /\ UNCHANGED <<run, streamed, signal, staging, exit, lastfolder, blamed, outcome>>
    /\ Goto("visible", "commit")
    /\ CommitOk(next) \/ CommitLate(next)
    /\ next' = next + 1

\* The sink is visible; its commit succeeds or reports a late failure.
CommitReturns ==
    /\ UNCHANGED <<run, streamed, signal, staging, exit>>
    /\ \/ /\ Goto("visible", "commit")
          /\ CommitOk(next)
          /\ next' = next + 1
          /\ UNCHANGED <<lastfolder, blamed, outcome>>
       \/ /\ \E class \in FailureClass : Fail("visible", class)
          /\ CommitLate(next)
          /\ Blame(next)
          /\ RecordLastFolder(next)
          /\ UNCHANGED next

\* simulate_plan of a dry run.
Simulate ==
    /\ UNCHANGED <<sinkVars, run, next, streamed, signal, staging, blamed, exit>>
    /\ \/ /\ Goto("simulate", "finish")
          /\ RecordLastFolder(plan.total)
          /\ outcome' = IF plan.original THEN Success ELSE Undelivered
       \/ Fail("simulate", PermanentDestination) /\ UNCHANGED lastfolder

\* Mutant of AbortSinks: only the first sink is aborted.
AbortFirst ==
    /\ UNCHANGED <<run, next, streamed, signal, lastfolder, blamed, outcome, exit, staging>>
    /\ Goto("abort", "finish")
    /\ IF phase[1] = "pending" THEN AbortSink(1) ELSE UNCHANGED sinkVars

\* abort_all and Drop, in an order nobody observes; then the staging file.
AbortSinks ==
    /\ UNCHANGED <<run, next, streamed, signal, lastfolder, blamed, outcome, exit>>
    /\ \/ /\ Goto("abort", "abort")
          /\ \E s \in Sinks : AbortSink(s)
          /\ UNCHANGED staging
       \/ /\ \A s \in Sinks : phase[s] # "pending"
          /\ Goto("abort", "finish")
          /\ staging' \in IF staging = "named" THEN {"gone", "left"} ELSE {staging}
          /\ UNCHANGED sinkVars

\* Mutant of Finish: EXITCODE goes before the signal.
ExitCodeFirst ==
    /\ Goto("finish", "exit")
    /\ exit' = CASE exitcode = "invalid" -> PermanentDestination
                 [] exitcode = "zero" -> Success
                 [] OTHER -> IF signal # 0 THEN 128 + signal ELSE outcome
    /\ UNCHANGED <<sinkVars, run, next, streamed, signal, staging, lastfolder, blamed, outcome>>

\* The end of run: EXITCODE replaces the result, a signal replaces both.
Finish ==
    /\ Goto("finish", "exit")
    /\ exit' = IF signal # 0 THEN 128 + signal
               ELSE CASE exitcode = "invalid" -> PermanentDestination
                      [] exitcode = "zero" -> Success
                      [] OTHER -> outcome
    /\ UNCHANGED <<sinkVars, run, next, streamed, signal, staging, lastfolder, blamed, outcome>>

\* record_signal keeps the first signal.
Signal ==
    /\ pc \notin {"exit", "crashed"}
    /\ signal = 0
    /\ signal' = SigTerm
    /\ UNCHANGED <<sinkVars, run, pc, next, streamed, staging, lastfolder, blamed, outcome, exit>>

\* SIGKILL or a crash of the machine: nothing is cleaned up.
Crash ==
    /\ pc \notin {"exit", "crashed"}
    /\ pc' = "crashed"
    /\ phase' = [s \in Sinks |-> IF phase[s] \in {"pending", "visible"} THEN "killed" ELSE phase[s]]
    /\ UNCHANGED <<visible, written, run, next, streamed, signal, staging,
                   lastfolder, blamed, outcome, exit>>

Terminated == pc \in {"exit", "crashed"} /\ UNCHANGED vars

Next ==
    \/ Start
    \/ OpenSinks
    \/ CreateStaging
    \/ ReadInput
    \/ WriteFanout
    \/ WriteStaging
    \/ Validated
    \/ MapStaging
    \/ Resume
    \/ OpenLate
    \/ AppendLate
    \/ CheckBeforeCommit
    \/ CommitNext
    \/ CommitReturns
    \/ Simulate
    \/ AbortSinks
    \/ Finish
    \/ Signal
    \/ Crash
    \/ Terminated

Spec == Init /\ [][Next]_vars

-----------------------------------------------------------------------------
TypeOK ==
    /\ phase \in [Sinks -> Phase]
    /\ visible \subseteq Sinks
    /\ written \in [Sinks -> 0..Chunks]
    /\ plan \in Plan
    /\ next \in 1..(MaxPlan + 1)
    /\ streamed \in 0..Chunks
    /\ signal \in {0, SigTerm}
    /\ staging \in {"none", "named", "gone", "left"}
    /\ lastfolder \in 0..MaxPlan
    /\ blamed \in 0..MaxPlan
    /\ outcome \in {Success, Input, Undelivered, 128 + SigTerm} \cup FailureClass
    /\ exit \in {-1, Success, Input, Undelivered, 128 + SigTerm} \cup FailureClass

\* Nothing becomes visible before every destination of the plan holds the whole
\* message and the input was validated to its end; from then on destinations
\* become visible in plan order.  It holds at every crash, too
\* (stream, stage, append_bytes and commit; Delivery.md, "Partial publication").
PublicationIsPrefix ==
    /\ visible = 1..Cardinality(visible)
    /\ visible # {} =>
        /\ ~plan.dryrun
        /\ streamed = Chunks
        /\ \A s \in 1..plan.total : written[s] = Chunks

\* The status tells the mail system the truth: 0 only when the original and every
\* copy were published without a late error, 79 only when all copies were but no
\* original was planned, 65 only when nothing was published.  EXITCODE and a
\* signal replace the status on purpose (run, PublicationTracker::finish).
StatusMatchesDelivery ==
    exit # -1 /\ exitcode = "unset" /\ signal = 0 =>
        /\ exit \in {Success, Undelivered} =>
            /\ exit = Success <=> plan.original
            /\ plan.dryrun \/ \A s \in 1..plan.total : phase[s] = "published"
        /\ exit = Input => visible = {}
        /\ exit \in FailureClass /\ visible = 1..plan.total /\ plan.total > 0 =>
                phase[plan.total] = "late"

\* A signal that arrives before the process exits decides the status, also when
\* EXITCODE was set or delivery had already failed or finished (run).
SignalDecidesStatus ==
    [][ exit' # exit /\ signal # 0 => exit' = 128 + signal ]_vars

\* A signal recorded before the first sink is committed stops the delivery:
\* whatever was in progress, nothing ever becomes visible (the check_signal
\* calls and the InterruptibleReader; the last one is in commit_delivery).
SignalStopsPublication ==
    [](signal # 0 /\ visible = {} /\ pc # "commit" => [](visible = {}))

\* After an orderly exit nothing is left half done: no sink is pending, the
\* visible ones are exactly those whose commit said so, and the staging file has
\* no name unless unlinking it failed (Drop of the fan-outs and StagingFile).
NothingLeftPending ==
    exit # -1 =>
        /\ \A s \in Sinks : phase[s] \notin {"pending", "visible"}
        /\ visible = {s \in Sinks : phase[s] \in {"published", "late"}}
        /\ staging # "named"

\* The destination a failure is reported for is the one that failed, although
\* the index counts from the first late sink in append_bytes and from the first
\* sink elsewhere; and LASTFOLDER names the last visible destination.
ReportNamesTheSink ==
    /\ blamed # 0 =>
        \/ phase[blamed] \in {"failed", "late"}
        \/ written[blamed] < Chunks
    /\ exit # -1 /\ ~plan.dryrun => lastfolder = Cardinality(visible)
=============================================================================
