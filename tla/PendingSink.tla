----------------------------- MODULE PendingSink -----------------------------
(***************************************************************************)
(* What a pending delivery promises to the code that drives it: the        *)
(* PendingSink trait and SinkCommitError of src/src/delivery.rs, for a set *)
(* of independent sinks.                                                   *)
(*                                                                         *)
(* A message becomes visible in one indivisible step, and only after every *)
(* chunk of it was written.  commit returns Ok or an error that says       *)
(* whether the message is already visible; a sink that was aborted, or     *)
(* that failed before publication, never becomes visible.                  *)
(***************************************************************************)
EXTENDS Integers

CONSTANTS
    Sinks,      \* pending deliveries
    Chunks      \* write calls that one message takes

VARIABLES
    phase,      \* where each sink stands
    visible,    \* the sinks whose message a mail reader can have seen
    written     \* chunks each sink has received

sinkVars == <<phase, visible, written>>

Phase == {"absent", "pending", "visible",
          "published", "late", "failed", "aborted", "killed"}

SinkInit ==
    /\ phase = [s \in Sinks |-> "absent"]
    /\ visible = {}
    /\ written = [s \in Sinks |-> 0]

Goes(s, from, to) == phase[s] = from /\ phase' = [phase EXCEPT ![s] = to]

OpenSink(s) == Goes(s, "absent", "pending") /\ UNCHANGED <<visible, written>>

\* The sink could not be opened at all.
RefuseSink(s) == Goes(s, "absent", "failed") /\ UNCHANGED <<visible, written>>

WriteSink(s) ==
    /\ phase[s] = "pending"
    /\ written[s] < Chunks
    /\ written' = [written EXCEPT ![s] = @ + 1]
    /\ UNCHANGED <<phase, visible>>

\* The instant at which readers can see the message.
Publish(s) ==
    /\ Goes(s, "pending", "visible")
    /\ written[s] = Chunks
    /\ visible' = visible \cup {s}
    /\ UNCHANGED written

\* commit returns: Ok, Err(after_publication), Err(before_publication).
CommitOk(s) == Goes(s, "visible", "published") /\ UNCHANGED <<visible, written>>

CommitLate(s) == Goes(s, "visible", "late") /\ UNCHANGED <<visible, written>>

CommitFailed(s) == Goes(s, "pending", "failed") /\ UNCHANGED <<visible, written>>

AbortSink(s) == Goes(s, "pending", "aborted") /\ UNCHANGED <<visible, written>>

\* The process disappears with the sink in any state.
KillSink(s) ==
    /\ phase[s] \in {"absent", "pending", "visible"}
    /\ phase' = [phase EXCEPT ![s] = "killed"]
    /\ UNCHANGED <<visible, written>>

SinkStep(s) ==
    \/ OpenSink(s)
    \/ RefuseSink(s)
    \/ WriteSink(s)
    \/ Publish(s)
    \/ CommitOk(s)
    \/ CommitLate(s)
    \/ CommitFailed(s)
    \/ AbortSink(s)
    \/ KillSink(s)

SinkSpec == SinkInit /\ [][\E s \in Sinks : SinkStep(s)]_sinkVars
=============================================================================
