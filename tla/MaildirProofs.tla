--------------------------- MODULE MaildirProofs ---------------------------
(***************************************************************************)
(* The properties of module Maildir, for any number of deliveries, names,  *)
(* attempts and write calls, on both backends; and the proof that a        *)
(* Maildir delivery is a PendingSink.                                      *)
(***************************************************************************)
EXTENDS Maildir, TLAPS

\* A sink that is not linked yet, and one that is.
Before == {"create", "write", "commit", "link"}
Behind == {"verify", "cleanup", "synctmp", "synctarget"}

\* Complete: the message is whole, and on disk when that was asked for.
Complete(s) == written[s] = Chunks /\ (durability[s] # "none" => flushed[s])

\* Where a sink is says whether its message was seen and what was reported.
Stage(s) ==
    /\ pc[s] \in Before => s \notin seen /\ result[s] = "pending"
    /\ pc[s] \in Behind => s \in seen /\ result[s] = "pending"
    /\ pc[s] = "drop" =>
        /\ result[s] \in {"pending", "failed", "aborted", "late"}
        /\ s \in seen <=> result[s] = "late"
    /\ s \in seen \/ pc[s] \in {"commit", "link"} => Complete(s)

\* The name in tmp belongs to one sink, which knows it.
Named(s) ==
    /\ \A n \in Names : tmp[n] = s => name[s] = n /\ pc[s] # "create" /\ platform = "portable"
    /\ platform = "portable" /\ pc[s] \in {"write", "commit", "link", "verify", "cleanup"} =>
        name[s] \in Names
    /\ pc[s] = "link" => platform = "portable" /\ tmp[name[s]] = s
    /\ pc[s] \in {"synctmp", "synctarget"} => \A n \in Names : tmp[n] # s
    /\ pc[s] = "done" /\ result[s] # "killed" /\ s \notin stray => \A n \in Names : tmp[n] # s

Synced(s) ==
    /\ pc[s] = "synctarget" => "tmp" \in dirsynced[s]
    /\ result[s] = "published" =>
        /\ pc[s] = "done" /\ s \in seen
        /\ durability[s] = "full" => dirsynced[s] = {"tmp", "target"}
                                     /\ \A n \in Names : tmp[n] # s

TargetSeen == \A n \in Names : target[n] # Absent => target[n] \in seen

IInv ==
    /\ TypeOK
    /\ TargetSeen
    /\ \A s \in Sinks : Stage(s) /\ Named(s) /\ Synced(s)

\* The invariant holds before the first delivery.
LEMMA InitIInv == Init => IInv
  BY MaildirAssumption
  DEF Init, IInv, TargetSeen, TypeOK, Stage, Named, Synced, Before, Behind, PC, Result

\* RemoveTmp takes away exactly the name of s.
LEMMA RemoveTmpEffect ==
    ASSUME IInv, NEW s \in Sinks, RemoveTmp(s)
    PROVE  /\ tmp' \in [Names -> Sinks \cup {Absent}]
           /\ \A n \in Names : tmp'[n] # s
           /\ \A n \in Names : \A r \in Sinks \ {s} : tmp'[n] = r <=> tmp[n] = r
  BY MaildirAssumption DEF IInv, TypeOK, Named, RemoveTmp

\* A step of s leaves everything of the other sinks alone.
Frame(s) ==
    /\ platform' = platform /\ durability' = durability
    /\ \A r \in Sinks \ {s} :
        /\ pc'[r] = pc[r] /\ written'[r] = written[r] /\ flushed'[r] = flushed[r]
        /\ dirsynced'[r] = dirsynced[r] /\ name'[r] = name[r] /\ result'[r] = result[r]
        /\ r \in seen' <=> r \in seen
        /\ r \in stray' <=> r \in stray
        /\ \A n \in Names : tmp'[n] = r <=> tmp[n] = r

\* What a step of s has to establish.
Kept(s) == TypeOK' /\ Frame(s) /\ TargetSeen' /\ Stage(s)' /\ Named(s)' /\ Synced(s)'

\* A step of one delivery that keeps its own part keeps the invariant.
LEMMA KeptSuffices ==
    ASSUME IInv, NEW s \in Sinks, Kept(s)
    PROVE  IInv'
<1>1. ASSUME NEW r \in Sinks \ {s} PROVE Stage(r)'
  BY <1>1 DEF IInv, Kept, Frame, Stage, Complete
<1>2. ASSUME NEW r \in Sinks \ {s} PROVE Named(r)'
  BY <1>2 DEF IInv, Kept, Frame, Named
<1>3. ASSUME NEW r \in Sinks \ {s} PROVE Synced(r)'
  BY <1>3 DEF IInv, Kept, Frame, Synced
<1> QED
  BY <1>1, <1>2, <1>3 DEF IInv, Kept, TargetSeen

\* Every step of a delivery keeps its part of the invariant.
LEMMA DeliverKeeps ==
    ASSUME IInv, NEW s \in Sinks, Deliver(s)
    PROVE  Kept(s)
<1> USE MaildirAssumption
<1>1. CASE Create(s)
  <2> USE <1>1 DEF Create, Own, Retry, Step, Report, files, inode, naming
  <2>1. TypeOK'
    BY DEF IInv, TypeOK, PC, Result
  <2>2. Frame(s)
    BY DEF IInv, TypeOK, Frame
  <2>3. TargetSeen'
    BY DEF IInv, TypeOK, TargetSeen
  <2>4. Stage(s)'
    BY DEF IInv, TypeOK, Stage, Complete, Before, Behind
  <2>5. Named(s)'
    BY DEF IInv, TypeOK, Named
  <2>6. Synced(s)'
    BY DEF IInv, TypeOK, Stage, Named, Synced, Before, Behind
  <2> QED
    BY <2>1, <2>2, <2>3, <2>4, <2>5, <2>6 DEF Kept
<1>2. CASE Write(s)
  <2> USE <1>2 DEF Write, Step, Report, files, inode, naming
  <2>0. written' \in [Sinks -> 0..Chunks]
    <3>1. CASE UNCHANGED written
      BY <3>1 DEF IInv, TypeOK
    <3>2. CASE written[s] < Chunks /\ written' = [written EXCEPT ![s] = @ + 1]
      <4>1. written[s] \in 0..Chunks /\ Chunks \in Nat
        BY DEF IInv, TypeOK
      <4>2. written[s] + 1 \in 0..Chunks
        BY <3>2, <4>1
      <4> QED
        BY <3>2, <4>2 DEF IInv, TypeOK
    <3> QED
      BY <3>1, <3>2
  <2>1. TypeOK'
    BY <2>0 DEF IInv, TypeOK, PC, Result
  <2>2. Frame(s)
    BY <2>0 DEF IInv, TypeOK, Frame
  <2>3. TargetSeen'
    BY <2>0 DEF IInv, TypeOK, TargetSeen
  <2>4. Stage(s)'
    BY <2>0 DEF IInv, TypeOK, Stage, Complete, Before, Behind
  <2>5. Named(s)'
    BY <2>0 DEF IInv, TypeOK, Named
  <2>6. Synced(s)'
    BY <2>0 DEF IInv, TypeOK, Stage, Named, Synced, Before, Behind
  <2> QED
    BY <2>1, <2>2, <2>3, <2>4, <2>5, <2>6 DEF Kept
<1>3. CASE SyncFile(s)
  <2> USE <1>3 DEF SyncFile, Step, Report, files, inode, naming
  <2>0. /\ flushed' \in [Sinks -> BOOLEAN]
        /\ pc'[s] = "commit" => flushed'[s] = (durability[s] # "none")
    BY DEF IInv, TypeOK
  <2>1. TypeOK'
    BY <2>0 DEF IInv, TypeOK, PC, Result
  <2>2. Frame(s)
    BY <2>0 DEF IInv, TypeOK, Frame
  <2>3. TargetSeen'
    BY <2>0 DEF IInv, TypeOK, TargetSeen
  <2>4. Stage(s)'
    BY <2>0 DEF IInv, TypeOK, Stage, Complete, Before, Behind
  <2>5. Named(s)'
    BY <2>0 DEF IInv, TypeOK, Named
  <2>6. Synced(s)'
    BY <2>0 DEF IInv, TypeOK, Stage, Named, Synced, Before, Behind
  <2> QED
    BY <2>1, <2>2, <2>3, <2>4, <2>5, <2>6 DEF Kept
<1>4. CASE LinkUnnamed(s)
  <2> USE <1>4 DEF LinkUnnamed, Own, Retry, Step, Report, files, inode, naming
  <2>1. TypeOK'
    BY DEF IInv, TypeOK, PC, Result
  <2>2. Frame(s)
    BY DEF IInv, TypeOK, Frame
  <2>3. TargetSeen'
    BY DEF IInv, TypeOK, TargetSeen
  <2>4. Stage(s)'
    BY DEF IInv, TypeOK, Stage, Complete, Before, Behind
  <2>5. Named(s)'
    BY DEF IInv, TypeOK, Named
  <2>6. Synced(s)'
    BY DEF IInv, TypeOK, Stage, Named, Synced, Before, Behind
  <2> QED
    BY <2>1, <2>2, <2>3, <2>4, <2>5, <2>6 DEF Kept
<1>5. CASE VerifyTmp(s)
  <2> USE <1>5 DEF VerifyTmp, Step, Report, files, inode, naming
  <2>1. TypeOK'
    BY DEF IInv, TypeOK, PC, Result
  <2>2. Frame(s)
    BY DEF IInv, TypeOK, Frame
  <2>3. TargetSeen'
    BY DEF IInv, TypeOK, TargetSeen
  <2>4. Stage(s)'
    BY DEF IInv, TypeOK, Stage, Complete, Before, Behind
  <2>5. Named(s)'
    BY DEF IInv, TypeOK, Named
  <2>6. Synced(s)'
    BY DEF IInv, TypeOK, Stage, Named, Synced, Before, Behind
  <2> QED
    BY <2>1, <2>2, <2>3, <2>4, <2>5, <2>6 DEF Kept
<1>6. CASE LinkNamed(s)
  <2> USE <1>6 DEF LinkNamed, Step, Report, files, inode, naming
  <2>0. pc[s] = "link" => name[s] \in Names /\ tmp[name[s]] = s
    BY DEF IInv, Named, TypeOK
  <2>1. TypeOK'
    BY <2>0 DEF IInv, TypeOK, PC, Result
  <2>2. Frame(s)
    BY <2>0 DEF IInv, TypeOK, Frame
  <2>3. TargetSeen'
    BY <2>0 DEF IInv, TypeOK, TargetSeen
  <2>4. Stage(s)'
    BY <2>0 DEF IInv, TypeOK, Stage, Complete, Before, Behind
  <2>5. Named(s)'
    BY <2>0 DEF IInv, TypeOK, Named
  <2>6. Synced(s)'
    BY <2>0 DEF IInv, TypeOK, Stage, Named, Synced, Before, Behind
  <2> QED
    BY <2>1, <2>2, <2>3, <2>4, <2>5, <2>6 DEF Kept
<1>7. CASE VerifyTarget(s)
  <2> USE <1>7 DEF VerifyTarget, Step, Report, files, inode, naming
  <2>1. TypeOK'
    BY DEF IInv, TypeOK, PC, Result
  <2>2. Frame(s)
    BY DEF IInv, TypeOK, Frame
  <2>3. TargetSeen'
    BY DEF IInv, TypeOK, TargetSeen
  <2>4. Stage(s)'
    BY DEF IInv, TypeOK, Stage, Complete, Before, Behind
  <2>5. Named(s)'
    BY DEF IInv, TypeOK, Named
  <2>6. Synced(s)'
    BY DEF IInv, TypeOK, Stage, Named, Synced, Before, Behind
  <2> QED
    BY <2>1, <2>2, <2>3, <2>4, <2>5, <2>6 DEF Kept
<1>8. CASE Cleanup(s)
  <2> USE <1>8 DEF Cleanup, Step, Report, files, inode, naming
  <2>0. /\ tmp' \in [Names -> Sinks \cup {Absent}]
        /\ \A n \in Names : tmp'[n] = s => tmp[n] = s /\ (~RemoveTmp(s))
        /\ \A n \in Names : \A r \in Sinks \ {s} : tmp'[n] = r <=> tmp[n] = r
    BY RemoveTmpEffect DEF IInv, TypeOK
  <2>1. TypeOK'
    BY <2>0 DEF IInv, TypeOK, PC, Result
  <2>2. Frame(s)
    BY <2>0 DEF IInv, TypeOK, Frame
  <2>3. TargetSeen'
    BY <2>0 DEF IInv, TypeOK, TargetSeen
  <2>4. Stage(s)'
    BY <2>0 DEF IInv, TypeOK, Stage, Complete, Before, Behind
  <2>5. Named(s)'
    BY <2>0 DEF IInv, TypeOK, Named
  <2>6. Synced(s)'
    BY <2>0 DEF IInv, TypeOK, Stage, Named, Synced, Before, Behind
  <2> QED
    BY <2>1, <2>2, <2>3, <2>4, <2>5, <2>6 DEF Kept
<1>9. CASE SyncTmp(s)
  <2> USE <1>9 DEF SyncTmp, Step, Report, files, inode, naming
  <2>1. TypeOK'
    BY DEF IInv, TypeOK, PC, Result
  <2>2. Frame(s)
    BY DEF IInv, TypeOK, Frame
  <2>3. TargetSeen'
    BY DEF IInv, TypeOK, TargetSeen
  <2>4. Stage(s)'
    BY DEF IInv, TypeOK, Stage, Complete, Before, Behind
  <2>5. Named(s)'
    BY DEF IInv, TypeOK, Named
  <2>6. Synced(s)'
    BY DEF IInv, TypeOK, Stage, Named, Synced, Before, Behind
  <2> QED
    BY <2>1, <2>2, <2>3, <2>4, <2>5, <2>6 DEF Kept
<1>10. CASE SyncTarget(s)
  <2> USE <1>10 DEF SyncTarget, Step, Report, files, inode, naming
  <2>1. TypeOK'
    BY DEF IInv, TypeOK, PC, Result
  <2>2. Frame(s)
    BY DEF IInv, TypeOK, Frame
  <2>3. TargetSeen'
    BY DEF IInv, TypeOK, TargetSeen
  <2>4. Stage(s)'
    BY DEF IInv, TypeOK, Stage, Complete, Before, Behind
  <2>5. Named(s)'
    BY DEF IInv, TypeOK, Named
  <2>6. Synced(s)'
    BY DEF IInv, TypeOK, Stage, Named, Synced, Before, Behind
  <2> QED
    BY <2>1, <2>2, <2>3, <2>4, <2>5, <2>6 DEF Kept
<1>11. CASE Abort(s)
  <2> USE <1>11 DEF Abort, Step, Report, files, inode, naming
  <2>1. TypeOK'
    BY DEF IInv, TypeOK, PC, Result
  <2>2. Frame(s)
    BY DEF IInv, TypeOK, Frame
  <2>3. TargetSeen'
    BY DEF IInv, TypeOK, TargetSeen
  <2>4. Stage(s)'
    BY DEF IInv, TypeOK, Stage, Complete, Before, Behind
  <2>5. Named(s)'
    BY DEF IInv, TypeOK, Named
  <2>6. Synced(s)'
    BY DEF IInv, TypeOK, Stage, Named, Synced, Before, Behind
  <2> QED
    BY <2>1, <2>2, <2>3, <2>4, <2>5, <2>6 DEF Kept
<1>12. CASE Drop(s)
  <2> USE <1>12 DEF Drop, Step, Report, files, inode, naming
  <2>0. /\ tmp' \in [Names -> Sinks \cup {Absent}]
        /\ \A n \in Names : tmp'[n] = s => tmp[n] = s /\ (~RemoveTmp(s))
        /\ \A n \in Names : \A r \in Sinks \ {s} : tmp'[n] = r <=> tmp[n] = r
    BY RemoveTmpEffect DEF IInv, TypeOK
  <2>1. TypeOK'
    BY <2>0 DEF IInv, TypeOK, PC, Result
  <2>2. Frame(s)
    BY <2>0 DEF IInv, TypeOK, Frame
  <2>3. TargetSeen'
    BY <2>0 DEF IInv, TypeOK, TargetSeen
  <2>4. Stage(s)'
    BY <2>0 DEF IInv, TypeOK, Stage, Complete, Before, Behind
  <2>5. Named(s)'
    BY <2>0 DEF IInv, TypeOK, Named
  <2>6. Synced(s)'
    BY <2>0 DEF IInv, TypeOK, Stage, Named, Synced, Before, Behind
  <2> QED
    BY <2>1, <2>2, <2>3, <2>4, <2>5, <2>6 DEF Kept
<1>13. CASE Kill(s)
  <2> USE <1>13 DEF Kill, Step, Report, files, inode, naming
  <2>1. TypeOK'
    BY DEF IInv, TypeOK, PC, Result
  <2>2. Frame(s)
    BY DEF IInv, TypeOK, Frame
  <2>3. TargetSeen'
    BY DEF IInv, TypeOK, TargetSeen
  <2>4. Stage(s)'
    BY DEF IInv, TypeOK, Stage, Complete, Before, Behind
  <2>5. Named(s)'
    BY DEF IInv, TypeOK, Named
  <2>6. Synced(s)'
    BY DEF IInv, TypeOK, Stage, Named, Synced, Before, Behind
  <2> QED
    BY <2>1, <2>2, <2>3, <2>4, <2>5, <2>6 DEF Kept
<1> QED
  BY <1>1, <1>2, <1>3, <1>4, <1>5, <1>6, <1>7, <1>8, <1>9, <1>10, <1>11, <1>12, <1>13
  DEF Deliver

\* Nor can a reader or another delivery break the invariant.
LEMMA NextIInv == IInv /\ [Next]_vars => IInv'
<1> SUFFICES ASSUME IInv, [Next]_vars PROVE IInv'
  OBVIOUS
<1>1. ASSUME NEW s \in Sinks, Deliver(s) PROVE IInv'
  BY <1>1, DeliverKeeps, KeptSuffices
<1>2. ASSUME NEW n \in Names, ReaderTakes(n) PROVE IInv'
  BY <1>2, MaildirAssumption
  DEF ReaderTakes, inode, naming, IInv, TargetSeen, TypeOK, Stage, Complete, Named, Synced
<1>3. CASE UNCHANGED vars
  BY <1>3 DEF vars, IInv, TargetSeen, TypeOK, Stage, Complete, Named, Synced
<1> QED
  BY <1>1, <1>2, <1>3 DEF Next, Terminated

\* The inductive invariant.
THEOREM Invariance == Spec => []IInv
  BY InitIInv, NextIInv, PTL DEF Spec

\* No mail reader finds a partial message, or one that was not synced although
\* DURABILITY asked for it: commit_with publishes only a complete pending file.
THEOREM VisibleHolds == Spec => []VisibleIsComplete
<1>1. IInv => VisibleIsComplete
  BY MaildirAssumption
  DEF IInv, TypeOK, TargetSeen, Stage, Complete, VisibleIsComplete
<1> QED
  BY <1>1, Invariance, PTL

\* A delivery that commit_with reports as durable is durable: the message and
\* both directories were synced, and its name in tmp is gone.
THEOREM FullHolds == Spec => []FullIsDurable
<1>1. IInv => FullIsDurable
  BY DEF IInv, TypeOK, Stage, Complete, Synced, FullIsDurable
<1> QED
  BY <1>1, Invariance, PTL

\* A delivery that ends on its own leaves no name in tmp (PendingFile::cleanup
\* and Drop), unless the removal failed.
THEOREM TmpHolds == Spec => []TmpReleased
<1>1. IInv => TmpReleased
  BY DEF IInv, Named, TmpReleased
<1> QED
  BY <1>1, Invariance, PTL

\* linkat never replaces an entry and a message is linked into the target once,
\* whatever names the deliveries draw.
THEOREM OnceHolds == Spec => PublishedOnceWithoutReplacing
<1> DEFINE Once == \A n \in Names : target'[n] \notin {target[n], Absent} =>
                       target[n] = Absent /\ target'[n] \notin seen
<1>1. IInv /\ [Next]_vars => [Once]_vars
  <2> SUFFICES ASSUME IInv, Next PROVE Once
    OBVIOUS
  <2>1. ASSUME NEW s \in Sinks, LinkUnnamed(s) PROVE Once
    <3>1. pc[s] = "commit" => s \notin seen
      BY DEF IInv, Stage, Before
    <3> QED
      BY <2>1, <3>1 DEF LinkUnnamed, Step, IInv, TypeOK
  <2>2. ASSUME NEW s \in Sinks, LinkNamed(s) PROVE Once
    <3>1. pc[s] = "link" => s \notin seen /\ tmp[name[s]] = s
      BY DEF IInv, Stage, Before, Named
    <3> QED
      BY <2>2, <3>1 DEF LinkNamed, Step, IInv, TypeOK
  <2>3. ASSUME NEW n \in Names, ReaderTakes(n) PROVE Once
    BY <2>3 DEF ReaderTakes, IInv, TypeOK
  <2>4. ASSUME NEW s \in Sinks, Deliver(s), ~LinkUnnamed(s), ~LinkNamed(s) PROVE target' = target
    BY <2>4 DEF Deliver, Create, Write, SyncFile, VerifyTmp, VerifyTarget, Cleanup, SyncTmp,
                SyncTarget, Abort, Drop, Kill, files
  <2>5. CASE Terminated
    BY <2>5 DEF Terminated, vars
  <2> QED
    BY <2>1, <2>2, <2>3, <2>4, <2>5 DEF Next
<1> QED
  BY <1>1, Invariance, PTL DEF Spec, PublishedOnceWithoutReplacing

(***************************************************************************)
(* A Maildir delivery is a PendingSink.  PhaseOf is the refinement mapping *)
(* of Contract, one sink at a time.                                        *)
(***************************************************************************)
PhaseOf(s) ==
    CASE pc[s] = "done" -> result[s]
      [] pc[s] = "create" -> "absent"
      [] OTHER -> IF s \in seen THEN "visible" ELSE "pending"

Phases == [s \in Sinks |-> PhaseOf(s)]

\* What a step of s may be, seen through the mapping.
Move(s, from, to) == PhaseOf(s) = from /\ PhaseOf(s)' = to /\ UNCHANGED <<seen, written>>
Stays(s) == PhaseOf(s)' = PhaseOf(s) /\ UNCHANGED <<seen, written>>
Writes(s) ==
    /\ PhaseOf(s) = "pending" /\ PhaseOf(s)' = "pending"
    /\ written[s] < Chunks /\ written' = [written EXCEPT ![s] = @ + 1]
    /\ UNCHANGED seen
Publishes(s) ==
    /\ PhaseOf(s) = "pending" /\ PhaseOf(s)' = "visible"
    /\ written[s] = Chunks /\ seen' = seen \cup {s}
    /\ UNCHANGED written
Allowed(s) ==
    \/ Stays(s) \/ Writes(s) \/ Publishes(s)
    \/ Move(s, "absent", "pending") \/ Move(s, "absent", "failed")
    \/ Move(s, "visible", "published") \/ Move(s, "visible", "late")
    \/ Move(s, "pending", "failed") \/ Move(s, "pending", "aborted")
    \/ \E from \in {"absent", "pending", "visible"} : Move(s, from, "killed")

\* The other sinks stay in their phase.
LEMMA OthersStay ==
    ASSUME NEW s \in Sinks, Frame(s), NEW to, PhaseOf(s)' = to
    PROVE  Phases' = [Phases EXCEPT ![s] = to]
<1>1. \A r \in Sinks \ {s} : PhaseOf(r)' = PhaseOf(r)
  BY DEF Frame, PhaseOf
<1> QED
  BY <1>1 DEF Phases

\* Each allowed move is a step of the contract, or none.
LEMMA AllowedIsContract ==
    ASSUME NEW s \in Sinks, Frame(s), Allowed(s)
    PROVE  Contract!SinkStep(s) \/ UNCHANGED <<Phases, seen, written>>
<1>0. Phases[s] = PhaseOf(s)
  BY DEF Phases
<1>1. CASE Stays(s)
  <2>1. Phases' = [Phases EXCEPT ![s] = Phases[s]]
    BY <1>0, <1>1, OthersStay DEF Stays
  <2> QED
    BY <1>1, <2>1 DEF Stays, Phases
<1>2. CASE Writes(s)
  <2>1. Phases' = [Phases EXCEPT ![s] = Phases[s]]
    BY <1>0, <1>2, OthersStay DEF Writes
  <2>2. Phases' = Phases
    BY <2>1 DEF Phases
  <2> QED
    BY <1>0, <1>2, <2>2
    DEF Writes, Contract!SinkStep, Contract!WriteSink, Phases, PhaseOf
<1>3. CASE Publishes(s)
  <2>1. Phases' = [Phases EXCEPT ![s] = "visible"]
    BY <1>3, OthersStay DEF Publishes
  <2> QED
    BY <1>0, <1>3, <2>1
    DEF Publishes, Contract!SinkStep, Contract!Publish, Contract!Goes, Phases, PhaseOf
<1>4. ASSUME NEW from, NEW to, Move(s, from, to)
      PROVE  Phases[s] = from /\ Phases' = [Phases EXCEPT ![s] = to] /\ UNCHANGED <<seen, written>>
  BY <1>0, <1>4, OthersStay DEF Move
<1>5. CASE \/ Move(s, "absent", "pending") \/ Move(s, "absent", "failed")
           \/ Move(s, "visible", "published") \/ Move(s, "visible", "late")
           \/ Move(s, "pending", "failed") \/ Move(s, "pending", "aborted")
  BY <1>4, <1>5
  DEF Contract!SinkStep, Contract!OpenSink, Contract!RefuseSink, Contract!CommitOk,
      Contract!CommitLate, Contract!CommitFailed, Contract!AbortSink, Contract!Goes,
      Phases, PhaseOf
<1>6. CASE \E from \in {"absent", "pending", "visible"} : Move(s, from, "killed")
  BY <1>4, <1>6 DEF Contract!SinkStep, Contract!KillSink, Phases, PhaseOf
<1> QED
  BY <1>1, <1>2, <1>3, <1>5, <1>6 DEF Allowed

\* Every step of a delivery is allowed by the contract.
LEMMA DeliverIsAllowed ==
    ASSUME IInv, NEW s \in Sinks, Deliver(s)
    PROVE  Allowed(s)
<1>0. Stage(s) /\ TypeOK /\ pc[s] \in PC /\ result[s] \in Result
  BY DEF IInv, TypeOK
<1> USE <1>0 DEF TypeOK, Step, Report, files, inode, naming, Allowed, Move, Stays, PhaseOf
<1>1. CASE Create(s)
  BY <1>1 DEF Create, Stage, Before
<1>2. CASE Write(s)
  BY <1>2 DEF Write, Writes, Stage, Before
<1>3. CASE SyncFile(s)
  BY <1>3 DEF SyncFile, Stage, Before
<1>4. CASE LinkUnnamed(s)
  BY <1>4 DEF LinkUnnamed, Publishes, Stage, Before, Complete
<1>5. CASE VerifyTmp(s)
  BY <1>5 DEF VerifyTmp, Stage, Before
<1>6. CASE LinkNamed(s)
  <2>1. pc[s] = "link" => tmp[name[s]] = s
    BY DEF IInv, Named
  <2> QED
    BY <1>6, <2>1 DEF LinkNamed, Publishes, Stage, Before, Complete
<1>7. CASE VerifyTarget(s)
  BY <1>7 DEF VerifyTarget, Stage, Behind
<1>8. CASE Cleanup(s)
  BY <1>8 DEF Cleanup, Stage, Behind
<1>9. CASE SyncTmp(s)
  BY <1>9 DEF SyncTmp, Stage, Behind
<1>10. CASE SyncTarget(s)
  BY <1>10 DEF SyncTarget, Stage, Behind
<1>11. CASE Abort(s)
  BY <1>11 DEF Abort, Stage, Before
<1>12. CASE Drop(s)
  BY <1>12 DEF Drop, Stage
<1>13. CASE Kill(s)
  BY <1>13 DEF Kill, Stage, PC
<1> QED
  BY <1>1, <1>2, <1>3, <1>4, <1>5, <1>6, <1>7, <1>8, <1>9, <1>10, <1>11, <1>12, <1>13
  DEF Deliver

\* A Maildir delivery keeps the promises of the PendingSink trait, on both
\* backends: the message becomes visible in one step, whole, and commit and
\* abort tell whether it did.
THEOREM Refinement == Spec => SinkContract
<1>1. Init => Contract!SinkInit
  BY DEF Init, Contract!SinkInit
<1>2. IInv /\ [Next]_vars => [\E s \in Sinks : Contract!SinkStep(s)]_<<Phases, seen, written>>
  <2> SUFFICES ASSUME IInv, [Next]_vars
               PROVE  \/ \E s \in Sinks : Contract!SinkStep(s)
                      \/ UNCHANGED <<Phases, seen, written>>
    OBVIOUS
  <2>1. ASSUME NEW s \in Sinks, Deliver(s)
        PROVE  Contract!SinkStep(s) \/ UNCHANGED <<Phases, seen, written>>
    BY <2>1, DeliverKeeps, DeliverIsAllowed, AllowedIsContract DEF Kept
  <2>2. ASSUME NEW n \in Names, ReaderTakes(n) PROVE UNCHANGED <<Phases, seen, written>>
    BY <2>2 DEF ReaderTakes, inode, Phases, PhaseOf
  <2>3. CASE UNCHANGED vars
    BY <2>3 DEF vars, Phases, PhaseOf
  <2> QED
    BY <2>1, <2>2, <2>3 DEF Next, Terminated
<1>3. IInv /\ [Next]_vars => [\E s \in Sinks : Contract!SinkStep(s)]_Contract!sinkVars
  BY <1>2 DEF Contract!sinkVars, Phases, PhaseOf
<1> QED
  BY <1>1, <1>3, Invariance, PTL DEF Spec, SinkContract, Contract!SinkSpec
=============================================================================
