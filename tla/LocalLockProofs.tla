-------------------------- MODULE LocalLockProofs --------------------------
(***************************************************************************)
(* The safety properties of module LocalLock, for any number of processes, *)
(* any mix of methods, any LOCKTIMEOUT and any LOCKSLEEP.                  *)
(***************************************************************************)
EXTENDS LocalLock, FiniteSetTheorems, TLAPS

PCs == {"start", "try", "inspect", "remove", "nap", "held", "done", "killed"}

Shape ==
    /\ method \in [Procs -> {"flock", "dot"}]
    /\ pc \in [Procs -> PCs]

\* What is true as long as no file has outlived the LOCKTIMEOUT of a dotlock
\* user: nobody is about to remove a file as stale; every open lock file is the
\* one at the path; a dotlock that is held is the file at the path.
Intact ==
    /\ path \in Inodes \cup {NoFile}
    /\ fd \in [Procs -> Inodes \cup {NoFile}]
    /\ \A p \in Procs : method[p] = "dot" => ~(age > Timeout[p])
    /\ \A p \in Procs : pc[p] \in {"inspect", "remove"} => method[p] = "dot"
    /\ \A p \in Procs : pc[p] = "start" => method[p] = "flock"
    /\ \A p \in Procs : pc[p] # "remove"
    /\ \A p \in Procs : method[p] = "flock" /\ pc[p] \in {"try", "nap", "held"} => fd[p] # NoFile
    /\ \A p \in Procs : fd[p] # NoFile => path = fd[p] /\ kind = "flock"
    /\ \A p \in Procs : Holds(p) /\ method[p] = "dot" => path # NoFile /\ kind = "dot"
    /\ \A p, q \in Procs : Holds(p) /\ Holds(q) => p = q

ExclusionInv == Shape /\ (overdue \/ Intact)

\* A new file has an inode of its own when the path names none.
LEMMA FreshInodeExists ==
    ASSUME Intact, path = NoFile
    PROVE  FreshInode \in Inodes /\ FreshInode # NoFile
<1>1. Cardinality(Procs) \in Nat
  BY LocalLockAssumption, FS_CardinalityType
<1>2. 1 \in Inodes /\ NoFile \notin Inodes
  BY <1>1 DEF Inodes, NoFile
<1>3. \A q \in Procs : fd[q] = NoFile
  BY DEF Intact
<1>4. \E i \in Inodes : i # path /\ \A q \in Procs : fd[q] # i
  BY <1>2, <1>3
<1>5. FreshInode \in Inodes
  BY <1>4 DEF FreshInode
<1> QED
  BY <1>2, <1>5

\* At first no file is at the path and nobody holds the lock.
LEMMA InitExclusion == Init => ExclusionInv
<1>1. 1 \in Inodes
  BY LocalLockAssumption, FS_CardinalityType DEF Inodes
<1> QED
  BY <1>1 DEF Init, ExclusionInv, Shape, Intact, PCs, Holds, NoFile

\* One round of waiting, as it appears in TryFlock and Inspect
LEMMA WaitMoves ==
    ASSUME NEW p \in Procs, Shape, WaitForRetry(p)
    PROVE  \E to \in {"nap", "done"} : pc' = [pc EXCEPT ![p] = to]
  BY DEF WaitForRetry, Fail, Return, Goto

\* No step of acquire, release or the clock breaks the invariant; a file that
\* outlives a LOCKTIMEOUT makes it vacuous.
LEMMA NextExclusion == ExclusionInv /\ [Next]_vars => ExclusionInv'
<1> SUFFICES ASSUME ExclusionInv, [Next]_vars PROVE ExclusionInv'
  OBVIOUS
<1> USE DEF ExclusionInv
<1>1. CASE Tick
  BY <1>1 DEF Tick, Shape, Intact, Holds, Inodes, NoFile
<1>2. ASSUME NEW p \in Procs, OpenFlock(p) PROVE ExclusionInv'
  <2>1. CASE overdue
    BY <1>2, <2>1 DEF OpenFlock, Shape, PCs, Continue, Fail, Return, Goto
  <2>2. CASE Intact /\ path = NoFile
    BY <1>2, <2>2, FreshInodeExists, LocalLockAssumption
    DEF OpenFlock, Create, Shape, Intact, PCs, Continue, Fail, Return, Goto, Holds
  <2>3. CASE Intact /\ path # NoFile
    BY <1>2, <2>3
    DEF OpenFlock, Create, Shape, Intact, PCs, Continue, Fail, Return, Goto, Holds
  <2> QED BY <2>1, <2>2, <2>3
<1>3. ASSUME NEW p \in Procs, TryFlock(p) PROVE ExclusionInv'
  <2>1. CASE overdue
    BY <1>3, <2>1, WaitMoves DEF TryFlock, Shape, PCs, Acquired, Return, Goto
  <2>2. CASE Intact /\ \E q \in Procs : Holds(q) /\ method[q] = "flock" /\ fd[q] = fd[p]
    BY <1>3, <2>2, WaitMoves DEF TryFlock, Shape, Intact, PCs, Holds
  <2>3. CASE Intact /\ ~\E q \in Procs : Holds(q) /\ method[q] = "flock" /\ fd[q] = fd[p]
    BY <1>3, <2>3 DEF TryFlock, Shape, Intact, PCs, Acquired, Return, Goto, Holds
  <2> QED BY <2>1, <2>2, <2>3
<1>4. ASSUME NEW p \in Procs, TryDotlock(p) PROVE ExclusionInv'
  <2>1. CASE overdue
    BY <1>4, <2>1 DEF TryDotlock, Shape, PCs, Acquired, Continue, Return, Goto
  <2>2. CASE Intact /\ path = NoFile
    BY <1>4, <2>2, FreshInodeExists, LocalLockAssumption
    DEF TryDotlock, Create, Shape, Intact, PCs, Acquired, Return, Goto, Holds
  <2>3. CASE Intact /\ path # NoFile
    BY <1>4, <2>3 DEF TryDotlock, Shape, Intact, PCs, Continue, Goto, Holds
  <2> QED BY <2>1, <2>2, <2>3
<1>5. ASSUME NEW p \in Procs, Inspect(p) PROVE ExclusionInv'
  BY <1>5, WaitMoves
  DEF Inspect, StaleDotlock, Shape, Intact, PCs, Continue, Fail, Return, Goto, Holds
<1>6. ASSUME NEW p \in Procs, RemoveStale(p) PROVE ExclusionInv'
  BY <1>6 DEF RemoveStale, Unlink, Shape, Intact, PCs, Continue, Fail, Return, Goto
<1>7. ASSUME NEW p \in Procs, Wake(p) PROVE ExclusionInv'
  BY <1>7 DEF Wake, Shape, Intact, PCs, Continue, Goto, Holds
<1>8. ASSUME NEW p \in Procs, Interrupted(p) PROVE ExclusionInv'
  BY <1>8 DEF Interrupted, Shape, Intact, PCs, Fail, Return, Goto, Holds
<1>9. ASSUME NEW p \in Procs, Release(p) PROVE ExclusionInv'
  <2>1. CASE overdue
    BY <1>9, <2>1 DEF Release, Shape, PCs, Continue, Goto
  <2>2. CASE Intact /\ method[p] = "dot"
    <3>1. path # NoFile /\ \A q \in Procs : fd[q] = NoFile
      BY <1>9, <2>2 DEF Release, Intact, Holds
    <3>2. \A q \in Procs : ~Holds(q)'
      BY <1>9, <2>2 DEF Release, Shape, Intact, Holds, Continue, Goto
    <3> QED
      BY <1>9, <2>2, <3>1, <3>2, LocalLockAssumption
      DEF Release, Unlink, Shape, Intact, PCs, Continue, Goto
  <2>3. CASE Intact /\ method[p] # "dot"
    BY <1>9, <2>3 DEF Release, Shape, Intact, PCs, Continue, Goto, Holds
  <2> QED BY <2>1, <2>2, <2>3
<1>10. ASSUME NEW p \in Procs, Kill(p) PROVE ExclusionInv'
  BY <1>10 DEF Kill, Shape, Intact, PCs, Return, Goto, Holds
<1>11. CASE UNCHANGED vars
  BY <1>11 DEF vars, Shape, Intact, Holds, Inodes
<1> QED
  BY <1>1, <1>2, <1>3, <1>4, <1>5, <1>6, <1>7, <1>8, <1>9, <1>10, <1>11
  DEF Next, Acquire, Terminated

\* Two processes hold the lock together only after a file has outlived the
\* LOCKTIMEOUT of a process with LOCKMETHOD=dotlock.
THEOREM ExclusionHolds == Spec => []Exclusion
<1>1. ExclusionInv => Exclusion
  BY DEF ExclusionInv, Intact, Exclusion
<1> QED
  BY <1>1, InitExclusion, NextExclusion, PTL DEF Spec

-----------------------------------------------------------------------------
\* A process that is looking at a file finds it, or somebody removed it.
RaceInv ==
    /\ pc \in [Procs -> PCs]
    /\ raced \in [Procs -> BOOLEAN]
    /\ result \in [Procs -> {"none", "acquired", "timeout", "signal", "refused", "missing"}]
    /\ \A p \in Procs : pc[p] \in {"inspect", "remove"} => path # NoFile \/ raced[p]
    /\ \A p \in Procs : result[p] = "missing" => pc[p] = "done" /\ raced[p]

\* Only the removal of the inspected file leads to a missing one.
LEMMA NextRace == RaceInv /\ [Next]_vars => RaceInv'
<1> SUFFICES ASSUME RaceInv, [Next]_vars PROVE RaceInv'
  OBVIOUS
<1> USE DEF RaceInv, PCs
<1>1. CASE Tick
  BY <1>1 DEF Tick
<1>2. ASSUME NEW p \in Procs, OpenFlock(p) PROVE RaceInv'
  BY <1>2 DEF OpenFlock, Create, Continue, Fail, Return, Goto
<1>3. ASSUME NEW p \in Procs, TryFlock(p) PROVE RaceInv'
  BY <1>3 DEF TryFlock, WaitForRetry, Acquired, Fail, Return, Goto
<1>4. ASSUME NEW p \in Procs, TryDotlock(p) PROVE RaceInv'
  BY <1>4 DEF TryDotlock, Create, Acquired, Continue, Return, Goto
<1>5. ASSUME NEW p \in Procs, Inspect(p) PROVE RaceInv'
  BY <1>5 DEF Inspect, WaitForRetry, Continue, Fail, Return, Goto
<1>6. ASSUME NEW p \in Procs, RemoveStale(p) PROVE RaceInv'
  <2>1. CASE path = NoFile
    BY <1>6, <2>1 DEF RemoveStale, Fail, Return, Goto
  <2>2. CASE path # NoFile
    <3>1. \A q \in Procs : raced[q] => raced'[q]
      BY <1>6, <2>2 DEF RemoveStale, Unlink
    <3>2. ASSUME NEW q \in Procs, pc'[q] \in {"inspect", "remove"} PROVE raced'[q]
      <4>1. q # p /\ pc[q] \in {"inspect", "remove"}
        BY <1>6, <2>2, <3>2 DEF RemoveStale, Continue, Goto
      <4> QED
        BY <1>6, <2>2, <4>1 DEF RemoveStale, Unlink
    <3> QED
      BY <1>6, <2>2, <3>1, <3>2 DEF RemoveStale, Unlink, Continue, Goto
  <2> QED BY <2>1, <2>2
<1>7. ASSUME NEW p \in Procs, Wake(p) PROVE RaceInv'
  BY <1>7 DEF Wake, Continue, Goto
<1>8. ASSUME NEW p \in Procs, Interrupted(p) PROVE RaceInv'
  BY <1>8 DEF Interrupted, Fail, Return, Goto
<1>9. ASSUME NEW p \in Procs, Release(p) PROVE RaceInv'
  BY <1>9 DEF Release, Unlink, Continue, Goto
<1>10. ASSUME NEW p \in Procs, Kill(p) PROVE RaceInv'
  BY <1>10 DEF Kill, Return, Goto
<1>11. CASE UNCHANGED vars
  BY <1>11 DEF vars
<1> QED
  BY <1>1, <1>2, <1>3, <1>4, <1>5, <1>6, <1>7, <1>8, <1>9, <1>10, <1>11
  DEF Next, Acquire, Terminated

\* acquire_dotlock reports a missing file only to a process under whose
\* inspection somebody else removed the file.
THEOREM MissingOnlyInRaceHolds == Spec => []MissingOnlyInRace
<1>1. Init => RaceInv
  BY DEF Init, RaceInv, PCs
<1>2. RaceInv => MissingOnlyInRace
  BY DEF RaceInv, MissingOnlyInRace
<1> QED
  BY <1>1, <1>2, NextRace, PTL DEF Spec

-----------------------------------------------------------------------------
\* What Min and Max give for two numbers.
LEMMA SmallerOfTwo ==
    ASSUME NEW m \in Int, NEW n \in Int
    PROVE  Min({m, n}) = IF m <= n THEN m ELSE n
  BY DEF Min

\* Max of two numbers of seconds is the larger one.
LEMMA LargerOfTwo ==
    ASSUME NEW m \in Int, NEW n \in Int
    PROVE  Max({m, n}) = IF m >= n THEN m ELSE n
  BY DEF Max

\* The clocks stay within LOCKTIMEOUT, and so does a sleep.
ClockInv ==
    /\ pc \in [Procs -> PCs]
    /\ waited \in [Procs -> Nat]
    /\ nap \in [Procs -> Nat]
    /\ \A p \in Procs : waited[p] <= Timeout[p]
    /\ WakesInTime

\* Time does not pass a process that is due.
LEMMA NextClock == ClockInv /\ [Next]_vars => ClockInv'
<1> SUFFICES ASSUME ClockInv, [Next]_vars PROVE ClockInv'
  OBVIOUS
<1> USE LocalLockAssumption DEF ClockInv, WakesInTime, PCs
<1>1. CASE Tick
  <2>1. ASSUME NEW p \in Procs
        PROVE  /\ waited'[p] \in Nat /\ waited'[p] <= Timeout[p]
               /\ waited'[p] <= waited[p] + 1
               /\ nap'[p] = IF nap[p] = 0 THEN 0 ELSE nap[p] - 1
    <3>1. waited[p] \in Nat /\ nap[p] \in Nat /\ Timeout[p] \in Nat
      OBVIOUS
    <3>2. waited'[p] = IF Waiting(p) THEN Min({waited[p] + 1, Timeout[p]}) ELSE waited[p]
      BY <1>1 DEF Tick
    <3>3. nap'[p] = Max({nap[p] - 1, 0})
      BY <1>1 DEF Tick
    <3>4. Min({waited[p] + 1, Timeout[p]}) =
                IF waited[p] + 1 <= Timeout[p] THEN waited[p] + 1 ELSE Timeout[p]
      BY <3>1, SmallerOfTwo
    <3>5. Max({nap[p] - 1, 0}) = IF nap[p] - 1 >= 0 THEN nap[p] - 1 ELSE 0
      BY <3>1, LargerOfTwo
    <3> QED
      BY <3>1, <3>2, <3>3, <3>4, <3>5
  <2>2. waited' \in [Procs -> Nat] /\ nap' \in [Procs -> Nat]
    <3>1. waited' = [p \in Procs |-> waited'[p]] /\ nap' = [p \in Procs |-> nap'[p]]
      BY <1>1 DEF Tick
    <3> QED
      BY <2>1, <3>1
  <2>3. pc' = pc
    BY <1>1 DEF Tick
  <2> QED
    BY <2>1, <2>2, <2>3
<1>2. ASSUME NEW p \in Procs, WaitForRetry(p) PROVE ClockInv'
  BY <1>2, SmallerOfTwo DEF WaitForRetry, Fail, Return, Goto
<1>3. ASSUME NEW p \in Procs, NEW to \in PCs \ {"nap"}, NEW what, Return(p, to, what)
      PROVE  ClockInv'
  BY <1>3 DEF Return, Goto
<1>4. ASSUME NEW p \in Procs, NEW to \in PCs \ {"nap"}, Continue(p, to) PROVE ClockInv'
  BY <1>4 DEF Continue, Goto
<1>5. ASSUME NEW p \in Procs, Acquire(p) \/ Interrupted(p) \/ Release(p) \/ Kill(p)
      PROVE  ClockInv'
  BY <1>2, <1>3, <1>4, <1>5
  DEF Acquire, OpenFlock, TryFlock, TryDotlock, Inspect, RemoveStale, Wake, Interrupted,
      Release, Kill, Acquired, Fail
<1>6. CASE UNCHANGED vars
  BY <1>6 DEF vars
<1> QED
  BY <1>1, <1>5, <1>6 DEF Next, Terminated

\* A process that sleeps in wait_for_retry is due again when its LOCKTIMEOUT
\* has elapsed, whatever LOCKSLEEP is.
THEOREM WakesInTimeHolds == Spec => []WakesInTime
<1>1. Init => ClockInv
  BY LocalLockAssumption DEF Init, ClockInv, WakesInTime, PCs
<1>2. ClockInv => WakesInTime
  BY DEF ClockInv
<1> QED
  BY <1>1, <1>2, NextClock, PTL DEF Spec
=============================================================================
