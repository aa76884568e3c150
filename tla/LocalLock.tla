----------------------------- MODULE LocalLock -----------------------------
(***************************************************************************)
(* Local and global lock files: src/src/delivery/local_lock.rs.            *)
(*                                                                         *)
(* Processes compete for one lock pathname.  A process with                *)
(* LOCKMETHOD=flock opens the file, creating it when it is missing, and    *)
(* takes the kernel lock of the inode it opened; the file stays.  A        *)
(* process with LOCKMETHOD=dotlock creates the file exclusively, removes   *)
(* it by name when it is done, and removes a file of somebody else that    *)
(* it finds older than its LOCKTIMEOUT.  One step is one system call.      *)
(*                                                                         *)
(* Time is a Tick of one second for everybody.  Ages and waiting times     *)
(* saturate just above the largest timeout, where no comparison can tell   *)
(* them apart any more.                                                    *)
(***************************************************************************)
EXTENDS Integers, FiniteSets, FiniteSetsExt

CONSTANTS
    Procs,      \* the competing processes
    Timeout,    \* LOCKTIMEOUT of each process, in seconds
    Sleep       \* LOCKSLEEP in seconds

\* parse_lock_timeout_seconds and parse_lock_sleep_seconds reject zero.
ASSUME LocalLockAssumption ==
    /\ IsFiniteSet(Procs) /\ Procs # {}
    /\ Timeout \in [Procs -> Nat \ {0}]
    /\ Sleep \in Nat \ {0}

VARIABLES
    method,     \* LockMethod of each process
    pc,         \* where each process is
    path,       \* the inode the pathname names, or NoFile
    kind,       \* what the file at the path is
    fd,         \* the inode a flock process has open, or NoFile
    age,        \* seconds since the file at the path was created
    waited,     \* started.elapsed() of each process
    nap,        \* seconds until retry_at
    result,     \* how acquire() ended
    overdue,    \* observer: a file outlived the LOCKTIMEOUT of a dotlock user
    raced       \* observer: the file went away under the inspection of a process

vars == <<method, pc, path, kind, fd, age, waited, nap, result, overdue, raced>>

NoFile == 0
Inodes == 1 .. Cardinality(Procs) + 1
MaxAge == Max({Timeout[p] : p \in Procs}) + 1

\* A file made by LOCKMETHOD=flock, by LOCKMETHOD=dotlock, or a directory or
\* large file that is no lock of this program; "dot" where there is no file.
Kinds == {"flock", "dot", "foreign"}

Waiting(p) == pc[p] \in {"start", "try", "inspect", "remove", "nap"}
Holds(p) == pc[p] = "held"

FreshInode == CHOOSE i \in Inodes : i # path /\ \A q \in Procs : fd[q] # i

Init ==
    /\ method \in [Procs -> {"flock", "dot"}]
    /\ pc = [p \in Procs |-> IF method[p] = "flock" THEN "start" ELSE "try"]
    /\ path \in {NoFile, 1}
    /\ kind \in Kinds
    /\ path = NoFile => kind = "dot"
    /\ fd = [p \in Procs |-> NoFile]
    /\ age \in {0, MaxAge}
    /\ path = NoFile => age = 0
    /\ waited = [p \in Procs |-> 0]
    /\ nap = [p \in Procs |-> 0]
    /\ result = [p \in Procs |-> "none"]
    /\ overdue = \E p \in Procs : method[p] = "dot" /\ age > Timeout[p]
    /\ raced = [p \in Procs |-> FALSE]

Goto(p, to) == pc' = [pc EXCEPT ![p] = to]

\* acquire() returns; its clock and its timer end with it.
Return(p, to, what) ==
    /\ Goto(p, to)
    /\ result' = [result EXCEPT ![p] = what]
    /\ waited' = [waited EXCEPT ![p] = 0]
    /\ nap' = [nap EXCEPT ![p] = 0]

Acquired(p) == Return(p, "held", "acquired")
Fail(p, why) == Return(p, "done", why)
Continue(p, to) == Goto(p, to) /\ UNCHANGED <<result, waited, nap>>

\* Exclusive or plain creation of the file.
Create(k) ==
    /\ path' = FreshInode
    /\ kind' = k
    /\ age' = 0

\* unlinkat of the pathname by p, whatever it names by now.
Unlink(p) ==
    /\ path' = NoFile
    /\ kind' = "dot"
    /\ age' = 0
    /\ raced' = [q \in Procs |->
                    IF q # p /\ pc[q] \in {"inspect", "remove"} THEN TRUE ELSE raced[q]]

-----------------------------------------------------------------------------
\* Mutant of WaitForRetry: the delay is not cut to the remaining time.
WaitWholeSleep(p) ==
    IF waited[p] >= Timeout[p]
    THEN Fail(p, "timeout")
    ELSE /\ Goto(p, "nap")
         /\ nap' = [nap EXCEPT ![p] = Sleep]
         /\ UNCHANGED <<result, waited>>

\* Mutant of WaitForRetry: the limit is never looked at.
WaitForever(p) ==
    /\ Goto(p, "nap")
    /\ nap' = [nap EXCEPT ![p] = Sleep]
    /\ UNCHANGED <<result, waited>>

\* wait_for_retry up to its polling loop.
WaitForRetry(p) ==
    IF waited[p] >= Timeout[p]
    THEN Fail(p, "timeout")
    ELSE /\ Goto(p, "nap")
         /\ nap' = [nap EXCEPT ![p] = Min({Sleep, Timeout[p] - waited[p]})]
         /\ UNCHANGED <<result, waited>>

\* The polling loop of wait_for_retry is over.
Wake(p) ==
    /\ pc[p] = "nap" /\ nap[p] = 0
    /\ Continue(p, "try")
    /\ UNCHANGED <<method, path, kind, fd, age, overdue, raced>>

\* check_io at the head of the loops and while polling.
Interrupted(p) ==
    /\ pc[p] \in {"try", "nap"}
    /\ Fail(p, "signal")
    /\ fd' = [fd EXCEPT ![p] = NoFile]
    /\ UNCHANGED <<method, path, kind, age, overdue, raced>>

\* openat and fstat of acquire_flock.  A file that is not a private regular
\* file of this user is refused; a dotlock cannot be opened for writing.
OpenFlock(p) ==
    /\ pc[p] = "start"
    /\ \/ /\ path = NoFile
          /\ Create("flock")
          /\ fd' = [fd EXCEPT ![p] = FreshInode]
          /\ Continue(p, "try")
       \/ /\ path # NoFile /\ kind = "flock"
          /\ fd' = [fd EXCEPT ![p] = path]
          /\ Continue(p, "try")
          /\ UNCHANGED <<path, kind, age>>
       \/ /\ path = NoFile \/ kind # "flock"
          /\ Fail(p, "refused")
          /\ UNCHANGED <<path, kind, fd, age>>
    /\ UNCHANGED <<method, overdue, raced>>

\* One round of acquire_flock_fd_with.
TryFlock(p) ==
    /\ pc[p] = "try" /\ method[p] = "flock"
    /\ IF \E q \in Procs : Holds(q) /\ method[q] = "flock" /\ fd[q] = fd[p]
       THEN WaitForRetry(p)
       ELSE Acquired(p)
    /\ fd' = [fd EXCEPT ![p] = IF pc'[p] = "done" THEN NoFile ELSE @]
    /\ UNCHANGED <<method, path, kind, age, overdue, raced>>

\* Mutant of TryDotlock: the file is inspected before its creation is tried.
InspectFirst(p) ==
    /\ pc[p] = "try" /\ method[p] = "dot"
    /\ Continue(p, "inspect")
    /\ raced' = [raced EXCEPT ![p] = FALSE]
    /\ UNCHANGED <<method, path, kind, fd, age, overdue>>

\* openat with O_EXCL in acquire_dotlock.
TryDotlock(p) ==
    /\ pc[p] = "try" /\ method[p] = "dot"
    /\ IF path = NoFile
       THEN Create("dot") /\ Acquired(p)
       ELSE Continue(p, "inspect") /\ UNCHANGED <<path, kind, age>>
    /\ raced' = [raced EXCEPT ![p] = FALSE]
    /\ UNCHANGED <<method, fd, overdue>>

\* Mutant of StaleDotlock: a file exactly as old as the limit is stale.
StaleTooEarly(p) == kind # "foreign" /\ age >= Timeout[p]

\* The answer of stale_dotlock for a file that exists.
StaleDotlock(p) == kind # "foreign" /\ age > Timeout[p]

\* statat in stale_dotlock, and what acquire_dotlock does with the answer.
Inspect(p) ==
    /\ pc[p] = "inspect"
    /\ IF path = NoFile
       THEN Fail(p, "missing")
       ELSE IF StaleDotlock(p) THEN Continue(p, "remove") ELSE WaitForRetry(p)
    /\ UNCHANGED <<method, path, kind, fd, age, overdue, raced>>

\* unlinkat of a file that was found stale.
RemoveStale(p) ==
    /\ pc[p] = "remove"
    /\ IF path = NoFile
       THEN Fail(p, "missing") /\ UNCHANGED <<path, kind, age, raced>>
       ELSE Unlink(p) /\ Continue(p, "try")
    /\ UNCHANGED <<method, fd, overdue>>

\* Drop of LocalLock.
Release(p) ==
    /\ pc[p] = "held"
    /\ Continue(p, "done")
    /\ fd' = [fd EXCEPT ![p] = NoFile]
    /\ IF method[p] = "dot" /\ path # NoFile
       THEN Unlink(p)
       ELSE UNCHANGED <<path, kind, age, raced>>
    /\ UNCHANGED <<method, overdue>>

\* The process is killed: the kernel drops its flock, its dotlock stays.
Kill(p) ==
    /\ pc[p] \notin {"done", "killed"}
    /\ Return(p, "killed", "none")
    /\ fd' = [fd EXCEPT ![p] = NoFile]
    /\ UNCHANGED <<method, path, kind, age, overdue, raced>>

Tick ==
    /\ \E p \in Procs : Waiting(p) \/ Holds(p)
    /\ age' = IF path = NoFile THEN 0 ELSE Min({age + 1, MaxAge})
    /\ waited' = [p \in Procs |->
                    IF Waiting(p) THEN Min({waited[p] + 1, Timeout[p]}) ELSE waited[p]]
    /\ nap' = [p \in Procs |-> Max({nap[p] - 1, 0})]
    /\ overdue' = (overdue \/ \E p \in Procs : method[p] = "dot" /\ age' > Timeout[p])
    /\ UNCHANGED <<method, pc, path, kind, fd, result, raced>>

Terminated ==
    /\ \A p \in Procs : pc[p] \in {"done", "killed"}
    /\ UNCHANGED vars

Acquire(p) ==
    \/ OpenFlock(p) \/ TryFlock(p) \/ TryDotlock(p)
    \/ Inspect(p) \/ RemoveStale(p) \/ Wake(p)

Next ==
    \/ Tick
    \/ \E p \in Procs : Acquire(p) \/ Interrupted(p) \/ Release(p) \/ Kill(p)
    \/ Terminated

\* Time passes and a runnable process is scheduled.  Nothing makes a holder
\* release its lock.
Spec ==
    /\ Init /\ [][Next]_vars
    /\ WF_vars(Tick)
    /\ \A p \in Procs : WF_vars(Acquire(p))

-----------------------------------------------------------------------------
\* Every variable stays within its type.
TypeOK ==
    /\ method \in [Procs -> {"flock", "dot"}]
    /\ pc \in [Procs -> {"start", "try", "inspect", "remove", "nap", "held", "done", "killed"}]
    /\ path \in Inodes \cup {NoFile}
    /\ kind \in Kinds
    /\ fd \in [Procs -> Inodes \cup {NoFile}]
    /\ age \in 0 .. MaxAge
    /\ \A p \in Procs : waited[p] \in 0 .. Timeout[p] /\ nap[p] \in 0 .. Sleep
    /\ result \in [Procs -> {"none", "acquired", "timeout", "signal", "refused", "missing"}]
    /\ overdue \in BOOLEAN
    /\ raced \in [Procs -> BOOLEAN]

\* Two processes hold the lock at the same time, whatever their methods, only
\* after a lock file has outlived the LOCKTIMEOUT of a process that uses
\* dotlocks.  Up to that moment neither the removal by name in Drop nor the
\* stale removal of acquire_dotlock can hit a lock that is in use.  Processes
\* that all use flock therefore exclude each other always.
Exclusion ==
    (\E p, q \in Procs : p # q /\ Holds(p) /\ Holds(q)) => overdue

\* acquire_dotlock fails because the file is missing only when another process
\* removed it between the failed creation and this process's statat or unlinkat.
MissingOnlyInRace == \A p \in Procs : result[p] = "missing" => raced[p]

\* A process that sleeps in wait_for_retry is due again when its LOCKTIMEOUT
\* has elapsed, however LOCKSLEEP and LOCKTIMEOUT relate.
WakesInTime == \A p \in Procs : pc[p] = "nap" => waited[p] + nap[p] <= Timeout[p]

\* Every process that asks for the lock gets an answer, even when the holder
\* never lets go and others keep replacing the file: acquire() is bounded.
WaitEnds == \A p \in Procs : Waiting(p) ~> ~Waiting(p)
=============================================================================
