--------------------------- MODULE CommandProofs ---------------------------
(***************************************************************************)
(* The safety properties of module CommandRunner, for any number of        *)
(* requests of any form, any TIMEOUT, any size of input and output and     *)
(* whatever the processes of a command do.                                 *)
(***************************************************************************)
EXTENDS CommandRunner, TLAPS

Forms == {"none", "program", "capture", "filter"}
Shells == {"none", "run", "zombie", "reaped"}
Statuses == {"none", "zero", "nonzero", "signal"}
Lefts == {"none", "run", "away", "gone"}
Writers == {"off", "write", "complete", "failed"}
Readers == {"off", "read", "complete", "late", "failed"}
Waiters == {"off", "poll", "term", "grace", "reap", "done", "error"}

ProcRecord ==
    [form : Forms, shell : Shells, status : Statuses, left : Lefts,
     unsent : Nat, stdin : Nat, stdout : Nat, made : Nat, taken : Nat,
     writer : Writers, reader : Readers, waiter : Waiters, timed : BOOLEAN, clock : Nat,
     open : BOOLEAN, cut : BOOLEAN]

\* What holds of one command by itself.  Its waiter gives up only after both
\* signals went to the group, the waiter of a capture starts after its reader
\* ended, and nothing is lost between the pipe and the reader, which ends
\* completely only behind the last process that could write.
Sound(p) ==
    /\ p \in ProcRecord
    /\ p.waiter \in {"off", "poll"} => ~p.timed
    /\ p.waiter = "reap" => p.shell # "run" /\ p.left # "run"
    /\ p.waiter = "done" => p.shell = "reaped" /\ (p.timed => p.left # "run")
    /\ p.form = "capture" /\ p.reader = "read" => p.waiter = "off" /\ ~p.cut
    /\ p.open => p.reader # "off"
    /\ p.reader = "read" => p.made = p.taken + p.stdout
    /\ p.reader = "complete" => p.taken = p.made /\ ~CanWrite(p)

\* The group of a command is terminated, or lost some output, because of TIMEOUT
\* or because its output could not be read, unless a signal arrived.
Ended(p) == p.cut \/ p.waiter \in {"term", "grace"}
Excused(p) == p.timed \/ p.reader \in {"late", "failed"}

ProcInv ==
    /\ proc \in [Cmds -> ProcRecord]
    /\ \A c \in Cmds : Sound(proc[c])
    /\ faults \in Nat
    /\ \A c \in Cmds : proc[c].waiter = "error" => faults > 0
    /\ \A c \in Cmds : Ended(proc[c]) => signal \/ Excused(proc[c])

\* A step of one command that keeps its record sound keeps the invariant.
LEMMA OneMoves ==
    ASSUME ProcInv, NEW c \in Cmds, NEW q, proc' = [proc EXCEPT ![c] = q], Sound(q),
           faults' = faults, signal' = signal, q.waiter = "error" => proc[c].waiter = "error",
           Ended(q) => signal \/ Excused(q)
    PROVE  ProcInv'
  BY DEF ProcInv, Sound

\* What concerns the end of a command stays as it is.
Same(p, q) ==
    q.waiter = p.waiter /\ q.cut = p.cut /\ q.timed = p.timed /\ q.reader = p.reader

\* A step of one command that does not concern its end keeps the invariant.
LEMMA OneStays ==
    ASSUME ProcInv, NEW c \in Cmds, NEW q, proc' = [proc EXCEPT ![c] = q], Sound(q),
           faults' = faults, signal' = signal, Same(proc[c], q)
    PROVE  ProcInv'
  BY OneMoves DEF ProcInv, Same, Ended, Excused

\* No command has started initially.
LEMMA InitProc == ProcInit => ProcInv
<1>1. Sound(NotStarted) /\ NotStarted.waiter # "error" /\ ~Ended(NotStarted)
  BY DEF Sound, ProcRecord, NotStarted, CanWrite, Ended, Forms, Shells, Statuses, Lefts, Writers, Readers, Waiters
<1> QED
  BY <1>1 DEF ProcInit, ProcInv, Sound

\* A command is new
LEMMA StartedSound ==
    ASSUME NEW form \in {"program", "capture", "filter"}
    PROVE  /\ Sound(Started(form))
           /\ Started(form).waiter # "error" /\ ~Ended(Started(form))
<1> DEFINE q == Started(form)
           b == form \in {"capture", "filter"}
           r == IF form \in {"capture", "filter"} THEN "read" ELSE "off"
           w == IF form = "capture" THEN "off" ELSE "poll"
<1>0. b \in BOOLEAN
  OBVIOUS
<1>1. /\ r \in Readers /\ w \in Waiters
      /\ b => r = "read"
      /\ form = "capture" => w = "off"
      /\ w # "error" /\ w \in {"off", "poll"} /\ r \in {"read", "off"}
  BY DEF Readers, Waiters
<1>2. q = [Spawned EXCEPT !.form = form, !.open = b, !.reader = r, !.waiter = w]
  BY Zenon DEF Started
<1> HIDE DEF q, b, r, w
<1>3. Spawned \in ProcRecord
  BY ExternalProcessAssumption
  DEF Spawned, NotStarted, ProcRecord, Forms, Shells, Statuses, Lefts, Writers, Readers, Waiters
<1>4. Spawned.timed = FALSE /\ Spawned.cut = FALSE /\ Spawned.shell = "run"
      /\ Spawned.made = 0 /\ Spawned.taken = 0 /\ Spawned.stdout = 0
  BY DEF Spawned, NotStarted
<1>5. q \in ProcRecord
  BY <1>0, <1>1, <1>2, <1>3 DEF ProcRecord, Forms
<1>6. /\ q.timed = FALSE /\ q.cut = FALSE /\ q.shell = "run"
      /\ q.made = 0 /\ q.taken = 0 /\ q.stdout = 0
      /\ q.reader = r /\ q.open = b /\ q.waiter = w /\ q.form = form
  BY <1>2, <1>3, <1>4 DEF ProcRecord
<1>7. Sound(q) /\ q.waiter # "error" /\ ~Ended(q)
  BY <1>1, <1>5, <1>6 DEF Sound, Ended
<1> QED
  BY <1>7 DEF q

\* The shell ends
LEMMA ShellDiesSound ==
    ASSUME NEW p, Sound(p), p.shell = "run", NEW st \in {"zero", "nonzero", "signal"}
    PROVE  Sound(ShellDies(p, st)) /\ Same(p, ShellDies(p, st))
<1> DEFINE q == ShellDies(p, st)
<1>1. p \in ProcRecord
  BY DEF Sound
<1>2. q \in ProcRecord
  BY <1>1 DEF ShellDies, ProcRecord, Shells, Statuses
<1>3. /\ q.shell = "zombie"
      /\ q.waiter = p.waiter /\ q.left = p.left /\ q.timed = p.timed
      /\ q.form = p.form /\ q.reader = p.reader
      /\ q.made = p.made /\ q.taken = p.taken /\ q.stdout = p.stdout
      /\ q.open = p.open /\ q.cut = p.cut
  BY <1>1 DEF ShellDies, ProcRecord
<1> HIDE DEF q
<1>4. Sound(q)
  BY <1>2, <1>3 DEF Sound, CanWrite, Alive
<1> QED
  BY <1>3, <1>4 DEF q, Same

\* The shell is waited for
LEMMA ReapedSound ==
    ASSUME NEW p, Sound(p), p.shell = "zombie", p.waiter \in {"poll", "reap"}
    PROVE  /\ Sound(Reaped(p)) /\ Reaped(p).waiter = "done"
           /\ (Ended(Reaped(p)) => Ended(p)) /\ (Excused(p) => Excused(Reaped(p)))
<1> DEFINE q == Reaped(p)
<1>1. p \in ProcRecord
  BY DEF Sound
<1>2. q \in ProcRecord
  BY <1>1 DEF Reaped, ProcRecord, Shells, Waiters
<1>3. /\ q.shell = "reaped" /\ q.waiter = "done"
      /\ q.left = p.left /\ q.timed = p.timed
      /\ q.form = p.form /\ q.reader = p.reader
      /\ q.made = p.made /\ q.taken = p.taken /\ q.stdout = p.stdout
      /\ q.open = p.open /\ q.cut = p.cut
  BY <1>1 DEF Reaped, ProcRecord
<1> HIDE DEF q
<1>4. Sound(q)
  BY <1>2, <1>3 DEF Sound, CanWrite, Alive
<1> QED
  BY <1>3, <1>4 DEF q, Ended, Excused

\* The reader ends, completely only behind the last process that could write
LEMMA ReaderEndsSound ==
    ASSUME NEW p, Sound(p), p.reader = "read", NEW how \in {"complete", "late", "failed"},
           how = "complete" => p.stdout = 0 /\ ~CanWrite(p)
    PROVE  /\ Sound(ReaderEnds(p, how))
           /\ ReaderEnds(p, how).waiter = "error" => p.waiter = "error"
           /\ Ended(ReaderEnds(p, how)) => Excused(ReaderEnds(p, how)) \/ (Ended(p) /\ ~Excused(p))
<1> DEFINE q == ReaderEnds(p, how)
<1>1. p \in ProcRecord
  BY DEF Sound
<1>2. q \in ProcRecord
  BY <1>1 DEF ReaderEnds, ProcRecord, Readers, Waiters
<1>3. /\ q.shell = p.shell /\ q.left = p.left /\ q.form = p.form
      /\ q.reader = how /\ q.made = p.made /\ q.taken = p.taken
      /\ q.open = p.open /\ q.cut = p.cut
      /\ p.form = "capture" => q.waiter = IF how = "complete" THEN "poll" ELSE "term"
      /\ p.form = "capture" => q.timed = (how = "late")
      /\ p.form # "capture" => q.waiter = p.waiter /\ q.timed = p.timed
  BY <1>1 DEF ReaderEnds, ProcRecord
<1>4. how = "complete" => p.taken = p.made /\ ~CanWrite(p)
  BY <1>1 DEF Sound, ProcRecord
<1> HIDE DEF q
<1>5. ASSUME p.form # "capture" PROVE Sound(q)
  <2>1. q.waiter = p.waiter /\ q.timed = p.timed
    BY <1>3, <1>5
  <2> QED
    BY <1>2, <1>3, <1>4, <1>5, <2>1 DEF Sound, CanWrite, Alive
<1>6. ASSUME p.form = "capture" PROVE Sound(q)
  <2>1. q.waiter \in {"poll", "term"} /\ (q.waiter = "poll" => how = "complete")
    BY <1>3, <1>6
  <2>2. q.waiter = "poll" => ~q.timed
    BY <1>3, <1>6, <2>1
  <2> QED
    BY <1>2, <1>3, <1>4, <1>6, <2>1, <2>2 DEF Sound, CanWrite, Alive
<1>7. Ended(q) => Excused(q) \/ (Ended(p) /\ ~Excused(p))
  BY <1>3 DEF Ended, Excused, Sound
<1> QED
  BY <1>3, <1>5, <1>6, <1>7 DEF q

\* The input moves on
LEMMA InputMoves ==
    ASSUME NEW p, Sound(p), NEW w \in Writers, NEW n \in Nat, NEW u \in Nat
    PROVE  LET q == [p EXCEPT !.writer = w, !.stdin = n, !.unsent = u]
           IN  Sound(q) /\ Same(p, q)
<1> DEFINE q == [p EXCEPT !.writer = w, !.stdin = n, !.unsent = u]
<1>1. p \in ProcRecord
  BY DEF Sound
<1>2. q \in ProcRecord
  BY <1>1 DEF ProcRecord
<1>3. /\ q.shell = p.shell /\ q.left = p.left /\ q.waiter = p.waiter
      /\ q.timed = p.timed /\ q.form = p.form /\ q.reader = p.reader
      /\ q.made = p.made /\ q.taken = p.taken /\ q.stdout = p.stdout
      /\ q.open = p.open /\ q.cut = p.cut
  BY <1>1 DEF ProcRecord
<1> HIDE DEF q
<1>4. Sound(q)
  BY <1>1, <1>2, <1>3 DEF Sound, CanWrite, Alive, ProcRecord
<1> QED
  BY <1>3, <1>4 DEF q, Same

\* A block is written to stdout
LEMMA OutputMade ==
    ASSUME NEW p, Sound(p), p.reader = "read",
           NEW n \in Nat, NEW m \in Nat, n = p.stdout + 1, m = p.made + 1
    PROVE  LET q == [p EXCEPT !.stdout = n, !.made = m]
           IN  Sound(q) /\ Same(p, q)
<1> DEFINE q == [p EXCEPT !.stdout = n, !.made = m]
<1>1. p \in ProcRecord
  BY DEF Sound
<1>2. q \in ProcRecord
  BY <1>1 DEF ProcRecord
<1>3. /\ q.shell = p.shell /\ q.left = p.left /\ q.waiter = p.waiter
      /\ q.timed = p.timed /\ q.form = p.form /\ q.reader = p.reader
      /\ q.made = m /\ q.taken = p.taken /\ q.stdout = n
      /\ q.open = p.open /\ q.cut = p.cut
  BY <1>1 DEF ProcRecord
<1> HIDE DEF q
<1>4. Sound(q)
  BY <1>1, <1>2, <1>3 DEF Sound, CanWrite, Alive, ProcRecord
<1> QED
  BY <1>3, <1>4 DEF q, Same

\* A block is read from stdout
LEMMA OutputTaken ==
    ASSUME NEW p, Sound(p), p.reader = "read",
           NEW n \in Nat, NEW m \in Nat, n = p.stdout - 1, m = p.taken + 1
    PROVE  LET q == [p EXCEPT !.stdout = n, !.taken = m]
           IN  Sound(q) /\ Same(p, q)
<1> DEFINE q == [p EXCEPT !.stdout = n, !.taken = m]
<1>1. p \in ProcRecord
  BY DEF Sound
<1>2. q \in ProcRecord
  BY <1>1 DEF ProcRecord
<1>3. /\ q.shell = p.shell /\ q.left = p.left /\ q.waiter = p.waiter
      /\ q.timed = p.timed /\ q.form = p.form /\ q.reader = p.reader
      /\ q.made = p.made /\ q.taken = m /\ q.stdout = n
      /\ q.open = p.open /\ q.cut = p.cut
  BY <1>1 DEF ProcRecord
<1> HIDE DEF q
<1>4. Sound(q)
  BY <1>1, <1>2, <1>3 DEF Sound, CanWrite, Alive, ProcRecord
<1> QED
  BY <1>3, <1>4 DEF q, Same

\* The process left behind starts, leaves the group or ends
LEMMA LeftMoves ==
    ASSUME NEW p, Sound(p), NEW l \in Lefts,
           l = "run" => p.shell = "run", l = "away" => p.left = "run"
    PROVE  LET q == [p EXCEPT !.left = l]
           IN  Sound(q) /\ Same(p, q)
<1> DEFINE q == [p EXCEPT !.left = l]
<1>1. p \in ProcRecord
  BY DEF Sound
<1>2. q \in ProcRecord
  BY <1>1 DEF ProcRecord
<1>3. /\ q.shell = p.shell /\ q.left = l /\ q.waiter = p.waiter
      /\ q.timed = p.timed /\ q.form = p.form /\ q.reader = p.reader
      /\ q.made = p.made /\ q.taken = p.taken /\ q.stdout = p.stdout
      /\ q.open = p.open /\ q.cut = p.cut
  BY <1>1 DEF ProcRecord
<1> HIDE DEF q
<1>4. Sound(q)
  BY <1>1, <1>2, <1>3 DEF Sound, CanWrite, Alive, ProcRecord
<1> QED
  BY <1>3, <1>4 DEF q, Same

\* The waiter goes on to terminate the group, or gives up
LEMMA WaiterMoves ==
    ASSUME NEW p, Sound(p), NEW w \in {"term", "grace", "error"},
           ~(p.form = "capture" /\ p.reader = "read")
    PROVE  LET q == [p EXCEPT !.waiter = w]
           IN  Sound(q) /\ q.waiter = w
<1> DEFINE q == [p EXCEPT !.waiter = w]
<1>1. p \in ProcRecord
  BY DEF Sound
<1>2. q \in ProcRecord
  BY <1>1 DEF ProcRecord, Waiters
<1>3. /\ q.shell = p.shell /\ q.left = p.left /\ q.waiter = w
      /\ q.timed = p.timed /\ q.form = p.form /\ q.reader = p.reader
      /\ q.made = p.made /\ q.taken = p.taken /\ q.stdout = p.stdout
      /\ q.open = p.open /\ q.cut = p.cut
  BY <1>1 DEF ProcRecord
<1> HIDE DEF q
<1>4. Sound(q)
  BY <1>1, <1>2, <1>3 DEF Sound, CanWrite, Alive, ProcRecord
<1> QED
  BY <1>3, <1>4 DEF q

\* The waiter sees that TIMEOUT is over
LEMMA WaiterTimes ==
    ASSUME NEW p, Sound(p), ~(p.form = "capture" /\ p.reader = "read")
    PROVE  LET q == [p EXCEPT !.waiter = "term", !.timed = TRUE]
           IN  Sound(q) /\ q.waiter = "term"
<1> DEFINE q == [p EXCEPT !.waiter = "term", !.timed = TRUE]
<1>1. p \in ProcRecord
  BY DEF Sound
<1>2. q \in ProcRecord
  BY <1>1 DEF ProcRecord, Waiters
<1>3. /\ q.shell = p.shell /\ q.left = p.left /\ q.waiter = "term"
      /\ q.timed = TRUE /\ q.form = p.form /\ q.reader = p.reader
      /\ q.made = p.made /\ q.taken = p.taken /\ q.stdout = p.stdout
      /\ q.open = p.open /\ q.cut = p.cut
  BY <1>1 DEF ProcRecord
<1> HIDE DEF q
<1>4. Sound(q)
  BY <1>1, <1>2, <1>3 DEF Sound, CanWrite, Alive, ProcRecord
<1> QED
  BY <1>3, <1>4 DEF q

\* Processes are killed, and the waiter may know it
LEMMA KilledSound ==
    ASSUME NEW p, Sound(p), NEW w \in Waiters, NEW shell \in BOOLEAN, NEW left \in BOOLEAN,
           ~(p.form = "capture" /\ p.reader = "read"),
           shell => p.shell = "run", w \in {p.waiter, "grace", "reap"},
           w = "reap" => (p.shell = "run" => shell) /\ (p.left = "run" => left)
    PROVE  LET q == [Killed(p, shell, left) EXCEPT !.waiter = w]
           IN  /\ Sound(q) /\ q.waiter = w /\ q.reader = p.reader /\ q.timed = p.timed
               /\ q.cut => p.cut \/ CanWrite(p)
<1> DEFINE q == [Killed(p, shell, left) EXCEPT !.waiter = w]
<1>1. p \in ProcRecord
  BY DEF Sound
<1> DEFINE a == IF shell THEN "zombie" ELSE p.shell
           b == IF shell THEN "signal" ELSE p.status
           l == IF left THEN "gone" ELSE p.left
           k == p.cut \/ ((shell \/ left) /\ CanWrite(p))
<1>5. /\ k \in BOOLEAN /\ (k => p.cut \/ CanWrite(p)) /\ (p.cut => k)
      /\ (shell => a = "zombie") /\ (~shell => a = p.shell)
      /\ (left => l = "gone") /\ (~left => l = p.left)
  BY Zenon
<1>6. a \in Shells /\ b \in Statuses /\ l \in Lefts
  BY <1>1 DEF ProcRecord, Shells, Statuses, Lefts
<1>7. q = [p EXCEPT !.shell = a, !.status = b, !.left = l, !.cut = k, !.waiter = w]
  BY <1>1 DEF Killed, ProcRecord
<1> HIDE DEF a, b, l, k
<1>2. q \in ProcRecord
  BY <1>1, <1>5, <1>6, <1>7 DEF ProcRecord
<1>3. /\ q.shell = a /\ q.left = l /\ q.cut = k
      /\ q.waiter = w /\ q.timed = p.timed /\ q.form = p.form /\ q.reader = p.reader
      /\ q.made = p.made /\ q.taken = p.taken /\ q.stdout = p.stdout /\ q.open = p.open
  BY <1>1, <1>7 DEF ProcRecord
<1> HIDE DEF q
<1>4. Sound(q)
  BY <1>2, <1>3, <1>5 DEF Sound, CanWrite, Alive
<1> QED
  BY <1>3, <1>4, <1>5 DEF q

\* Time passes
LEMMA ClockMoves ==
    ASSUME NEW p, Sound(p), NEW n \in Nat
    PROVE  LET q == [p EXCEPT !.clock = n]
           IN  Sound(q) /\ Same(p, q)
<1> DEFINE q == [p EXCEPT !.clock = n]
<1>1. p \in ProcRecord
  BY DEF Sound
<1>2. q \in ProcRecord
  BY <1>1 DEF ProcRecord
<1>3. /\ q.shell = p.shell /\ q.left = p.left /\ q.waiter = p.waiter
      /\ q.timed = p.timed /\ q.form = p.form /\ q.reader = p.reader
      /\ q.made = p.made /\ q.taken = p.taken /\ q.stdout = p.stdout
      /\ q.open = p.open /\ q.cut = p.cut
  BY <1>1 DEF ProcRecord
<1> HIDE DEF q
<1>4. Sound(q)
  BY <1>1, <1>2, <1>3 DEF Sound, CanWrite, Alive, ProcRecord
<1> QED
  BY <1>3, <1>4 DEF q, Same

\* A process reads a block of its input.
LEMMA ChildReadsInv == ASSUME ProcInv, NEW c \in Cmds, ChildReads(c) PROVE ProcInv'
<1> DEFINE p == proc[c]
<1>1. p \in ProcRecord /\ Sound(p)
  BY DEF ProcInv
<1>2. PICK n \in Nat :
        proc' = [proc EXCEPT ![c] = [p EXCEPT !.writer = p.writer, !.stdin = n,
                                              !.unsent = p.unsent]]
  <2>1. /\ proc' = [proc EXCEPT ![c] = [p EXCEPT !.stdin = p.stdin - 1]]
        /\ p.stdin - 1 \in Nat
    BY <1>1 DEF ChildReads, ProcRecord
  <2>2. proc' = [proc EXCEPT ![c] = [p EXCEPT !.writer = p.writer, !.stdin = p.stdin - 1,
                                              !.unsent = p.unsent]]
    BY <1>1, <2>1 DEF ProcInv, ProcRecord
  <2> QED
    BY <2>1, <2>2
<1>3. p.writer \in Writers /\ p.unsent \in Nat /\ faults' = faults /\ signal' = signal
  BY <1>1 DEF ChildReads, ProcRecord
<1> QED
  BY <1>1, <1>2, <1>3, InputMoves, OneStays

\* A process writes, or finds that nobody reads.
LEMMA ChildWritesInv == ASSUME ProcInv, NEW c \in Cmds, ChildWrites(c) PROVE ProcInv'
<1> DEFINE p == proc[c]
<1>1. p \in ProcRecord /\ Sound(p)
  BY DEF ProcInv
<1> faults' = faults /\ signal' = signal
  BY DEF ChildWrites
<1>2. CASE p.reader = "read" /\ proc' = [proc EXCEPT ![c].stdout = @ + 1, ![c].made = @ + 1]
  <2>1. p.stdout + 1 \in Nat /\ p.made + 1 \in Nat
    BY <1>1 DEF ProcRecord
  <2>2. proc' = [proc EXCEPT ![c] = [p EXCEPT !.stdout = p.stdout + 1, !.made = p.made + 1]]
    BY <1>1, <1>2 DEF ProcInv
  <2>3. \A n, m \in Nat : n = p.stdout + 1 /\ m = p.made + 1 =>
            LET q == [p EXCEPT !.stdout = n, !.made = m] IN Sound(q) /\ Same(p, q)
    BY <1>1, <1>2, OutputMade
  <2> QED
    BY <2>1, <2>2, <2>3, OneStays
<1>3. ASSUME NEW shell \in BOOLEAN, NEW left \in BOOLEAN, p.reader # "read", CanWrite(p),
             shell => p.shell = "run", proc' = [proc EXCEPT ![c] = Killed(p, shell, left)]
      PROVE  ProcInv'
  <2> DEFINE q == [Killed(p, shell, left) EXCEPT !.waiter = p.waiter]
  <2>1. q = Killed(p, shell, left)
    BY <1>1 DEF Killed, ProcRecord
  <2>2. Sound(q) /\ q.waiter = p.waiter /\ q.reader = p.reader
    BY <1>1, <1>3, KilledSound DEF Sound, ProcRecord
  <2> HIDE DEF q
  <2>3. p.reader \in {"late", "failed"}
    BY <1>1, <1>3 DEF Sound, ProcRecord, Readers, CanWrite
  <2> QED
    BY <1>3, <2>1, <2>2, <2>3, OneMoves DEF Excused
<1> QED
  BY <1>2, <1>3 DEF ChildWrites

\* Stdout is closed by the last process that has it open.
LEMMA ChildClosesInv == ASSUME ProcInv, NEW c \in Cmds, ChildCloses(c) PROVE ProcInv'
<1> DEFINE p == proc[c]
           q == [p EXCEPT !.open = FALSE]
<1>1. p \in ProcRecord /\ Sound(p) /\ faults' = faults /\ signal' = signal
  BY DEF ProcInv, ChildCloses
<1>2. q \in ProcRecord
  BY <1>1 DEF ProcRecord
<1>3. /\ q.shell = p.shell /\ q.left = p.left /\ q.waiter = p.waiter
      /\ q.timed = p.timed /\ q.form = p.form /\ q.reader = p.reader
      /\ q.made = p.made /\ q.taken = p.taken /\ q.stdout = p.stdout
      /\ q.open = FALSE /\ q.cut = p.cut
  BY <1>1 DEF ProcRecord
<1>4. proc' = [proc EXCEPT ![c] = q]
  BY DEF ChildCloses
<1> HIDE DEF q
<1>5. Sound(q) /\ Same(p, q)
  BY <1>1, <1>2, <1>3 DEF Sound, CanWrite, Same
<1> QED
  BY <1>1, <1>4, <1>5, OneStays

\* The shell leaves a process behind.
LEMMA ShellLeavesProcessInv == ASSUME ProcInv, NEW c \in Cmds, ShellLeavesProcess(c) PROVE ProcInv'
<1> DEFINE p == proc[c]
<1>1. p \in ProcRecord /\ Sound(p)
  BY DEF ProcInv
<1> QED
  BY <1>1, LeftMoves, OneStays DEF ShellLeavesProcess, Lefts

\* That process leaves the group.
LEMMA LeavesGroupInv == ASSUME ProcInv, NEW c \in Cmds, LeavesGroup(c) PROVE ProcInv'
<1> DEFINE p == proc[c]
<1>1. p \in ProcRecord /\ Sound(p)
  BY DEF ProcInv
<1> QED
  BY <1>1, LeftMoves, OneStays DEF LeavesGroup, Lefts

\* The shell or the process it left ends.
LEMMA ChildEndsInv == ASSUME ProcInv, NEW c \in Cmds, ChildEnds(c) PROVE ProcInv'
<1> DEFINE p == proc[c]
<1>1. p \in ProcRecord /\ Sound(p)
  BY DEF ProcInv
<1>2. faults' = faults /\ signal' = signal
  BY DEF ChildEnds
<1>3. ASSUME NEW status \in {"zero", "nonzero", "signal"}, p.shell = "run",
             proc' = [proc EXCEPT ![c] = ShellDies(p, status)]
      PROVE  ProcInv'
  BY <1>1, <1>2, <1>3, ShellDiesSound, OneStays
<1>4. CASE proc' = [proc EXCEPT ![c].left = "gone"]
  BY <1>1, <1>2, <1>4, LeftMoves, OneStays DEF Lefts
<1> QED
  BY <1>3, <1>4 DEF ChildEnds

\* The writer writes a block, ends, or fails.
LEMMA WriteInputInv == ASSUME ProcInv, NEW c \in Cmds, WriteInput(c) PROVE ProcInv'
<1> DEFINE p == proc[c]
<1>1. p \in ProcRecord /\ Sound(p)
  BY DEF ProcInv
<1>2. PICK w \in Writers, n \in Nat, u \in Nat :
        proc' = [proc EXCEPT ![c] = [p EXCEPT !.writer = w, !.stdin = n, !.unsent = u]]
  <2>1. CASE proc' = [proc EXCEPT ![c].writer = "complete", ![c].stdin = 0]
    <3>1. proc' = [proc EXCEPT ![c] =
                     [p EXCEPT !.writer = "complete", !.stdin = 0, !.unsent = p.unsent]]
      BY <1>1, <2>1 DEF ProcInv, ProcRecord
    <3> QED
      BY <1>1, <3>1 DEF ProcRecord, Writers
  <2>2. CASE p.unsent > 0 /\ proc' = [proc EXCEPT ![c].unsent = @ - 1, ![c].stdin = @ + 1]
    <3>1. proc' = [proc EXCEPT ![c] = [p EXCEPT !.writer = p.writer, !.stdin = p.stdin + 1,
                                                !.unsent = p.unsent - 1]]
      BY <1>1, <2>2 DEF ProcInv, ProcRecord
    <3>2. p.unsent - 1 \in Nat /\ p.stdin + 1 \in Nat /\ p.writer \in Writers
      BY <1>1, <2>2 DEF ProcRecord
    <3> QED
      BY <3>1, <3>2
  <2>3. CASE proc' = [proc EXCEPT ![c].writer = "failed", ![c].stdin = 0, ![c].unsent = 0]
    <3>1. proc' = [proc EXCEPT ![c] = [p EXCEPT !.writer = "failed", !.stdin = 0, !.unsent = 0]]
      BY <1>1, <2>3 DEF ProcInv, ProcRecord
    <3> QED
      BY <3>1 DEF Writers
  <2> QED
    BY <2>1, <2>2, <2>3 DEF WriteInput
<1>3. faults' = faults /\ signal' = signal
  BY DEF WriteInput
<1> QED
  BY <1>1, <1>2, <1>3, InputMoves, OneStays

\* The reader takes a block, ends at the end of the output, or fails.
LEMMA ReadOutputInv == ASSUME ProcInv, NEW c \in Cmds, ReadOutput(c) PROVE ProcInv'
<1> DEFINE p == proc[c]
<1>1. p \in ProcRecord /\ Sound(p)
  BY DEF ProcInv
<1> faults' = faults /\ signal' = signal
  BY DEF ReadOutput
<1>2. CASE p.stdout > 0 /\ proc' = [proc EXCEPT ![c].stdout = @ - 1, ![c].taken = @ + 1]
  <2>1. p.stdout - 1 \in Nat /\ p.taken + 1 \in Nat
    BY <1>1, <1>2 DEF ProcRecord
  <2>2. proc' = [proc EXCEPT ![c] = [p EXCEPT !.stdout = p.stdout - 1, !.taken = p.taken + 1]]
    BY <1>1, <1>2 DEF ProcInv
  <2>3. \A n, m \in Nat : n = p.stdout - 1 /\ m = p.taken + 1 =>
            LET q == [p EXCEPT !.stdout = n, !.taken = m] IN Sound(q) /\ Same(p, q)
    BY <1>1, <1>2, OutputTaken DEF ReadOutput
  <2> QED
    BY <2>1, <2>2, <2>3, OneStays
<1>3. ASSUME NEW how \in {"complete", "late", "failed"},
             how = "complete" => p.stdout = 0 /\ ~CanWrite(p),
             proc' = [proc EXCEPT ![c] = ReaderEnds(p, how)]
      PROVE  ProcInv'
  <2> DEFINE q == ReaderEnds(p, how)
  <2>1. /\ Sound(q) /\ (q.waiter = "error" => p.waiter = "error")
        /\ Ended(q) => Excused(q) \/ (Ended(p) /\ ~Excused(p))
    BY <1>1, <1>3, ReaderEndsSound DEF ReadOutput
  <2> HIDE DEF q
  <2>2. Ended(q) => signal \/ Excused(q)
    BY <2>1 DEF ProcInv
  <2> QED
    BY <1>3, <2>1, <2>2, OneMoves DEF q
<1> QED
  BY <1>2, <1>3 DEF ReadOutput

\* The waiter polls: a signal, the end of the shell, or TIMEOUT.
LEMMA WaitPollInv == ASSUME ProcInv, NEW c \in Cmds, WaitPoll(c) PROVE ProcInv'
<1> DEFINE p == proc[c]
<1>1. p \in ProcRecord /\ Sound(p)
  BY DEF ProcInv
<1>2. /\ p.waiter = "poll" /\ ~(p.form = "capture" /\ p.reader = "read")
      /\ faults' = faults /\ signal' = signal
  BY <1>1 DEF WaitPoll, Sound
<1>3. CASE signal /\ proc' = [proc EXCEPT ![c].waiter = "term"]
  BY <1>1, <1>2, <1>3, WaiterMoves, OneMoves
<1>4. CASE p.shell = "zombie" /\ proc' = [proc EXCEPT ![c] = Reaped(p)]
  <2> DEFINE q == Reaped(p)
  <2>1. Sound(q) /\ q.waiter = "done" /\ (Ended(q) => Ended(p)) /\ (Excused(p) => Excused(q))
    BY <1>1, <1>2, <1>4, ReapedSound
  <2> HIDE DEF q
  <2>2. Ended(q) => signal \/ Excused(q)
    BY <2>1 DEF ProcInv
  <2> QED
    BY <1>2, <1>4, <2>1, <2>2, OneMoves DEF q
<1>5. CASE proc' = [proc EXCEPT ![c].waiter = "term", ![c].timed = TRUE]
  <2> DEFINE q == [p EXCEPT !.waiter = "term", !.timed = TRUE]
  <2>1. proc' = [proc EXCEPT ![c] = q] /\ q.timed
    BY <1>1, <1>5 DEF ProcInv, ProcRecord
  <2>2. Sound(q) /\ q.waiter = "term"
    BY <1>1, <1>2, WaiterTimes
  <2> HIDE DEF q
  <2> QED
    BY <1>2, <2>1, <2>2, OneMoves DEF Excused
<1> QED
  BY <1>3, <1>4, <1>5 DEF WaitPoll

\* A signal goes to the group, some or all of which ends.
LEMMA GroupKilled ==
    ASSUME ProcInv, NEW c \in Cmds, proc[c].waiter \in {"term", "grace"},
           faults' = faults, signal' = signal, NEW shell \in BOOLEAN, NEW left \in BOOLEAN,
           NEW w \in {"grace", "reap"},
           shell => proc[c].shell = "run",
           w = "reap" => (proc[c].shell = "run" => shell) /\ (proc[c].left = "run" => left),
           proc' = [proc EXCEPT ![c] = [Killed(proc[c], shell, left) EXCEPT !.waiter = w]]
    PROVE  ProcInv'
<1> DEFINE p == proc[c]
           q == [Killed(p, shell, left) EXCEPT !.waiter = w]
<1>1. Sound(p) /\ w \in Waiters
  BY DEF ProcInv, Waiters
<1>2. ~(p.form = "capture" /\ p.reader = "read")
  BY <1>1 DEF Sound
<1>3. Sound(q) /\ q.waiter = w /\ q.reader = p.reader /\ q.timed = p.timed
  BY <1>1, <1>2, KilledSound
<1> HIDE DEF q
<1>4. Ended(q) => signal \/ Excused(q)
  BY <1>3 DEF ProcInv, Ended, Excused
<1> QED
  BY <1>3, <1>4, OneMoves DEF q

\* SIGTERM goes to the group, and some of it may end.
LEMMA SendTermInv == ASSUME ProcInv, NEW c \in Cmds, SendTerm(c) PROVE ProcInv'
<1>1. PICK shell \in BOOLEAN, left \in BOOLEAN :
        /\ shell => proc[c].shell = "run"
        /\ proc' = [proc EXCEPT ![c] = [Killed(proc[c], shell, left) EXCEPT !.waiter = "grace"]]
  BY DEF SendTerm
<1> QED
  BY <1>1, GroupKilled DEF SendTerm

\* SIGKILL goes to the group: no process is left running in it.
LEMMA SendKillInv == ASSUME ProcInv, NEW c \in Cmds, SendKill(c) PROVE ProcInv'
  BY GroupKilled DEF SendKill

\* The shell that was killed is waited for.
LEMMA ReapInv == ASSUME ProcInv, NEW c \in Cmds, Reap(c) PROVE ProcInv'
<1> DEFINE p == proc[c]
           q == Reaped(p)
<1>1. Sound(p) /\ proc' = [proc EXCEPT ![c] = q] /\ faults' = faults /\ signal' = signal
  BY DEF ProcInv, Reap
<1>2. Sound(q) /\ q.waiter = "done" /\ (Ended(q) => Ended(p)) /\ (Excused(p) => Excused(q))
  BY <1>1, ReapedSound DEF Reap
<1> HIDE DEF q
<1>3. Ended(q) => signal \/ Excused(q)
  BY <1>2 DEF ProcInv
<1> QED
  BY <1>1, <1>2, <1>3, OneMoves

\* The waiter gives up with an error, which counts as a fault.
LEMMA WaitFailsInv == ASSUME ProcInv, NEW c \in Cmds, WaitFails(c) PROVE ProcInv'
<1> DEFINE p == proc[c]
           q == [p EXCEPT !.waiter = "error"]
<1>1. p \in ProcRecord /\ Sound(p) /\ faults \in Nat /\ faults' = faults + 1 /\ signal' = signal
  BY DEF ProcInv, WaitFails
<1>2. ~(p.form = "capture" /\ p.reader = "read")
  BY <1>1 DEF WaitFails, Sound
<1>3. Sound(q)
  BY <1>1, <1>2, WaiterMoves
<1>4. proc' = [proc EXCEPT ![c] = q]
  BY DEF WaitFails
<1>5. q.waiter = "error" /\ q.cut = p.cut /\ q.timed = p.timed /\ q.reader = p.reader
  BY <1>1 DEF ProcRecord
<1> HIDE DEF q
<1>6. Ended(q) => signal \/ Excused(q)
  BY <1>5 DEF ProcInv, Ended, Excused
<1> QED
  BY <1>1, <1>3, <1>4, <1>6 DEF ProcInv, Sound

\* Time passes for all commands at once.
LEMMA TickInv == ASSUME ProcInv, Tick PROVE ProcInv'
<1>1. PICK timed \in SUBSET Cmds :
        proc' = [c \in Cmds |-> IF c \in timed THEN [proc[c] EXCEPT !.clock = @ + 1] ELSE proc[c]]
  BY DEF Tick
<1>2. ASSUME NEW c \in Cmds
      PROVE  Sound(proc'[c]) /\ Same(proc[c], proc'[c])
  <2>1. Sound(proc[c]) /\ proc[c].clock + 1 \in Nat
    BY DEF ProcInv, ProcRecord
  <2>2. proc'[c] = proc[c] \/ proc'[c] = [proc[c] EXCEPT !.clock = proc[c].clock + 1]
    BY <1>1
  <2> QED
    <3>1. CASE proc'[c] = proc[c]
      BY <2>1, <3>1, Zenon DEF Same
    <3>2. CASE proc'[c] = [proc[c] EXCEPT !.clock = proc[c].clock + 1]
      BY <2>1, <3>2, ClockMoves
    <3> QED
      BY <2>2, <3>1, <3>2, Zenon
<1>3. \A c \in Cmds : Ended(proc'[c]) => signal \/ Excused(proc'[c])
  BY <1>2 DEF ProcInv, Same, Ended, Excused
<1> QED
  BY <1>1, <1>2, <1>3 DEF ProcInv, Sound, Same, Tick

\* A step of the processes or of our threads keeps the invariant.
LEMMA ProcNextInv == ASSUME ProcInv, ProcNext PROVE ProcInv'
  BY ChildReadsInv, ChildWritesInv, ChildClosesInv, ShellLeavesProcessInv, LeavesGroupInv, ChildEndsInv,
     WriteInputInv, ReadOutputInv, WaitPollInv, SendTermInv, SendKillInv, ReapInv,
     WaitFailsInv, TickInv
  DEF ProcNext, Children, Writer, Reader, Waiter, SignalArrives, ProcInv

-----------------------------------------------------------------------------
(* The runner.                                                             *)

Stages == {"next", "run", "finish", "trap", "exit"}
Results == {"none", "accepted", "failed", "fatal"}
Returning == {"expand", "capture", "filter"}

\* Somebody is going to wait for the shell of command c: the request being
\* worked on, the trap, or finish_background.
Attended(c) ==
    \/ stage = "run" /\ c = at
    \/ stage = "trap" /\ c = Trap
    \/ \E i \in DOMAIN background : background[i] = c

RunnerType ==
    /\ script \in Scripts
    /\ at \in 1 .. Trap
    /\ stage \in Stages
    /\ stage = "run" => at < Trap
    /\ result \in [Cmds -> Results]
    /\ background \in Seq(Cmds)
    /\ stage \in {"trap", "exit"} => background = <<>>

\* What request r returned by process p was read to its end, and is cut off only
\* where TIMEOUT killed a filter whose status is ignored.
Whole(r, p) ==
    /\ p.reader = "complete" /\ p.waiter = "done"
    /\ p.cut => r.form = "filter" /\ r.childStatus = "ignore" /\ p.timed

\* Only a request that was worked on is accepted, with all that it returned.
AcceptedComplete ==
    \A c \in Cmds : result[c] = "accepted" =>
        /\ c \in 1 .. at - 1
        /\ script.requests[c].form \in Returning => Whole(script.requests[c], proc[c])

\* Without a fault every shell that was started and not reaped is attended to,
\* under its lock.
Attendance ==
    faults = 0 =>
        \A c \in Cmds : proc[c].shell \in {"run", "zombie"} =>
            /\ Attended(c)
            /\ c \in 1 .. Trap
            /\ c < Trap /\ script.requests[c].lock => c \in locked

RunnerInv == ProcInv /\ RunnerType /\ AcceptedComplete /\ Attendance

\* The output of p was read to its end and its shell waited for.
Over(p) == p.reader = "complete" /\ p.waiter = "done"

\* What a step of the processes or of our threads never does: start a shell,
\* touch a command that is over, or take back a fault.
LEMMA ProcStays ==
    ASSUME ProcInv, ProcNext, NEW d \in Cmds
    PROVE  /\ Over(proc[d]) => Same(proc[d], proc'[d])
           /\ proc'[d].shell \in {"run", "zombie"} => proc[d].shell \in {"run", "zombie"}
           /\ faults' = 0 => faults = 0
<1> DEFINE Stays == /\ Over(proc[d]) => Same(proc[d], proc'[d])
                    /\ proc'[d].shell \in {"run", "zombie"} => proc[d].shell \in {"run", "zombie"}
                    /\ faults' = 0 => faults = 0
<1> USE DEF Over, Same
<1>1. proc \in [Cmds -> ProcRecord] /\ faults \in Nat
  BY DEF ProcInv
<1>2. CASE SignalArrives
  BY <1>2 DEF SignalArrives
<1>3. CASE Tick
  BY <1>1, <1>3 DEF Tick, ProcRecord
<1>4. ASSUME NEW c \in Cmds, Children(c) PROVE Stays
  <2>1. CASE ChildReads(c)
    BY <1>1, <2>1 DEF ChildReads, ProcRecord
  <2>2. CASE ChildWrites(c)
    <3>1. CASE proc' = [proc EXCEPT ![c].stdout = @ + 1, ![c].made = @ + 1]
      BY <1>1, <2>2, <3>1 DEF ChildWrites, ProcRecord
    <3>2. proc[c].reader # "complete"
      BY <2>2 DEF ChildWrites, ProcInv, Sound
    <3>3. CASE proc[c].shell = "run" /\ proc' = [proc EXCEPT ![c] = Killed(proc[c], TRUE, FALSE)]
      BY <1>1, <2>2, <3>2, <3>3 DEF ChildWrites, Killed, ProcRecord
    <3>4. CASE proc' = [proc EXCEPT ![c] = Killed(proc[c], FALSE, TRUE)]
      BY <1>1, <2>2, <3>2, <3>4 DEF ChildWrites, Killed, ProcRecord
    <3> QED
      BY <2>2, <3>1, <3>3, <3>4 DEF ChildWrites
  <2>3. CASE ChildCloses(c) \/ ShellLeavesProcess(c) \/ LeavesGroup(c)
    BY <1>1, <2>3 DEF ChildCloses, ShellLeavesProcess, LeavesGroup, ProcRecord
  <2>4. CASE ChildEnds(c)
    <3>1. ASSUME NEW st, proc[c].shell = "run",
                 proc' = [proc EXCEPT ![c] = ShellDies(proc[c], st)]
          PROVE  Stays
      BY <1>1, <2>4, <3>1 DEF ChildEnds, ShellDies, ProcRecord
    <3>2. CASE proc' = [proc EXCEPT ![c].left = "gone"]
      BY <1>1, <2>4, <3>2 DEF ChildEnds, ProcRecord
    <3> QED
      BY <2>4, <3>1, <3>2 DEF ChildEnds
  <2> QED
    BY <1>4, <2>1, <2>2, <2>3, <2>4 DEF Children
<1>5. ASSUME NEW c \in Cmds, WriteInput(c) PROVE Stays
  BY <1>1, <1>5 DEF WriteInput, ProcRecord
<1>6. ASSUME NEW c \in Cmds, ReadOutput(c) PROVE Stays
  <2>1. CASE proc' = [proc EXCEPT ![c].stdout = @ - 1, ![c].taken = @ + 1]
    BY <1>1, <1>6, <2>1 DEF ReadOutput, ProcRecord
  <2>2. ASSUME NEW how, proc' = [proc EXCEPT ![c] = ReaderEnds(proc[c], how)] PROVE Stays
    BY <1>1, <1>6, <2>2 DEF ReadOutput, ReaderEnds, ProcRecord
  <2> QED
    BY <1>6, <2>1, <2>2 DEF ReadOutput
<1>7. ASSUME NEW c \in Cmds, WaitPoll(c) PROVE Stays
  <2>1. CASE proc' = [proc EXCEPT ![c].waiter = "term"]
    BY <1>1, <1>7, <2>1 DEF WaitPoll, ProcRecord
  <2>2. CASE proc' = [proc EXCEPT ![c] = Reaped(proc[c])]
    BY <1>1, <1>7, <2>2 DEF WaitPoll, Reaped, ProcRecord
  <2>3. CASE proc' = [proc EXCEPT ![c].waiter = "term", ![c].timed = TRUE]
    <3>1. faults' = faults /\ proc[c].waiter # "done"
      BY <1>7, Zenon DEF WaitPoll
    <3>2. /\ d # c => proc'[d] = proc[d]
          /\ proc'[c].shell = proc[c].shell
      BY <1>1, <2>3 DEF ProcRecord
    <3> QED
      BY <3>1, <3>2, Zenon
  <2> QED
    BY <1>7, <2>1, <2>2, <2>3 DEF WaitPoll
<1>8. ASSUME NEW c \in Cmds, SendTerm(c) PROVE Stays
  <2>1. PICK shell \in {FALSE, proc[c].shell = "run"}, left \in {FALSE, proc[c].left = "run"} :
          proc' = [proc EXCEPT ![c] = [Killed(proc[c], shell, left) EXCEPT !.waiter = "grace"]]
    BY <1>8, Zenon DEF SendTerm
  <2>2. faults' = faults /\ proc[c].waiter # "done" /\ (shell => proc[c].shell = "run")
    BY <1>8, Zenon DEF SendTerm
  <2>3. /\ d # c => proc'[d] = proc[d]
        /\ proc'[c].shell = IF shell THEN "zombie" ELSE proc[c].shell
    BY <1>1, <2>1 DEF Killed, ProcRecord
  <2> QED
    BY <2>2, <2>3, Zenon
<1>9. ASSUME NEW c \in Cmds, SendKill(c) PROVE Stays
  BY <1>1, <1>9 DEF SendKill, Killed, ProcRecord
<1>10. ASSUME NEW c \in Cmds, Reap(c) PROVE Stays
  BY <1>1, <1>10 DEF Reap, Reaped, ProcRecord
<1>11. ASSUME NEW c \in Cmds, WaitFails(c) PROVE Stays
  BY <1>1, <1>11 DEF WaitFails, ProcRecord
<1> QED
  BY <1>2, <1>3, <1>4, <1>5, <1>6, <1>7, <1>8, <1>9, <1>10, <1>11
  DEF ProcNext, Writer, Reader, Waiter

\* The requests of a script are numbered from 1 and are commands.
LEMMA ScriptType ==
    ASSUME script \in Scripts
    PROVE  /\ Trap \in Nat /\ Trap >= 1 /\ Trap = Len(script.requests) + 1
           /\ 1 .. Trap \subseteq Cmds
           /\ \A c \in 1 .. Trap - 1 : script.requests[c] \in RequestSpec
<1>1. script.requests \in Seq(RequestSpec) /\ 1 .. Len(script.requests) + 1 \subseteq Cmds
  BY CommandRunnerAssumption
<1>2. Len(script.requests) \in Nat
  BY <1>1
<1> HIDE DEF RequestSpec
<1> QED
  BY <1>1, <1>2 DEF Trap

\* The invariant holds before the first request.
LEMMA InitRunner == Init => RunnerInv
<1> SUFFICES ASSUME Init PROVE RunnerInv
  OBVIOUS
<1>1. ProcInv
  BY InitProc DEF Init
<1>2. Trap \in Nat /\ Trap >= 1
  BY ScriptType DEF Init
<1>3. RunnerType
  BY <1>2 DEF Init, RunnerType, Stages, Results
<1>4. AcceptedComplete
  BY DEF Init, AcceptedComplete
<1>5. Attendance
  BY DEF Init, ProcInit, NotStarted, Attendance
<1> QED
  BY <1>1, <1>3, <1>4, <1>5 DEF RunnerInv

\* A step of the commands leaves what the runner knows true.
LEMMA CommandStep ==
    ASSUME RunnerInv, ProcNext, UNCHANGED runnerVars
    PROVE  RunnerInv'
<1>1. ProcInv'
  BY ProcNextInv DEF RunnerInv
<1>2. RunnerType'
  BY DEF RunnerInv, RunnerType, runnerVars, Trap
<1>3. AcceptedComplete'
  BY ProcStays DEF RunnerInv, AcceptedComplete, Whole, Over, Same, runnerVars
<1>4. Attendance'
  BY ProcStays DEF RunnerInv, Attendance, Attended, runnerVars, Trap
<1> QED
  BY <1>1, <1>2, <1>3, <1>4 DEF RunnerInv

\* The answer to the request being worked on, with nobody else starting or ending:
\* an accepted one that returned something was read to its end, and the shell of
\* this request is reaped or stays attended to.
LEMMA AnswerKeeps ==
    ASSUME RunnerInv, at < Trap, NEW what \in Results, Answer(at, what),
           UNCHANGED <<procVars, script>>,
           what = "accepted" /\ script.requests[at].form \in Returning /\ ~signal
               => Whole(script.requests[at], proc[at]),
           background' \in Seq(Cmds), background \in Seq(Cmds),
           \A i \in DOMAIN background : \E j \in DOMAIN background' : background'[j] = background[i],
           \A c \in Cmds : c \in locked => 
               c \in locked' \/ (c = at /\ (faults = 0 => proc[at].shell = "reaped")),
           stage = "run" /\ faults = 0 /\ proc[at].shell \in {"run", "zombie"} =>
               \E j \in DOMAIN background' : background'[j] = at,
           stage \in {"next", "run"}
    PROVE  RunnerInv'
<1>1. ProcInv'
  BY DEF RunnerInv, ProcInv, procVars
<1>2. /\ script \in Scripts /\ script' = script /\ Trap' = Trap
      /\ Trap \in Nat /\ at \in 1 .. Trap - 1 /\ at \in Cmds /\ at' = at + 1
  <2>1. script \in Scripts /\ at \in 1 .. Trap /\ at' = at + 1
    BY DEF RunnerInv, RunnerType, Answer
  <2>2. script' = script /\ Trap' = Trap
    BY Zenon DEF Trap
  <2>3. Trap \in Nat /\ Trap \in Cmds /\ 1 .. Trap \subseteq Cmds
    BY <2>1, ScriptType
  <2> QED
    BY <2>1, <2>2, <2>3
<1>3. RunnerType'
  BY <1>2 DEF RunnerInv, RunnerType, Answer, Stages, Results
<1>4. AcceptedComplete'
  <2> SUFFICES ASSUME NEW c \in Cmds, result'[c] = "accepted"
               PROVE  /\ c \in 1 .. at' - 1
                      /\ script.requests[c].form \in Returning
                            => Whole(script.requests[c], proc[c])
    BY <1>2 DEF AcceptedComplete, procVars
  <2>1. CASE c = at
    BY <1>2, <2>1 DEF RunnerInv, RunnerType, Answer
  <2>2. CASE c # at
    <3>1. result'[c] = result[c] /\ AcceptedComplete
      BY <2>2 DEF RunnerInv, RunnerType, Answer
    <3>2. c \in 1 .. at - 1
          /\ (script.requests[c].form \in Returning => Whole(script.requests[c], proc[c]))
      BY <3>1 DEF AcceptedComplete
    <3> QED
      BY <1>2, <3>2
  <2> QED
    BY <2>1, <2>2
<1>5. Attendance'
  <2> SUFFICES ASSUME faults = 0, NEW c \in Cmds, proc[c].shell \in {"run", "zombie"}
               PROVE  /\ Attended(c)'
                      /\ c \in 1 .. Trap
                      /\ c < Trap /\ script.requests[c].lock => c \in locked'
    BY <1>2 DEF Attendance, procVars
  <2>1. /\ Attended(c) /\ c \in 1 .. Trap
        /\ c < Trap /\ script.requests[c].lock => c \in locked
    BY DEF RunnerInv, Attendance
  <2>2. \E j \in DOMAIN background' : background'[j] = c
    BY <2>1 DEF Attended
  <2> QED
    BY <2>1, <2>2 DEF Attended
<1> QED
  BY <1>1, <1>3, <1>4, <1>5 DEF RunnerInv

\* Steps that change neither a process nor the queue nor what is locked
LEMMA StageKeeps ==
    ASSUME RunnerInv, stage \in {"next", "finish"}, stage' \in {"finish", "exit"},
           stage' = "exit" => background = <<>>,
           UNCHANGED <<procVars, script, at, result, background, locked>>
    PROVE  RunnerInv'
<1>1. ProcInv' /\ Trap' = Trap
  BY DEF RunnerInv, ProcInv, procVars, Trap
<1>2. RunnerType'
  BY <1>1 DEF RunnerInv, RunnerType, Stages
<1>3. AcceptedComplete'
  BY DEF RunnerInv, AcceptedComplete, procVars
<1>4. Attendance'
  BY <1>1 DEF RunnerInv, Attendance, Attended, procVars
<1> QED
  BY <1>1, <1>2, <1>3, <1>4 DEF RunnerInv

\* A command that could not be started was never attended to and holds no lock.
LEMMA StartFailsInv == ASSUME RunnerInv, StartFails PROVE RunnerInv'
<1>1. at < Trap
  BY ScriptType DEF RunnerInv, RunnerType, StartFails, Trap
<1> QED
  BY <1>1, AnswerKeeps DEF RunnerInv, RunnerType, StartFails, Results

\* A delivery to standard output has no process.
LEMMA WriteStdoutInv == ASSUME RunnerInv, WriteStdout PROVE RunnerInv'
<1>1. at < Trap
  BY ScriptType DEF RunnerInv, RunnerType, WriteStdout, Trap
<1>2. script.requests[at].form \notin Returning
  BY DEF WriteStdout, Request, Returning
<1> QED
  BY <1>1, <1>2, AnswerKeeps DEF RunnerInv, RunnerType, WriteStdout, Results

\* A waiter that returned without a fault has reaped its shell.
LEMMA ReturnedReaped ==
    ASSUME ProcInv, NEW c \in Cmds, WaiterDone(proc[c]), faults = 0
    PROVE  proc[c].shell = "reaped"
  BY DEF ProcInv, Sound, WaiterDone

\* The commands that are waited for: condition, capture, pipe and filter
LEMMA FinishKeeps ==
    ASSUME RunnerInv, NEW forms, NEW more \in BOOLEAN, Finish(forms, AcceptedRun, more)
    PROVE  RunnerInv'
<1>1. at < Trap /\ at \in Cmds /\ Trap \in Nat
  BY ScriptType DEF RunnerInv, RunnerType, Finish
<1>2. /\ stage = "run" /\ WaiterDone(proc[at])
      /\ UNCHANGED <<procVars, script, background>> /\ locked' = locked \ {at}
      /\ \/ Answer(at, IF AcceptedRun THEN "accepted" ELSE "failed")
         \/ Answer(at, "failed")
  BY DEF Finish, Returned
<1>3. PICK what \in {"accepted", "failed"} :
        Answer(at, what) /\ (what = "accepted" => AcceptedRun)
  BY <1>2
<1>4. AcceptedRun /\ script.requests[at].form \in Returning /\ ~signal
        => Whole(script.requests[at], proc[at])
  <2> SUFFICES ASSUME AcceptedRun, script.requests[at].form \in Returning, ~signal
               PROVE  Whole(script.requests[at], proc[at])
    OBVIOUS
  <2>1. proc[at].reader = "complete" /\ proc[at].waiter = "done"
    BY DEF AcceptedRun, Accepts, Request, Returning
  <2>2. proc[at].cut => proc[at].timed
    BY <1>1, <2>1 DEF RunnerInv, ProcInv, Ended, Excused
  <2>3. proc[at].timed => script.requests[at].form = "filter" /\ script.requests[at].childStatus = "ignore"
    BY DEF AcceptedRun, Accepts, RecipeAccepts, Outcome, ChildExit, Request, Returning
  <2> QED
    BY <2>1, <2>2, <2>3 DEF Whole
<1>5. faults = 0 => proc[at].shell = "reaped"
  BY <1>1, <1>2, ReturnedReaped DEF RunnerInv
<1> QED
  BY <1>1, <1>2, <1>3, <1>4, <1>5, AnswerKeeps DEF RunnerInv, RunnerType, Results

\* A command that is not waited for moves to the background list with its lock.
LEMMA RegisterBackgroundInv == ASSUME RunnerInv, RegisterBackground PROVE RunnerInv'
<1>1. at < Trap /\ at \in Cmds /\ Trap \in Nat
  BY ScriptType DEF RunnerInv, RunnerType, RegisterBackground
<1>2. /\ stage = "run" /\ background' = Append(background, at)
      /\ UNCHANGED <<procVars, script, locked>>
      /\ script.requests[at].form \notin Returning
  BY DEF RegisterBackground, Request, Returning
<1>3. PICK what \in {"accepted", "failed"} : Answer(at, what)
  BY DEF RegisterBackground
<1>4. background \in Seq(Cmds)
  BY DEF RunnerInv, RunnerType
<1>5. /\ background' \in Seq(Cmds)
      /\ \A i \in DOMAIN background : i \in DOMAIN background' /\ background'[i] = background[i]
      /\ Len(background) + 1 \in DOMAIN background' /\ background'[Len(background) + 1] = at
  BY <1>1, <1>2, <1>4
<1> QED
  BY <1>1, <1>2, <1>3, <1>4, <1>5, AnswerKeeps DEF Results

\* One background command is joined, or all are given up after a fault.
LEMMA JoinBackgroundInv == ASSUME RunnerInv, JoinBackground PROVE RunnerInv'
<1>1. /\ ProcInv' /\ Trap' = Trap /\ background \in Seq(Cmds) /\ background # <<>>
      /\ Head(background) \in Cmds
  BY DEF RunnerInv, RunnerType, ProcInv, procVars, Trap, JoinBackground
<1>2. RunnerType'
  <2>1. Tail(background) \in Seq(Cmds) /\ <<>> \in Seq(Cmds)
    BY <1>1
  <2>2. background' \in Seq(Cmds)
    BY <2>1 DEF JoinBackground
  <2> QED
    BY <1>1, <2>2 DEF RunnerInv, RunnerType, JoinBackground
<1>3. AcceptedComplete'
  BY DEF RunnerInv, AcceptedComplete, procVars, JoinBackground
<1>4. Attendance'
  <2> SUFFICES ASSUME faults = 0, NEW c \in Cmds, proc[c].shell \in {"run", "zombie"}
               PROVE  /\ Attended(c)'
                      /\ c \in 1 .. Trap
                      /\ c < Trap /\ script.requests[c].lock => c \in locked'
    BY <1>1 DEF Attendance, procVars, JoinBackground
  <2>1. /\ Attended(c) /\ c \in 1 .. Trap
        /\ c < Trap /\ script.requests[c].lock => c \in locked
    BY DEF RunnerInv, Attendance
  <2>2. /\ proc[Head(background)].shell = "reaped"
        /\ proc[Head(background)].waiter = "done"
    BY <1>1, ReturnedReaped DEF RunnerInv, JoinBackground, WaiterDone, ProcInv
  <2>3. c # Head(background)
    BY <2>2
  <2>4. PICK i \in DOMAIN background : background[i] = c
    BY <2>1 DEF Attended, JoinBackground
  <2>5. i - 1 \in DOMAIN Tail(background) /\ Tail(background)[i - 1] = c
    BY <1>1, <2>3, <2>4
  <2> QED
    BY <2>1, <2>2, <2>3, <2>5 DEF Attended, JoinBackground
<1> QED
  BY <1>1, <1>2, <1>3, <1>4 DEF RunnerInv

\* A command is started: it is attended to and under its lock from the first.
LEMMA StartCommandInv == ASSUME RunnerInv, StartCommand PROVE RunnerInv'
<1>1. at < Trap /\ at \in Cmds /\ Trap \in Nat /\ Trap' = Trap
  BY ScriptType DEF RunnerInv, RunnerType, StartCommand, Trap
<1> DEFINE form == ProcessForm(Request.form)
           q == Started(form)
<1>2. Sound(q) /\ q.waiter # "error" /\ ~Ended(q)
  BY StartedSound DEF ProcessForm
<1>3. proc' = [proc EXCEPT ![at] = q] /\ faults' = faults /\ signal' = signal
  BY DEF StartCommand
<1> HIDE DEF q
<1>4. ProcInv'
  BY <1>1, <1>2, <1>3, OneMoves DEF RunnerInv
<1>5. RunnerType'
  BY <1>1 DEF RunnerInv, RunnerType, StartCommand, Stages
<1>6. \A c \in Cmds : c # at => proc'[c] = proc[c]
  BY <1>3 DEF RunnerInv, ProcInv
<1>7. AcceptedComplete'
  BY <1>1, <1>6 DEF RunnerInv, RunnerType, AcceptedComplete, StartCommand
<1>8. Attendance'
  BY <1>1, <1>6 DEF RunnerInv, RunnerType, Attendance, Attended, StartCommand, Request
<1> QED
  BY <1>4, <1>5, <1>7, <1>8 DEF RunnerInv

\* TRAP is started when the background list is empty, so it has no other shell beside it.
LEMMA StartTrapInv == ASSUME RunnerInv, StartTrap PROVE RunnerInv'
<1>1. Trap \in Cmds /\ Trap \in Nat /\ Trap' = Trap /\ at \in 1 .. Trap
  <2>1. script \in Scripts /\ at \in 1 .. Trap /\ script' = script
    BY DEF RunnerInv, RunnerType, StartTrap
  <2> QED
    BY <2>1, ScriptType DEF Trap
<1> DEFINE q == Started("program")
<1>2. Sound(q) /\ q.waiter # "error" /\ ~Ended(q)
  BY StartedSound
<1>3. proc' = [proc EXCEPT ![Trap] = q] /\ faults' = faults /\ signal' = signal
  BY DEF StartTrap
<1> HIDE DEF q
<1>4. ProcInv'
  BY <1>1, <1>2, <1>3, OneMoves DEF RunnerInv
<1>5. RunnerType'
  BY <1>1 DEF RunnerInv, RunnerType, StartTrap, Stages
<1>6. \A c \in Cmds : c # Trap => proc'[c] = proc[c]
  BY <1>3 DEF RunnerInv, ProcInv
<1>7. AcceptedComplete'
  BY <1>1, <1>6 DEF RunnerInv, AcceptedComplete, StartTrap
<1>8. Attendance'
  BY <1>1, <1>6 DEF RunnerInv, Attendance, Attended, StartTrap
<1> QED
  BY <1>4, <1>5, <1>7, <1>8 DEF RunnerInv

\* TRAP ends and the run is over.
LEMMA FinishTrapInv == ASSUME RunnerInv, FinishTrap PROVE RunnerInv'
<1>1. /\ ProcInv' /\ Trap' = Trap /\ Trap \in Cmds /\ script \in Scripts
      /\ UNCHANGED <<procVars, script, at, result, background, locked>>
      /\ stage = "trap" /\ stage' = "exit"
  <2>1. /\ UNCHANGED <<procVars, script, at, result, background, locked>>
        /\ stage = "trap" /\ stage' = "exit"
    BY DEF FinishTrap
  <2>2. script \in Scripts /\ ProcInv
    BY DEF RunnerInv, RunnerType
  <2>3. Trap \in Cmds
    BY <2>2, ScriptType
  <2> QED
    BY <2>1, <2>2, <2>3 DEF ProcInv, procVars, Trap
<1>2. faults = 0 => proc[Trap].shell = "reaped"
  BY <1>1, ReturnedReaped DEF RunnerInv, FinishTrap, Returned
<1>3. RunnerType'
  BY <1>1 DEF RunnerInv, RunnerType, Stages
<1>4. AcceptedComplete'
  BY <1>1 DEF RunnerInv, AcceptedComplete, procVars
<1>5. Attendance'
  BY <1>1, <1>2 DEF RunnerInv, Attendance, Attended, procVars
<1> QED
  BY <1>1, <1>3, <1>4, <1>5 DEF RunnerInv

\* Every step of the runner, of the processes or of our threads keeps the invariant.
LEMMA NextRunner == RunnerInv /\ [Next]_vars => RunnerInv'
<1> SUFFICES ASSUME RunnerInv, [Next]_vars PROVE RunnerInv'
  OBVIOUS
<1>1. CASE StartFails
  BY <1>1, StartFailsInv
<1>2. CASE StartCommand
  BY <1>2, StartCommandInv
<1>3. CASE WriteStdout
  BY <1>3, WriteStdoutInv
<1>4. CASE FinishCondition
  BY <1>4, FinishKeeps DEF FinishCondition
<1>5. CASE FinishCapture
  BY <1>5, FinishKeeps DEF FinishCapture, LogFails
<1>6. CASE FinishPipe
  BY <1>6, FinishKeeps DEF FinishPipe, LogFails
<1>7. CASE FinishFilter
  BY <1>7, FinishKeeps DEF FinishFilter, LogFails, AcceptedRun
<1>8. CASE RegisterBackground
  BY <1>8, RegisterBackgroundInv
<1>9. CASE EvaluationEnds
  BY <1>9, StageKeeps DEF EvaluationEnds
<1>10. CASE JoinBackground
  BY <1>10, JoinBackgroundInv
<1>11. CASE SkipTrap
  BY <1>11, StageKeeps DEF SkipTrap
<1>12. CASE StartTrap
  BY <1>12, StartTrapInv
<1>13. CASE TrapFails
  BY <1>13, StageKeeps DEF TrapFails
<1>14. CASE FinishTrap
  BY <1>14, FinishTrapInv
<1>15. CASE ProcNext /\ UNCHANGED runnerVars
  BY <1>15, CommandStep
<1>16. CASE UNCHANGED vars
  <2>1. UNCHANGED <<procVars, runnerVars>>
    BY <1>16 DEF vars
  <2> QED
    BY <2>1
    DEF procVars, runnerVars, RunnerInv, ProcInv, RunnerType, AcceptedComplete, Attendance,
        Attended, Trap
<1> QED
  BY <1>1, <1>2, <1>3, <1>4, <1>5, <1>6, <1>7, <1>8, <1>9, <1>10, <1>11, <1>12, <1>13,
     <1>14, <1>15, <1>16
  DEF Next, Runner, Terminated

\* The invariant holds in every state of every run.
THEOREM RunnerInvariance == Spec => []RunnerInv
  BY InitRunner, NextRunner, PTL DEF Spec

\* When the waiter of a command that exceeded TIMEOUT returns, its shell is reaped
\* and nothing of its process group runs (wait_for_process_group).
THEOREM GroupIsGoneHolds == Spec => []GroupIsGone
<1>1. RunnerInv => GroupIsGone
  BY DEF RunnerInv, ProcInv, Sound, GroupIsGone
<1> QED
  BY <1>1, RunnerInvariance, PTL

\* A capture or a filter is accepted only with all that its processes wrote and
\* without having been killed while it could write, but for a filter that TIMEOUT
\* ended and whose recipe ignores it (read_bounded_output_until,
\* CommandOutcome::decide).
THEOREM NoPartialOutputHolds == Spec => []NoPartialOutput
<1>1. RunnerInv => NoPartialOutput
  BY DEF RunnerInv, AcceptedComplete, Whole, ProcInv, Sound, NoPartialOutput, Returning
<1> QED
  BY <1>1, RunnerInvariance, PTL

\* Without a failing supervision call a lock outlives the shell it protects, and
\* no shell outlives the run, as running process or zombie (start_unwaited_action,
\* finish_background, run_trap).
THEOREM SupervisedHolds == Spec => []Supervised
<1>1. RunnerInv => Supervised
  <2> SUFFICES ASSUME RunnerInv, NEW c \in Cmds, proc[c].shell \notin {"none", "reaped"}, ~(faults > 0)
               PROVE  stage # "exit" /\ (c < Trap /\ script.requests[c].lock => c \in locked)
    BY DEF Supervised
  <2>1. faults = 0 /\ proc[c].shell \in {"run", "zombie"}
    BY DEF RunnerInv, ProcInv, ProcRecord, Shells
  <2> QED
    BY <2>1 DEF RunnerInv, RunnerType, Attendance, Attended
<1> QED
  BY <1>1, RunnerInvariance, PTL
=============================================================================
