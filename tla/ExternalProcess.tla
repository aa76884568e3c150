-------------------------- MODULE ExternalProcess --------------------------
(***************************************************************************)
(* Shell commands under supervision: src/src/external_process.rs.          *)
(*                                                                         *)
(* A command is a shell in a process group of its own, and at most one     *)
(* process it leaves behind, which may leave the group.  Both have the     *)
(* stdin of the command open as long as they live, and its stdout until    *)
(* the last of them closes or redirects it.  On our side up to three       *)
(* threads work on a command: a writer feeds its stdin, a reader takes     *)
(* its stdout, a waiter polls for its end and enforces TIMEOUT.            *)
(*                                                                         *)
(* A pipe is the number of blocks in it, a message InputBlocks blocks.     *)
(* What the processes do with their pipes, when they end and how, is up    *)
(* to them.                                                                *)
(***************************************************************************)
EXTENDS Integers, Sequences, FiniteSets, FiniteSetsExt

CONSTANTS
    Cmds,           \* the commands of one message
    InputBlocks,    \* size of the message in blocks
    OutputLimit,    \* LINEBUF or message limits for what a command returns
    Timeout,        \* TIMEOUT in ticks
    MaxFaults,      \* bound on failing supervision calls
    Daemonic        \* the commands that may leave a process behind

ASSUME ExternalProcessAssumption ==
    /\ IsFiniteSet(Cmds)
    /\ InputBlocks \in Nat /\ OutputLimit \in Nat /\ MaxFaults \in Nat
    /\ Timeout \in Nat \ {0}
    /\ Daemonic \subseteq Cmds

VARIABLES
    proc,       \* each command: its processes, its pipes and our threads
    signal,     \* signal_state::received()
    faults      \* failures of supervision so far

procVars == <<proc, signal, faults>>

PipeCapacity == 1
MaxOutput == OutputLimit + 1

NotStarted ==
    [form |-> "none", shell |-> "none", status |-> "none", left |-> "none",
     unsent |-> 0, stdin |-> 0, stdout |-> 0, made |-> 0, taken |-> 0,
     writer |-> "off", reader |-> "off", waiter |-> "off", timed |-> FALSE, clock |-> 0,
     open |-> FALSE,    \* a process may have stdout open
     cut |-> FALSE]     \* one that could still write was killed by us

ProcInit ==
    /\ proc = [c \in Cmds |-> NotStarted]
    /\ signal = FALSE
    /\ faults = 0

-----------------------------------------------------------------------------
(* The processes of a command.                                             *)

Alive(p) == p.shell = "run" \/ p.left \in {"run", "away"}
CanWrite(p) == p.open /\ Alive(p)

\* A signal ends the shell, the process it left, or both; what they were still
\* going to write is lost.
Killed(p, shell, left) ==
    [p EXCEPT !.shell = IF shell THEN "zombie" ELSE @,
              !.status = IF shell THEN "signal" ELSE @,
              !.left = IF left THEN "gone" ELSE @,
              !.cut = @ \/ ((shell \/ left) /\ CanWrite(p))]

ShellDies(p, status) == [p EXCEPT !.shell = "zombie", !.status = status]

\* A process takes a block of its input; what is left when the writer is done
\* concerns nobody any more.
ChildReads(c) ==
    /\ Alive(proc[c]) /\ proc[c].stdin > 0 /\ proc[c].writer = "write"
    /\ proc' = [proc EXCEPT ![c].stdin = @ - 1]
    /\ UNCHANGED <<signal, faults>>

\* A process writes a block, or finds that nobody reads any more.
ChildWrites(c) ==
    LET p == proc[c] IN
    /\ CanWrite(p) /\ p.made < MaxOutput
    /\ \/ /\ p.reader = "read" /\ p.stdout < PipeCapacity
          /\ proc' = [proc EXCEPT ![c].stdout = @ + 1, ![c].made = @ + 1]
       \/ /\ p.reader # "read" /\ p.shell = "run"
          /\ proc' = [proc EXCEPT ![c] = Killed(p, TRUE, FALSE)]
       \/ /\ p.reader # "read" /\ p.left \in {"run", "away"}
          /\ proc' = [proc EXCEPT ![c] = Killed(p, FALSE, TRUE)]
    /\ UNCHANGED <<signal, faults>>

\* The last process that has stdout open closes it and goes on.
ChildCloses(c) ==
    /\ CanWrite(proc[c])
    /\ proc' = [proc EXCEPT ![c].open = FALSE]
    /\ UNCHANGED <<signal, faults>>

ShellLeavesProcess(c) ==
    /\ c \in Daemonic
    /\ proc[c].shell = "run" /\ proc[c].left = "none"
    /\ proc' = [proc EXCEPT ![c].left = "run"]
    /\ UNCHANGED <<signal, faults>>

LeavesGroup(c) ==
    /\ proc[c].left = "run"
    /\ proc' = [proc EXCEPT ![c].left = "away"]
    /\ UNCHANGED <<signal, faults>>

ChildEnds(c) ==
    /\ \/ /\ proc[c].shell = "run"
          /\ \E status \in {"zero", "nonzero", "signal"} :
                proc' = [proc EXCEPT ![c] = ShellDies(@, status)]
       \/ /\ proc[c].left \in {"run", "away"}
          /\ proc' = [proc EXCEPT ![c].left = "gone"]
    /\ UNCHANGED <<signal, faults>>

-----------------------------------------------------------------------------
(* Our threads.                                                            *)

\* ChildLifecycle::spawn succeeded: the shell runs, its input is to be written
Spawned ==
    [NotStarted EXCEPT !.shell = "run", !.unsent = InputBlocks, !.writer = "write"]

\* run_filter, run_program_with_timeout, run_program_in_background and
\* run_capture_with_timeout: who reads the output and who waits.  The waiter
\* of a capture starts when its output has been consumed.
Started(form) ==
    [Spawned EXCEPT
        !.form = form,
        !.open = form \in {"capture", "filter"},
        !.reader = IF form \in {"capture", "filter"} THEN "read" ELSE "off",
        !.waiter = IF form = "capture" THEN "off" ELSE "poll"]

\* One write of write_action_input; a pipe without a reader ends it, and so
\* does the end of the input, with which stdin is closed.
WriteInput(c) ==
    LET p == proc[c] IN
    /\ p.writer = "write"
    /\ \/ /\ p.unsent = 0
          /\ proc' = [proc EXCEPT ![c].writer = "complete", ![c].stdin = 0]
       \/ /\ p.unsent > 0 /\ Alive(p) /\ p.stdin < PipeCapacity
          /\ proc' = [proc EXCEPT ![c].unsent = @ - 1, ![c].stdin = @ + 1]
       \/ /\ p.unsent > 0 /\ ~Alive(p)
          /\ proc' = [proc EXCEPT ![c].writer = "failed", ![c].stdin = 0, ![c].unsent = 0]
    /\ UNCHANGED <<signal, faults>>

\* The consumer of stdout is done and the descriptor closed.  A capture now
\* waits for its shell, or terminates the group when its output failed.
ReaderEnds(p, how) ==
    [p EXCEPT !.reader = how, !.stdout = 0,
              !.waiter = IF p.form # "capture" THEN @
                         ELSE IF how = "complete" THEN "poll" ELSE "term",
              !.timed = IF p.form = "capture" THEN how = "late" ELSE @]

\* Mutant of ReadOutput: what was read before TIMEOUT is taken as the output.
ReadPartial(c) ==
    LET p == proc[c] IN
    /\ p.reader = "read"
    /\ \/ /\ p.stdout > 0 /\ p.taken < OutputLimit
          /\ proc' = [proc EXCEPT ![c].stdout = @ - 1, ![c].taken = @ + 1]
       \/ /\ p.stdout > 0 /\ p.taken >= OutputLimit
          /\ proc' = [proc EXCEPT ![c] = ReaderEnds(p, "failed")]
       \/ /\ p.stdout = 0 /\ (~CanWrite(p) \/ p.clock >= Timeout)
          /\ proc' = [proc EXCEPT ![c] = ReaderEnds(p, "complete")]
    /\ UNCHANGED <<signal, faults>>

\* One read of Message::read_from for a filter, which blocks, or of
\* read_bounded_output_until for a capture, which looks at the clock and at the
\* signal when there is nothing to read.  The output is at its end when the pipe
\* is empty and nobody has it open for writing.
ReadOutput(c) ==
    LET p == proc[c] IN
    /\ p.reader = "read"
    /\ \/ /\ p.stdout > 0 /\ p.taken < OutputLimit
          /\ proc' = [proc EXCEPT ![c].stdout = @ - 1, ![c].taken = @ + 1]
       \/ /\ p.stdout > 0 /\ p.taken >= OutputLimit
          /\ proc' = [proc EXCEPT ![c] = ReaderEnds(p, "failed")]
       \/ /\ p.stdout = 0 /\ ~CanWrite(p)
          /\ proc' = [proc EXCEPT ![c] = ReaderEnds(p, "complete")]
       \/ /\ p.form = "capture" /\ p.stdout = 0 /\ p.clock >= Timeout
          /\ proc' = [proc EXCEPT ![c] = ReaderEnds(p, "late")]
       \/ /\ p.form = "capture" /\ signal
          /\ proc' = [proc EXCEPT ![c] = ReaderEnds(p, "failed")]
    /\ UNCHANGED <<signal, faults>>

\* The shell is waited for; its clock has no further use.
Reaped(p) == [p EXCEPT !.shell = "reaped", !.waiter = "done", !.clock = 0]

\* Mutant of WaitPoll: the clock is not looked at.
WaitWithoutClock(c) ==
    LET p == proc[c] IN
    /\ p.waiter = "poll"
    /\ \/ signal /\ proc' = [proc EXCEPT ![c].waiter = "term"]
       \/ /\ ~signal /\ p.shell = "zombie"
          /\ proc' = [proc EXCEPT ![c] = Reaped(p)]
    /\ UNCHANGED <<signal, faults>>

\* One round of the loop of wait_for_process_group: the signal is looked at
\* first, then the shell, then the clock.
WaitPoll(c) ==
    LET p == proc[c] IN
    /\ p.waiter = "poll"
    /\ \/ signal /\ proc' = [proc EXCEPT ![c].waiter = "term"]
       \/ /\ ~signal /\ p.shell = "zombie"
          /\ proc' = [proc EXCEPT ![c] = Reaped(p)]
       \/ /\ ~signal /\ p.shell = "run" /\ p.clock >= Timeout
          /\ proc' = [proc EXCEPT ![c].waiter = "term", ![c].timed = TRUE]
    /\ UNCHANGED <<signal, faults>>

\* SIGTERM to the group in terminate_process_group: each process that is in the
\* group either ends or ignores it.
SendTerm(c) ==
    LET p == proc[c] IN
    /\ p.waiter = "term"
    /\ \E shell \in {FALSE, p.shell = "run"}, left \in {FALSE, p.left = "run"} :
        proc' = [proc EXCEPT ![c] = [Killed(p, shell, left) EXCEPT !.waiter = "grace"]]
    /\ UNCHANGED <<signal, faults>>

\* Mutant of SendKill: only the shell is killed, not its group.
KillShellOnly(c) ==
    LET p == proc[c] IN
    /\ p.waiter = "grace"
    /\ proc' = [proc EXCEPT ![c] =
            [Killed(p, p.shell = "run", FALSE) EXCEPT !.waiter = "reap"]]
    /\ UNCHANGED <<signal, faults>>

\* SIGKILL to the group after the grace interval.
SendKill(c) ==
    LET p == proc[c] IN
    /\ p.waiter = "grace"
    /\ proc' = [proc EXCEPT ![c] =
            [Killed(p, p.shell = "run", p.left = "run") EXCEPT !.waiter = "reap"]]
    /\ UNCHANGED <<signal, faults>>

\* The final child.wait().
Reap(c) ==
    /\ proc[c].waiter = "reap" /\ proc[c].shell = "zombie"
    /\ proc' = [proc EXCEPT ![c] = Reaped(@)]
    /\ UNCHANGED <<signal, faults>>

\* try_wait, kill or wait fail: the waiter returns an error.
WaitFails(c) ==
    /\ faults < MaxFaults
    /\ proc[c].waiter \in {"poll", "term", "grace", "reap"}
    /\ proc' = [proc EXCEPT ![c].waiter = "error"]
    /\ faults' = faults + 1
    /\ UNCHANGED signal

SignalArrives ==
    /\ ~signal
    /\ signal' = TRUE
    /\ UNCHANGED <<proc, faults>>

\* Time passes for the commands that somebody waits for.
Tick ==
    LET timed == {c \in Cmds : proc[c].writer # "off" /\ proc[c].shell # "reaped"
                               /\ proc[c].clock < Timeout} IN
    /\ timed # {}
    /\ proc' = [c \in Cmds |-> IF c \in timed THEN [proc[c] EXCEPT !.clock = @ + 1]
                               ELSE proc[c]]
    /\ UNCHANGED <<signal, faults>>

Children(c) ==
    \/ ChildReads(c) \/ ChildWrites(c) \/ ChildCloses(c) \/ ShellLeavesProcess(c)
    \/ LeavesGroup(c) \/ ChildEnds(c)

Writer(c) == WriteInput(c)
Reader(c) == ReadOutput(c)
Waiter(c) == WaitPoll(c) \/ SendTerm(c) \/ SendKill(c) \/ Reap(c)

ProcNext ==
    \/ SignalArrives \/ Tick
    \/ \E c \in Cmds : Children(c) \/ Writer(c) \/ Reader(c) \/ Waiter(c) \/ WaitFails(c)

\* The operating system schedules our threads and lets time pass.  It makes no
\* process of a command do anything.
ProcFairness ==
    /\ WF_procVars(Tick)
    /\ \A c \in Cmds : WF_procVars(Writer(c)) /\ WF_procVars(Reader(c)) /\ WF_procVars(Waiter(c))

-----------------------------------------------------------------------------
(* What a run returns.                                                     *)

WriterDone(p) == p.writer \in {"complete", "failed"}
WaiterDone(p) == p.waiter \in {"done", "error"}

\* All threads of the scope have been joined.
Returned(p) == WriterDone(p) /\ p.reader # "read" /\ WaiterDone(p)

\* classify_child_exit
ChildExit(p) ==
    IF p.timed THEN "timedout"
    ELSE CASE p.status = "zero" -> "success"
           [] p.status = "signal" -> "signaled"
           [] OTHER -> "failure"

\* CommandOutcome of a run whose supervision did not fail.
Outcome(p) == [input |-> p.writer, exit |-> ChildExit(p)]
=============================================================================
