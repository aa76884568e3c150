--------------------------- MODULE CommandRunner ---------------------------
(***************************************************************************)
(* The commands of one message and what their outcomes mean:               *)
(* src/src/command_runner.rs and src/src/external_command.rs, on top of    *)
(* ExternalProcess.                                                        *)
(*                                                                         *)
(* script is what the evaluation asks for, in order: program conditions,   *)
(* captures in expansions and recipes, pipe deliveries that are waited for *)
(* or not, and filters.  Then finish_background joins the waiters of the   *)
(* unwaited commands, and TRAP runs.                                       *)
(***************************************************************************)
EXTENDS ExternalProcess

CONSTANTS
    Scripts,        \* the sequences of requests to consider
    MaxBackground   \* MAX_BACKGROUND_COMMANDS

\* What the evaluation can ask for: the CommandOutcomePolicy of the command, and
\* whether its recipe has a local lock
RequestSpec ==
    [form : {"condition", "expand", "capture", "pipe", "unwaited", "filter", "stdout"},
     childStatus : {"wait", "quiet", "ignore"}, writeErrors : {"fail", "ignore"},
     lock : BOOLEAN]

\* Each request is a command of its own, and one more is the trap.
ASSUME CommandRunnerAssumption ==
    /\ \A s \in Scripts : /\ s.requests \in Seq(RequestSpec)
                          /\ 1 .. Len(s.requests) + 1 \subseteq Cmds
    /\ MaxBackground \in Nat

VARIABLES
    script,         \* the requests and the TRAP and EXITCODE settings
    at,             \* the request being worked on
    stage,          \* where the runner is
    result,         \* what the caller was told about each request
    background,     \* CommandRunner.background
    started,        \* BackgroundCommandBudget.started
    locked,         \* commands whose recipe lock is held
    lastFolder,     \* the request LASTFOLDER names
    lastStatus,     \* $?
    exitcode        \* the value of EXITCODE

runnerVars ==
    <<script, at, stage, result, background, started, locked, lastFolder, lastStatus, exitcode>>
vars == <<procVars, runnerVars>>

Init ==
    /\ ProcInit
    /\ script \in Scripts
    /\ at = 1 /\ stage = "next"
    /\ result = [c \in Cmds |-> "none"]
    /\ background = <<>> /\ started = 0
    /\ locked = {} /\ lastFolder = 0 /\ lastStatus = "unset"
    /\ exitcode = script.exitcode

Request == script.requests[at]
Trap == Len(script.requests) + 1
ProcessForm(form) ==
    IF form = "expand" THEN "capture" ELSE IF form = "filter" THEN "filter"
    ELSE IF form = "capture" THEN "capture" ELSE "program"

-----------------------------------------------------------------------------
(* external_command.rs: the decision about a finished command.             *)

\* recipe_decision
RecipeAccepts(r, o) ==
    /\ o.input = "complete" \/ r.writeErrors = "ignore"
    /\ o.exit = "success" \/ r.childStatus = "ignore"

\* CommandOutcome::decide with the policy of the request; output says whether
\* what the command returned is complete and valid.
Accepts(r, o, output) ==
    CASE r.form = "condition" -> o.exit = "success"
      [] r.form = "expand" -> o.exit # "timedout" /\ output
      [] r.form = "capture" -> RecipeAccepts(r, o) /\ o.exit # "timedout" /\ output
      [] r.form = "filter" -> RecipeAccepts(r, o) /\ output
      [] OTHER -> RecipeAccepts(r, o)

\* report_child_failure of the decision: a diagnostic is to be written.
Reports(r, o) ==
    CASE r.form = "condition" -> FALSE
      [] r.form = "expand" -> o.exit = "timedout"
      [] r.form = "capture" -> \/ o.exit = "timedout"
                               \/ o.exit # "success" /\ r.childStatus = "wait"
      [] OTHER -> o.exit # "success" /\ r.childStatus = "wait"

-----------------------------------------------------------------------------
\* The request is answered.  A signal is looked at when a command returns; it
\* ends the evaluation, as a fatal error does.
Answer(c, what) ==
    /\ result' = [result EXCEPT ![c] = IF signal THEN "fatal" ELSE what]
    /\ at' = at + 1
    /\ stage' = IF signal THEN "finish" ELSE "next"

\* A request that fails before there is a command: the background budget is
\* used up, the environment or the log cannot be prepared, or spawn fails.
StartFails ==
    /\ stage = "next" /\ at <= Len(script.requests) /\ Request.form # "stdout"
    /\ Answer(at, "failed")
    /\ started' = IF Request.form = "unwaited" /\ started < MaxBackground
                  THEN started + 1 ELSE started
    /\ UNCHANGED <<procVars, script, background, locked, lastFolder, lastStatus, exitcode>>

\* run and start_unwaited_action up to the process
StartCommand ==
    /\ stage = "next" /\ at <= Len(script.requests) /\ Request.form # "stdout"
    /\ ~signal
    /\ Request.form = "unwaited" => started < MaxBackground
    /\ proc' = [proc EXCEPT ![at] = Started(ProcessForm(Request.form))]
    /\ started' = IF Request.form = "unwaited" THEN started + 1 ELSE started
    /\ locked' = IF Request.lock THEN locked \cup {at} ELSE locked
    /\ stage' = "run"
    /\ UNCHANGED <<signal, faults, script, at, result, background, lastFolder, lastStatus, exitcode>>

\* write_stdout, for a pipe without a command: there is no process and no
\* status, and only a recipe without the i flag sees that the write failed.
WriteStdout ==
    /\ stage = "next" /\ at <= Len(script.requests) /\ Request.form = "stdout"
    /\ \E written \in BOOLEAN :
         LET accepted == ~signal /\ (written \/ Request.writeErrors = "ignore") IN
         /\ Answer(at, IF accepted THEN "accepted" ELSE "failed")
         /\ lastFolder' = IF accepted THEN at ELSE lastFolder
    /\ UNCHANGED <<procVars, script, background, started, locked, lastStatus, exitcode>>

\* record_command_status: a shell without an exit code counts as failed, one
\* that exits by itself after TIMEOUT keeps its code
RecordStatus(p) ==
    lastStatus' = IF p.waiter # "done" THEN lastStatus
              ELSE IF p.status = "zero" THEN "zero" ELSE "nonzero"

\* A command that is waited for has returned.  It is accepted, or it fails;
\* more says that it may fail although it was accepted.
Finish(forms, accepted, more) ==
    /\ stage = "run" /\ Request.form \in forms /\ Returned(proc[at])
    /\ RecordStatus(proc[at])
    /\ \/ Answer(at, IF accepted THEN "accepted" ELSE "failed")
       \/ more /\ Answer(at, "failed")
    /\ locked' = locked \ {at}
    /\ UNCHANGED <<procVars, script, background, started, exitcode>>

AcceptedRun == /\ proc[at].waiter = "done"
               /\ Accepts(Request, Outcome(proc[at]), proc[at].reader = "complete")

\* process_command: the diagnostic cannot be written
LogFails == proc[at].waiter = "done" /\ Reports(Request, Outcome(proc[at]))

\* condition
FinishCondition ==
    /\ Finish({"condition"}, AcceptedRun, FALSE)
    /\ UNCHANGED lastFolder

\* capture, for an expansion or a recipe
FinishCapture ==
    /\ Finish({"expand", "capture"}, AcceptedRun, LogFails)
    /\ UNCHANGED lastFolder

\* The Program arm of action
FinishPipe ==
    /\ Finish({"pipe"}, AcceptedRun, LogFails)
    /\ lastFolder' = IF AcceptedRun /\ result'[at] # "failed" THEN at ELSE lastFolder

\* finish_filter: what the filter returns may not make a message
FinishFilter ==
    /\ Finish({"filter"}, AcceptedRun, LogFails \/ AcceptedRun)
    /\ UNCHANGED lastFolder

\* Mutant of RegisterBackground: a write failure returns before the waiter is
\* registered.
RegisterIfWritten ==
    LET accepted == proc[at].writer = "complete" \/ Request.writeErrors = "ignore" IN
    /\ stage = "run" /\ Request.form = "unwaited" /\ WriterDone(proc[at])
    /\ background' = IF accepted THEN Append(background, at) ELSE background
    /\ Answer(at, IF accepted THEN "accepted" ELSE "failed")
    /\ lastFolder' = IF accepted THEN at ELSE lastFolder
    /\ lastStatus' = "zero"
    /\ UNCHANGED <<procVars, script, started, locked, exitcode>>

\* start_unwaited_action after the input was written: the waiter is registered
\* with the lock before a write failure is looked at.
RegisterBackground ==
    LET accepted == proc[at].writer = "complete" \/ Request.writeErrors = "ignore" IN
    /\ stage = "run" /\ Request.form = "unwaited" /\ WriterDone(proc[at])
    /\ background' = Append(background, at)
    /\ Answer(at, IF accepted THEN "accepted" ELSE "failed")
    /\ lastFolder' = IF accepted THEN at ELSE lastFolder
    /\ lastStatus' = "zero"
    /\ UNCHANGED <<procVars, script, started, locked, exitcode>>

\* The evaluation is over, or ends early because of an error.
EvaluationEnds ==
    /\ stage = "next" /\ (at > Len(script.requests) \/ \E c \in Cmds : result[c] = "failed")
    /\ stage' = "finish"
    /\ UNCHANGED <<procVars, script, at, result, background, started, locked, lastFolder, lastStatus, exitcode>>

\* One command of finish_background.  When its supervision failed, the others
\* are dropped with their locks, without being waited for.
JoinBackground ==
    /\ stage = "finish" /\ background # <<>> /\ WaiterDone(proc[Head(background)])
    /\ IF proc[Head(background)].waiter = "done"
       THEN /\ background' = Tail(background)
            /\ locked' = locked \ {Head(background)}
       ELSE /\ background' = <<>>
            /\ locked' = locked \ {background[i] : i \in 1 .. Len(background)}
    /\ UNCHANGED <<procVars, script, at, stage, result, started, lastFolder, lastStatus, exitcode>>

\* No trap after a signal, or without TRAP.
SkipTrap ==
    /\ stage = "finish" /\ background = <<>>
    /\ signal \/ ~script.trap
    /\ stage' = "exit"
    /\ UNCHANGED <<procVars, script, at, result, background, started, locked, lastFolder, lastStatus, exitcode>>

\* run_trap
StartTrap ==
    /\ stage = "finish" /\ background = <<>>
    /\ ~signal /\ script.trap
    /\ proc' = [proc EXCEPT ![Trap] = Started("program")]
    /\ exitcode' = IF exitcode = "absent" THEN "provisional" ELSE exitcode
    /\ stage' = "trap"
    /\ UNCHANGED <<signal, faults, script, at, result, background, started, locked, lastFolder, lastStatus>>

\* run_trap fails before there is a process
TrapFails ==
    /\ stage = "finish" /\ background = <<>>
    /\ ~signal /\ script.trap
    /\ exitcode' = CASE exitcode = "absent" -> "provisional"
                     [] exitcode = "empty" -> "temporary"
                     [] OTHER -> exitcode
    /\ stage' = "exit"
    /\ UNCHANGED <<procVars, script, at, result, background, started, locked, lastFolder, lastStatus>>

\* The rest of trap(): only EXITCODE="" lets the trap decide the status.
FinishTrap ==
    LET p == proc[Trap] IN
    /\ stage = "trap" /\ Returned(p)
    /\ exitcode' = CASE exitcode # "empty" -> exitcode
                     [] p.waiter = "error" -> "temporary"
                     [] p.status = "nonzero" -> "trap"
                     [] ChildExit(p) # "success" -> "temporary"
                     [] OTHER -> exitcode
    /\ stage' = "exit"
    /\ UNCHANGED <<procVars, script, at, result, background, started, locked, lastFolder, lastStatus>>

Terminated == stage = "exit" /\ UNCHANGED vars

Runner ==
    \/ StartFails \/ StartCommand \/ WriteStdout \/ FinishCondition \/ FinishCapture
    \/ FinishPipe \/ FinishFilter \/ RegisterBackground
    \/ EvaluationEnds \/ JoinBackground \/ SkipTrap \/ StartTrap \/ TrapFails
    \/ FinishTrap

Next ==
    \/ Runner
    \/ stage # "exit" /\ ProcNext /\ UNCHANGED runnerVars
    \/ Terminated

\* The runner's thread and those of the commands are scheduled.
Spec == Init /\ [][Next]_vars /\ WF_vars(Runner) /\ ProcFairness

-----------------------------------------------------------------------------
\* A command that exceeded TIMEOUT is gone when its waiter returns: the shell is
\* reaped and no process of its group is left, however they took SIGTERM.
GroupIsGone ==
    \A c \in Cmds : proc[c].timed /\ proc[c].waiter = "done" =>
        proc[c].shell = "reaped" /\ proc[c].left # "run"

\* What a capture or filter returned is used only when it was read to its end:
\* nobody can add to it, and no process that could was killed by us, because of a
\* signal, a limit or TIMEOUT.  So no partial value is assigned and no truncated
\* message replaces the original.  The one exception is that TIMEOUT killed a
\* filter without the w and W flags, whose recipe ignores how it ended
\* (README.md, "External command timeout": "no `w` or `W` ignores it").
NoPartialOutput ==
    \A c \in Cmds :
        /\ result[c] = "accepted"
        /\ script.requests[c].form \in {"expand", "capture", "filter"}
        => /\ proc[c].taken = proc[c].made /\ ~CanWrite(proc[c])
           /\ proc[c].cut => /\ script.requests[c].form = "filter"
                             /\ script.requests[c].childStatus = "ignore"
                             /\ proc[c].timed

\* As long as no supervision call failed, the lock of a recipe is held until the
\* shell it protects is reaped, and at the exit no shell is running or a zombie,
\* unwaited ones and those of failed recipes included.
Supervised ==
    \A c \in Cmds :
        \/ proc[c].shell \in {"none", "reaped"}
        \/ faults > 0
        \/ /\ stage # "exit"
           /\ (c < Trap /\ script.requests[c].lock => c \in locked)

\* A process outlives the supervision of its command and has a pipe open that
\* a thread of ours is waiting for.
Lingers(c) == Alive(proc[c]) /\ WaiterDone(proc[c]) /\ ~Returned(proc[c])

\* TIMEOUT bounds every command whatever its processes do, and the run comes to
\* its exit, unless a process stays alive that outlived the reaped shell or left
\* the group and keeps a pipe open.
CommandEnds == <>(stage = "exit") \/ <>[](\E c \in Cmds : Lingers(c))
=============================================================================
