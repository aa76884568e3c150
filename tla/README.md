# A TLA+ model of procmail-rs

procmail-rs filters one mail message per process: it reads the message from
standard input, evaluates the recipes of an rc file, delivers the message to
mailboxes, Maildirs and commands, and tells the mail system with its exit status
whether the message is safe. These modules model the parts in which several
actors, failures, signals or crashes meet. Paths below are relative to the
repository; `src/src/` holds the Rust code.

## The system

One process per message; many processes share the mailboxes and lock files.

1. `bin/procmail-rs.rs` loads the rc file and reads the header.
2. `eval/header.rs` evaluates recipes on the header. When the header decides
   everything, the result is a *plan*: a list of destinations (fan-out).
3. Otherwise the message is written to a private *staging file* and either the
   planning resumes with the whole message, or `eval/ordered.rs` executes the
   recipes one after the other, delivering at once, running commands and starting
   copy branches in threads.
4. `delivery_runtime.rs` opens a *pending sink* per destination of a plan, streams
   the message to all of them, and commits them in order.
5. The exit status says what happened: 0 delivered, 65 bad input, 70 internal, 73
   permanent, 75 temporary, 78 configuration, 79 no final recipe delivered the
   original, 128 + n after signal n.

### Inventory

| Component | State | Operations | What is hard | Module |
|---|---|---|---|---|
| mbox (`delivery/mbox.rs`) | file, flock, recorded length | open, lock, append, sync, roll back, unlock | writers killed in the middle of a record, rollback next to other writers | `Mbox` |
| Maildir (`delivery/maildir*`) | tmp and new/cur entries, pending file | create, write, commit, abort, drop | name collisions, a reader that moves messages, crash between syncs | `Maildir` |
| sink contract (`delivery.rs`) | phase of each sink | write, commit, abort | an error *after* publication is not an error before it | `PendingSink` |
| fan-out (`delivery.rs`, `delivery_runtime*`, `staging.rs`, `signal_state.rs`) | sinks, staging file, signal, LASTFOLDER | open, stream, stage, resume, append, commit | partial commits, limits, signals and crashes between all steps, the status | `FanoutDelivery` |
| recipe gates (`eval.rs`, `eval/tree.rs`) | SequenceState | gate, else_handled, record | long mixed chains of A, a, E, e | `RecipeGate` |
| ordered execution (`eval/ordered.rs`) | call stack, message copy, lock slots, pending error | statements, actions, blocks, copy branches, rc files | control values crossing levels, isolation of branches, join while holding a lock | `OrderedEval` |
| local locks (`delivery/local_lock.rs`) | lock file, its age | flock, dotlock, stale removal | time, two waiters that judge the same lock stale | `LocalLock` |
| external commands (`external_process.rs`) | shell, process left behind, pipes, deadline | spawn, write, read, poll, terminate, kill, reap | TIMEOUT against pipes held open, three threads per command | `ExternalProcess` |
| command runner (`command_runner.rs`, `external_command.rs`) | background commands, locks, `$?`, LASTFOLDER, EXITCODE | condition, capture, pipe, filter, join, trap | what an outcome means under `w`, `W`, `i`; supervision to the exit | `CommandRunner` |
| shell patterns, words (`config/shell_pattern.rs`, `config/shell_eval.rs`, `config/mod.rs`) | none | match, evaluate, bind, analyse | three evaluators that must agree, limits | `ShellPattern`, `ShellExpression` |
| preparation of an rc file (`config/expand.rs`) | known, dynamic and removed names | prepare | a value taken in advance that changes later | `ConfigPreparation` |
| variables (`runtime.rs`) | values, removed names, arguments, matches | set, unset, shift, resolve | settings validated at use, relative paths | `RuntimeVariables` |
| header storage and edits (`header_edit/`) | arena, holes, field table | set, add, prepend, remove, rename, priority, extract | compaction while offsets are live, limits | `HeaderStorage`, `HeaderEdit` |
| formail-rs (`bin/formail-rs.rs`) | header, scanner | options, fill, end | buffers that end inside a From line | `Formail` |
| compiled tree, conditions (`eval/tree.rs`, `eval/condition.rs`) | none | compile, match, requirements | what a suffix of the tree needs of the message | `RecipeTree` |
| runtime rc files (`eval/runtime_rc.rs`) | cache, depth, transitions | enter, load | cyclic files, a stale cache | `RuntimeRc` |
| header planning (`eval/header.rs`) | saved frames, edited header | plan, defer, resume | what was done before the restart | `HeaderPlanning` |
| execution in order, with its data (`eval/ordered.rs`) | variables, header, deliveries | statements, actions | the meaning the other phases must keep | `OrderedExecution` |
| the phases of a message (`bin/procmail-rs.rs`, `delivery_runtime.rs`) | phase, plan | prepare, evaluate, deliver, stage, resume | agreement of the phases | `MessageEvaluation` |

`PROJECT.json` lists every component and, for each hazard in the code, the line
where it bites and the properties that cover it.

## Modules

**`Mbox`**. One step per system call of a writer: `Open`, `Lock`
(`acquire_flock_fd_with`), `SeekEnd`, `WriteRecord` (one `write(2)` at a time),
`SyncFile`, `SyncParent`, the rollback `Truncate` and `ResyncAfterRollback`,
`Unlock`, and `Kill`. `mailbox` is the file as a sequence of chunks `<<writer,
k>>`, `synced` what the last fsync made durable, `at` the `original_len` of the
code. The content of a record is abstracted: only its author and part number
matter. `Platform` says how the parent directory is opened. Waiting for the lock
may end with a failure at any time, which covers LOCKTIMEOUT, signals and errors.
The model takes an fsync of the file to save the whole content, and assumes that
everybody who writes to the file uses this code; mail readers that rewrite an
mbox are not modelled.

**`PendingSink`** is the abstract specification: what the `PendingSink` trait and
`SinkCommitError` promise. A message becomes visible in one step, after all of it
was written, and the reported outcome says truthfully whether it did.

**`Maildir`** is a detailed specification of the same: the Linux backend (unnamed
file, `linkat` with retries) and the portable backend (name in tmp, verify, link,
verify, remove), with `commit_with`'s syncs and `Drop`. `SinkContract` is
`PendingSink` under the mapping *phase = result when done, otherwise visible or
pending according to whether the message ever became visible*. A reader removes
messages at any time. A name that an outsider swaps in tmp is not modelled; the
verification may still fail at any time.

**`FanoutDelivery`** builds on `PendingSink` and models one run over a plan:
`deliver_decided`, `deliver_staged`, `PendingFanout`, `ValidatedFanout`,
`StagingFile`, `commit_delivery` and the end of `run`. The evaluation is the
choice of a plan in `Init`. Signal and crash may come before every step; every
operation may fail with every failure class.

**`RecipeGate`** holds the pure definitions: when a recipe may run, and what is
recorded of it.

**`OrderedEval`** executes a recipe tree. The Rust call stack is explicit: one
frame per activation of `execute_ordered_from`, so Stop, EndRcFile,
SequenceComplete and `?` are modelled where each level translates them. A copy
block that is waited for saves and restores the state as
`execute_waited_copy_block` does, in the field `saved` of its frame; one that is not
becomes a thread, which the field `branch` of the frame that joins it names. A
delivery may fail when its destination already has the message
(`DeliveryFailsLate`): a late error of the sink, or a signal. `history`
and the field `ran` are observers that no guard reads.

**`LocalLock`** models competing processes at one lock pathname, one step per
system call: `OpenFlock` and `TryFlock` for LOCKMETHOD=flock; `TryDotlock`
(exclusive creation), `Inspect` (`statat`), `RemoveStale` and the removal by name in
`Release` for dotlocks; `Wake` after `wait_for_retry`; `Interrupted` and `Kill`. `Tick`
is a second for everybody. An inode is tracked apart from the name, because a flock
belongs to the inode a process opened and a dotlock to the name.

**`ExternalProcess`** models a shell command: the shell, at most one process it
leaves behind (in its process group or out of it), the two pipes, and our writer,
reader and waiter threads. What the processes do is up to them: they may never
read, never end, ignore SIGTERM, keep a pipe open, or close stdout and run on
(`open`). `cut` records that a process was killed while it could still write.
**`CommandRunner`** is
composed with it: it works through a script of requests, decides what each outcome
means, holds the recipe locks, keeps the background list, joins it at the end and
runs TRAP. A request `stdout` is the delivery to our own standard output.

**`ShellPattern`** has the matcher of `shell_pattern.rs` (token list, set of
positions, step budget) and, next to it, the definition of what a pattern
matches. **`ShellExpression`** has the words: a word is a sequence of parts
(literal, variable with operator, command, quoted pattern), and the three
evaluators of the code are `EvaluateConfig`, `EvaluateRuntime` and `Evaluate`;
`BindStatic` fixes the variables of a word in advance. Bytes are numbers. The text
of a command's output is given with the part.

**`RuntimeVariables`** is the record `RuntimeVariables` of the code with SHIFT,
LINEBUF, UMASK, the lock settings and the paths that are resolved against MAILDIR.
**`ConfigPreparation`** is `expand.rs`: it walks the file once before the message is
read, evaluates what it can and leaves the rest to the execution.

**`HeaderStorage`** is the arena of `header_edit/storage.rs`: field table, holes,
free space, `Compact`. **`HeaderEdit`** has the operations of a `headers` block on
it. **`Formail`** applies the options of formail-rs on the same storage in the
program's order and scans the body buffer by buffer. A field name is one number, a
postmark another.

**`RecipeTree`** compiles statements into recipes with their properties (which part
of the message an action or condition needs, whether the order matters) and has
the conditions. **`RuntimeRc`** loads files through the cache. **`HeaderPlanning`**
evaluates the tree on the header, saves frames where a condition must wait, and
resumes. **`OrderedExecution`** executes the same tree one statement after the
other. These are functions from a context to a context, because one thread runs
them and nothing else touches the context; the actors that do run at the same time
(copy branches, lock holders, commands, signals) are in `OrderedEval`,
`LocalLock`, `CommandRunner` and `FanoutDelivery`. Where a command fails, a file
is missing or a limit is exceeded, the context carries the error as `?` does.

**`MessageEvaluation`** composes them into the steps of a message: `Prepare`,
`EvaluateHeader`, then `DeliverDecided`, or `Stage` and `ExecuteInOrder` or
`ResumePlan`. The same specification drives the algorithms below them with their
own jobs: `Edit` applies actions to a header, `RunOptions`, `FillBuffer` and
`EndOfInput` are a call of formail-rs. A regular expression is replaced by the
search for a byte string; what it captures is the rest of the field.

**`Binding`** has one operator, `With(v, LAMBDA x : e)`, which is `LET x == v IN e`
with `v` as an argument. The evaluation modules call each other so deeply that
the formula of a step would grow beyond bounds if every local name were expanded
where it is used.

**`MboxProofs`**, **`MaildirProofs`**, **`LocalLockProofs`**, **`FanoutProofs`**,
**`CommandProofs`**, **`OrderedShapeProofs`**, **`OrderedScopeProofs`** and
**`OrderedPathProofs`** contain the proofs, **`OrderedInvariants`** what the last three
prove to be invariant.
**`MC...`** modules and `.cfg` files give the constants values.

A definition whose comment says "Mutant of X" is a plausible mistake
in X. No specification uses it; substituted for X it must violate a property,
which shows that the property depends on that code.

## Runs

| Run | Shows | Bounds |
|---|---|---|
| `mbox` | published records stay whole and durable, failed ones leave nothing, records are contiguous, the settled part only grows | 3 writers, 2 write calls; symmetric writers |
| `mbox_linux` (violation) | on Linux DURABILITY=full rolls back a delivery without a fault | as above |
| `maildir` | only whole messages are visible, nothing is replaced, full means durable, tmp is cleaned, the sink contract is implemented | 2 deliveries, 2 names, 2 attempts, both backends |
| `fanout` | publication is a prefix of the plan, the status agrees with it, failures name the right sink, signals stop or decide | up to 4 destinations, limit 3, 2 chunks |
| `ordered` | control flow, isolation, lock scopes, termination | all 125 chains of one recipe and three with control flags, five larger trees; 2 branches, 2 locks, 2 failures |
| `locks` | who may hold a lock together, when a missing file is reported, no wait outlasts LOCKTIMEOUT, every wait ends | 3 processes, every mix of methods, timeouts 1, 1, 3, sleep 2 |
| `commands` | TIMEOUT ends the whole group, output is used whole or not at all (but for a filter that ignores its TIMEOUT), locks and shells are supervised to the exit, every run ends | every form and flag of a command, a trap, two background commands; message 2 blocks, pipe 1, 1 fault |
| `evaluation` | words, header edits, formail-rs and the phases of a message mean what their definitions say | 420 words under 6 assignments, 3 edits of 15 on 8 headers, 4,864 formail-rs calls and 5,461 bodies, 34,752 messages |
| `edit_replayed` (violation) | see Findings | an edit in front of a delivery |
| `ordered_stop`, `ordered_host`, `ordered_else` (violations) | see Findings | one tree each |

Why the bounds are enough to be interesting: three mbox writers let one fail, roll
back or die between two others; two names for two deliveries make every collision
happen and one retry is exhausted; with four destinations and a limit of three the
early, the late and the joint limit are each exceeded, and a commit can fail with
sinks on both sides; two branches reach the branch limit of two in trees that
start them, and two failures allow an error while another error is handled.
`MaxFailures` and `MaxBranches` are bounds of the model (the code's branch limit is
128, the number of failures is unlimited).

In `locks` a holder, a waiter and a third process that removes or replaces the file
are enough for a lock to be stolen twice; LOCKSLEEP lies between the two timeouts.
Ages and waits saturate above the largest timeout, where no comparison tells them
apart. In `commands` the message is larger than a pipe, so the writer really
blocks; a command may write one block more than its limit; one call of the
supervision may fail; one command may leave a process behind. In `evaluation` the
limits of the code (step budget, LINEBUF, path length, header, line and field
size, cache, depth, transitions, statements) are constants that the instances
reach. Message jobs are all files of two statements of a menu of 76 and a closing
delivery, all files of three of a smaller menu, captures that fail, and files
without a MAILDIR, for a body that satisfies the body conditions and one that does
not. Bodies for the From scanner are all texts up to six bytes over the four bytes
it tells apart, cut into buffers in every way.

`TypeOK` of `Mbox`, `Maildir`, `FanoutDelivery` and `LocalLock` documents the types;
that of `OrderedEval` is part of its run because it contains the bounds on branches
and positions. Those of `Mbox`, `Maildir` and `OrderedEval` are proved.

Deadlock is checked in every run; each specification has an explicit `Terminated`
step for the states in which everything is over.

### Fairness

`OrderedEval`, `LocalLock` and `CommandRunner` have liveness properties. Each
assumes weak fairness of our own threads, which the operating system schedules
when they are runnable, and, where there is a clock, of `Tick`.

- `Termination` (`ordered`): a blocked join is not enabled, and a lock wait always
  has an enabled way out, because `wait_for_retry` gives up when LOCKTIMEOUT has
  elapsed. That commands come to an end is part of the abstraction there: an
  action takes one step.
- `WaitEnds` (`locks`): nothing is assumed of the holder. It need not release the
  lock, and others may replace the file at any time.
- `CommandEnds` (`commands`): nothing is assumed of the processes of a command. They
  may run for ever and take no block of their input. The property therefore has a
  second half: a process that outlived the reaped shell, or left its group, and
  keeps a pipe open can hold the run up, because the threads that write and read
  are joined without a deadline of their own (`external_process.rs:372`, `:395`).
  `README.md:302` says that the supervision lasts as long as stdin is written and
  stdout is read; it lasts as long as the direct shell.

## Findings

Five statements of the documentation do not hold of the code.

- *mbox, DURABILITY=full on Linux* (`mbox_linux`): the parent handle is opened
  `O_PATH`, fsync of it is refused, and the complete record is rolled back.
  `Documentation/Delivery.md:44` promises the sync of the parent directory.
- *Stop behind an unwaited copy block* (`ordered_stop`): inside another block, the
  recipe behind that block still runs for a delivered message
  (`ordered.rs:341`, `:720`); see `Documentation/man/procmail-rs.rc.5.md:185`.
- *HOST in an included file* (`ordered_host`): the mismatch counts as a delivery,
  the including file continues, and the status is 0 although no final recipe ran
  (`ordered.rs:774`); see `README.md:165`.
- *E behind a copy block* (`ordered_else`): the branch that executed the block also
  runs the E recipe (`ordered.rs:217`); see
  `Documentation/man/procmail-rs.rc.5.md:233`.

- *An edit in front of a body condition* (`edit_replayed`): the header phase applies
  a `headers` block, a later recipe needs the body, and the ordered execution starts
  again at the first recipe with the header that is already edited
  (`delivery_runtime.rs:493`). An `add` leaves two fields.
  `Documentation/HeaderEditing.md:7`: "applies every operation in source order and
  then continues with the next recipe".

The `ordered` run contains trees that avoid the three constructs of its findings, so
its properties describe the code outside of them.

### Where the phases differ

`PlanningMeansOrdered` says that evaluating a message in phases ends like executing
its recipes one after the other, and `PreparationMeansSource` that a prepared rc
file does what its source says. Both hold on all 34,752 messages outside of the
following cases, each of which is a named disjunct. The cases are conditions on the
file and the run, kept as narrow as the difference; the model does what the code
does in them.

Phases against the order of the file:

- `DoneTwice`: the ordered execution starts again after the header phase had
  effects. Edits and captures are repeated, an assignment that reads its own name
  is applied to its first result, and rc file transitions are counted twice.
- `LateFile`: an INCLUDERC or SWITCHRC that is reached only while a plan is resumed
  loads a file with a pipe, a capture, a `headers` block, a command or a locked
  block. The resumed evaluation refuses it (`header.rs:799`, `:818`, `:875`);
  compare `Documentation/man/procmail-rs.rc.5.md:1329`.
- `LaterEdit`: a planned copy is written after the whole header phase, with the
  edits of the blocks behind it (`header.rs:779`, `delivery_runtime.rs:398`).
- `LastFolderUnset`: a delivery that is only planned has not set LASTFOLDER, or
  `$-`, when a later recipe reads it (`procmail-rs.rc.5.md:1137`).
- `MatchedEarly`: a header condition behind one that waits for the body is matched
  first and sets MATCH even if the other one fails in the end (`header.rs:706`).
- `CaptureFailed`: a header capture that fails inside a block counts as a block that
  succeeded (`header.rs:595`), and a HOST mismatch behind it keeps the pending
  error, which the ordered execution clears.

Preparation against the source:

- `FixedTooEarly`: a file loaded by INCLUDERC assigns a name whose value the root
  file has already taken; only the positional arguments are treated as unknown
  behind INCLUDERC (`expand.rs:917`, `:1201`).
- `ShiftedAway`: an argument that SHIFT removed is empty for the preparation and
  unset for the execution (`runtime.rs:319`).
- `ResolvedTwice`: with a relative MAILDIR a path assignment is resolved by the
  preparation and again by the execution (`expand.rs:221`).

Differences from the manual that have no run of their own:

- `${NAME:=word}` gives no text when NAME has a value, because
  `uses_value_when_word_is_not_selected` (`config/mod.rs:1019`) omits the operator;
  `procmail-rs.rc.5.md:66` gives the value. `Says` is the table of the manual, so
  `WordMeaning` leaves out the text of the words in which this happens (`kept`) and
  states of them only that no name with a value is assigned.
- The lock of a copy block is released where the block ends (`ordered.rs:702` to
  `:727`), and the rest of its branch runs without it; `procmail-rs.rc.5.md:706` says
  that it "covers the complete branch execution". `LocksScoped` is about locks that
  leak, and takes the scope of a block's lock from the code.
- A destination that reports an error, or meets a signal, when it already has the
  message is not counted. If that happens in an unwaited branch the join ignores the
  error, and a run without an error reports one publication too few
  (`ordered.rs:335`). `CountsAllDeliveries` states that this is the only way to it.
- A filter without `w` and `W` that TIMEOUT ended replaces the message with what it
  had written. `README.md:296` documents it; it is the exception in
  `NoPartialOutput`.

Smaller ones, which the definitions reproduce: the rc cache keeps failed and empty files, and loaded trees keep the variables of their
first load. An INCLUDERC file that needs the body without a MAILDIR fails after the
header was consumed, although `bin/procmail-rs.rs:223` wants MAILDIR known before;
this is the phase "unstaged", and `RequirementsCover` limits it to loaded files. A
dotlock that disappears between creation and inspection is an error, not a retry
(`local_lock.rs:291`); `MissingOnlyInRace` says that this is the only way to it. A
dotlock that outlives a waiter's LOCKTIMEOUT can be removed twice and then has two
holders; `Exclusion` says that nothing else breaks it. formail-rs writes one more
empty line when a header consists of the empty line only, or ends with mixed line
ends.

## Proofs

`MboxProofs` proves, for any set of writers and any number of write calls per
record, `TypeOK`, `PublishedRecordsIntact`, `FailedLeavesNothing`,
`ReportedIsDurable`, `WholeRecords` and `SettledOnlyGrows`. The only assumption is
`MboxAssumption`: a record takes at least one write and `NoWriter` is no writer.

None of the invariants is inductive. That a published record stays whole depends
on where every *other* writer may still write or truncate. The invariant `IInv`
adds, per writer,

- *Mutex*: only the lock holder is between lock and unlock;
- *Region*: while a writer appends, the file is its recorded length plus exactly
  the chunks it has written, and these are in place;
- *Published*: a published record is whole and lies in front of the region of
  whoever is appending;
- *Untouched*: a writer that has not written, or has cleanly failed, has no chunk
  in the file or in the durable image;
- *Durable*: the durable image holds the record of a writer that is past the sync
  its DURABILITY asks for.

Each action has a lemma with two halves: what the step does to its own writer
(`Own`), and the frame `Effect` from which `OthersInv` concludes that the
statements about all other writers survive. `IInv` itself was model-checked on
the bounds of the `mbox` run before it was proved. `WholeRecords` needs one fact
more: the record just written ends the file until its writer unlocks it.

`MaildirProofs` proves, for any number of deliveries, names, attempts and write
calls and for both backends, `VisibleIsComplete`, `FullIsDurable`, `TmpReleased`,
`PublishedOnceWithoutReplacing` and that a Maildir delivery implements
`PendingSink` (`Refinement`), from `MaildirAssumption`. The invariant `IInv` says of
each delivery

- *Stage*: where it stands tells whether its message has been visible and what was
  reported, and a message that was visible, or is about to be, is complete;
- *Named*: an entry of tmp belongs to the delivery that knows its name, and is gone
  before the directories are synced and when the delivery is done;
- *Synced*: the target directory is synced behind tmp, and success is reported
  behind both;

and that the target only has messages that were seen (`TargetSeen`). The first is
what `TmpReleased` and the contract lack to be inductive: a late error and a failure
pass through the same `drop`, and only `Stage` keeps them apart. `DeliverKeeps` has a
case per action; the frame `Frame` carries everything over to the other deliveries
(`KeptSuffices`). For the refinement every action is shown to be one of the moves
`Allowed`, and those to be steps of the contract.

`LocalLockProofs` proves `Exclusion`, `MissingOnlyInRace` and `WakesInTime` for any
finite set of processes, any mix of methods and any LOCKTIMEOUT and LOCKSLEEP, from
`LocalLockAssumption`.
Exclusion needs that an open lock file is the file at the path and that no process is
about to remove one (`Intact`); both hold until a file has outlived the LOCKTIMEOUT of
a dotlock user (`overdue`), and nothing is claimed from then on. The other two have
small invariants of their own (`RaceInv`, `ClockInv`).

`FanoutProofs` proves `PublicationIsPrefix`, `StatusMatchesDelivery`,
`NothingLeftPending`, `ReportNamesTheSink`, `SignalDecidesStatus` and
`SignalStopsPublication` for plans of any size, any limit on pending sinks and any
number of chunks, from `FanoutAssumption`. `FanoutInv` says for every state of the
run how far the loops over the sinks are (`Loops`), which sinks are open, pending or
published (`Phases`), what each has received (`Contents`), what is visible
(`Published`) and what will be reported (`Reported`). The properties speak of the
end; between opening, streaming, appending and committing they say nothing, and the
invariant fills that gap. The two action properties follow from it and from facts
about single steps: only `Finish` sets the status, and a pending signal leaves no
way to the first commit.

`CommandProofs` proves `GroupIsGone`, `NoPartialOutput` and `Supervised` for any
list of requests, any TIMEOUT, any sizes and whatever the processes do, from
`ExternalProcessAssumption` and `CommandRunnerAssumption`. `ProcInv` is about one
command: a waiter that gave up has sent both signals, nothing is lost between the
pipe and the reader, a reader that completed saw the end of a pipe nobody can
write to any more, and output is cut off only because of a signal, TIMEOUT or a
reader that failed. `RunnerInv` adds that a shell which was started and not reaped is
`Attended`: by the current request, the trap or the background list, under its lock.
That is what `Supervised` lacks: it speaks of the end, and of commands that already
left the current request.

The proofs about `OrderedEval` hold for every set of compiled trees, any number of
branches and any set of locks. `ProgramsAssumption` says that the compiler builds a
tree of such items: a block has its children, and an rc file that is entered is one
of the compiled ones. It does not exclude rc files that enter each other.
`OrderedInvariants` defines the invariants, which were model-checked on the trees of
the `ordered` run and of the findings before they were proved (`Counted` with its sum
as a fold, which TLC can evaluate).

- `OrderedShapeProofs`: `WellFormed` (`Shape`, `Data`, `Parents`) says that the
  stack of a thread is one that nested calls make: every caller stands at the item
  that entered its callee, a block is entered where its gate is open, and of any
  branches that run one is joined by an activation of a thread that is none of them
  (a branch has a parent, and no branches are each other's parents). `TypeOK` and
  `ChainCoherent` follow. Every action is shown to be a `Redo` (go on in the top
  activation), a `Back` (leave it), an `Enters`, the fork or the end of a thread,
  and the other invariants are proved from these forms. The module also has the
  facts about gates: recording keeps the state coherent, `a` opens only where `A`
  does and excludes `e` and `E`, and a handled E chain stays closed.
- `OrderedScopeProofs`: `LocksInv` says that a thread owns a lock exactly when one of
  its slots has it, and that no lock is in two slots. `LocksScoped` alone is not
  inductive: a lock in two slots would outlive the release of one. At the end
  nobody owns a lock because no branch is alive: of all that were, one would have its
  parent among the threads that ended (`LastOneOut`). `Isolated` follows the original
  message to where the first waited branch put it aside, which gives
  `OriginalIsolated`. `Elses` follows the chain of every activation and gives
  `ElseExclusive`.
- `OrderedPathProofs`: `Nest` says which sequences the activations of an include or a
  block run, so that a fact about the tree becomes one about the stack. `Earned` is
  `StatusIsEarned` before the end, for the current message or the one put aside.
  `Stops` says that a thread which delivered its message is on its way out of all
  its activations, with a control value that no level turns into a continuation.
  `Counted` says that no branch is joined by two activations and that the publications
  of thread 0 and of the branches still to be joined add up to the deliveries made and
  not failed behind publication; a joined branch has handed its own over. With
  `LateFailed` (such a failure left its error in a thread) it gives
  `CountsAllDeliveries`. The prover
  cannot define a sum over a set by recursion, so `AddUpTo` says that there is a
  function with the sum over every set of threads, and each step gives that function
  for the new state.

Three of these theorems have a hypothesis on the trees, because without it the
property is false; the findings are its counterexamples:

| Theorem | Holds for trees in which | Otherwise |
|---|---|---|
| `ElseStaysExclusive` | no E recipe is the next recipe behind a copy block (`NoElseAfterCopy`) | `ordered_else` |
| `StatusStaysEarned` | no included file has a HOST line (`NoHostIncluded`) | `ordered_host` |
| `StopStaysFinal` | in addition, no unwaited copy block is in a block or in an included file (`StopReaches`) | `ordered_stop` |

A tree that breaks one of the properties therefore has a construct that the middle
column excludes.
`ClassesAssumption` in `MCOrderedEval` has TLC evaluate that all trees of the
`ordered` run satisfy the hypotheses and that the tree of each finding violates its
own.

Only model-checked:

- the liveness properties `Termination`, `WaitEnds` and `CommandEnds`: fairness and
  ENABLED are out of the prover's reach;
- everything in the `evaluation` run, where words, trees and rc files are recursive
  data: what a recursive definition computes for every input needs an induction over
  data.

## Not modelled

- *rc parser* (`config/parser.rs`, apart from the control flags and the statement
  count): text to tree. The modules start from the tree.
- *The reading of a message* (`message.rs`): one sequential scan that separates header
  and body; the modules start behind it. Chunks and limits of the stream are in
  `FanoutDelivery`.
- *MIME conditions* (`mime.rs`): a limited walk over multipart bodies, beyond small
  sets of bytes; a body condition looks for a byte string.
- *Regular expressions*: an external library. *Structured address headers*
  (`structured_header.rs`), *RFC 2047 words* and the *keywords and status* edits of a
  `headers` block: conversions of text without state.
- *Environment of a child, special positional arguments* (`environment.rs`,
  `external_process.rs:424`): what is handed to `exec`, with no effect on the
  supervision.
- *`$$` and `$?` in words*: numbers of the operating system.
- *Command line parsing* of both programs, *check mode* and *dry run*: they deliver
  nothing. Check mode does not apply SHIFT.
- *The trace* reports and does not influence delivery. *Identity and host name
  lookups* are one value. *Fuzzing entry points* call what is modelled.
- *Opening an rc file* (owner, mode, size, encoding): one outcome per path, trusted
  or not.
- *Mail readers* that rewrite an mbox, and *outsiders* that change tmp of a Maildir.
- The content of records, messages and outputs, beyond the bytes that conditions and
  edits tell apart.
