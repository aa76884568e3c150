---------------------------- MODULE FanoutProofs ----------------------------
(***************************************************************************)
(* The safety properties of module FanoutDelivery, for plans of any size,  *)
(* any limit on pending sinks and any number of chunks.                    *)
(***************************************************************************)
EXTENDS FanoutDelivery, FiniteSetTheorems, TLAPS

\* The states of a run, by what is in progress: sinks are opened, the message
\* streams in, nothing is committed yet, sinks are committed, the result is known.
Opening == {"start", "open", "stage"}
Streaming == {"stage", "read", "tee", "validated", "map", "resume"}
Before == Opening \cup Streaming \cup {"openlate", "append", "check", "simulate"}
Committing == {"commit", "visible"}
Settled == {"abort", "finish", "exit"}
PCs == Before \cup Committing \cup Settled \cup {"crashed"}

\* The results a delivery can have.
Statuses == {Success, Input, Undelivered, 128 + SigTerm} \cup FailureClass

\* The type of the state, without the variables nothing is computed from.
Shape ==
    /\ phase \in [Sinks -> Phase]
    /\ visible \subseteq Sinks
    /\ written \in [Sinks -> 0..Chunks]
    /\ plan \in Plan
    /\ pc \in PCs
    /\ next \in 1..(MaxPlan + 1)
    /\ streamed \in 0..Chunks
    /\ signal \in {0, SigTerm}
    /\ lastfolder \in 0..MaxPlan
    /\ blamed \in 0..MaxPlan
    /\ outcome \in Statuses

\* Where each loop over the sinks stands, and which route leads to it.
Loops ==
    /\ pc \in {"start", "check"} => next = 1
    /\ pc = "validated" /\ plan.route = "decided" => next = 1
    /\ pc \in {"stage", "map", "resume", "openlate", "append"} => plan.route = "staged"
    /\ pc \in {"open", "tee"} => next <= Width + 1
    /\ pc \in {"openlate", "append"} => plan.early < next /\ next <= plan.total + 1
    /\ pc = "commit" => next <= plan.total + 1
    /\ pc = "visible" => next <= plan.total
    /\ pc \in {"openlate", "append", "check", "commit", "visible"} => ~plan.dryrun
    /\ pc = "simulate" => plan.dryrun

\* The number of sinks that have been opened, in plan order.
Opened ==
    CASE pc \in {"start", "simulate"} -> 0
      [] pc \in {"open", "openlate"} -> next - 1
      [] pc \in Streaming -> Width
      [] OTHER -> plan.total

\* Until the first commit the sinks opened so far are pending; while they are
\* committed, the ones before next are published.
Phases ==
    /\ pc \in Before => \A s \in Sinks : phase[s] = IF s <= Opened THEN "pending" ELSE "absent"
    /\ pc \in Committing => \A s \in Sinks :
         phase[s] = IF s < next THEN "published"
                    ELSE IF s > plan.total THEN "absent"
                    ELSE IF s = next /\ pc = "visible" THEN "visible" ELSE "pending"

\* What each sink has received.
Contents ==
    /\ pc \in Opening => streamed = 0 /\ \A s \in Sinks : written[s] = 0
    /\ pc = "read" => \A s \in Sinks : written[s] = IF s <= Width THEN streamed ELSE 0
    /\ pc = "tee" =>
        /\ streamed < Chunks
        /\ \A s \in Sinks : written[s] = IF s > Width THEN 0
                                         ELSE IF s < next THEN streamed + 1 ELSE streamed
    /\ pc \in {"validated", "map", "resume", "openlate"} =>
        /\ streamed = Chunks
        /\ \A s \in Sinks : written[s] = IF s <= Width THEN Chunks ELSE 0
    /\ pc = "append" =>
        /\ streamed = Chunks
        /\ \A s \in Sinks : written[s] = IF s < next THEN Chunks ELSE 0
    /\ pc \in Committing \cup {"check"} =>
        /\ streamed = Chunks
        /\ \A s \in 1..plan.total : written[s] = Chunks

\* What readers can see.
Published ==
    /\ pc \in Before => visible = {}
    /\ pc = "commit" => visible = 1..(next - 1)
    /\ pc = "visible" => visible = 1..next
    /\ pc \in Settled =>
        /\ visible = IF plan.dryrun THEN {} ELSE 1..lastfolder
        /\ visible = {s \in Sinks : phase[s] \in {"published", "late"}}
        /\ \A s \in Sinks : phase[s] # "visible"
    /\ pc \in {"finish", "exit"} => \A s \in Sinks : phase[s] # "pending"
    /\ \E n \in 0..MaxPlan : visible = 1..n
    /\ visible # {} => /\ ~plan.dryrun
                       /\ streamed = Chunks
                       /\ \A s \in 1..plan.total : written[s] = Chunks

\* The staging file: only the staged route has one, and it is unlinked before
\* anything is committed.
StagingGone ==
    /\ pc \in Opening \/ plan.route = "decided" => staging = "none"
    /\ pc \in {"resume", "openlate", "append", "check", "simulate", "finish",
           "exit"} \cup Committing
        => staging # "named"

\* What will be reported.
Reported ==
    /\ pc \in Before \cup Committing =>
        lastfolder = 0 /\ blamed = 0 /\ outcome = Success
    /\ exit = -1 <=> pc # "exit"
    /\ pc = "abort" => outcome \notin {Success, Undelivered}
    /\ pc \in Settled =>
        /\ outcome \in {Success, Undelivered} =>
            /\ outcome = Success <=> plan.original
            /\ plan.dryrun \/ \A s \in 1..plan.total : phase[s] = "published"
        /\ outcome = Input => visible = {}
        /\ outcome \in FailureClass /\ visible = 1..plan.total /\ plan.total > 0 =>
            phase[plan.total] = "late"
    /\ pc = "exit" /\ exitcode = "unset" /\ signal = 0 => exit = outcome
    /\ blamed # 0 => phase[blamed] \in {"failed", "late"} \/ written[blamed] < Chunks

\* The inductive invariant: it says of every state of the delivery how far each
\* sink is, so that visible, status and report can be read off the state.
FanoutInv ==
    Shape /\ Loops /\ Phases /\ Contents /\ Published /\ StagingGone /\ Reported

\* What a plan says: the destinations decided by the header come first, a decided
\* plan has no others, and a dry run opens none (deliver_decided, deliver_staged).
LEMMA PlanFacts ==
    ASSUME plan \in Plan
    PROVE  /\ plan.early \in 0..MaxPlan
           /\ plan.total \in 0..MaxPlan
           /\ plan.early <= plan.total
           /\ plan.dryrun \in BOOLEAN
           /\ plan.original \in BOOLEAN
           /\ plan.route \in {"decided", "staged"}
           /\ plan.route = "decided" => plan.early = plan.total
           /\ plan.original => plan.total > 0
           /\ Width \in 0..MaxPlan
           /\ Width <= plan.total
           /\ plan.dryrun => Width = 0
           /\ ~plan.dryrun => Width = plan.early
<1>1. plan \in [route : {"decided", "staged"}, dryrun : BOOLEAN,
                early : 0..MaxPlan, total : 0..MaxPlan, original : BOOLEAN]
  BY Zenon DEF Plan
<1>2. /\ plan.early <= plan.total
      /\ plan.route = "decided" => plan.early = plan.total
      /\ plan.original => plan.total > 0
  BY Zenon DEF Plan
<1>3. /\ plan.dryrun => Width = 0
      /\ ~plan.dryrun => Width = plan.early
  BY Zenon DEF Width
<1>4. /\ plan.early \in 0..MaxPlan
      /\ plan.total \in 0..MaxPlan
      /\ plan.dryrun \in BOOLEAN
      /\ plan.original \in BOOLEAN
      /\ plan.route \in {"decided", "staged"}
  BY <1>1, Zenon
<1>5. Width \in 0..MaxPlan /\ Width <= plan.total
  <2>1. CASE plan.dryrun
    BY <2>1, <1>3, <1>4, FanoutAssumption
  <2>2. CASE ~plan.dryrun
    BY <2>2, <1>2, <1>3, <1>4, FanoutAssumption, Zenon
  <2> QED
    BY <2>1, <2>2, Zenon
<1> QED
  BY <1>2, <1>3, <1>4, <1>5, Zenon

\* The empty set is the empty prefix of the plan.
LEMMA NoneVisible ==
    ASSUME visible = {}
    PROVE  \E n \in 0..MaxPlan : visible = 1..n
<1>1. 0 \in 0..MaxPlan /\ 1..0 = {}
  BY FanoutAssumption
<1> QED
  BY <1>1, Zenon

\* A step of streaming that publishes nothing keeps what readers see and what will
\* be reported (stream_to, append_bytes).
LEMMA Advance ==
    ASSUME FanoutInv, pc \in Before, pc' \in Before,
           UNCHANGED <<visible, lastfolder, blamed, outcome, exit>>
    PROVE  Published' /\ Reported'
<1>1. visible = {} /\ visible' = {}
  BY Zenon DEF FanoutInv, Published
<1>2. \E n \in 0..MaxPlan : visible' = 1..n
  BY <1>1, NoneVisible, Zenon
<1>3. pc' \notin Committing /\ pc' \notin Settled /\ pc' \notin {"commit", "visible", "finish",
          "exit", "abort"}
  BY Zenon DEF Before, Committing, Settled, Opening, Streaming
<1>4. pc # "exit"
  BY Zenon DEF Before, Opening, Streaming
<1>5. lastfolder = 0 /\ blamed = 0 /\ outcome = Success /\ exit = -1
  BY <1>4, Zenon DEF FanoutInv, Reported
<1>6. Published'
  BY <1>1, <1>2, <1>3, Zenon DEF Published
<1>7. Reported'
  BY <1>3, <1>5, Zenon DEF Reported
<1> QED
  BY <1>6, <1>7, Zenon

\* An error return before the first commit leaves nothing visible, and the status
\* it chose reports nothing as delivered (the ? operators of deliver_decided and
\* deliver_staged).
LEMMA Abort ==
    ASSUME FanoutInv, pc \in Before, pc' = "abort",
           outcome' \in {Input, 128 + SigTerm} \cup FailureClass,
           UNCHANGED <<run, visible, written, streamed, signal, lastfolder, exit>>,
           phase' \in [Sinks -> Phase],
           \A s \in Sinks : phase'[s] \in {"absent", "pending", "failed"},
           next' \in 1..(MaxPlan + 1),
           blamed' \in 0..MaxPlan,
           blamed' # 0 => phase'[blamed'] = "failed" \/ written[blamed'] < Chunks,
           plan.route = "decided" => staging' = "none"
    PROVE  FanoutInv'
<1>1. pc # "exit"
  BY Zenon DEF Before, Opening, Streaming
<1>2. visible' = {} /\ lastfolder' = 0 /\ exit' = -1
  BY <1>1, Zenon DEF FanoutInv, Published, Reported
<1>3. outcome' \notin {Success, Undelivered} /\ outcome' \in Statuses
  BY DEF Statuses, FailureClass, Success, Input, Internal, PermanentDestination,
         TemporaryDelivery, Undelivered, SigTerm
<1>4. /\ plan' = plan
      /\ plan \in Plan
  BY Zenon DEF FanoutInv, Shape, run
<1>5. Shape'
  <2>1. pc' \in PCs
    BY Zenon DEF PCs, Settled
  <2> QED
    BY <2>1, <1>3, Zenon DEF FanoutInv, Shape, run
<1>6. Loops' /\ Phases' /\ Contents' /\ StagingGone'
  BY <1>4, Zenon DEF Loops, Phases, Contents, StagingGone, Before, Opening, Streaming, Committing
<1>7. Published'
  <2>1. \E n \in 0..MaxPlan : visible' = 1..n
    BY <1>2, NoneVisible, Zenon
  <2>2. 1..lastfolder' = {}
    BY <1>2
  <2>3. visible' = {s \in Sinks : phase'[s] \in {"published", "late"}}
    BY <1>2, Zenon
  <2>4. \A s \in Sinks : phase'[s] # "visible"
    BY Zenon
  <2>5. pc' \notin Before \cup {"commit", "visible", "finish", "exit"}
    BY Zenon DEF Before, Opening, Streaming
  <2> QED
    BY <2>1, <2>2, <2>3, <2>4, <2>5, <1>2, Zenon DEF Published
<1>8. Reported'
  <2>1. pc' \notin Before \cup Committing \cup {"exit"}
    BY Zenon DEF Before, Opening, Streaming, Committing
  <2>2. visible' = 1..plan'.total /\ plan'.total > 0 => FALSE
    <3>1. plan'.total \in Nat
      BY <1>4, PlanFacts, FanoutAssumption
    <3>2. plan'.total > 0 => plan'.total \in 1..plan'.total
      BY <3>1
    <3> QED
      BY <3>2, <1>2, Zenon
  <2>3. blamed' # 0 => phase'[blamed'] \in {"failed", "late"} \/ written'[blamed'] < Chunks
    BY Zenon
  <2> QED
    BY <2>1, <2>2, <2>3, <1>2, <1>3, Zenon DEF Reported
<1> QED
  BY <1>5, <1>6, <1>7, <1>8, Zenon DEF FanoutInv

-----------------------------------------------------------------------------
\* Before the first commit a sink is absent or pending.
LEMMA BeforePhases ==
    ASSUME FanoutInv, pc \in Before
    PROVE  \A s \in Sinks : phase[s] \in {"absent", "pending"}
BY Zenon DEF FanoutInv, Phases

\* An error return that blames no destination.
LEMMA AbortUntouched ==
    ASSUME FanoutInv, pc \in Before, pc' = "abort",
           outcome' \in {Input, 128 + SigTerm} \cup FailureClass,
           UNCHANGED <<sinkVars, run, streamed, signal, lastfolder, blamed, exit>>,
           next' \in 1..(MaxPlan + 1),
           plan.route = "decided" => staging' = "none"
    PROVE  FanoutInv'
<1>1. \A s \in Sinks : phase'[s] \in {"absent", "pending", "failed"}
  BY BeforePhases, Zenon DEF sinkVars
<1>2. phase' \in [Sinks -> Phase]
  BY Zenon DEF FanoutInv, Shape, sinkVars
<1>3. blamed' = 0 /\ 0 \in 0..MaxPlan
  BY FanoutAssumption DEF FanoutInv, Reported
<1>4. UNCHANGED <<run, visible, written, streamed, signal, lastfolder, exit>>
  BY Zenon DEF sinkVars
<1> QED
  BY <1>1, <1>2, <1>3, <1>4, Abort, Zenon

\* check_signal that finds a signal before the first commit.
LEMMA SignalAborts ==
    ASSUME FanoutInv, NEW from, NEW to, CheckSignal(from, to), from \in Before,
           UNCHANGED <<sinkVars, run, streamed, signal, staging, lastfolder, blamed, exit>>,
           next' \in 1..(MaxPlan + 1),
           pc' # to
    PROVE  FanoutInv'
<1>1. signal # 0 /\ Fail(from, 128 + signal)
  BY Zenon DEF CheckSignal, Goto
<1>2. signal = SigTerm
  BY <1>1, Zenon DEF FanoutInv, Shape
<1>3. pc \in Before /\ pc' = "abort" /\ outcome' = 128 + SigTerm
  BY <1>1, <1>2, Zenon DEF Fail, Goto
<1>4. plan.route = "decided" => staging' = "none"
  BY Zenon DEF FanoutInv, StagingGone
<1> QED
  BY <1>3, <1>4, AbortUntouched, Zenon

\* The first check_signal keeps the invariant.
LEMMA StartKeeps == FanoutInv /\ Start => FanoutInv'
<1> SUFFICES ASSUME FanoutInv, Start PROVE FanoutInv'
  BY Zenon
<1>1. CASE pc' = "open"
  <2>1. pc = "start" /\ outcome' = outcome
    BY <1>1, Zenon DEF Start, CheckSignal, Goto, Fail
  <2>2. pc \in Before /\ pc' \in Before /\ pc' \in PCs
    BY <1>1, <2>1, Zenon DEF Before, Opening, PCs
  <2>3. /\ UNCHANGED <<phase, visible, written, plan, next, streamed, signal, staging>>
        /\ UNCHANGED <<lastfolder, blamed, outcome, exit>>
    BY <2>1, Zenon DEF Start, sinkVars, run
  <2>4. Shape'
    BY <2>2, <2>3, Zenon DEF FanoutInv, Shape
  <2>5. next = 1 /\ Width \in 0..MaxPlan
    BY <2>1, PlanFacts, Zenon DEF FanoutInv, Loops, Shape
  <2>6. Loops'
    BY <1>1, <2>3, <2>5 DEF Loops, Width
  <2>7. Phases'
    <3>1. Opened = 0 /\ Opened' = 0
      BY <1>1, <2>1, <2>3, <2>5 DEF Opened, Streaming
    <3> QED
      BY <1>1, <2>1, <2>2, <2>3, <3>1, Zenon DEF FanoutInv, Phases, Committing
  <2>8. Contents' /\ StagingGone'
    BY <1>1, <2>1, <2>3, Zenon DEF FanoutInv, Contents, StagingGone, Committing, Opening
  <2> QED
    BY <2>2, <2>3, <2>4, <2>6, <2>7, <2>8, Advance, Zenon DEF FanoutInv
<1>2. CASE pc' # "open"
  <2>1. "start" \in Before
    BY Zenon DEF Before, Opening
  <2>2. next' \in 1..(MaxPlan + 1)
    BY Zenon DEF Start, FanoutInv, Shape
  <2> QED
    BY <1>2, <2>1, <2>2, SignalAborts, Zenon DEF Start
<1> QED
  BY <1>1, <1>2, Zenon

\* StagingFile::create keeps the invariant.
LEMMA CreateStagingKeeps == FanoutInv /\ CreateStaging => FanoutInv'
<1> SUFFICES ASSUME FanoutInv, CreateStaging PROVE FanoutInv'
  BY Zenon
<1>0. /\ UNCHANGED <<sinkVars, run, next, streamed, signal, lastfolder, blamed, exit>>
      /\ pc = "stage"
      /\ pc \in Before
  BY Zenon DEF CreateStaging, Goto, Fail, Before, Opening
<1>1. CASE Goto("stage", "read") /\ staging' = "named" /\ UNCHANGED outcome
  <2>1. pc' = "read" /\ pc' \in Before /\ pc' \in PCs
    BY <1>1, Zenon DEF Goto, Before, Streaming, PCs
  <2>2. UNCHANGED <<phase, visible, written, plan, next, streamed, signal, lastfolder, blamed,
                    outcome, exit>>
    BY <1>0, <1>1, Zenon DEF sinkVars, run
  <2>3. Shape' /\ Loops'
    BY <2>1, <2>2, Zenon DEF FanoutInv, Shape, Loops
  <2>4. Phases'
    BY <1>0, <2>1, <2>2, Zenon DEF FanoutInv, Phases, Opened, Committing, Streaming, Width
  <2>5. Contents'
    BY <1>0, <2>1, <2>2, Zenon DEF FanoutInv, Contents, Committing, Opening
  <2>6. StagingGone'
    BY <1>0, <2>1, <2>2, Zenon DEF FanoutInv, StagingGone, Loops, Committing, Opening
  <2> QED
    BY <1>0, <2>1, <2>2, <2>3, <2>4, <2>5, <2>6, Advance, Zenon DEF FanoutInv
<1>2. CASE Fail("stage", TemporaryDelivery) /\ UNCHANGED staging
  <2>1. pc' = "abort" /\ outcome' \in FailureClass
    BY <1>2, Zenon DEF Fail, Goto, FailureClass
  <2>2. plan.route = "decided" => staging' = "none"
    BY <1>2, Zenon DEF FanoutInv, StagingGone
  <2>3. next' \in 1..(MaxPlan + 1)
    BY <1>0, Zenon DEF FanoutInv, Shape
  <2> QED
    BY <1>0, <2>1, <2>2, <2>3, AbortUntouched, Zenon
<1> QED
  BY <1>1, <1>2, Zenon DEF CreateStaging

\* Reading from stdin keeps the invariant: the end of the input is reached with
\* every chunk in every open sink (stream_to, InterruptibleReader).
LEMMA ReadInputKeeps == FanoutInv /\ ReadInput => FanoutInv'
<1> SUFFICES ASSUME FanoutInv, ReadInput PROVE FanoutInv'
  BY Zenon
<1>0. /\ UNCHANGED <<sinkVars, run, streamed, signal, staging, lastfolder, blamed, exit>>
      /\ next' = 1
      /\ next' \in 1..(MaxPlan + 1)
      /\ pc = "read"
      /\ pc \in Before
  BY FanoutAssumption DEF ReadInput, Goto, Fail, Before, Streaming
<1>1. CASE pc' \in {"tee", "validated"} /\ UNCHANGED outcome
  <2>1. pc' \in Before /\ pc' \in PCs
    BY <1>1, Zenon DEF Before, Streaming, PCs
  <2>2. UNCHANGED <<phase, visible, written, plan, streamed, signal, staging, lastfolder, blamed,
                    outcome, exit>>
    BY <1>0, <1>1, Zenon DEF sinkVars, run
  <2>3. Width \in 0..MaxPlan /\ Width' = Width
    BY <2>2, PlanFacts, Zenon DEF FanoutInv, Shape, Width
  <2>4. Shape'
    BY <1>0, <2>1, <2>2, Zenon DEF FanoutInv, Shape
  <2>5. Loops'
    BY <1>0, <1>1, <2>3, FanoutAssumption DEF Loops
  <2>6. Phases'
    <3>1. Opened = Width /\ Opened' = Width
      BY <1>0, <1>1, <2>3, Zenon DEF Opened, Streaming
    <3> QED
      BY <1>0, <1>1, <2>1, <2>2, <3>1, Zenon DEF FanoutInv, Phases, Committing
  <2>7. Contents'
    <3>1. \A s \in Sinks : written[s] = IF s <= Width THEN streamed ELSE 0
      BY <1>0, Zenon DEF FanoutInv, Contents
    <3>2. /\ pc' = "tee" => streamed < Chunks
          /\ pc' = "validated" => streamed = Chunks
      BY <1>1, FanoutAssumption DEF ReadInput, Goto, Fail, FanoutInv, Shape
    <3>3. CASE pc' = "tee"
      BY <1>0, <2>2, <2>3, <3>1, <3>2, <3>3, FanoutAssumption DEF Contents, Committing, Opening
    <3>4. CASE pc' = "validated"
      BY <2>2, <2>3, <3>1, <3>2, <3>4, Zenon DEF Contents, Committing, Opening
    <3> QED
      BY <1>1, <3>3, <3>4, Zenon
  <2>8. StagingGone'
    BY <1>0, <1>1, <2>2, Zenon DEF FanoutInv, StagingGone, Committing, Opening
  <2> QED
    BY <1>0, <2>1, <2>2, <2>4, <2>5, <2>6, <2>7, <2>8, Advance, Zenon DEF FanoutInv
<1>2. CASE Fail("read", Input)
  <2>1. pc' = "abort" /\ outcome' = Input
    BY <1>2, Zenon DEF Fail, Goto
  <2>2. plan.route = "decided" => staging' = "none"
    BY <1>0, Zenon DEF FanoutInv, StagingGone
  <2> QED
    BY <1>0, <2>1, <2>2, AbortUntouched, Zenon
<1> QED
  BY <1>1, <1>2, Zenon DEF ReadInput, Goto

\* PendingFanout::write keeps the invariant: the sinks before the current one are
\* one chunk ahead of the others, and the blamed one is behind.
LEMMA WriteFanoutKeeps == FanoutInv /\ WriteFanout => FanoutInv'
<1> SUFFICES ASSUME FanoutInv, WriteFanout PROVE FanoutInv'
  BY Zenon
<1>0. /\ UNCHANGED <<run, streamed, signal, staging, lastfolder, exit>>
      /\ pc = "tee"
      /\ pc \in Before
      /\ next <= Width
  BY Zenon DEF WriteFanout, Goto, Fail, Before, Streaming
<1>1. /\ Width \in 0..MaxPlan
      /\ Width' = Width
      /\ next \in 1..(MaxPlan + 1)
      /\ next \in Sinks
      /\ streamed \in 0..Chunks
      /\ streamed < Chunks
  BY <1>0, PlanFacts, FanoutAssumption DEF FanoutInv, Shape, Width, run, Contents
<1>2. \A s \in Sinks : written[s] = IF s > Width THEN 0
                                    ELSE IF s < next THEN streamed + 1 ELSE streamed
  BY <1>0, Zenon DEF FanoutInv, Contents
<1>3. CASE /\ Goto("tee", "tee")
           /\ WriteSink(next)
           /\ next' = next + 1
           /\ UNCHANGED <<blamed, outcome>>
  <2>1. pc' = "tee" /\ pc' \in Before /\ pc' \in PCs
    BY <1>3, Zenon DEF Goto, Before, Streaming, PCs
  <2>2. UNCHANGED <<phase, visible, plan, streamed, signal, staging, lastfolder, blamed, outcome,
                    exit>>
    BY <1>0, <1>3, Zenon DEF WriteSink, run
  <2>3. /\ written \in [Sinks -> 0..Chunks]
        /\ written' = [written EXCEPT ![next] = written[next] + 1]
    BY <1>3, Zenon DEF WriteSink, FanoutInv, Shape
  <2>4. /\ \A s \in Sinks : written'[s] = IF s > Width THEN 0
                                          ELSE IF s < next' THEN streamed + 1 ELSE streamed
        /\ written' \in [Sinks -> 0..Chunks]
    BY <1>0, <1>1, <1>2, <1>3, <2>3, FanoutAssumption
  <2>5. Shape'
    BY <1>0, <1>1, <1>3, <2>1, <2>2, <2>4, FanoutAssumption DEF FanoutInv, Shape
  <2>6. Loops'
    BY <1>0, <1>1, <1>3, <2>1 DEF Loops
  <2>7. Phases'
    <3>1. Opened = Width /\ Opened' = Width
      BY <1>0, <1>1, <2>1, Zenon DEF Opened, Streaming
    <3> QED
      BY <1>0, <2>1, <2>2, <3>1, Zenon DEF FanoutInv, Phases, Committing
  <2>8. Contents'
    BY <1>1, <2>1, <2>2, <2>4, Zenon DEF Contents, Committing, Opening
  <2>9. StagingGone'
    BY <1>0, <2>1, <2>2, Zenon DEF FanoutInv, StagingGone, Committing, Opening
  <2> QED
    BY <1>0, <2>1, <2>2, <2>5, <2>6, <2>7, <2>8, <2>9, Advance, Zenon DEF FanoutInv
<1>4. CASE /\ \E class \in FailureClass : Fail("tee", class)
           /\ Blame(next)
           /\ UNCHANGED <<sinkVars, next>>
  <2>1. pc' = "abort" /\ outcome' \in FailureClass /\ blamed' = next /\ next' = next
    BY <1>4, Zenon DEF Fail, Goto, Blame
  <2>2. UNCHANGED <<run, phase, visible, written, streamed, signal, lastfolder, exit>>
    BY <1>0, <1>4, Zenon DEF sinkVars
  <2>3. phase' \in [Sinks -> Phase] /\ \A s \in Sinks : phase'[s] \in {"absent", "pending",
            "failed"}
    BY <1>0, <2>2, BeforePhases, Zenon DEF FanoutInv, Shape
  <2>4. blamed' \in 0..MaxPlan /\ written[blamed'] < Chunks
    BY <1>0, <1>1, <1>2, <2>1, FanoutAssumption
  <2>5. plan.route = "decided" => staging' = "none"
    BY <1>0, Zenon DEF FanoutInv, StagingGone
  <2> QED
    BY <1>0, <1>1, <2>1, <2>2, <2>3, <2>4, <2>5, Abort, Zenon
<1> QED
  BY <1>3, <1>4, Zenon DEF WriteFanout

\* The staging half of TeeWriter keeps the invariant: all sinks are level again.
LEMMA WriteStagingKeeps == FanoutInv /\ WriteStaging => FanoutInv'
<1> SUFFICES ASSUME FanoutInv, WriteStaging PROVE FanoutInv'
  BY Zenon
<1>0. /\ UNCHANGED <<sinkVars, run, next, signal, staging, lastfolder, blamed, exit>>
      /\ pc = "tee"
      /\ pc \in Before
      /\ next > Width
      /\ next' \in 1..(MaxPlan + 1)
  BY Zenon DEF WriteStaging, Goto, Fail, Before, Streaming, FanoutInv, Shape
<1>1. CASE Goto("tee", "read") /\ streamed' = streamed + 1 /\ UNCHANGED outcome
  <2>1. pc' = "read" /\ pc' \in Before /\ pc' \in PCs
    BY <1>1, Zenon DEF Goto, Before, Streaming, PCs
  <2>2. UNCHANGED <<phase, visible, written, plan, next, signal, staging, lastfolder, blamed,
                    outcome, exit>>
    BY <1>0, <1>1, Zenon DEF sinkVars, run
  <2>3. /\ Width \in 0..MaxPlan
        /\ Width' = Width
        /\ next \in 1..(MaxPlan + 1)
        /\ streamed \in 0..Chunks
        /\ streamed < Chunks
    BY <1>0, <2>2, PlanFacts, Zenon DEF FanoutInv, Shape, Width, Contents
  <2>4. \A s \in Sinks : written'[s] = IF s <= Width THEN streamed' ELSE 0
    <3>1. \A s \in Sinks : written[s] = IF s > Width THEN 0
                                        ELSE IF s < next THEN streamed + 1 ELSE streamed
      BY <1>0, Zenon DEF FanoutInv, Contents
    <3> QED
      BY <1>0, <1>1, <2>2, <2>3, <3>1, FanoutAssumption
  <2>5. Shape'
    BY <1>1, <2>1, <2>2, <2>3, FanoutAssumption DEF FanoutInv, Shape
  <2>6. Loops'
    BY <2>1, Zenon DEF Loops
  <2>7. Phases'
    <3>1. Opened = Width /\ Opened' = Width
      BY <1>0, <2>1, <2>3, Zenon DEF Opened, Streaming
    <3> QED
      BY <1>0, <2>1, <2>2, <3>1, Zenon DEF FanoutInv, Phases, Committing
  <2>8. Contents' /\ StagingGone'
    BY <1>0, <2>1, <2>2, <2>3, <2>4, Zenon DEF FanoutInv, Contents, StagingGone, Committing, Opening
  <2> QED
    BY <1>0, <2>1, <2>2, <2>5, <2>6, <2>7, <2>8, Advance, Zenon DEF FanoutInv
<1>2. CASE (\E class \in FailureClass : Fail("tee", class)) /\ UNCHANGED streamed
  <2>1. pc' = "abort" /\ outcome' \in FailureClass
    BY <1>2, Zenon DEF Fail, Goto
  <2>2. plan.route = "decided" => staging' = "none"
    BY <1>0, Zenon DEF FanoutInv, StagingGone
  <2> QED
    BY <1>0, <1>2, <2>1, <2>2, AbortUntouched, Zenon
<1> QED
  BY <1>1, <1>2, Zenon DEF WriteStaging

\* The end of stream_to keeps the invariant.
LEMMA ValidatedKeeps == FanoutInv /\ Validated => FanoutInv'
<1> SUFFICES ASSUME FanoutInv, Validated PROVE FanoutInv'
  BY Zenon
<1> DEFINE to == IF plan.route = "decided" THEN "check" ELSE "map"
<1>0. /\ UNCHANGED <<sinkVars, run, next, streamed, signal, staging, lastfolder, blamed, exit>>
      /\ pc = "validated"
      /\ pc \in Before
      /\ next' \in 1..(MaxPlan + 1)
  BY Zenon DEF Validated, CheckSignal, Goto, Fail, Before, Streaming, FanoutInv, Shape
<1>1. CASE /\ pc' \in {"simulate", "check", "map"}
           /\ UNCHANGED outcome
           /\ pc' = "simulate" => plan.route = "decided" /\ plan.dryrun
           /\ pc' = "check" => plan.route = "decided" /\ ~plan.dryrun
           /\ pc' = "map" => plan.route = "staged"
  <2>1. pc' \in Before /\ pc' \in PCs
    BY <1>1, Zenon DEF Before, Streaming, PCs
  <2>2. UNCHANGED <<phase, visible, written, plan, next, streamed, signal, staging, lastfolder,
                    blamed, outcome, exit>>
    BY <1>0, <1>1, Zenon DEF sinkVars, run
  <2>3. /\ Width \in 0..MaxPlan /\ Width' = Width
        /\ plan.dryrun => Width = 0
        /\ plan.total \in 0..MaxPlan
        /\ ~plan.dryrun /\ plan.route = "decided" => Width = plan.total
    BY <2>2, PlanFacts, Zenon DEF FanoutInv, Shape, Width
  <2>4. Shape'
    BY <2>1, <2>2, Zenon DEF FanoutInv, Shape
  <2>5. Loops'
    BY <1>0, <1>1, <2>2, Zenon DEF FanoutInv, Loops
  <2>6. Phases'
    <3>1. Opened = Width
      BY <1>0, Zenon DEF Opened, Streaming
    <3>2. Opened' = Width
      <4>1. CASE pc' = "simulate"
        BY <1>1, <4>1, <2>3, Zenon DEF Opened
      <4>2. CASE pc' = "check"
        BY <1>1, <4>2, <2>2, <2>3, Zenon DEF Opened, Streaming
      <4>3. CASE pc' = "map"
        BY <4>3, <2>3, Zenon DEF Opened, Streaming
      <4> QED
        BY <1>1, <4>1, <4>2, <4>3, Zenon
    <3> QED
      BY <1>0, <1>1, <2>1, <2>2, <3>1, <3>2, Zenon DEF FanoutInv, Phases, Committing
  <2>7. Contents'
    <3>1. streamed = Chunks /\ \A s \in Sinks : written[s] = IF s <= Width THEN Chunks ELSE 0
      BY <1>0, Zenon DEF FanoutInv, Contents
    <3>2. pc' = "check" => \A s \in 1..plan.total : written[s] = Chunks
      BY <1>1, <2>3, <3>1, FanoutAssumption
    <3> QED
      BY <1>1, <2>2, <2>3, <3>1, <3>2, Zenon DEF Contents, Committing, Opening
  <2>8. StagingGone'
    BY <1>0, <1>1, <2>2, Zenon DEF FanoutInv, StagingGone, Committing, Opening
  <2> QED
    BY <1>0, <2>1, <2>2, <2>4, <2>5, <2>6, <2>7, <2>8, Advance, Zenon DEF FanoutInv
<1>2. CASE CheckSignal("validated", to) /\ pc' # to
  BY <1>0, <1>2, SignalAborts, Zenon
<1>3. CASE CheckSignal("validated", to) /\ pc' = to /\ ~(plan.route = "decided" /\ plan.dryrun)
  <2>1. outcome' = outcome
    BY <1>3, Zenon DEF CheckSignal, Fail, Goto
  <2>2. plan.route \in {"decided", "staged"}
    BY PlanFacts, Zenon DEF FanoutInv, Shape
  <2> QED
    BY <1>1, <1>3, <2>1, <2>2, Zenon
<1>4. CASE plan.route = "decided" /\ plan.dryrun /\ Goto("validated",
          "simulate") /\ UNCHANGED outcome
  BY <1>1, <1>4, Zenon DEF Goto
<1> QED
  BY <1>2, <1>3, <1>4, Zenon DEF Validated

\* StagingFile::map keeps the invariant.
LEMMA MapStagingKeeps == FanoutInv /\ MapStaging => FanoutInv'
<1> SUFFICES ASSUME FanoutInv, MapStaging PROVE FanoutInv'
  BY Zenon
<1>0. /\ UNCHANGED <<sinkVars, run, next, streamed, signal, lastfolder, blamed, exit>>
      /\ pc = "map"
      /\ pc \in Before
      /\ next' \in 1..(MaxPlan + 1)
      /\ plan.route # "decided"
  BY Zenon DEF MapStaging, Goto, Fail, Before, Streaming, FanoutInv, Shape, Loops
<1>1. CASE Goto("map", "resume") /\ staging' = "gone" /\ UNCHANGED outcome
  <2>1. pc' = "resume" /\ pc' \in Before /\ pc' \in PCs
    BY <1>1, Zenon DEF Goto, Before, Streaming, PCs
  <2>2. UNCHANGED <<phase, visible, written, plan, next, streamed, signal, lastfolder, blamed,
                    outcome, exit>>
    BY <1>0, <1>1, Zenon DEF sinkVars, run
  <2>3. Shape' /\ Loops'
    BY <1>0, <2>1, <2>2, Zenon DEF FanoutInv, Shape, Loops
  <2>4. Phases'
    BY <1>0, <2>1, <2>2, Zenon DEF FanoutInv, Phases, Opened, Committing, Streaming, Width
  <2>5. Contents'
    BY <1>0, <2>1, <2>2, Zenon DEF FanoutInv, Contents, Committing, Opening, Width
  <2>6. StagingGone'
    BY <1>0, <1>1, <2>1, <2>2, Zenon DEF StagingGone, Opening
  <2> QED
    BY <1>0, <2>1, <2>2, <2>3, <2>4, <2>5, <2>6, Advance, Zenon DEF FanoutInv
<1>2. CASE Fail("map", Internal)
  <2>1. pc' = "abort" /\ outcome' \in FailureClass
    BY <1>2, Zenon DEF Fail, Goto, FailureClass
  <2> QED
    BY <1>0, <2>1, AbortUntouched, Zenon
<1> QED
  BY <1>1, <1>2, Zenon DEF MapStaging

\* The step from the staged message to the late destinations keeps the invariant
\* (stage_matching_message, resume_with_trace).
LEMMA ResumeKeeps == FanoutInv /\ Resume => FanoutInv'
<1> SUFFICES ASSUME FanoutInv, Resume PROVE FanoutInv'
  BY Zenon
<1> DEFINE to == IF plan.dryrun THEN "simulate" ELSE "openlate"
<1>0. /\ UNCHANGED <<sinkVars, run, streamed, signal, staging, lastfolder, blamed, exit>>
      /\ next' = plan.early + 1
      /\ pc = "resume"
      /\ pc \in Before
      /\ plan.route = "staged"
  BY Zenon DEF Resume, CheckSignal, Goto, Fail, Before, Streaming, FanoutInv, Loops
<1>1. /\ Width \in 0..MaxPlan
      /\ Width' = Width
      /\ plan.early \in 0..MaxPlan
      /\ plan.total \in 0..MaxPlan
      /\ plan.early <= plan.total
      /\ plan.dryrun => Width = 0
      /\ ~plan.dryrun => Width = plan.early
  BY <1>0, PlanFacts, Zenon DEF FanoutInv, Shape, Width, run
<1>2. next' \in 1..(MaxPlan + 1)
  BY <1>0, <1>1, FanoutAssumption
<1>3. CASE CheckSignal("resume", to) /\ pc' = to
  <2>1. pc' \in Before /\ pc' \in PCs
    BY <1>3, Zenon DEF Before, PCs
  <2>2. UNCHANGED <<phase, visible, written, plan, streamed, signal, staging, lastfolder, blamed,
                    outcome, exit>>
    BY <1>0, <1>3, Zenon DEF sinkVars, run, CheckSignal, Fail, Goto
  <2>3. Shape'
    BY <1>2, <2>1, <2>2, Zenon DEF FanoutInv, Shape
  <2>4. Loops'
    BY <1>0, <1>1, <1>3, <2>2, FanoutAssumption DEF Loops
  <2>5. Phases'
    <3>1. Opened = Width
      BY <1>0, Zenon DEF Opened, Streaming
    <3>2. Opened' = Width
      <4>1. CASE plan.dryrun
        BY <4>1, <1>1, <1>3, Zenon DEF Opened
      <4>2. CASE ~plan.dryrun
        BY <4>2, <1>0, <1>1, <1>3 DEF Opened
      <4> QED
        BY <4>1, <4>2, Zenon
    <3> QED
      BY <1>0, <1>3, <2>1, <2>2, <3>1, <3>2, Zenon DEF FanoutInv, Phases, Committing
  <2>6. Contents'
    BY <1>0, <1>1, <1>3, <2>2, Zenon DEF FanoutInv, Contents, Committing, Opening
  <2>7. StagingGone'
    BY <1>0, <1>3, <2>2, Zenon DEF FanoutInv, StagingGone, Committing, Opening
  <2> QED
    BY <1>0, <2>1, <2>2, <2>3, <2>4, <2>5, <2>6, <2>7, Advance, Zenon DEF FanoutInv
<1>4. CASE CheckSignal("resume", to) /\ pc' # to
  BY <1>0, <1>2, <1>4, SignalAborts, Zenon
<1>5. CASE \E class \in FailureClass : Fail("resume", class)
  <2>1. pc' = "abort" /\ outcome' \in FailureClass
    BY <1>5, Zenon DEF Fail, Goto
  <2> QED
    BY <1>0, <1>2, <2>1, AbortUntouched, Zenon
<1> QED
  BY <1>3, <1>4, <1>5, Zenon DEF Resume

\* The last check_signal keeps the invariant: the commit starts with every sink of
\* the plan pending and holding the whole message (commit_delivery).
LEMMA CheckBeforeCommitKeeps == FanoutInv /\ CheckBeforeCommit => FanoutInv'
<1> SUFFICES ASSUME FanoutInv, CheckBeforeCommit PROVE FanoutInv'
  BY Zenon
<1>0. /\ UNCHANGED <<sinkVars, run, next, streamed, signal, staging, lastfolder, blamed, exit>>
      /\ pc = "check"
      /\ pc \in Before
      /\ next' \in 1..(MaxPlan + 1)
  BY Zenon DEF CheckBeforeCommit, CheckSignal, Goto, Fail, Before, FanoutInv, Shape
<1>1. CASE pc' = "commit"
  <2>1. UNCHANGED <<phase, visible, written, plan, next, streamed, signal, staging, lastfolder,
                    blamed, outcome, exit>>
    BY <1>0, <1>1, Zenon DEF sinkVars, run, CheckBeforeCommit, CheckSignal, Fail, Goto
  <2>2. /\ plan.total \in 0..MaxPlan
        /\ next = 1
        /\ ~plan.dryrun
    BY <1>0, PlanFacts, Zenon DEF FanoutInv, Shape, Loops
  <2>3. Shape'
    <3>1. pc' \in PCs
      BY <1>1, Zenon DEF PCs, Committing
    <3> QED
      BY <3>1, <2>1, Zenon DEF FanoutInv, Shape
  <2>4. Loops'
    BY <1>1, <2>1, <2>2 DEF Loops
  <2>5. Phases'
    <3>1. \A s \in Sinks : phase[s] = IF s <= plan.total THEN "pending" ELSE "absent"
      <4>1. Opened = plan.total
        BY <1>0, Zenon DEF Opened, Streaming
      <4> QED
        BY <1>0, <4>1, Zenon DEF FanoutInv, Phases
    <3>2. pc' \notin Before
      BY <1>1, Zenon DEF Before, Opening, Streaming
    <3>3. \A s \in Sinks : phase[s] = IF s < next THEN "published"
                                      ELSE IF s > plan.total THEN "absent" ELSE "pending"
      BY <3>1, <2>2, FanoutAssumption
    <3> QED
      BY <1>1, <2>1, <3>2, <3>3, Zenon DEF Phases
  <2>6. Contents' /\ StagingGone'
    BY <1>0, <1>1, <2>1, Zenon DEF FanoutInv, Contents, StagingGone, Committing, Opening
  <2>7. visible = {} /\ visible' = {} /\ 1..(next' - 1) = {}
    BY <1>0, <2>1, <2>2 DEF FanoutInv, Published
  <2>8. Published'
    <3>1. \E n \in 0..MaxPlan : visible' = 1..n
      BY <2>7, NoneVisible, Zenon
    <3> QED
      BY <1>1, <2>7, <3>1, Zenon DEF Published, Settled
  <2>9. Reported'
    BY <1>0, <1>1, <2>1, Zenon DEF FanoutInv, Reported, Settled
  <2> QED
    BY <2>3, <2>4, <2>5, <2>6, <2>8, <2>9, Zenon DEF FanoutInv
<1>2. CASE pc' # "commit"
  <2>1. "check" \in Before
    BY Zenon DEF Before
  <2> QED
    BY <1>0, <1>2, <2>1, SignalAborts, Zenon DEF CheckBeforeCommit
<1> QED
  BY <1>1, <1>2, Zenon

-----------------------------------------------------------------------------
\* A sink that cannot be opened ends the delivery with nothing visible, and it is
\* the one blamed (open_sinks).
LEMMA RefusalAborts ==
    ASSUME FanoutInv, pc \in Before, pc' = "abort",
           outcome' \in FailureClass,
           next \in Sinks, RefuseSink(next), Blame(next), next' = next,
           UNCHANGED <<run, streamed, signal, staging, lastfolder, exit>>
    PROVE  FanoutInv'
<1>1. /\ phase \in [Sinks -> Phase]
      /\ phase' = [phase EXCEPT ![next] = "failed"]
      /\ UNCHANGED <<visible, written>>
  BY Zenon DEF RefuseSink, Goes, FanoutInv, Shape
<1>2. /\ phase' \in [Sinks -> Phase]
      /\ \A s \in Sinks : phase'[s] \in {"absent", "pending", "failed"}
      /\ phase'[next] = "failed"
  BY <1>1, BeforePhases, Zenon DEF Phase
<1>3. blamed' = next /\ blamed' \in 0..MaxPlan /\ next' \in 1..(MaxPlan + 1)
  BY FanoutAssumption DEF Blame
<1>4. plan.route = "decided" => staging' = "none"
  BY Zenon DEF FanoutInv, StagingGone
<1> QED
  BY <1>1, <1>2, <1>3, <1>4, Abort, Zenon

\* Opening the next sink of a range keeps the invariant (open_sinks).
LEMMA OpenOne ==
    ASSUME FanoutInv, pc \in {"open", "openlate"}, next \in Sinks, OpenSink(next),
           next' = next + 1, pc' = pc, next <= (IF pc = "open" THEN Width ELSE plan.total),
           UNCHANGED <<run, streamed, signal, staging, lastfolder, blamed, outcome, exit>>
    PROVE  FanoutInv'
<1>1. /\ phase \in [Sinks -> Phase]
      /\ phase' = [phase EXCEPT ![next] = "pending"]
      /\ UNCHANGED <<visible, written, plan>>
      /\ pc \in Before /\ pc' \in Before /\ pc' \in PCs
  BY Zenon DEF OpenSink, Goes, FanoutInv, Shape, run, Before, Opening, PCs
<1>2. /\ plan.early \in 0..MaxPlan
      /\ plan.total \in 0..MaxPlan
      /\ Width \in 0..MaxPlan
      /\ Width' = Width
  BY <1>1, PlanFacts, Zenon DEF FanoutInv, Shape, Width
<1>3. phase' \in [Sinks -> Phase] /\ next' \in 1..(MaxPlan + 1)
  BY <1>1, FanoutAssumption DEF Phase
<1>4. Shape'
  BY <1>1, <1>3, Zenon DEF FanoutInv, Shape, run
<1>5. Loops'
  <2>1. CASE pc = "open"
    BY <2>1, <1>1, <1>2, FanoutAssumption DEF Loops
  <2>2. CASE pc = "openlate"
    BY <2>2, <1>1, <1>2, FanoutAssumption DEF FanoutInv, Loops
  <2> QED
    BY <2>1, <2>2, Zenon
<1>6. Phases'
  <2>1. Opened = next - 1 /\ Opened' = next
    <3>1. pc \notin {"start", "simulate"} /\ next' - 1 = next
      BY FanoutAssumption
    <3> QED
      BY <3>1, Zenon DEF Opened, Streaming
  <2>2. \A s \in Sinks : phase[s] = IF s <= next - 1 THEN "pending" ELSE "absent"
    BY <2>1, <1>1, Zenon DEF FanoutInv, Phases
  <2>3. \A s \in Sinks : phase'[s] = IF s <= next THEN "pending" ELSE "absent"
    BY <2>2, <1>1, FanoutAssumption
  <2> QED
    BY <2>1, <2>3, Zenon DEF Phases, Committing
<1>7. Contents'
  BY <1>1, <1>2, Zenon DEF FanoutInv, Contents, Committing, Opening
<1>8. StagingGone'
  BY <1>1, Zenon DEF FanoutInv, StagingGone, Committing, Opening
<1> QED
  BY <1>1, <1>4, <1>5, <1>6, <1>7, <1>8, Advance, Zenon DEF FanoutInv

\* The three ways open_sinks goes on: a sink opened, a sink refused, or the range
\* at its end with the limit of PendingFanout::new checked.
LEMMA OpenRangeCases ==
    ASSUME NEW from, NEW last, NEW to, OpenRange(from, last, to)
    PROVE  \/ /\ next <= last
              /\ Goto(from, from)
              /\ OpenSink(next)
              /\ next' = next + 1
              /\ UNCHANGED <<blamed, outcome>>
           \/ /\ next <= last
              /\ \E class \in FailureClass : Fail(from, class)
              /\ RefuseSink(next)
              /\ Blame(next)
              /\ UNCHANGED next
           \/ /\ next > last
              /\ Fail(from, Internal) \/ (Goto(from, to) /\ UNCHANGED outcome)
              /\ next' = IF from = "openlate" THEN plan.early + 1 ELSE 1
              /\ UNCHANGED <<sinkVars, blamed>>
<1> DEFINE pending == {s \in Sinks : phase[s] = "pending" /\ (from = "openlate" => s > plan.early)}
           crowded == Cardinality(pending) > SinkLimit
           open == /\ next <= last
                   /\ Goto(from, from)
                   /\ OpenSink(next)
                   /\ next' = next + 1
                   /\ UNCHANGED <<blamed, outcome>>
           refuse == /\ next <= last
                     /\ \E class \in FailureClass : Fail(from, class)
                     /\ RefuseSink(next)
                     /\ Blame(next)
                     /\ UNCHANGED next
           back == next' = IF from = "openlate" THEN plan.early + 1 ELSE 1
<1>1. \/ open
      \/ refuse
      \/ /\ next > last
         /\ IF crowded THEN Fail(from, Internal) ELSE Goto(from, to) /\ UNCHANGED outcome
         /\ back
         /\ UNCHANGED <<sinkVars, blamed>>
  BY Zenon DEF OpenRange
<1> HIDE DEF crowded, open, refuse, back
<1>2. \/ open
      \/ refuse
      \/ /\ next > last
         /\ Fail(from, Internal) \/ (Goto(from, to) /\ UNCHANGED outcome)
         /\ back
         /\ UNCHANGED <<sinkVars, blamed>>
  <2>1. CASE crowded
    BY <1>1, <2>1, Zenon
  <2>2. CASE ~crowded
    BY <1>1, <2>2, Zenon
  <2> QED
    BY <2>1, <2>2, Zenon
<1> QED
  BY <1>2, Zenon DEF open, refuse, back

\* Opening the early sinks keeps the invariant (open_sinks).
LEMMA OpenSinksKeeps == FanoutInv /\ OpenSinks => FanoutInv'
<1> SUFFICES ASSUME FanoutInv, OpenSinks PROVE FanoutInv'
  BY Zenon
<1> DEFINE to == IF plan.route = "staged" THEN "stage" ELSE "read"
<1>0. /\ UNCHANGED <<run, streamed, signal, staging, lastfolder, exit>>
      /\ pc = "open"
      /\ pc \in Before
  BY Zenon DEF OpenSinks, OpenRange, Goto, Fail, Before, Opening
<1>1. /\ Width \in 0..MaxPlan
      /\ Width' = Width
      /\ next \in 1..(MaxPlan + 1)
      /\ next <= Width + 1
      /\ next <= Width => next \in Sinks
  BY <1>0, PlanFacts, FanoutAssumption DEF FanoutInv, Shape, Loops, Width, run
<1>2. CASE /\ next <= Width
           /\ Goto("open", "open")
           /\ OpenSink(next)
           /\ next' = next + 1
           /\ UNCHANGED <<blamed, outcome>>
  BY <1>0, <1>1, <1>2, OpenOne, Zenon DEF Goto
<1>3. CASE /\ next <= Width
           /\ \E class \in FailureClass : Fail("open", class)
           /\ RefuseSink(next)
           /\ Blame(next)
           /\ UNCHANGED next
  <2>1. pc' = "abort" /\ outcome' \in FailureClass
    BY <1>3, Zenon DEF Fail, Goto
  <2> QED
    BY <1>0, <1>1, <1>3, <2>1, RefusalAborts, Zenon
<1>4. CASE /\ next > Width
           /\ Fail("open", Internal) \/ (Goto("open", to) /\ UNCHANGED outcome)
           /\ next' = 1
           /\ UNCHANGED <<sinkVars, blamed>>
  <2>1. next' \in 1..(MaxPlan + 1)
    BY <1>4, FanoutAssumption
  <2>2. CASE Fail("open", Internal)
    <3>1. pc' = "abort" /\ outcome' \in FailureClass
      BY <2>2, Zenon DEF Fail, Goto, FailureClass
    <3>2. plan.route = "decided" => staging' = "none"
      BY <1>0, Zenon DEF FanoutInv, StagingGone
    <3> QED
      BY <1>0, <1>4, <2>1, <3>1, <3>2, AbortUntouched, Zenon
  <2>3. CASE Goto("open", to) /\ UNCHANGED outcome
    <3>1. pc' \in {"stage", "read"} /\ (pc' = "stage" => plan.route = "staged")
      BY <2>3, Zenon DEF Goto
    <3>2. pc' \in Before /\ pc' \in PCs
      BY <3>1, Zenon DEF Before, Opening, Streaming, PCs
    <3>3. UNCHANGED <<phase, visible, written, plan, streamed, signal, staging, lastfolder,
                      blamed, outcome, exit>>
      BY <1>0, <1>4, <2>3, Zenon DEF sinkVars, run
    <3>4. Shape'
      BY <2>1, <3>2, <3>3, Zenon DEF FanoutInv, Shape
    <3>5. Loops'
      BY <3>1, <3>3, Zenon DEF Loops
    <3>6. Phases'
      <4>1. Opened = Width /\ Opened' = Width
        BY <1>0, <1>1, <1>4, <3>1 DEF Opened, Streaming
      <4> QED
        BY <1>0, <3>1, <3>3, <4>1, Zenon DEF FanoutInv, Phases, Committing
    <3>7. Contents'
      <4>1. streamed = 0 /\ \A s \in Sinks : written[s] = 0
        BY <1>0, Zenon DEF FanoutInv, Contents, Opening
      <4> QED
        BY <3>1, <3>3, <4>1, Zenon DEF Contents, Committing
    <3>8. StagingGone'
      BY <1>0, <3>1, <3>3, Zenon DEF FanoutInv, StagingGone, Committing, Opening
    <3> QED
      BY <1>0, <3>2, <3>3, <3>4, <3>5, <3>6, <3>7, <3>8, Advance, Zenon DEF FanoutInv
  <2> QED
    BY <1>4, <2>2, <2>3, Zenon
<1> QED
  BY <1>2, <1>3, <1>4, OpenRangeCases DEF OpenSinks

\* Opening the late sinks keeps the invariant (open_sinks in deliver_staged).
LEMMA OpenLateKeeps == FanoutInv /\ OpenLate => FanoutInv'
<1> SUFFICES ASSUME FanoutInv, OpenLate PROVE FanoutInv'
  BY Zenon
<1>0. /\ UNCHANGED <<run, streamed, signal, staging, lastfolder, exit>>
      /\ pc = "openlate"
      /\ pc \in Before
      /\ plan.route = "staged"
      /\ ~plan.dryrun
  BY Zenon DEF OpenLate, OpenRange, Goto, Fail, Before, FanoutInv, Loops
<1>1. /\ plan.total \in 0..MaxPlan
      /\ plan.early \in 0..MaxPlan
      /\ plan.early <= plan.total
      /\ Width = plan.early
      /\ next \in 1..(MaxPlan + 1)
      /\ next <= plan.total + 1
      /\ next <= plan.total => next \in Sinks
  BY <1>0, PlanFacts, FanoutAssumption DEF FanoutInv, Shape, Loops
<1>2. CASE /\ next <= plan.total
           /\ Goto("openlate", "openlate")
           /\ OpenSink(next)
           /\ next' = next + 1
           /\ UNCHANGED <<blamed, outcome>>
  BY <1>0, <1>1, <1>2, OpenOne, Zenon DEF Goto
<1>3. CASE /\ next <= plan.total
           /\ \E class \in FailureClass : Fail("openlate", class)
           /\ RefuseSink(next)
           /\ Blame(next)
           /\ UNCHANGED next
  <2>1. pc' = "abort" /\ outcome' \in FailureClass
    BY <1>3, Zenon DEF Fail, Goto
  <2> QED
    BY <1>0, <1>1, <1>3, <2>1, RefusalAborts, Zenon
<1>4. CASE /\ next > plan.total
           /\ Fail("openlate", Internal) \/ (Goto("openlate", "append") /\ UNCHANGED outcome)
           /\ next' = plan.early + 1
           /\ UNCHANGED <<sinkVars, blamed>>
  <2>1. next' \in 1..(MaxPlan + 1)
    BY <1>1, <1>4, FanoutAssumption
  <2>2. CASE Fail("openlate", Internal)
    <3>1. pc' = "abort" /\ outcome' \in FailureClass
      BY <2>2, Zenon DEF Fail, Goto, FailureClass
    <3> QED
      BY <1>0, <1>4, <2>1, <3>1, AbortUntouched, Zenon
  <2>3. CASE Goto("openlate", "append") /\ UNCHANGED outcome
    <3>1. pc' = "append"
      BY <2>3, Zenon DEF Goto
    <3>2. pc' \in Before /\ pc' \in PCs
      BY <3>1, Zenon DEF Before, PCs
    <3>3. UNCHANGED <<phase, visible, written, plan, streamed, signal, staging, lastfolder,
                      blamed, outcome, exit>>
      BY <1>0, <1>4, <2>3, Zenon DEF sinkVars, run
    <3>4. Shape'
      BY <2>1, <3>2, <3>3, Zenon DEF FanoutInv, Shape
    <3>5. Loops'
      BY <1>0, <1>1, <1>4, <3>1, <3>3, FanoutAssumption DEF Loops
    <3>6. Phases'
      <4>1. Opened = plan.total /\ Opened' = plan.total
        BY <1>0, <1>1, <1>4, <3>1, <3>3 DEF Opened, Streaming
      <4> QED
        BY <1>0, <3>1, <3>2, <3>3, <4>1, Zenon DEF FanoutInv, Phases, Committing
    <3>7. Contents'
      <4>1. streamed = Chunks /\ \A s \in Sinks : written[s] = IF s <= Width THEN Chunks ELSE 0
        BY <1>0, Zenon DEF FanoutInv, Contents
      <4>2. \A s \in Sinks : written[s] = IF s < next' THEN Chunks ELSE 0
        BY <1>1, <1>4, <4>1, FanoutAssumption
      <4> QED
        BY <3>1, <3>3, <4>1, <4>2, Zenon DEF Contents, Committing, Opening
    <3>8. StagingGone'
      BY <1>0, <3>1, <3>3, Zenon DEF FanoutInv, StagingGone, Committing, Opening
    <3> QED
      BY <1>0, <3>2, <3>3, <3>4, <3>5, <3>6, <3>7, <3>8, Advance, Zenon DEF FanoutInv
  <2> QED
    BY <1>4, <2>2, <2>3, Zenon
<1> QED
  BY <1>2, <1>3, <1>4, OpenRangeCases, Zenon DEF OpenLate

\* append_bytes keeps the invariant: the late sinks catch up with the early ones,
\* and the blamed one is a late sink that has not.
LEMMA AppendLateKeeps == FanoutInv /\ AppendLate => FanoutInv'
<1> SUFFICES ASSUME FanoutInv, AppendLate PROVE FanoutInv'
  BY Zenon
<1>0. /\ UNCHANGED <<run, streamed, signal, staging, lastfolder, exit>>
      /\ pc = "append"
      /\ pc \in Before
      /\ plan.route = "staged"
      /\ ~plan.dryrun
  BY Zenon DEF AppendLate, Goto, Fail, Before, FanoutInv, Loops
<1>1. /\ plan.total \in 0..MaxPlan
      /\ plan.early \in 0..MaxPlan
      /\ plan.early < next
      /\ next \in 1..(MaxPlan + 1)
      /\ next <= plan.total + 1
      /\ next <= plan.total => next \in Sinks
  BY <1>0, PlanFacts, FanoutAssumption DEF FanoutInv, Shape, Loops
<1>2. streamed = Chunks /\ \A s \in Sinks : written[s] = IF s < next THEN Chunks ELSE 0
  BY <1>0, Zenon DEF FanoutInv, Contents
<1>3. Opened = plan.total
  BY <1>0, Zenon DEF Opened, Streaming
<1>4. CASE /\ Fail("append", PermanentDestination)
           /\ UNCHANGED <<sinkVars, next, blamed>>
  <2>1. pc' = "abort" /\ outcome' \in FailureClass
    BY <1>4, Zenon DEF Fail, Goto, FailureClass
  <2> QED
    BY <1>0, <1>1, <1>4, <2>1, AbortUntouched, Zenon
<1>5. CASE /\ next <= plan.total
           /\ Goto("append", "append")
           /\ written' = [written EXCEPT ![next] = Chunks]
           /\ next' = next + 1
           /\ UNCHANGED <<phase, visible, blamed, outcome>>
  <2>1. /\ pc' = "append" /\ pc' \in Before /\ pc' \in PCs
        /\ UNCHANGED <<phase, visible, plan, streamed, signal, staging, lastfolder, blamed,
                       outcome, exit>>
    BY <1>0, <1>5, Zenon DEF Goto, run, Before, PCs
  <2>2. /\ \A s \in Sinks : written'[s] = IF s < next' THEN Chunks ELSE 0
        /\ written' \in [Sinks -> 0..Chunks]
    <3>1. written \in [Sinks -> 0..Chunks]
      BY Zenon DEF FanoutInv, Shape
    <3> QED
      BY <1>1, <1>2, <1>5, <3>1, FanoutAssumption
  <2>3. Shape'
    BY <1>1, <1>5, <2>1, <2>2, FanoutAssumption DEF FanoutInv, Shape
  <2>4. Loops'
    BY <1>0, <1>1, <1>5, <2>1, FanoutAssumption DEF Loops
  <2>5. Phases'
    <3>1. Opened' = plan.total
      BY <2>1, Zenon DEF Opened, Streaming
    <3> QED
      BY <1>0, <1>3, <2>1, <3>1, Zenon DEF FanoutInv, Phases, Committing
  <2>6. Contents' /\ StagingGone'
    BY <1>0, <1>2, <2>1, <2>2, Zenon DEF FanoutInv, Contents, StagingGone, Committing, Opening
  <2> QED
    BY <1>0, <2>1, <2>3, <2>4, <2>5, <2>6, Advance, Zenon DEF FanoutInv
<1>6. CASE /\ next <= plan.total
           /\ \E class \in FailureClass : Fail("append", class)
           /\ Blame(next)
           /\ UNCHANGED <<sinkVars, next>>
  <2>1. pc' = "abort" /\ outcome' \in FailureClass /\ blamed' = next /\ next' = next
    BY <1>6, Zenon DEF Fail, Goto, Blame
  <2>2. UNCHANGED <<run, phase, visible, written, streamed, signal, lastfolder, exit>>
    BY <1>0, <1>6, Zenon DEF sinkVars
  <2>3. phase' \in [Sinks -> Phase] /\ \A s \in Sinks : phase'[s] \in {"absent", "pending",
            "failed"}
    BY <1>0, <2>2, BeforePhases, Zenon DEF FanoutInv, Shape
  <2>4. blamed' \in 0..MaxPlan /\ written[blamed'] < Chunks
    BY <1>1, <1>2, <1>6, <2>1, FanoutAssumption
  <2> QED
    BY <1>0, <1>1, <2>1, <2>2, <2>3, <2>4, Abort, Zenon
<1>7. CASE /\ next > plan.total
           /\ Goto("append", "check")
           /\ next' = 1
           /\ UNCHANGED <<sinkVars, blamed, outcome>>
  <2>1. /\ pc' = "check" /\ pc' \in Before /\ pc' \in PCs
        /\ UNCHANGED <<phase, visible, written, plan, streamed, signal, staging, lastfolder,
                       blamed, outcome, exit>>
    BY <1>0, <1>7, Zenon DEF Goto, run, sinkVars, Before, PCs
  <2>2. Shape'
    BY <1>7, <2>1, FanoutAssumption DEF FanoutInv, Shape
  <2>3. Loops'
    BY <1>0, <1>7, <2>1, Zenon DEF Loops
  <2>4. Phases'
    <3>1. Opened' = plan.total
      BY <2>1, Zenon DEF Opened, Streaming
    <3> QED
      BY <1>0, <1>3, <2>1, <3>1, Zenon DEF FanoutInv, Phases, Committing
  <2>5. Contents'
    <3>1. \A s \in 1..plan.total : written[s] = Chunks
      BY <1>1, <1>2, <1>7, FanoutAssumption
    <3> QED
      BY <1>2, <2>1, <3>1, Zenon DEF Contents, Committing, Opening
  <2>6. StagingGone'
    BY <1>0, <2>1, Zenon DEF FanoutInv, StagingGone, Committing, Opening
  <2> QED
    BY <1>0, <2>1, <2>2, <2>3, <2>4, <2>5, <2>6, Advance, Zenon DEF FanoutInv
<1> QED
  BY <1>4, <1>5, <1>6, <1>7, Zenon DEF AppendLate

-----------------------------------------------------------------------------
\* What holds while sinks are committed (ValidatedFanout::commit).
LEMMA CommitState ==
    ASSUME FanoutInv, pc \in Committing
    PROVE  /\ plan.total \in 0..MaxPlan
           /\ plan.original \in BOOLEAN
           /\ ~plan.dryrun
           /\ next \in 1..(MaxPlan + 1)
           /\ next <= plan.total + 1
           /\ next <= plan.total => next \in Sinks
           /\ streamed = Chunks
           /\ \A s \in 1..plan.total : written[s] = Chunks
           /\ staging # "named"
           /\ plan.route = "decided" => staging = "none"
           /\ lastfolder = 0 /\ blamed = 0 /\ outcome = Success /\ exit = -1
           /\ phase \in [Sinks -> Phase]
<1>1. pc \in {"commit", "visible"}
  BY Zenon DEF Committing
<1>2. /\ plan.total \in 0..MaxPlan
      /\ plan.original \in BOOLEAN
      /\ next \in 1..(MaxPlan + 1)
      /\ phase \in [Sinks -> Phase]
  BY PlanFacts, Zenon DEF FanoutInv, Shape
<1>3. ~plan.dryrun /\ next <= plan.total + 1
  BY <1>1, <1>2, FanoutAssumption DEF FanoutInv, Loops
<1>4. next <= plan.total => next \in Sinks
  BY <1>2, FanoutAssumption
<1>5. streamed = Chunks /\ \A s \in 1..plan.total : written[s] = Chunks
  BY Zenon DEF FanoutInv, Contents
<1>6. staging # "named" /\ (plan.route = "decided" => staging = "none")
  BY Zenon DEF FanoutInv, StagingGone
<1>7. lastfolder = 0 /\ blamed = 0 /\ outcome = Success /\ exit = -1
  BY <1>1, Zenon DEF FanoutInv, Reported
<1> QED
  BY <1>2, <1>3, <1>4, <1>5, <1>6, <1>7, Zenon

\* The end of the commit, by a failure or after the last sink: the first n sinks
\* are visible, and the status says so (ValidatedFanout::commit, PublicationTracker).
LEMMA EndOfCommit ==
    ASSUME FanoutInv, pc \in Committing, pc' \in {"abort", "finish"},
           NEW n \in 0..plan.total,
           visible' = 1..n,
           lastfolder' = n,
           outcome' \in Statuses,
           blamed' \in 0..MaxPlan,
           next' \in 1..(MaxPlan + 1),
           phase' \in [Sinks -> Phase],
           UNCHANGED <<run, written, streamed, signal, staging, exit>>,
           \A s \in Sinks : s <= n => phase'[s] \in {"published", "late"},
           \A s \in Sinks : s > n => phase'[s] \in {"absent", "pending", "failed"},
           outcome' # Input,
           outcome' \in FailureClass /\ n = plan.total /\ n > 0 => phase'[n] = "late",
           outcome' \in {Success, Undelivered} =>
               /\ outcome' = Success <=> plan.original
               /\ n = plan.total
               /\ \A s \in 1..n : phase'[s] = "published",
           pc' = "abort" => outcome' \in FailureClass,
           pc' = "finish" => n = plan.total /\ \A s \in Sinks : phase'[s] # "pending",
           blamed' # 0 => phase'[blamed'] \in {"failed", "late"}
    PROVE  FanoutInv'
<1> USE CommitState
<1>1. /\ plan' = plan
      /\ pc' \notin Before \cup Committing \cup {"exit"}
      /\ pc' \in PCs
      /\ pc' \in Settled
      /\ n \in Nat
  BY FanoutAssumption DEF run, Before, Opening, Streaming, Committing, PCs, Settled
<1>2. 1..n \subseteq Sinks /\ n \in 0..MaxPlan
  BY FanoutAssumption
<1>3. Shape'
  BY <1>1, <1>2, Zenon DEF FanoutInv, Shape
<1>4. Loops' /\ Phases'
  BY <1>1, Zenon DEF Loops, Phases, Before, Committing
<1>5. Contents' /\ StagingGone'
  <2>1. pc' \notin Opening \cup {"read", "tee", "validated", "map", "resume", "openlate",
            "append", "check"}
    BY Zenon DEF Opening
  <2> QED
    BY <1>1, <2>1, Zenon DEF Contents, StagingGone
<1>6. Published'
  <2>1. visible' = {s \in Sinks : phase'[s] \in {"published", "late"}}
    <3>1. \A s \in Sinks : s <= n \/ s > n
      BY <1>1, FanoutAssumption
    <3>2. \A s \in Sinks : s \in 1..n <=> s <= n
      BY <1>1, FanoutAssumption
    <3>3. \A s \in Sinks : s \in 1..n <=> phase'[s] \in {"published", "late"}
      BY <3>1, <3>2, Zenon
    <3> QED
      BY <3>3, <1>2, Zenon
  <2>2. \A s \in Sinks : phase'[s] # "visible"
    BY <1>1, FanoutAssumption
  <2>3. pc' \notin {"commit", "visible", "exit"}
    BY Zenon
  <2>4. visible' = IF plan'.dryrun THEN {} ELSE 1..lastfolder'
    BY <1>1, Zenon
  <2>5. /\ ~plan'.dryrun
        /\ streamed' = Chunks
        /\ \A s \in 1..plan'.total : written'[s] = Chunks
    BY <1>1, Zenon
  <2> QED
    BY <1>1, <1>2, <2>1, <2>2, <2>3, <2>4, <2>5, Zenon DEF Published
<1>7. Reported'
  <2>1. visible' = 1..plan'.total /\ plan'.total > 0 => n = plan.total
    <3>1. plan.total > 0 => plan.total \in 1..plan.total
      BY FanoutAssumption
    <3>2. plan.total \in 1..n => n = plan.total
      BY <1>1, FanoutAssumption
    <3> QED
      BY <1>1, <3>1, <3>2, Zenon
  <2>2. outcome' \in FailureClass => outcome' \notin {Success, Undelivered}
    BY DEF FailureClass, Success, Undelivered, Internal, PermanentDestination, TemporaryDelivery
  <2> QED
    BY <1>1, <2>1, <2>2, Zenon DEF Reported
<1> QED
  BY <1>3, <1>4, <1>5, <1>6, <1>7, Zenon DEF FanoutInv

\* Committing the next sink keeps the invariant (ValidatedFanout::commit).
LEMMA CommitNextKeeps == FanoutInv /\ CommitNext => FanoutInv'
<1> SUFFICES ASSUME FanoutInv, CommitNext PROVE FanoutInv'
  BY Zenon
<1>0. /\ UNCHANGED <<run, next, streamed, signal, staging, exit>>
      /\ pc = "commit"
      /\ pc \in Committing
  BY Zenon DEF CommitNext, Goto, Fail, Committing
<1> USE <1>0, CommitState
<1>1. /\ visible = 1..(next - 1)
      /\ \A s \in Sinks : phase[s] = IF s < next THEN "published"
                                     ELSE IF s > plan.total THEN "absent" ELSE "pending"
  BY Zenon DEF FanoutInv, Published, Phases
<1>2. CASE /\ next <= plan.total
           /\ Goto("commit", "visible")
           /\ Publish(next)
           /\ UNCHANGED <<lastfolder, blamed, outcome>>
  <2>1. /\ pc' = "visible"
        /\ phase' = [phase EXCEPT ![next] = "visible"]
        /\ visible' = visible \cup {next}
        /\ UNCHANGED <<written, plan>>
    BY <1>2, Zenon DEF Goto, Publish, Goes, run
  <2>2. visible' = 1..next
    BY <1>1, <2>1, FanoutAssumption
  <2>3. /\ phase' \in [Sinks -> Phase]
        /\ \A s \in Sinks : phase'[s] = IF s < next THEN "published"
                                        ELSE IF s > plan.total THEN "absent"
                                        ELSE IF s = next THEN "visible" ELSE "pending"
    BY <1>1, <1>2, <2>1, FanoutAssumption DEF Phase
  <2>4. pc' \in PCs /\ pc' \notin Before /\ pc' \notin Settled
    BY <2>1, Zenon DEF PCs, Committing, Before, Opening, Streaming, Settled
  <2>5. Shape'
    <3>1. visible' \subseteq Sinks
      BY <2>2, <1>2, FanoutAssumption
    <3> QED
      BY <1>2, <2>1, <2>3, <2>4, <3>1, Zenon DEF FanoutInv, Shape
  <2>6. Loops'
    BY <1>2, <2>1, Zenon DEF Loops
  <2>7. Phases'
    BY <2>1, <2>3, <2>4, Zenon DEF Phases
  <2>8. Contents' /\ StagingGone'
    BY <2>1, Zenon DEF Contents, StagingGone, Opening, Committing
  <2>9. Published'
    <3>1. \E n \in 0..MaxPlan : visible' = 1..n
      BY <1>2, <2>2, FanoutAssumption
    <3> QED
      BY <2>1, <2>2, <2>4, <3>1, Zenon DEF Published
  <2>10. Reported'
    BY <1>2, <2>1, <2>4, Zenon DEF Reported
  <2> QED
    BY <2>5, <2>6, <2>7, <2>8, <2>9, <2>10, Zenon DEF FanoutInv
<1>3. CASE /\ next <= plan.total
           /\ \E class \in FailureClass : Fail("commit", class)
           /\ CommitFailed(next)
           /\ Blame(next)
           /\ RecordLastFolder(next - 1)
  <2> DEFINE n == next - 1
  <2>1. /\ pc' = "abort"
        /\ outcome' \in FailureClass
        /\ phase' = [phase EXCEPT ![next] = "failed"]
        /\ UNCHANGED <<visible, written>>
        /\ blamed' = next
    BY <1>3, Zenon DEF Fail, Goto, CommitFailed, Goes, Blame
  <2>2. n \in 0..plan.total /\ n < plan.total /\ lastfolder' = n /\ visible' = 1..n /\ n \in Nat
    BY <1>1, <1>3, <2>1, FanoutAssumption DEF RecordLastFolder
  <2>3. /\ phase' \in [Sinks -> Phase]
        /\ \A s \in Sinks : s <= n => phase'[s] \in {"published", "late"}
        /\ \A s \in Sinks : s > n => phase'[s] \in {"absent", "pending", "failed"}
        /\ phase'[blamed'] = "failed"
    BY <1>1, <1>3, <2>1, FanoutAssumption DEF Phase
  <2>4. outcome' \in Statuses /\ outcome' # Input /\ outcome' \notin {Success, Undelivered}
    BY <2>1 DEF Statuses, FailureClass, Success, Undelivered, Input, Internal,
                PermanentDestination, TemporaryDelivery
  <2>5. blamed' \in 0..MaxPlan /\ next' \in 1..(MaxPlan + 1)
    BY <1>3, <2>1, FanoutAssumption
  <2>6. n # plan.total
    BY <2>2
  <2> HIDE DEF n
  <2> QED
    BY <2>1, <2>2, <2>3, <2>4, <2>5, <2>6, EndOfCommit, Zenon
<1>4. CASE /\ next > plan.total
           /\ Goto("commit", "finish")
           /\ outcome' = IF plan.original THEN Success ELSE Undelivered
           /\ RecordLastFolder(plan.total)
           /\ UNCHANGED <<sinkVars, blamed>>
  <2> DEFINE n == plan.total
  <2>1. /\ pc' = "finish"
        /\ UNCHANGED <<phase, visible, written, blamed>>
    BY <1>4, Zenon DEF Goto, sinkVars
  <2>2. next = n + 1 /\ n \in 0..plan.total /\ lastfolder' = n /\ visible' = 1..n
    BY <1>1, <1>4, <2>1, FanoutAssumption DEF RecordLastFolder
  <2>3. /\ phase' \in [Sinks -> Phase]
        /\ \A s \in Sinks : s <= n => phase'[s] = "published"
        /\ \A s \in Sinks : s > n => phase'[s] = "absent"
        /\ \A s \in Sinks : phase'[s] # "pending"
        /\ \A s \in 1..n : phase'[s] = "published"
    BY <1>1, <2>1, <2>2, FanoutAssumption
  <2>4. /\ outcome' \in Statuses /\ outcome' # Input
        /\ outcome' \notin FailureClass
        /\ outcome' = Success <=> plan.original
    BY <1>4 DEF Statuses, FailureClass, Success, Undelivered, Input, Internal,
                PermanentDestination, TemporaryDelivery
  <2>5. blamed' = 0 /\ blamed' \in 0..MaxPlan /\ next' \in 1..(MaxPlan + 1)
    BY <2>1, FanoutAssumption
  <2> QED
    BY <2>1, <2>2, <2>3, <2>4, <2>5, EndOfCommit, Zenon
<1> QED
  BY <1>2, <1>3, <1>4, Zenon DEF CommitNext

\* The return of a sink's commit keeps the invariant (ValidatedFanout::commit).
LEMMA CommitReturnsKeeps == FanoutInv /\ CommitReturns => FanoutInv'
<1> SUFFICES ASSUME FanoutInv, CommitReturns PROVE FanoutInv'
  BY Zenon
<1>0. /\ UNCHANGED <<run, streamed, signal, staging, exit>>
      /\ pc = "visible"
      /\ pc \in Committing
  BY Zenon DEF CommitReturns, Goto, Fail, Committing
<1> USE <1>0, CommitState
<1>1. /\ visible = 1..next
      /\ next <= plan.total
      /\ next \in Sinks
      /\ \A s \in Sinks : phase[s] = IF s < next THEN "published"
                                     ELSE IF s > plan.total THEN "absent"
                                     ELSE IF s = next THEN "visible" ELSE "pending"
  BY Zenon DEF FanoutInv, Published, Phases, Loops
<1>2. CASE /\ Goto("visible", "commit")
           /\ CommitOk(next)
           /\ next' = next + 1
           /\ UNCHANGED <<lastfolder, blamed, outcome>>
  <2>1. /\ pc' = "commit"
        /\ phase' = [phase EXCEPT ![next] = "published"]
        /\ UNCHANGED <<visible, written, plan>>
    BY <1>2, Zenon DEF Goto, CommitOk, Goes, run
  <2>2. visible' = 1..(next' - 1)
    BY <1>1, <1>2, <2>1, FanoutAssumption
  <2>3. /\ phase' \in [Sinks -> Phase]
        /\ \A s \in Sinks : phase'[s] = IF s < next' THEN "published"
                                        ELSE IF s > plan.total THEN "absent" ELSE "pending"
    BY <1>1, <1>2, <2>1, FanoutAssumption DEF Phase
  <2>4. pc' \in PCs /\ pc' \notin Before /\ pc' \notin Settled
    BY <2>1, Zenon DEF PCs, Committing, Before, Opening, Streaming, Settled
  <2>5. Shape'
    BY <1>1, <1>2, <2>1, <2>3, <2>4, FanoutAssumption DEF FanoutInv, Shape
  <2>6. Loops'
    BY <1>1, <1>2, <2>1, FanoutAssumption DEF Loops
  <2>7. Phases'
    BY <2>1, <2>3, <2>4, Zenon DEF Phases
  <2>8. Contents' /\ StagingGone'
    BY <2>1, Zenon DEF Contents, StagingGone, Opening, Committing
  <2>9. Published'
    BY <2>1, <2>2, <2>4, Zenon DEF FanoutInv, Published
  <2>10. Reported'
    BY <1>2, <2>1, <2>4, Zenon DEF Reported
  <2> QED
    BY <2>5, <2>6, <2>7, <2>8, <2>9, <2>10, Zenon DEF FanoutInv
<1>3. CASE /\ \E class \in FailureClass : Fail("visible", class)
           /\ CommitLate(next)
           /\ Blame(next)
           /\ RecordLastFolder(next)
           /\ UNCHANGED next
  <2> DEFINE n == next
  <2>1. /\ pc' = "abort"
        /\ outcome' \in FailureClass
        /\ phase' = [phase EXCEPT ![next] = "late"]
        /\ UNCHANGED <<visible, written>>
        /\ blamed' = next
    BY <1>3, Zenon DEF Fail, Goto, CommitLate, Goes, Blame
  <2>2. n \in 0..plan.total /\ lastfolder' = n /\ visible' = 1..n
    BY <1>1, <1>3, <2>1, FanoutAssumption DEF RecordLastFolder
  <2>3. /\ phase' \in [Sinks -> Phase]
        /\ \A s \in Sinks : s <= n => phase'[s] \in {"published", "late"}
        /\ \A s \in Sinks : s > n => phase'[s] \in {"absent", "pending", "failed"}
        /\ phase'[n] = "late"
    BY <1>1, <2>1, FanoutAssumption DEF Phase
  <2>4. outcome' \in Statuses /\ outcome' # Input /\ outcome' \notin {Success, Undelivered}
    BY <2>1 DEF Statuses, FailureClass, Success, Undelivered, Input, Internal,
                PermanentDestination, TemporaryDelivery
  <2>5. blamed' \in 0..MaxPlan /\ next' \in 1..(MaxPlan + 1)
    BY <1>1, <1>3, <2>1, FanoutAssumption
  <2> QED
    BY <2>1, <2>2, <2>3, <2>4, <2>5, EndOfCommit, Zenon
<1> QED
  BY <1>2, <1>3, Zenon DEF CommitReturns

\* simulate_plan keeps the invariant: a dry run has opened no sink.
LEMMA SimulateKeeps == FanoutInv /\ Simulate => FanoutInv'
<1> SUFFICES ASSUME FanoutInv, Simulate PROVE FanoutInv'
  BY Zenon
<1>0. /\ UNCHANGED <<sinkVars, run, next, streamed, signal, staging, blamed, exit>>
      /\ pc = "simulate"
      /\ pc \in Before
      /\ plan.dryrun
      /\ staging # "named"
      /\ plan.route = "decided" => staging = "none"
      /\ next \in 1..(MaxPlan + 1)
  BY Zenon DEF Simulate, Goto, Fail, Before, FanoutInv, Loops, StagingGone, Shape
<1>1. /\ plan.total \in 0..MaxPlan
      /\ plan.original \in BOOLEAN
  BY PlanFacts, Zenon DEF FanoutInv, Shape
<1>2. CASE /\ Goto("simulate", "finish")
           /\ RecordLastFolder(plan.total)
           /\ outcome' = IF plan.original THEN Success ELSE Undelivered
  <2>1. /\ pc' = "finish" /\ pc' \in PCs
        /\ pc' \notin Before \cup Committing \cup {"exit"}
        /\ UNCHANGED <<phase, visible, written, plan, next, streamed, signal, staging, blamed,
                       exit>>
    BY <1>0, <1>2, Zenon DEF Goto, sinkVars, run, PCs, Settled, Before, Opening, Streaming, Committing
  <2>2. /\ visible = {}
        /\ \A s \in Sinks : phase[s] = "absent"
        /\ lastfolder = 0 /\ blamed = 0 /\ exit = -1
    <3>1. Opened = 0
      BY <1>0, Zenon DEF Opened, Streaming
    <3>2. \A s \in Sinks : ~(s <= 0)
      BY FanoutAssumption
    <3> QED
      BY <1>0, <3>1, <3>2, Zenon DEF FanoutInv, Published, Phases, Reported
  <2>3. /\ outcome' \in Statuses /\ outcome' # Input
        /\ outcome' \notin FailureClass
        /\ outcome' = Success <=> plan.original
    BY <1>2, <1>1 DEF Statuses, FailureClass, Success, Undelivered, Input, Internal,
                PermanentDestination, TemporaryDelivery
  <2>4. Shape'
    BY <1>1, <1>2, <2>1, <2>2, <2>3, Zenon DEF FanoutInv, Shape, RecordLastFolder
  <2>5. Loops' /\ Phases'
    BY <2>1, Zenon DEF Loops, Phases, Committing
  <2>6. Contents' /\ StagingGone'
    BY <1>0, <2>1, Zenon DEF Contents, StagingGone, Opening, Committing
  <2>7. Published'
    <3>1. \E n \in 0..MaxPlan : visible' = 1..n
      BY <2>1, <2>2, NoneVisible, Zenon
    <3> QED
      BY <1>0, <2>1, <2>2, <3>1, Zenon DEF Published
  <2>8. Reported'
    BY <1>0, <2>1, <2>2, <2>3, Zenon DEF Reported
  <2> QED
    BY <2>4, <2>5, <2>6, <2>7, <2>8, Zenon DEF FanoutInv
<1>3. CASE Fail("simulate", PermanentDestination) /\ UNCHANGED lastfolder
  <2>1. pc' = "abort" /\ outcome' \in FailureClass
    BY <1>3, Zenon DEF Fail, Goto, FailureClass
  <2> QED
    BY <1>0, <1>3, <2>1, AbortUntouched, Zenon
<1> QED
  BY <1>2, <1>3, Zenon DEF Simulate

\* abort_all and Drop keep the invariant: only pending sinks are aborted.
LEMMA AbortSinksKeeps == FanoutInv /\ AbortSinks => FanoutInv'
<1> SUFFICES ASSUME FanoutInv, AbortSinks PROVE FanoutInv'
  BY Zenon
<1>0. /\ UNCHANGED <<run, next, streamed, signal, lastfolder, blamed, outcome, exit>>
      /\ UNCHANGED <<visible, written, plan>>
      /\ pc = "abort"
      /\ pc' \in {"abort", "finish"}
  BY Zenon DEF AbortSinks, Goto, AbortSink, sinkVars, run
<1>1. /\ pc \in Settled /\ pc' \in Settled /\ pc' \in PCs
      /\ pc' \notin Before \cup Committing \cup {"exit"}
      /\ pc \notin Before \cup Committing \cup {"exit"}
  BY <1>0, Zenon DEF Settled, PCs, Before, Opening, Streaming, Committing
<1>2. /\ phase' \in [Sinks -> Phase]
      /\ \A s \in Sinks : phase'[s] = phase[s] \/ (phase[s] = "pending" /\ phase'[s] = "aborted")
  <2>1. phase \in [Sinks -> Phase]
    BY Zenon DEF FanoutInv, Shape
  <2>2. CASE \E s \in Sinks : AbortSink(s)
    BY <2>1, <2>2, Zenon DEF AbortSink, Goes, Phase
  <2>3. CASE UNCHANGED sinkVars
    BY <2>1, <2>3, Zenon DEF sinkVars
  <2> QED
    BY <2>2, <2>3, Zenon DEF AbortSinks
<1>3. /\ pc' = "finish" => \A s \in Sinks : phase'[s] # "pending"
      /\ pc' = "finish" => staging' # "named"
      /\ plan.route = "decided" => staging' = "none"
  BY Zenon DEF AbortSinks, Goto, FanoutInv, StagingGone, sinkVars
<1>4. Shape'
  BY <1>0, <1>1, <1>2, Zenon DEF FanoutInv, Shape
<1>5. Loops' /\ Phases'
  BY <1>0, <1>1, Zenon DEF Loops, Phases, Committing
<1>6. Contents' /\ StagingGone'
  BY <1>0, <1>3, Zenon DEF Contents, StagingGone, Opening, Committing
<1>7. Published'
  <2>1. {s \in Sinks : phase'[s] \in {"published",
            "late"}} = {s \in Sinks : phase[s] \in {"published", "late"}}
    BY <1>2, Zenon
  <2>2. \A s \in Sinks : phase'[s] # "visible"
    BY <1>1, <1>2, Zenon DEF FanoutInv, Published
  <2>3. pc' \notin Before \cup {"commit", "visible", "exit"}
    BY <1>0, <1>1, Zenon
  <2> QED
    BY <1>0, <1>1, <1>3, <2>1, <2>2, <2>3, Zenon DEF FanoutInv, Published
<1>8. Reported'
  <2>1. plan.total \in 0..MaxPlan /\ blamed \in 0..MaxPlan /\ exit = -1
    BY <1>1, PlanFacts, Zenon DEF FanoutInv, Shape, Reported
  <2>2. outcome \notin {Success, Undelivered}
    BY <1>0, Zenon DEF FanoutInv, Reported
  <2>3. plan.total > 0 /\ phase[plan.total] = "late" => phase'[plan.total] = "late"
    BY <2>1, <1>2, FanoutAssumption
  <2>4. blamed # 0 /\ phase[blamed] \in {"failed", "late"} => phase'[blamed] \in {"failed", "late"}
    BY <2>1, <1>2, FanoutAssumption
  <2>5. /\ outcome = Input => visible = {}
        /\ outcome \in FailureClass /\ visible = 1..plan.total /\ plan.total > 0 =>
              phase[plan.total] = "late"
        /\ blamed # 0 => phase[blamed] \in {"failed", "late"} \/ written[blamed] < Chunks
    BY <1>1, Zenon DEF FanoutInv, Reported
  <2> QED
    BY <1>0, <1>1, <2>1, <2>2, <2>3, <2>4, <2>5, Zenon DEF Reported
<1> QED
  BY <1>4, <1>5, <1>6, <1>7, <1>8, Zenon DEF FanoutInv

\* The end of run keeps the invariant.
LEMMA FinishKeeps == FanoutInv /\ Finish => FanoutInv'
<1> SUFFICES ASSUME FanoutInv, Finish PROVE FanoutInv'
  BY Zenon
<1>0. /\ UNCHANGED <<phase, visible, written, plan, exitcode, next, streamed, signal, staging,
                     lastfolder, blamed, outcome>>
      /\ pc = "finish"
      /\ pc' = "exit"
      /\ pc \in Settled /\ pc' \in Settled /\ pc' \in PCs
      /\ pc' \notin Before \cup Committing
  BY Zenon DEF Finish, Goto, sinkVars, run, Settled, PCs, Before, Opening, Streaming, Committing
<1>1. exit' # -1
  BY DEF Finish, FanoutInv, Shape, Statuses, FailureClass, SigTerm, Success, Undelivered, Input,
      Internal,
         PermanentDestination, TemporaryDelivery
<1>2. exitcode = "unset" /\ signal = 0 => exit' = outcome
  BY Zenon DEF Finish
<1>3. Shape'
  BY <1>0, Zenon DEF FanoutInv, Shape
<1>4. Loops' /\ Phases' /\ Contents' /\ StagingGone'
  BY <1>0, Zenon DEF FanoutInv, Loops, Phases, Contents, StagingGone, Opening, Committing
<1>5. Published'
  BY <1>0, Zenon DEF FanoutInv, Published
<1>6. Reported'
  BY <1>0, <1>1, <1>2, Zenon DEF FanoutInv, Reported
<1> QED
  BY <1>3, <1>4, <1>5, <1>6, Zenon DEF FanoutInv

\* record_signal keeps the invariant.
LEMMA SignalKeeps == FanoutInv /\ Signal => FanoutInv'
<1> SUFFICES ASSUME FanoutInv, Signal PROVE FanoutInv'
  BY Zenon
<1>1. /\ UNCHANGED <<phase, visible, written, plan, exitcode, pc, next, streamed, staging,
                     lastfolder, blamed, outcome, exit>>
      /\ signal' = SigTerm
      /\ pc # "exit"
  BY Zenon DEF Signal, sinkVars, run
<1>2. Shape'
  BY <1>1, Zenon DEF FanoutInv, Shape
<1>3. Loops' /\ Phases' /\ Contents' /\ StagingGone'
  BY <1>1 DEF FanoutInv, Loops, Phases, Contents, StagingGone, Opened, Width
<1>4. Published' /\ Reported'
  BY <1>1, Zenon DEF FanoutInv, Published, Reported
<1> QED
  BY <1>2, <1>3, <1>4, Zenon DEF FanoutInv

\* A crash keeps the invariant: what was visible stays a prefix of the plan.
LEMMA CrashKeeps == FanoutInv /\ Crash => FanoutInv'
<1> SUFFICES ASSUME FanoutInv, Crash PROVE FanoutInv'
  BY Zenon
<1>1. /\ UNCHANGED <<visible, written, plan, exitcode, next, streamed, signal, staging,
                     lastfolder, blamed, outcome, exit>>
      /\ pc # "exit"
      /\ pc' = "crashed"
      /\ pc' \in PCs
      /\ pc' \notin Before \cup Committing \cup Settled
  BY Zenon DEF Crash, run, PCs, Before, Opening, Streaming, Committing, Settled
<1>2. /\ phase' \in [Sinks -> Phase]
      /\ \A s \in Sinks : phase[s] \in {"failed", "late"} => phase'[s] = phase[s]
  BY Zenon DEF Crash, FanoutInv, Shape, Phase
<1>3. Shape'
  BY <1>1, <1>2, Zenon DEF FanoutInv, Shape
<1>4. Loops' /\ Phases' /\ Contents'
  BY <1>1, Zenon DEF Loops, Phases, Contents, Before, Committing
<1>5. StagingGone'
  BY <1>1, Zenon DEF FanoutInv, StagingGone, Opening, Committing
<1>6. Published'
  BY <1>1, Zenon DEF FanoutInv, Published
<1>7. Reported'
  <2>1. blamed # 0 => blamed \in Sinks
    BY FanoutAssumption DEF FanoutInv, Shape
  <2>2. blamed' # 0 => phase'[blamed'] \in {"failed", "late"} \/ written'[blamed'] < Chunks
    BY <1>1, <1>2, <2>1, Zenon DEF FanoutInv, Reported
  <2> QED
    BY <1>1, <2>2, Zenon DEF FanoutInv, Reported
<1> QED
  BY <1>3, <1>4, <1>5, <1>6, <1>7, Zenon DEF FanoutInv

\* A step that changes nothing keeps the invariant.
LEMMA StutterKeeps == FanoutInv /\ UNCHANGED vars => FanoutInv'
<1> SUFFICES ASSUME FanoutInv, UNCHANGED vars PROVE FanoutInv'
  BY Zenon
<1>1. UNCHANGED <<phase, visible, written, plan, exitcode, pc, next, streamed, signal, staging,
                  lastfolder, blamed, outcome, exit>>
  BY Zenon DEF vars, sinkVars, run
<1>2. Shape'
  BY <1>1, Zenon DEF FanoutInv, Shape
<1>3. Loops' /\ Phases' /\ Contents' /\ StagingGone'
  BY <1>1 DEF FanoutInv, Loops, Phases, Contents, StagingGone, Opened, Width
<1>4. Published' /\ Reported'
  BY <1>1 DEF FanoutInv, Published, Reported
<1> QED
  BY <1>2, <1>3, <1>4, Zenon DEF FanoutInv

\* The invariant holds when the plan has been chosen.
LEMMA InitFanout == Init => FanoutInv
<1> SUFFICES ASSUME Init PROVE FanoutInv
  BY Zenon
<1> USE FanoutAssumption DEF Init, SinkInit
<1>1. pc \in Before /\ pc \in PCs /\ pc \notin Committing /\ pc \notin Settled
  BY Zenon DEF Before, Opening, Committing, Settled, PCs
<1>2. Shape
  BY <1>1 DEF Shape, Phase, Statuses, Success
<1>3. Loops
  BY Zenon DEF Loops
<1>4. Phases
  <2>1. Opened = 0
    BY Zenon DEF Opened, Streaming
  <2>2. \A s \in Sinks : ~(s <= 0)
    OBVIOUS
  <2> QED
    BY <1>1, <2>1, <2>2, Zenon DEF Phases
<1>5. Contents /\ StagingGone
  BY Zenon DEF Contents, StagingGone, Opening, Committing
<1>6. Published
  BY <1>1, NoneVisible, Zenon DEF Published
<1>7. Reported
  BY <1>1, Zenon DEF Reported
<1> QED
  BY <1>2, <1>3, <1>4, <1>5, <1>6, <1>7, Zenon DEF FanoutInv

\* Every step of a delivery keeps the invariant.
LEMMA NextFanout == FanoutInv /\ [Next]_vars => FanoutInv'
BY StartKeeps, OpenSinksKeeps, CreateStagingKeeps, ReadInputKeeps, WriteFanoutKeeps,
   WriteStagingKeeps, ValidatedKeeps, MapStagingKeeps, ResumeKeeps, OpenLateKeeps,
   AppendLateKeeps, CheckBeforeCommitKeeps, CommitNextKeeps, CommitReturnsKeeps,
   SimulateKeeps, AbortSinksKeeps, FinishKeeps, SignalKeeps, CrashKeeps, StutterKeeps, Zenon
   DEF Next, Terminated

\* FanoutInv is an invariant of a fan-out delivery (deliver_decided,
\* deliver_staged, ValidatedFanout::commit and run).
THEOREM FanoutInvariance == Spec => []FanoutInv
BY InitFanout, NextFanout, PTL DEF Spec

-----------------------------------------------------------------------------
\* How many sinks a prefix of the plan has.
LEMMA PrefixSize ==
    ASSUME NEW n \in Nat
    PROVE  Cardinality(1..n) = n
<1>1. 1 \in Int /\ n \in Int
  OBVIOUS
<1>2. Cardinality(1..n) = IF 1 > n THEN 0 ELSE n - 1 + 1
  BY <1>1, FS_Interval, Zenon
<1> QED
  BY <1>2

\* Destinations become visible in plan order, and only when every destination of
\* the plan holds the whole validated message; also at a crash
\* (stream, append_bytes, ValidatedFanout::commit).
THEOREM PublicationIsPrefixHolds == Spec => []PublicationIsPrefix
<1>1. FanoutInv => PublicationIsPrefix
  <2> SUFFICES ASSUME FanoutInv PROVE PublicationIsPrefix
    BY Zenon
  <2>1. PICK n \in 0..MaxPlan : visible = 1..n
    BY Zenon DEF FanoutInv, Published
  <2>2. n \in Nat
    BY FanoutAssumption
  <2>3. visible = 1..Cardinality(visible)
    BY <2>1, <2>2, PrefixSize, Zenon
  <2> QED
    BY <2>3, Zenon DEF FanoutInv, Published, PublicationIsPrefix
<1> QED
  BY <1>1, FanoutInvariance, PTL

\* Without EXITCODE and signals the exit status tells what was published: 0 and 79
\* only for a fully published plan, 65 only when nothing was (run,
\* PublicationTracker::finish).
THEOREM StatusMatchesDeliveryHolds == Spec => []StatusMatchesDelivery
<1>1. FanoutInv => StatusMatchesDelivery
  <2> SUFFICES ASSUME FanoutInv, exit # -1, exitcode = "unset", signal = 0
               PROVE  StatusMatchesDelivery
    BY Zenon DEF StatusMatchesDelivery
  <2>1. pc = "exit" /\ pc \in Settled /\ exit = outcome
    BY Zenon DEF FanoutInv, Reported, Settled
  <2> QED
    BY <2>1, Zenon DEF FanoutInv, Reported, StatusMatchesDelivery
<1> QED
  BY <1>1, FanoutInvariance, PTL

\* After an orderly exit no sink is pending and the staging file has no name
\* unless unlinking it failed (abort_all, Drop of StagingFile).
THEOREM NothingLeftPendingHolds == Spec => []NothingLeftPending
<1>1. FanoutInv => NothingLeftPending
  <2> SUFFICES ASSUME FanoutInv, exit # -1
               PROVE  NothingLeftPending
    BY Zenon DEF NothingLeftPending
  <2>1. pc = "exit" /\ pc \in Settled
    BY Zenon DEF FanoutInv, Reported, Settled
  <2>2. staging # "named"
    BY <2>1, Zenon DEF FanoutInv, StagingGone
  <2> QED
    BY <2>1, <2>2, Zenon DEF FanoutInv, Published, NothingLeftPending
<1> QED
  BY <1>1, FanoutInvariance, PTL

\* The blamed destination is the one that failed, and LASTFOLDER names the last
\* visible one (append_bytes, apply_publication).
THEOREM ReportNamesTheSinkHolds == Spec => []ReportNamesTheSink
<1>1. FanoutInv => ReportNamesTheSink
  <2> SUFFICES ASSUME FanoutInv PROVE ReportNamesTheSink
    BY Zenon
  <2>1. exit # -1 /\ ~plan.dryrun => lastfolder = Cardinality(visible)
    <3> SUFFICES ASSUME exit # -1, ~plan.dryrun PROVE lastfolder = Cardinality(visible)
      BY Zenon
    <3>1. pc \in Settled
      BY Zenon DEF FanoutInv, Reported, Settled
    <3>2. visible = 1..lastfolder /\ lastfolder \in Nat
      BY <3>1, FanoutAssumption DEF FanoutInv, Published, Shape
    <3> QED
      BY <3>2, PrefixSize, Zenon
  <2> QED
    BY <2>1, Zenon DEF FanoutInv, Reported, ReportNamesTheSink
<1> QED
  BY <1>1, FanoutInvariance, PTL

\* No action but Finish sets the exit status.
LEMMA OnlyFinishExits == Next /\ exit' # exit => Finish
BY Zenon DEF Next, Start, OpenSinks, OpenLate, OpenRange, CreateStaging, ReadInput, WriteFanout,
       WriteStaging, Validated, MapStaging, Resume, AppendLate, CheckBeforeCommit,
       CommitNext, CommitReturns, Simulate, AbortSinks, Signal, Crash, Terminated, vars

\* A signal that arrived before the exit decides the status (run).
THEOREM SignalDecidesStatusHolds == Spec => SignalDecidesStatus
<1>1. [Next]_vars => [exit' # exit /\ signal # 0 => exit' = 128 + signal]_vars
  <2> SUFFICES ASSUME Next, exit' # exit, signal # 0
               PROVE  exit' = 128 + signal
    BY Zenon
  <2>1. Finish
    BY OnlyFinishExits, Zenon
  <2> QED
    BY <2>1, Zenon DEF Finish
<1> QED
  BY <1>1, PTL DEF Spec, SignalDecidesStatus

\* Once a signal is recorded with nothing visible and no commit begun, no commit
\* will begin.
Stopped == signal # 0 /\ visible = {} /\ pc # "commit"

\* Nothing but ValidatedFanout::commit makes a message visible.
LEMMA OnlyCommitPublishes == Next /\ visible' # visible => CommitNext
BY Zenon DEF Next, Start, OpenSinks, OpenLate, OpenRange, OpenSink, RefuseSink, CreateStaging,
       ReadInput, WriteFanout, WriteSink, WriteStaging, Validated, MapStaging, Resume,
       AppendLate, CheckBeforeCommit, CommitReturns, CommitOk, CommitLate, Simulate,
       AbortSinks, AbortSink, Finish, Signal, Crash, Terminated, vars, sinkVars

\* The commit loop is entered from the last check_signal only, and continued from
\* a sink that became visible (commit_delivery).
LEMMA OnlyCheckCommits ==
    Next /\ pc' = "commit" /\ pc # "commit" => CheckBeforeCommit \/ CommitReturns
BY Zenon DEF Next, Start, OpenSinks, OpenLate, OpenRange, CreateStaging, ReadInput, WriteFanout,
       WriteStaging, Validated, MapStaging, Resume, AppendLate, CheckSignal, CommitNext,
       Simulate, AbortSinks, Finish, Signal, Crash, Terminated, vars, Goto, Fail

\* A recorded signal is never forgotten (record_signal).
LEMMA SignalStays == Next => signal' = signal \/ signal' = SigTerm
BY Zenon DEF Next, Start, OpenSinks, OpenLate, OpenRange, CreateStaging, ReadInput, WriteFanout,
       WriteStaging, Validated, MapStaging, Resume, AppendLate, CheckBeforeCommit,
       CommitNext, CommitReturns, Simulate, AbortSinks, Finish, Signal, Crash, Terminated, vars

\* No step leaves Stopped: the last check_signal is on every way to a commit.
LEMMA StoppedStays == FanoutInv /\ Stopped /\ [Next]_vars => Stopped'
<1> SUFFICES ASSUME FanoutInv, Stopped, [Next]_vars PROVE Stopped'
  BY Zenon
<1>1. CASE Next
  <2>1. signal' # 0
    BY <1>1, SignalStays DEF Stopped, SigTerm
  <2>2. visible' = {}
    <3>1. ~CommitNext
      BY Zenon DEF Stopped, CommitNext, Goto, Fail
    <3> QED
      BY <1>1, <3>1, OnlyCommitPublishes, Zenon DEF Stopped
  <2>3. pc' # "commit"
    <3>1. CheckBeforeCommit => pc' # "commit"
      BY Zenon DEF Stopped, CheckBeforeCommit, CheckSignal, Fail, Goto
    <3>2. ~CommitReturns
      <4>1. pc = "visible" => next \in 1..next
        BY DEF FanoutInv, Shape
      <4>2. pc # "visible"
        BY <4>1, Zenon DEF Stopped, FanoutInv, Published
      <4> QED
        BY <4>2, Zenon DEF CommitReturns, Fail, Goto
    <3> QED
      BY <1>1, <3>1, <3>2, OnlyCheckCommits, Zenon DEF Stopped
  <2> QED
    BY <2>1, <2>2, <2>3, Zenon DEF Stopped
<1>2. CASE UNCHANGED vars
  BY <1>2, Zenon DEF Stopped, vars, sinkVars
<1> QED
  BY <1>1, <1>2, Zenon

\* A signal recorded before the first commit stops the delivery for good: nothing
\* ever becomes visible (check_signal, InterruptibleReader).
THEOREM SignalStopsPublicationHolds == Spec => SignalStopsPublication
<1>1. Stopped => visible = {}
  BY Zenon DEF Stopped
<1>2. (signal # 0 /\ visible = {} /\ pc # "commit") => Stopped
  BY Zenon DEF Stopped
<1> QED
  BY <1>1, <1>2, FanoutInvariance, StoppedStays, PTL DEF Spec, SignalStopsPublication
=============================================================================
