------------------------- MODULE OrderedInvariants -------------------------
(***************************************************************************)
(* The inductive invariants of OrderedEval, and the classes of recipe      *)
(* trees for which some of them hold.  They are about the stacks alone:    *)
(* which activations can follow each other, what they may hold or have put *)
(* aside, and what they will return to.  Predicates on a tree or a stack   *)
(* take it as a parameter, so that they can be read of the next state.     *)
(***************************************************************************)
EXTENDS OrderedEval

\* What the stacks of activations and the registers of a thread hold.
Kinds == {"root", "block", "include", "switch", "waited", "parent", "branch"}
Modes == {"idle", "run", "block", "copy", "return", "unwind", "done"}
Controls == {"continue", "stop", "endrc", "complete"}
Faults == {"none", "evaluation", "delivery", "supervision"}
Results == {"succeeded", "failed"}
Returns == [action : ActionExecution, control : Controls]
Slots == Locks \cup {NoLock}
SavedContext == [edits : Nat, delivered : BOOLEAN, lock : Slots]
Frame ==
    [kind : Kinds, seq : Nat, at : Nat, state : SequenceState, action : Results,
     lock : Slots, handled : BOOLEAN, saved : SavedContext, branch : Threads \cup {Nobody}, ran : Nat]

\* A frame is at an item of its sequence, and at a block whose gate is open.
AtItem(p, f) == f.at <= Len(p[f.seq])
AtOpenBlock(p, f) ==
    LET item == p[f.seq][f.at] IN
    AtItem(p, f) /\ item.op = "block" /\ ExecutionGate(item.ctl, f.state)
\* A preceding recipe that matched belongs to a chain whose base matched.
Chained(s) == s.previous.matched => s.chain

\* A frame is in its sequence, and only blocks and waited branches hold locks.
FrameFine(p, f) ==
    /\ f.seq \in DOMAIN p
    /\ f.at \in 1..(Len(p[f.seq]) + 1)
    /\ Chained(f.state)
    /\ f.kind # "block" => f.lock = NoLock
    /\ f.kind # "waited" => f.saved.lock = NoLock
    /\ f.kind = "parent" => f.branch \in Threads

\* Only the first activation is that of a thread, every caller is at the item that
\* entered its callee, and the caller of a block is at a block whose gate is open.
StackFine(t) ==
    /\ \A i \in 1..Len(stack[t]) : FrameFine(prog, stack[t][i])
    /\ \A i \in 1..Len(stack[t]) : stack[t][i].kind \in {"root", "branch"} <=> i = 1
    /\ \A i \in 1..(Len(stack[t]) - 1) :
        /\ AtItem(prog, stack[t][i])
        /\ stack[t][i + 1].kind \in {"block", "waited", "parent"} => AtOpenBlock(prog, stack[t][i])

\* A thread without activations is idle or done, and a block is entered where one is.
ModeFine(t) ==
    /\ Len(stack[t]) = 0 <=> mode[t] \in {"idle", "done"}
    /\ mode[t] \in {"block", "copy"} => AtOpenBlock(prog, stack[t][Len(stack[t])])
    /\ mode[t] = "return" => ret[t].action \in Results

\* The types of the other variables.
Data ==
    /\ fault \in [Threads -> Faults]
    /\ pendingError \in [Threads -> BOOLEAN]
    /\ delivered \in [Threads -> BOOLEAN]
    /\ published \in [Threads -> Nat]
    /\ edits \in [Threads -> Nat]
    /\ owner \in [Locks -> Threads \cup {Nobody}]
    /\ globalLock \in [Threads -> Slots]
    /\ started \in 0..MaxBranches
    /\ history \in Observed

\* The stack of every thread is one that nested calls of execute_ordered_from make.
Shape ==
    /\ prog \in Programs
    /\ stack \in [Threads -> Seq(Frame)]
    /\ mode \in [Threads -> Modes]
    /\ ret \in [Threads -> Returns]
    /\ \A t \in Threads : StackFine(t) /\ ModeFine(t)

\* The frames s and the global slot g hold lock l, and no lock is held twice.
HoldsIn(s, g, l) ==
    \/ l = g
    \/ \E i \in 1..Len(s) : l = s[i].lock \/ l = s[i].saved.lock

OneIn(s, g) ==
    /\ \A i \in 1..Len(s) : g \in Locks => g # s[i].lock /\ g # s[i].saved.lock
    /\ \A i, j \in 1..Len(s) : s[i].lock \in Locks => s[i].lock # s[j].saved.lock
    /\ \A i, j \in 1..Len(s) : i # j =>
        /\ s[i].lock \in Locks => s[i].lock # s[j].lock
        /\ s[i].saved.lock \in Locks => s[i].saved.lock # s[j].saved.lock

\* A lock is owned by the thread one of whose slots has it.
LocksInv ==
    /\ \A t \in Threads : \A l \in Locks : owner[l] = t <=> HoldsIn(stack[t], globalLock[t], l)
    /\ \A t \in Threads : OneIn(stack[t], globalLock[t])
    /\ \A t \in Threads : mode[t] \in {"idle", "done"} => globalLock[t] = NoLock

\* Some activation among the frames s will join thread u.
ParentIn(s, u) == \E i \in 1..Len(s) : s[i].kind = "parent" /\ s[i].branch = u

\* The copy branches that run.
Branches == {u \in Threads : u > 0 /\ mode[u] \notin {"idle", "done"}}

\* Threads are started in order, and of any branches that run one is joined by an
\* activation of a thread that is none of them.
Parents ==
    /\ \A u \in Threads : mode[u] = "idle" <=> u > started
    /\ \A S \in SUBSET Branches : S # {} =>
        \E u \in S : \E t \in Threads \ S : ParentIn(stack[t], u)

WellFormed == Shape /\ Data /\ Parents

\* The message of the original path, put aside or current, has the edits o.
NoneWaited(s) == \A i \in 1..Len(s) : s[i].kind # "waited"
FirstWaited(s, i) == s[i].kind = "waited" /\ \A j \in 1..(i - 1) : s[j].kind # "waited"
EditsAre(s, e, o) ==
    /\ NoneWaited(s) => e = o
    /\ \A i \in 1..Len(s) : FirstWaited(s, i) => s[i].saved.edits = o

\* The original message has the edits of the original path.
Isolated == EditsAre(stack[0], edits[0], history.original)

-----------------------------------------------------------------------------
\* Which sequences a block enters, which contain an unwaited copy block, and which
\* an included file consists of: what INCLUDERC enters, and all that is entered there.
UnwaitedCopy(item) == item.op = "block" /\ item.copy /\ ~item.wait /\ item.lock = NoLock
BlockChildren(p) ==
    {c \in DOMAIN p : \E s \in DOMAIN p : \E i \in 1..Len(p[s]) :
        p[s][i].op = "block" /\ p[s][i].child = c}
WithUnwaited(p) == {s \in DOMAIN p : \E i \in 1..Len(p[s]) : UnwaitedCopy(p[s][i])}
Encloses(p, S) ==
    \A s \in DOMAIN p : \A i \in 1..Len(p[s]) :
        p[s][i].child # 0 /\ (s \in S \/ p[s][i].op = "include") => p[s][i].child \in S
Included(p) == {c \in DOMAIN p : \A S \in SUBSET DOMAIN p : Encloses(p, S) => c \in S}

\* The activations above an include are in the included file, that of a block is in
\* the children of a block, and the caller of a parent is at its copy block.
NestFine(p, s) ==
    /\ \A i, j \in 1..Len(s) : i <= j /\ s[i].kind = "include" => s[j].seq \in Included(p)
    /\ \A i \in 1..Len(s) : s[i].kind = "block" => s[i].seq \in BlockChildren(p)
    /\ \A i \in 1..(Len(s) - 1) : s[i + 1].kind = "parent" => s[i].seq \in WithUnwaited(p)

Nest == \A t \in Threads : NestFine(prog, stack[t])

\* The trees whose included files have no HOST line, and those which in addition
\* have unwaited copy blocks neither inside a block nor in an included file.
NoHostIncluded(p) == \A s \in Included(p) : \A i \in 1..Len(p[s]) : p[s][i].op # "host"
StopReaches(p) ==
    NoHostIncluded(p) /\ WithUnwaited(p) \cap (BlockChildren(p) \cup Included(p)) = {}

\* An earlier delivery of the original message, put aside or current, was earned.
EarnedIn(s, d, x) ==
    /\ NoneWaited(s) /\ d => x
    /\ \A i \in 1..Len(s) : FirstWaited(s, i) /\ s[i].saved.delivered => x

FinalDone == history.finals > 0 \/ history.hostEnded
Earned == EarnedIn(stack[0], delivered[0], FinalDone)

\* A thread that has delivered its message is leaving all its activations.
NoInclude(s) == \A i \in 1..Len(s) : s[i].kind # "include"
Leaving(s, m, c) ==
    \/ m \in {"unwind", "done"}
    \/ m = "return" /\ (c \in {"stop", "complete"} \/ (c = "endrc" /\ NoInclude(s)))
AsideUndelivered(s) == \A i \in 1..Len(s) : s[i].kind = "waited" => s[i].saved.delivered = FALSE
Stopping(t) ==
    /\ delivered[t] => Leaving(stack[t], mode[t], ret[t].control)
    /\ mode[t] = "return" /\ ret[t].control = "complete" =>
        stack[t][Len(stack[t])].seq \in WithUnwaited(prog)
    /\ AsideUndelivered(stack[t])

\* Every thread that delivered its message leaves, and the original one delivers once.
Stops ==
    /\ \A t \in Threads : Stopping(t)
    /\ history.afterStop = FALSE
    /\ history.finals <= 1
    /\ history.finals > 0 => delivered[0] /\ NoneWaited(stack[0])

\* The first recipe from item i of sequence s on is not an E recipe.
NoElseFrom(p, s, i) ==
    \A j \in i..Len(p[s]) : p[s][j].op \in Recipes /\ p[s][j].ctl = "E" =>
        \E k \in i..(j - 1) : p[s][k].op \in Recipes
\* The trees without an E recipe right behind a copy block.
NoElseAfterCopy(p) ==
    \A s \in DOMAIN p : \A i \in 1..Len(p[s]) :
        p[s][i].op = "block" /\ p[s][i].copy => NoElseFrom(p, s, i + 1)

\* At most one recipe of the chain ran, and if one did the next E recipe is skipped.
ElseFine(p, f) ==
    /\ f.ran <= 1
    /\ f.ran = 1 => f.state.previous.handled \/ NoElseFrom(p, f.seq, f.at)
\* The item a frame is at, and activation g entered from f at one of its kind.
AtCopy(p, f) == p[f.seq][f.at].copy
AtRecipe(p, f) == p[f.seq][f.at].op \in Recipes
EnteredAt(p, f, g) ==
    /\ g.kind = "block" => g.handled \/ AtCopy(p, f)
    /\ g.kind \in {"include", "switch"} => ~AtRecipe(p, f)
ElseStack(p, s, m) ==
    /\ \A i \in 1..Len(s) : s[i].ran <= 1
    /\ \A i \in 1..Len(s) : i < Len(s) \/ m \notin {"return", "unwind"} => ElseFine(p, s[i])
    /\ \A i \in 1..Len(s) : s[i].kind \in {"waited", "parent"} => s[i].handled
    /\ \A i \in 1..(Len(s) - 1) : EnteredAt(p, s[i], s[i + 1])
    /\ m = "copy" => AtCopy(p, s[Len(s)])

\* In every thread at most one recipe of every chain ran.
Elses == \A t \in Threads : ElseStack(prog, stack[t], mode[t])

\* Frame f will join thread u; a thread is joined by one activation only.
Joining(f, u) == f.kind = "parent" /\ f.branch = u
JoinedOnce ==
    /\ \A t, u \in Threads : \A i \in 1..Len(stack[t]) :
        Joining(stack[t][i], u) => 0 < u /\ u <= started
    /\ \A t, v, u \in Threads : \A i \in 1..Len(stack[t]), j \in 1..Len(stack[v]) :
        Joining(stack[t][i], u) /\ Joining(stack[v][j], u) => t = v /\ i = j

\* What thread u has published and no other thread counts: a branch that was
\* joined has handed its publications over.
Shares ==
    [u \in Threads |-> IF u = 0 \/ \E t \in Threads : ParentIn(stack[t], u) THEN published[u] ELSE 0]

\* The values of s add up to d: total has the sum over every set of threads.
AddUpTo(s, d) ==
    \E total \in [SUBSET Threads -> Int] :
        /\ total[Threads] = d
        /\ \A S \in SUBSET Threads : \A t \in S : total[S] = total[S \ {t}] + s[t]
        /\ \A S \in SUBSET Threads : (\A t \in S : s[t] = 0) => total[S] = 0

\* The deliveries that are reported: those that did not fail behind publication.
Reported == history.deliveries - history.late

\* Every delivery that is reported is counted by exactly one thread.
Counted ==
    /\ JoinedOnce
    /\ \A u \in Threads : mode[u] = "idle" => published[u] = 0
    /\ AddUpTo(Shares, Reported)

\* A delivery that failed behind publication ended its thread with an error.
LateFailed == history.late > 0 => \E u \in Threads : fault[u] # "none"
=============================================================================
