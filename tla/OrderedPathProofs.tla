-------------------------- MODULE OrderedPathProofs --------------------------
(***************************************************************************)
(* Ordered execution: what a path delivers.  Status 0 is earned, a final   *)
(* delivery ends its path, and the publications that a run reports are the *)
(* deliveries that were made.  The first two hold for the trees whose      *)
(* shape excludes the exceptions that the runs ordered_host and            *)
(* ordered_stop show: a HOST line in an included file, and an unwaited     *)
(* copy block inside a block or an included file.                          *)
(*                                                                         *)
(* Nest follows the sequences that activations run, so that a fact about   *)
(* the tree becomes one about the stack.  Earned says who delivered the    *)
(* original, current or put aside; Stops says that a thread which has      *)
(* delivered its message will return from all its activations.  Counted    *)
(* says that no branch is joined twice and that the publications of the    *)
(* threads that still count add up to those made.                          *)
(***************************************************************************)
EXTENDS OrderedShapeProofs

-----------------------------------------------------------------------------
\* The sequences that activations run.

\* What an item of the top activation may enter.
EntryOf(t, f) ==
    \/ /\ f.kind \in {"include", "switch"} /\ Item(Top(t)).child # 0
       /\ f.kind = Item(Top(t)).op /\ f.seq = Item(Top(t)).child
    \/ /\ f.kind = "block" /\ Item(Top(t)).op = "block" /\ Item(Top(t)).child # 0
       /\ f.seq = Item(Top(t)).child
    \/ f.kind = "waited" /\ f.seq = Top(t).seq

\* Every step goes on in the top activation, enters one, leaves one, forks or ends
\* its thread.
LEMMA StepForms ==
    ASSUME Shape, Data, Parents, NEW t \in Threads, Running(t)
    PROVE  /\ mode[t] \notin {"idle", "done"} /\ prog' = prog
           /\ \/ Redo(t)
              \/ \E f \in Frame : Enters(t, f) /\ EntryOf(t, f) /\ AtItem(prog, Top(t))
              \/ Back(t) /\ Top(t).kind \notin {"root", "branch"}
              \/ /\ Selected(t, {"block"}) /\ UnwaitedCopy(Item(Top(t)))
                 /\ started + 1 \in Threads \ {t}
                 /\ Forks(t, started + 1, ParentFrame(t), BranchFrame(t))
              \/ ThreadEnds(t)
<1>1. CASE \/ EndOfSequence(t) \/ Host(t) \/ LockFile(t) \/ Skip(t) \/ ActionSucceeds(t)
           \/ ActionFails(t) \/ ActionAborts(t) \/ DeliveryFailsLate(t) \/ SelectBlock(t)
  <2>2. Redo(t)
    BY <1>1, EndOfSequenceShape, HostShape, LockFileShape, SkipShape, ActionSucceedsShape,
       ActionFailsShape, ActionAbortsShape, DeliveryFailsLateShape, SelectBlockShape, Zenon
  <2> QED
    BY <1>1, <2>2, Zenon DEF EndOfSequence, Host, LockFile, Skip, ActionSucceeds, ActionFails,
       ActionAborts, DeliveryFailsLate, SelectBlock, Selected, At
<1>2. CASE RuntimeRc(t)
  <2>1. mode[t] \notin {"idle", "done"} /\ prog' = prog /\ AtItem(prog, Top(t))
    BY <1>2, Zenon DEF RuntimeRc, At, AtItem
  <2>2. CASE Redo(t)
    BY <2>1, <2>2, Zenon
  <2>3. ASSUME NEW f \in Frame, Enters(t, f), f.kind \in {"include", "switch"},
               f.kind = Item(Top(t)).op, f.seq = Item(Top(t)).child
        PROVE  Enters(t, f) /\ EntryOf(t, f)
    <3>1. f.seq \in DOMAIN prog'
      <4>2. Len(stack[t]) + 1 \in 1..Len(stack'[t]) /\ stack'[t][Len(stack[t]) + 1] = f
        BY <1>2, <2>1, <2>3, RuntimeRcShape, TopFacts DEF Reframed, Enters, Moves
      <4> QED
        BY <1>2, <2>1, <2>3, RuntimeRcShape, TopFacts, <4>2, Zenon DEF FrameFine, Shape, StackFine,
           Enters, Moves
    <3> QED
      BY <2>1, <2>3, <3>1, ProgramFacts DEF EntryOf, Shape
  <2> QED
    BY <1>2, <2>1, <2>2, <2>3, RuntimeRcShape, Zenon
<1>3. CASE EnterBlock(t)
  <2>2. /\ AtOpenBlock(prog, Top(t)) /\ prog \in Programs
        /\ Top(t) \in Frame /\ FrameFine(prog, Top(t))
    BY <1>3, TopFacts, Zenon DEF EnterBlock
  <2>4. Item(Top(t)).child # 0
    <3>1. Item(Top(t)).child \in DOMAIN prog
      BY <2>2, ItemFacts, Zenon DEF AtOpenBlock, Item
    <3> QED
      BY <2>2, <3>1, ProgramFacts
  <2> QED
    BY <1>3, <2>2, <2>4, EnterBlockShape, Zenon DEF EntryOf, EnterBlock, AtOpenBlock, Item
<1>4. CASE SelectWaitedCopy(t)
  <2>1. Selected(t, {"block"}) /\ prog' = prog
    BY <1>4, Zenon DEF SelectWaitedCopy
  <2> QED
    BY <1>4, <2>1, SelectedFacts, WaitedFrameIs, SelectWaitedCopyShape, Zenon DEF EntryOf
<1>5. CASE SelectUnwaitedCopy(t)
  BY <1>5, SelectedFacts, SelectUnwaitedCopyShape, Zenon DEF SelectUnwaitedCopy, Data,
     UnwaitedCopy, AtOpenBlock, Item
<1>6. CASE ReturnBlock(t) \/ ReturnRc(t) \/ ReturnWaited(t) \/ ReturnParent(t) \/ Unwind(t)
  BY <1>6, ReturnBlockShape, ReturnRcShape, ReturnWaitedShape, ReturnParentShape,
     UnwindShape, Zenon DEF ReturnBlock, ReturnRc, ReturnWaited, ReturnParent, Unwind, Returning
<1>7. CASE ThreadEnds(t)
  BY <1>7, Zenon DEF ThreadEnds
<1> QED
  BY <1>1, <1>2, <1>3, <1>4, <1>5, <1>6, <1>7, Zenon DEF Running

\* What the items of an included file enter belongs to it.
LEMMA IncludedIs ==
    ASSUME prog \in Programs
    PROVE  Encloses(prog, Included(prog))
<1> SUFFICES ASSUME NEW s \in DOMAIN prog, NEW i \in 1..Len(prog[s]), prog[s][i].child # 0,
                    s \in Included(prog) \/ prog[s][i].op = "include"
             PROVE  prog[s][i].child \in Included(prog)
  BY Zenon DEF Encloses
<1>2. ASSUME NEW S \in SUBSET DOMAIN prog, Encloses(prog, S) PROVE prog[s][i].child \in S
  BY <1>2, Zenon DEF Encloses, Included
<1> QED
  BY ProgramFacts, <1>2, Zenon DEF Included

\* Frames that are kept run the same sequences.
LEMMA NestSame ==
    ASSUME NEW p, NEW s, NEW r, NEW n \in Nat, n <= Len(s), Len(s) \in Nat, Len(r) = n,
           \A i \in 1..n : Kept(s[i], r[i]), NestFine(p, s)
    PROVE  NestFine(p, r)
<1>1. \A i \in 1..n : i \in 1..Len(s) /\ r[i].kind = s[i].kind /\ r[i].seq = s[i].seq
  BY DEF Kept
<1>5. \A i \in 1..(n - 1) : r[i + 1].kind = "parent" => r[i].seq \in WithUnwaited(p)
  <2> TAKE i \in 1..(n - 1)
  <2> QED
    BY <1>1 DEF NestFine
<1> QED
  BY <1>1, <1>5, Zenon DEF NestFine

\* The sequence of an activation that is entered belongs where it should.
LEMMA NestPush ==
    ASSUME NEW p, NEW s, NEW r, NEW f, Pushed(s, r, f), Len(s) \in Nat, Len(s) > 0,
           NestFine(p, s),
           f.kind = "include" \/ s[Len(s)].seq \in Included(p) => f.seq \in Included(p),
           f.kind = "block" => f.seq \in BlockChildren(p),
           f.kind = "parent" => s[Len(s)].seq \in WithUnwaited(p)
    PROVE  NestFine(p, r)
<1> DEFINE n == Len(s)
<1>1. /\ n \in Nat /\ n > 0 /\ Len(r) = n + 1 /\ r[n + 1] = f
      /\ \A i \in 1..n : r[i] = s[i]
  BY Zenon DEF Pushed
<1>2. /\ \A i, j \in 1..n : i <= j /\ s[i].kind = "include" => s[j].seq \in Included(p)
      /\ \A i \in 1..n : s[i].kind = "block" => s[i].seq \in BlockChildren(p)
      /\ \A i \in 1..(n - 1) : s[i + 1].kind = "parent" => s[i].seq \in WithUnwaited(p)
  BY Zenon DEF NestFine
<1>3. /\ f.kind = "include" \/ s[n].seq \in Included(p) => f.seq \in Included(p)
      /\ f.kind = "parent" => s[n].seq \in WithUnwaited(p)
  BY Zenon
<1> HIDE DEF n
<1>5. ASSUME NEW i \in 1..(n + 1), NEW j \in 1..(n + 1), i <= j, r[i].kind = "include"
      PROVE  r[j].seq \in Included(p)
  <2>1. CASE j = n + 1 /\ i = n + 1
    BY <2>1, <1>1, <1>3, <1>5, Zenon
  <2>2. CASE j = n + 1 /\ i \in 1..n
    BY <2>2, <1>1, <1>2, <1>5, <1>3
  <2>3. CASE j \in 1..n
    BY <2>3, <1>1, <1>5, <1>2
  <2> QED
    BY <2>1, <2>2, <2>3, <1>1
<1>7. ASSUME NEW i \in 1..((n + 1) - 1), r[i + 1].kind = "parent"
      PROVE  r[i].seq \in WithUnwaited(p)
  <2>1. i \in 1..n
    BY <1>1
  <2>2. CASE i = n
    BY <2>1, <2>2, <1>1, <1>3, <1>7, Zenon
  <2>3. CASE i # n
    BY <2>1, <2>3, <1>1, <1>2, <1>7
  <2> QED
    BY <2>2, <2>3, Zenon
<1> QED
  BY <1>1, <1>5, <1>2, <1>7 DEF NestFine

\* Every step keeps activations in the sequences they belong to.
LEMMA NestStep ==
    ASSUME Shape, Data, Parents, Nest, [Next]_vars
    PROVE  Nest'
<1>1. ASSUME NEW t \in Threads, Running(t) PROVE Nest'
  <2>1. /\ mode[t] \notin {"idle", "done"} /\ prog' = prog
        /\ prog \in Programs /\ NestFine(prog, stack[t])
        /\ Len(stack[t]) \in Nat /\ Len(stack[t]) > 0 /\ Top(t) = stack[t][Len(stack[t])]
        /\ Top(t) \in Frame /\ FrameFine(prog, Top(t))
    BY <1>1, StepForms, TopFacts, Zenon DEF Nest
  <2>2. ASSUME NestFine(prog, stack'[t]), \A u \in Threads \ {t} : stack'[u] = stack[u]
        PROVE  Nest'
    BY <2>1, <2>2, Zenon DEF Nest
  <2>3. CASE Redo(t)
    <3> DEFINE n == Len(stack[t])
    <3>1. /\ Len(stack'[t]) = n /\ n \in Nat /\ n <= Len(stack[t])
          /\ \A i \in 1..n : Kept(stack[t][i], stack'[t][i])
          /\ \A u \in Threads \ {t} : stack'[u] = stack[u]
      BY <2>1, <2>3, RedoFacts
    <3> HIDE DEF n
    <3> QED
      BY <2>2, <3>1, <2>1, NestSame, Zenon
  <2>4. CASE Back(t) /\ Top(t).kind \notin {"root", "branch"}
    <3> DEFINE n == Len(stack[t]) - 1
    <3>1. /\ Len(stack'[t]) = n /\ n \in Nat /\ n <= Len(stack[t])
          /\ \A i \in 1..n : Kept(stack[t][i], stack'[t][i])
          /\ \A u \in Threads \ {t} : stack'[u] = stack[u]
      BY <2>1, <2>4, BackFacts
    <3> HIDE DEF n
    <3>2. NestFine(prog, stack'[t])
      BY <2>1, <3>1, NestSame, Zenon
    <3> QED
      BY <2>2, <3>1, <3>2, Zenon
  <2>5. ASSUME NEW f \in Frame, Enters(t, f), EntryOf(t, f), AtItem(prog, Top(t)) PROVE Nest'
    <3> DEFINE s == Top(t).seq
               i == Top(t).at
    <3>2. s \in DOMAIN prog /\ i \in 1..Len(prog[s]) /\ Item(Top(t)) = prog[s][i]
      BY <2>1, <2>5, ProgramFacts DEF Item, FrameFine, AtItem
    <3>3. f.kind = "include" \/ s \in Included(prog) => f.seq \in Included(prog)
      <4>1. CASE f.kind = "waited" /\ f.seq = s
        BY <4>1, Zenon
      <4>2. CASE f.seq = prog[s][i].child /\ prog[s][i].child # 0
                 /\ (f.kind = "include" => prog[s][i].op = "include")
        BY <2>1, <3>2, <4>2, IncludedIs, Zenon DEF Encloses
      <4> QED
        BY <2>5, <3>2, <4>1, <4>2, Zenon DEF EntryOf
    <3>4. f.kind = "block" => f.seq \in BlockChildren(prog)
      <4> SUFFICES ASSUME f.kind = "block" PROVE f.seq \in BlockChildren(prog)
        BY Zenon
      <4> QED
        BY <3>2, <2>5, <2>1, ProgramFacts, Zenon DEF BlockChildren, EntryOf
    <3> QED
      BY <2>2, <2>1, <2>5, EntersFacts, <3>3, <3>4, NestPush, Zenon DEF EntryOf
  <2>6. CASE /\ Selected(t, {"block"}) /\ UnwaitedCopy(Item(Top(t)))
             /\ started + 1 \in Threads \ {t}
             /\ Forks(t, started + 1, ParentFrame(t), BranchFrame(t))
    <3> DEFINE u == started + 1
               f == ParentFrame(t)
               b == BranchFrame(t)
    <3>1. /\ f.kind = "parent" /\ f.seq = Top(t).seq /\ b.kind = "branch" /\ u \in Threads \ {t}
      BY <2>6, ParentFrameIs, BranchFrameIs, Zenon
    <3>2. /\ Pushed(stack[t], stack'[t], f)
          /\ Len(stack'[u]) = 1 /\ stack'[u][1] = b
          /\ \A v \in Threads \ {t, u} : stack'[v] = stack[v]
      BY <2>6, Zenon DEF Forks, Pushed
    <3> HIDE DEF u, f, b
    <3>3. Top(t).seq \in WithUnwaited(prog)
      <4>1. Top(t).seq \in DOMAIN prog /\ Top(t).at \in 1..Len(prog[Top(t).seq])
            /\ Item(Top(t)) = prog[Top(t).seq][Top(t).at]
        <5>1. /\ Top(t).seq \in DOMAIN prog /\ Top(t).at \in 1..(Len(prog[Top(t).seq]) + 1)
              /\ Top(t).at <= Len(prog[Top(t).seq]) /\ Len(prog[Top(t).seq]) \in Nat
          BY <2>1, <2>6, SelectedFacts, ProgramFacts, Zenon DEF FrameFine, AtItem
        <5> QED
          BY <5>1 DEF Item
      <4> QED
        BY <2>6, <4>1, Zenon DEF WithUnwaited
    <3>5. NestFine(prog, stack'[u])
      BY <3>1, <3>2 DEF NestFine
    <3> QED
      BY <2>1, <3>2, <3>1, <3>3, NestPush, <3>5, Zenon DEF Nest
  <2>7. CASE ThreadEnds(t)
    BY <2>2, <2>7, ThreadEndsShape DEF NestFine
  <2> QED
    BY <1>1, <2>3, <2>4, <2>5, <2>6, <2>7, StepForms, Zenon
<1>2. CASE UNCHANGED vars
  BY <1>2, Zenon DEF vars, Nest
<1> QED
  BY <1>1, <1>2, Zenon DEF Next, Terminated

\* Activations run the sequences that their kind says, in every reachable state.
LEMMA NestInvariance == Spec => []Nest
<1>1. Init => Nest
  <2> SUFFICES ASSUME Init, NEW t \in Threads PROVE NestFine(prog, stack[t])
    BY Zenon DEF Nest
  <2>1. /\ 0 \in Threads /\ Len(stack[0]) = 1 /\ stack[0][1].kind = "root"
        /\ \A u \in Threads : u # 0 => Len(stack[u]) = 0
    BY InitStack, Zenon
  <2>2. CASE t = 0
    <3> DEFINE s == stack[t]
    <3>1. Len(s) = 1 /\ s[1].kind = "root"
      BY <2>1, <2>2, Zenon
    <3> HIDE DEF s
    <3>2. \A i \in 1..Len(s) : s[i].kind = "root"
      BY <3>1
    <3>3. 1..(Len(s) - 1) = {}
      BY <3>1
    <3> QED
      BY <3>2, <3>3, Zenon DEF NestFine, s
  <2>3. CASE t # 0
    BY <2>1, <2>3 DEF NestFine
  <2> QED
    BY <2>2, <2>3, Zenon
<1>2. WellFormed /\ Nest /\ [Next]_vars => Nest'
  BY NestStep, Zenon DEF WellFormed
<1> QED
  BY <1>1, <1>2, WellFormedInvariance, PTL DEF Spec

-----------------------------------------------------------------------------
\* A delivered original was delivered by a final action or ended by HOST.

\* A step of kind Redo that delivers the original only with a final action or
\* HOST.
LEMMA EarnedRedo ==
    ASSUME Shape, NEW t \in Threads, mode[t] \notin {"idle", "done"}, Redo(t),
           NEW d, NEW x, NEW e, NEW y, EarnedIn(stack[t], d, x), x => y,
           NoneWaited(stack[t]) /\ e => d \/ y
    PROVE  EarnedIn(stack'[t], e, y)
<1> DEFINE s == stack[t]
           r == stack'[t]
           n == Len(stack[t])
<1>1. n \in Nat /\ Len(s) = n /\ Len(r) = n /\ \A i \in 1..n : Kept(s[i], r[i])
  BY RedoFacts, TopFacts, Zenon
<1> HIDE DEF s, r, n
<1> QED
  BY <1>1, FirstsSame, Zenon DEF EarnedIn, r, Kept, s

\* A waited branch puts the delivery of the original aside.
LEMMA EarnedEnter ==
    ASSUME Shape, NEW t \in Threads, mode[t] \notin {"idle", "done"},
           NEW f \in Frame, Pushed(stack[t], stack'[t], f),
           NEW d, NEW x, EarnedIn(stack[t], d, x),
           f.kind = "waited" => f.saved.delivered = d
    PROVE  EarnedIn(stack'[t], d, x)
<1> DEFINE s == stack[t]
           r == stack'[t]
           n == Len(stack[t])
<1>1. n \in Nat /\ Len(s) = n /\ Pushed(s, r, f)
  BY TopFacts, Zenon
<1>2. Len(r) = n + 1 /\ r[n + 1] = f /\ \A i \in 1..n : r[i] = s[i]
  BY Zenon DEF Pushed
<1> HIDE DEF s, r, n
<1>3. /\ NoneWaited(r) <=> NoneWaited(s) /\ f.kind # "waited"
      /\ \A i \in 1..n : FirstWaited(r, i) <=> FirstWaited(s, i)
      /\ FirstWaited(r, n + 1) <=> NoneWaited(s) /\ f.kind = "waited"
  BY <1>1, FirstsPush, Zenon
<1>4. EarnedIn(s, d, x)
  BY Zenon DEF s
<1>5. ASSUME NEW i \in 1..Len(r), FirstWaited(r, i), r[i].saved.delivered PROVE x
  <2>1. CASE i = n + 1
    BY <2>1, <1>2, <1>3, <1>4, <1>5, Zenon DEF EarnedIn
  <2>2. CASE i # n + 1
    BY <2>2, <1>1, <1>2, <1>3, <1>4, <1>5 DEF EarnedIn
  <2> QED
    BY <2>1, <2>2, Zenon
<1> QED
  BY <1>3, <1>4, <1>5, Zenon DEF EarnedIn, r

\* Leaving a waited branch forgets the branch's delivery and brings the other one
\* back.
LEMMA EarnedBack ==
    ASSUME Shape, NEW t \in Threads, mode[t] \notin {"idle", "done"},
           Top(t).kind \notin {"root", "branch"}, Back(t),
           NEW d, NEW x, NEW e, EarnedIn(stack[t], d, x),
           Top(t).kind = "waited" => (e => Top(t).saved.delivered),
           Top(t).kind # "waited" => (e => d)
    PROVE  EarnedIn(stack'[t], e, x)
<1> DEFINE s == stack[t]
           r == stack'[t]
           n == Len(stack[t])
<1>1. /\ n \in Nat /\ n > 0 /\ Len(s) = n /\ Len(r) = n - 1 /\ Top(t) = s[n]
      /\ \A i \in 1..(n - 1) : Kept(s[i], r[i])
  BY BackFacts, TopFacts, Zenon
<1> HIDE DEF s, r, n
<1>2. /\ NoneWaited(r) /\ s[n].kind = "waited" => FirstWaited(s, n)
      /\ NoneWaited(r) /\ s[n].kind # "waited" => NoneWaited(s)
      /\ \A i \in 1..(n - 1) : FirstWaited(r, i) <=> FirstWaited(s, i)
  BY <1>1, FirstsPop, Zenon
<1>3. EarnedIn(s, d, x)
  BY Zenon DEF s
<1>4. ASSUME NoneWaited(r), e PROVE x
  <2>1. CASE s[n].kind = "waited"
    BY <1>3, <1>1, <1>2, <1>4, <2>1 DEF EarnedIn
  <2>2. CASE s[n].kind # "waited"
    BY <1>3, <1>1, <1>2, <1>4, <2>2, Zenon DEF EarnedIn
  <2> QED
    BY <2>1, <2>2, Zenon
<1>5. ASSUME NEW i \in 1..(n - 1), FirstWaited(r, i), r[i].saved.delivered PROVE x
  BY <1>1, <1>2, <1>3, <1>5 DEF EarnedIn, Kept
<1> QED
  BY <1>1, <1>4, <1>5, Zenon DEF EarnedIn, r

\* HOST is outside every included file: it ends the rc file the run started with.
LEMMA HostOutside ==
    ASSUME Shape, Nest, NoHostIncluded(prog), NEW t \in Threads, At(t, {"host"})
    PROVE  NoInclude(stack[t])
<1>1. /\ mode[t] = "run" /\ AtItem(prog, Top(t)) /\ Item(Top(t)).op = "host"
      /\ Top(t) = stack[t][Len(stack[t])] /\ Len(stack[t]) \in Nat /\ Len(stack[t]) > 0
      /\ FrameFine(prog, Top(t)) /\ prog \in Programs
  BY AtFacts, TopFacts
<1>2. Top(t).seq \in DOMAIN prog /\ Top(t).at \in 1..Len(prog[Top(t).seq])
  <2>1. /\ Top(t).seq \in DOMAIN prog /\ Top(t).at \in 1..(Len(prog[Top(t).seq]) + 1)
        /\ Top(t).at <= Len(prog[Top(t).seq]) /\ Len(prog[Top(t).seq]) \in Nat
    BY <1>1, ProgramFacts, Zenon DEF FrameFine, AtItem
  <2> QED
    BY <2>1
<1> QED
  BY <1>1, <1>2 DEF NestFine, NoInclude, NoHostIncluded, Item, Nest

\* Every step that marks the original as delivered has earned it.
LEMMA EarnedStep ==
    ASSUME Shape, Data, Parents, Nest, NoHostIncluded(prog), Earned, [Next]_vars
    PROVE  Earned'
<1> DEFINE d == delivered[0]
           x == FinalDone
           e == delivered'[0]
           y == FinalDone'
<1>1. /\ 0 \in Threads /\ history \in Observed /\ delivered \in [Threads -> BOOLEAN]
      /\ history.finals \in Nat /\ history.hostEnded \in BOOLEAN
  BY ThreadFacts, Zenon DEF Data, Observed
<1>2. EarnedIn(stack[0], d, x) /\ (EarnedIn(stack'[0], e, y) => Earned')
  BY Zenon DEF Earned
<1>3. history' = history => (x => y)
  BY Zenon DEF FinalDone
<1> HIDE DEF d, x, e, y
<1>4. ASSUME e => d, x => y, stack'[0] = stack[0] PROVE Earned'
  BY <1>2, <1>4, Zenon DEF EarnedIn
<1>5. ASSUME NEW t \in Threads, mode[t] \notin {"idle", "done"}, Redo(t), x => y,
             t # 0 => (e => d), t = 0 => (NoneWaited(stack[0]) /\ e => d \/ y)
      PROVE  Earned'
  <2>1. CASE t = 0
    <3>1. EarnedIn(stack[t], d, x) /\ (NoneWaited(stack[t]) /\ e => d \/ y)
      BY <2>1, <1>2, <1>5, Zenon
    <3>3. EarnedIn(stack'[t], e, y)
      BY <3>1, <1>5, EarnedRedo, Zenon
    <3> QED
      BY <2>1, <3>3, <1>2, Zenon
  <2>2. CASE t # 0
    BY <2>2, <1>1, <1>4, <1>5, RedoFacts, Zenon
  <2> QED
    BY <2>1, <2>2, Zenon
<1>6. ASSUME NEW t \in Threads, mode[t] \notin {"idle", "done"}, NEW f \in Frame,
             Pushed(stack[t], stack'[t], f), x => y, e => d, t # 0 => stack'[0] = stack[0],
             f.kind = "waited" => f.saved.delivered = delivered[t]
      PROVE  Earned'
  <2>1. CASE t = 0
    <3>3. EarnedIn(stack'[t], e, y)
      BY <2>1, <1>6, <1>2, EarnedEnter DEF EarnedIn, d
    <3> QED
      BY <2>1, <3>3, <1>2, Zenon
  <2>2. CASE t # 0
    BY <2>2, <1>4, <1>6, Zenon
  <2> QED
    BY <2>1, <2>2, Zenon
<1>7. ASSUME NEW t \in Threads, Running(t) PROVE Earned'
  <2>1. CASE \/ EndOfSequence(t) \/ LockFile(t) \/ Skip(t)
             \/ ActionFails(t) \/ ActionAborts(t) \/ SelectBlock(t)
    <3>2. Redo(t)
      BY <2>1, EndOfSequenceShape, LockFileShape, SkipShape,
         ActionFailsShape, ActionAbortsShape, SelectBlockShape, Zenon
    <3>3. e => d
      BY <2>1, Zenon DEF e, d, EndOfSequence, LockFile, Skip, ActionFails, ActionAborts,
         SelectBlock, Selected, At, context
    <3> QED
      BY <2>1, <3>2, <3>3, <1>3, <1>5, Zenon DEF EndOfSequence, LockFile, Skip, ActionFails,
         ActionAborts, SelectBlock, Selected, At, context
  <2>13. CASE DeliveryFailsLate(t)
    <3>1. mode[t] \notin {"idle", "done"} /\ delivered' = delivered
      BY <2>13, Zenon DEF DeliveryFailsLate, Selected, At, context
    <3>2. history'.finals = history.finals /\ history'.hostEnded = history.hostEnded
      BY <1>1, <2>13, Zenon DEF DeliveryFailsLate, Observed
    <3>3. (e => d) /\ (x => y)
      BY <3>1, <3>2, Zenon DEF e, d, x, y, FinalDone
    <3> QED
      BY <2>13, <3>1, <3>3, <1>5, DeliveryFailsLateShape, Zenon
  <2>2. CASE Host(t)
    <3>2. \/ delivered' = delivered /\ history' = history
          \/ /\ delivered' = [delivered EXCEPT ![t] = TRUE]
             /\ history' = [history EXCEPT !.hostEnded =
                    @ \/ (OnOriginal(t) /\ \A i \in DOMAIN stack[t] : stack[t][i].kind # "include")]
      BY <2>2, Zenon DEF Host
    <3>5. ASSUME t = 0, NoneWaited(stack[0]), e PROVE d \/ y
      <4>1. CASE delivered' = delivered
        BY <3>5, <4>1, Zenon DEF e, d
      <4>2. CASE history' = [history EXCEPT !.hostEnded =
                    @ \/ (OnOriginal(t) /\ \A i \in DOMAIN stack[t] : stack[t][i].kind # "include")]
        <5>2. DOMAIN stack[t] = 1..Len(stack[t])
          BY LenIs DEF Shape
        <5>4. history'.hostEnded
          BY <4>2, <3>5, <2>2, HostShape, <5>2, HostOutside, <1>1, Zenon DEF Observed, OnOriginal,
             NoneWaited, NoInclude, Host, At
        <5> QED
          BY <5>4, Zenon DEF FinalDone, y
      <4> QED
        BY <3>2, <4>1, <4>2, Zenon
    <3> QED
      BY <2>2, HostShape, <3>2, <1>1, <3>5, <1>5, Zenon DEF Host, At, x, y, FinalDone, Observed, e,
         d
  <2>3. CASE ActionSucceeds(t)
    <3> DEFINE final == Item(Top(t)).op # "edit" /\ ~Item(Top(t)).copy
    <3>1. /\ mode[t] \notin {"idle", "done"} /\ Redo(t)
          /\ delivered' = [delivered EXCEPT ![t] = @ \/ final]
      BY <2>3, ActionSucceedsShape, Zenon DEF ActionSucceeds, Selected, At
    <3>2. /\ history'.finals = history.finals + (IF final /\ OnOriginal(t) THEN 1 ELSE 0)
          /\ history'.hostEnded = history.hostEnded
      BY <2>3, <1>1, Zenon DEF ActionSucceeds, Observed
    <3> HIDE DEF final
    <3>5. ASSUME t = 0, NoneWaited(stack[0]), e PROVE d \/ y
      <4>1. CASE final
        <5>1. OnOriginal(t)
          BY <3>5, Zenon DEF OnOriginal, NoneWaited
        <5> QED
          BY <3>2, <4>1, <5>1, <1>1 DEF FinalDone, y
      <4>2. CASE ~final
        BY <3>1, <3>5, <4>2, <1>1, Zenon DEF e, d
      <4> QED
        BY <4>1, <4>2, Zenon
    <3> QED
      BY <3>1, <3>2, <1>1, <3>5, <1>5 DEF x, y, FinalDone, e, d
  <2>4. CASE RuntimeRc(t) \/ EnterBlock(t) \/ SelectWaitedCopy(t)
    <3>1. mode[t] \notin {"idle", "done"} /\ delivered' = delivered /\ history' = history
      BY <2>4, Zenon DEF RuntimeRc, EnterBlock, SelectWaitedCopy, Selected, At, context
    <3>2. Redo(t) \/ \E f \in Frame : Enters(t, f) /\ (f.kind = "waited" => f.saved.delivered = delivered[t])
      <4>1. CASE RuntimeRc(t) \/ EnterBlock(t)
        BY <4>1, RuntimeRcShape, EnterBlockShape, Zenon
      <4>2. CASE SelectWaitedCopy(t)
        BY <4>2, WaitedFrameIs, SelectWaitedCopyShape, Zenon DEF SelectWaitedCopy
      <4> QED
        BY <2>4, <4>1, <4>2, Zenon
    <3>4. ASSUME NEW f \in Frame, Enters(t, f), f.kind = "waited" => f.saved.delivered = delivered[t]
          PROVE  Earned'
      BY <3>1, <1>3, <3>4, <1>1, <1>6, EntersFacts, Zenon DEF e, d
    <3> QED
      BY <3>1, <3>2, <1>3, <3>4, <1>5, Zenon DEF e, d
  <2>5. CASE SelectUnwaitedCopy(t)
    <3>1. Selected(t, {"block"}) /\ history' = history /\ delivered' = delivered
          /\ started \in 0..MaxBranches
      BY <2>5, Zenon DEF SelectUnwaitedCopy, Data
    <3>2. mode[t] \notin {"idle", "done"} /\ started + 1 # 0
      BY <3>1, SelectedFacts, OrderedEvalAssumption
    <3>3. (e => d) /\ (x => y)
      BY <3>1, <1>3, Zenon DEF e, d
    <3>4. CASE Redo(t)
      BY <3>2, <3>3, <3>4, <1>5, Zenon
    <3>5. CASE /\ started + 1 \in Threads \ {t}
               /\ Forks(t, started + 1, ParentFrame(t), BranchFrame(t))
      BY <3>2, <3>3, <3>1, <3>5, ParentFrameIs, <1>1, <1>6, Zenon DEF Forks, Pushed
    <3> QED
      BY <2>5, <3>1, <3>4, <3>5, SelectUnwaitedCopyShape, Zenon
  <2>6. CASE ReturnBlock(t) \/ ReturnRc(t) \/ ReturnWaited(t) \/ ReturnParent(t) \/ Unwind(t)
    <3>1. /\ mode[t] \notin {"idle", "done"} /\ Top(t).kind \notin {"root", "branch"}
          /\ history' = history
          /\ delivered' = IF Top(t).kind = "waited"
                          THEN [delivered EXCEPT ![t] = Top(t).saved.delivered] ELSE delivered
      BY <2>6, Zenon DEF ReturnBlock, ReturnRc, ReturnWaited, ReturnParent, Unwind, Returning, LeaveCopy, context
    <3>3. CASE t # 0
      BY <3>1, <2>6, ReturnBlockShape, ReturnRcShape, ReturnWaitedShape,
         ReturnParentShape, UnwindShape, <3>3, <1>1, <1>3, BackFacts, <1>4, Zenon DEF e, d
    <3>4. CASE t = 0
      <4>3. EarnedIn(stack'[t], e, x)
        BY <3>1, <2>6, ReturnBlockShape, ReturnRcShape, ReturnWaitedShape,
           ReturnParentShape, UnwindShape, <3>4, <1>1, <1>2, EarnedBack, Zenon DEF e, d
      <4> QED
        BY <3>1, <3>4, <4>3, <1>3, <1>2, Zenon DEF EarnedIn
    <3> QED
      BY <3>3, <3>4, Zenon
  <2>7. CASE ThreadEnds(t)
    <3>2. /\ Len(stack[t]) = 1 /\ mode[t] \in {"return", "unwind"} /\ Len(stack'[t]) = 0
          /\ \A u \in Threads \ {t} : stack'[u] = stack[u]
      BY <2>7, ThreadEndsShape, Zenon
    <3>3. Top(t) = stack[t][1] /\ (e => d) /\ (x => y)
      BY <2>7, <3>2, <1>3, TopFacts, Zenon DEF e, d, ThreadEnds, context
    <3>5. CASE t # 0
      BY <3>2, <3>3, <3>5, <1>1, <1>4, Zenon
    <3>6. CASE t = 0
      BY <3>2, <3>3, <2>7, <3>6, <1>2 DEF EarnedIn, NoneWaited, ThreadEnds, context
    <3> QED
      BY <3>5, <3>6, Zenon
  <2> QED
    BY <1>7, <2>1, <2>2, <2>3, <2>4, <2>5, <2>6, <2>7, <2>13, Zenon DEF Running
<1>8. CASE UNCHANGED vars
  BY <1>8, <1>3, <1>4, Zenon DEF vars, context, e, d
<1> QED
  BY <1>7, <1>8, Zenon DEF Next, Terminated

\* If no included file has a HOST line, a run ends with status 0 only if a final
\* recipe delivered the original message or HOST ended the file the run started
\* with: what a copy branch delivers never counts (original_delivered, saved and
\* restored by execute_waited_copy_block; PublicationTracker::finish).
THEOREM StatusStaysEarned ==
    ASSUME \A p \in Programs : NoHostIncluded(p)
    PROVE  Spec => []StatusIsEarned
<1>1. Init => Earned
  <2> SUFFICES ASSUME Init PROVE Earned
    BY Zenon
  <2>1. 0 \in Threads /\ Len(stack[0]) = 1 /\ stack[0][1].kind = "root" /\ delivered[0] = FALSE
    BY InitStack, Zenon DEF Init
  <2> QED
    BY <2>1 DEF Earned, EarnedIn, FirstWaited
<1>2. WellFormed /\ Nest /\ Earned /\ [Next]_vars => Earned'
  <2> SUFFICES ASSUME WellFormed, Nest, Earned, [Next]_vars PROVE Earned'
    BY Zenon
  <2>1. NoHostIncluded(prog)
    BY Zenon DEF WellFormed, Shape
  <2> QED
    BY <2>1, EarnedStep, Zenon DEF WellFormed
<1>3. WellFormed /\ Earned => StatusIsEarned
  <2> SUFFICES ASSUME WellFormed, Earned, Status = 0
               PROVE  history.finals > 0 \/ history.hostEnded
    BY Zenon DEF StatusIsEarned
  <2>1. mode[0] = "done" /\ delivered[0]
    BY DEF Status
  <2>2. 0 \in Threads /\ Len(stack[0]) = 0
    BY <2>1, ThreadFacts, Zenon DEF WellFormed, Shape, ModeFine
  <2>3. NoneWaited(stack[0])
    BY <2>2 DEF NoneWaited
  <2> QED
    BY <2>1, <2>3, Zenon DEF Earned, EarnedIn, FinalDone
<1> QED
  BY <1>1, <1>2, <1>3, WellFormedInvariance, NestInvariance, PTL DEF Spec

-----------------------------------------------------------------------------
\* A thread that has delivered its message only leaves.

\* How the ends of a recipe and of a statement set the mode and the result.
LEMMA DoneControl ==
    ASSUME Shape, NEW t \in Threads, NEW rest, NEW frame, NEW matched, NEW action, NEW handled,
           NEW control, RecipeDone(t, rest, frame, matched, action, handled, control)
    PROVE  /\ control = "continue" => mode'[t] = "run"
           /\ control # "continue" => mode'[t] = "return" /\ ret'[t].control = control
           /\ \A u \in Threads \ {t} : ret'[u] = ret[u]
<1>2. CASE control = "continue"
  BY <1>2, Zenon DEF RecipeDone, SetMode, Shape
<1>3. CASE control # "continue"
  BY <1>3 DEF Shape, RecipeDone, SetMode
<1> QED
  BY <1>2, <1>3, Zenon

\* What a statement that ends its sequence sets.
LEMMA LeaveControl ==
    ASSUME Shape, NEW t \in Threads, NEW rest, NEW frame, NEW control, Leave(t, rest, frame, control)
    PROVE  /\ mode'[t] = "return" /\ ret'[t].control = control
           /\ \A u \in Threads \ {t} : ret'[u] = ret[u]
  BY Zenon DEF Shape, Leave, SetMode

\* What a statement that is done sets.
LEMMA AdvanceControl ==
    ASSUME Shape, NEW t \in Threads, NEW rest, NEW frame, Advance(t, rest, frame)
    PROVE  mode'[t] = "run" /\ ret' = ret
  BY Zenon DEF Shape, Advance, SetMode

\* What an error sets.
LEMMA RaiseControl ==
    ASSUME Shape, NEW t \in Threads, NEW error, Raise(t, error)
    PROVE  mode'[t] = "unwind" /\ ret' = ret
  BY Zenon DEF Shape, Raise, SetMode

\* What a thread at work sets: a copy block never completes a sequence by itself.
LEMMA WorkControl ==
    ASSUME Shape, Data, Parents, NEW t \in Threads, mode[t] \in {"run", "block", "copy"}, Running(t)
    PROVE  /\ mode'[t] = "return" => ret'[t].control # "complete"
           /\ \A u \in Threads \ {t} : ret'[u] = ret[u]
<1>1. CASE EndOfSequence(t)
  BY <1>1, LeaveControl DEF EndOfSequence
<1>2. CASE Host(t)
  BY <1>2, LeaveControl, AdvanceControl, RaiseControl DEF Host
<1>3. CASE RuntimeRc(t)
  <2>1. \/ UNCHANGED <<mode, ret>>
        \/ Leave(t, Rest(t), Top(t), "endrc")
        \/ Advance(t, Rest(t), Top(t))
        \/ Raise(t, "evaluation")
    BY <1>3, Zenon DEF RuntimeRc
  <2> QED
    BY <2>1, LeaveControl, AdvanceControl, RaiseControl
<1>4. CASE LockFile(t)
  BY <1>4, AdvanceControl, RaiseControl, Zenon DEF LockFile
<1>5. CASE Skip(t)
  BY <1>5, DoneControl, Zenon DEF Skip
<1>6. CASE ActionSucceeds(t)
  <2>1. PICK c \in {"stop", "continue"} : ActionDone(t, "succeeded", c)
    BY <1>6, Zenon DEF ActionSucceeds
  <2> QED
    BY <2>1 DEF ActionDone, RecipeDone, SetMode, Shape
<1>7. CASE ActionFails(t)
  BY <1>7, DoneControl, Zenon DEF ActionFails, ActionDone
<1>8. CASE ActionAborts(t) \/ DeliveryFailsLate(t)
  BY <1>8, RaiseControl, Zenon DEF ActionAborts, DeliveryFailsLate
<1>9. CASE SelectBlock(t)
  BY <1>9, Zenon DEF Shape, SelectBlock, SetMode
<1>10. CASE SelectWaitedCopy(t)
  BY <1>10, Zenon DEF Shape, SelectWaitedCopy, SetMode
<1>11. CASE SelectUnwaitedCopy(t)
  <2>2. ASSUME mode' = [mode EXCEPT ![started + 1] = "copy"] PROVE mode'[t] # "return"
    BY <2>2, Zenon DEF Shape
  <2> QED
    BY <1>11, <2>2, RaiseControl, Zenon DEF SelectUnwaitedCopy
<1>12. CASE EnterBlock(t)
  <2>2. ASSUME mode' = [mode EXCEPT ![t] = "run"] PROVE mode'[t] # "return"
    BY <2>2, Zenon DEF Shape
  <2> QED
    BY <1>12, <2>2, DoneControl, Zenon DEF EnterBlock, SetMode
<1>13. ~(\/ ReturnBlock(t) \/ ReturnRc(t) \/ ReturnWaited(t) \/ ReturnParent(t)
         \/ Unwind(t) \/ ThreadEnds(t))
  BY Zenon DEF ReturnBlock, ReturnRc, ReturnWaited, ReturnParent, Unwind, ThreadEnds, Returning
<1> QED
  BY <1>1, <1>2, <1>3, <1>4, <1>5, <1>6, <1>7, <1>8, <1>9, <1>10, <1>11, <1>12, <1>13, Zenon DEF Running

\* A thread that leaves affects no other thread's result, and an error ends only
\* with the thread.
LEMMA LeavingOthers ==
    ASSUME Shape, Data, Parents, NEW t \in Threads, mode[t] \in {"return", "unwind"}, Running(t)
    PROVE  /\ \A u \in Threads \ {t} : ret'[u] = ret[u]
           /\ mode[t] = "unwind" => mode'[t] \in {"unwind", "done"}
<1>1. CASE ReturnBlock(t)
  BY <1>1, DoneControl, Zenon DEF ReturnBlock, Returning
<1>2. CASE ReturnRc(t)
  BY <1>2, LeaveControl, AdvanceControl, Zenon DEF ReturnRc, Returning
<1>3. CASE ReturnWaited(t)
  BY <1>3, DoneControl, Zenon DEF ReturnWaited, Returning
<1>4. CASE ReturnParent(t)
  BY <1>4, DoneControl, Zenon DEF ReturnParent, Returning
<1>5. CASE Unwind(t)
  BY <1>5, Zenon DEF Unwind
<1>6. CASE ThreadEnds(t)
  BY <1>6, Zenon DEF ThreadEnds, SetMode, Shape
<1>7. mode[t] \notin {"run", "block", "copy"}
  BY Zenon
<1> QED
  BY <1>1, <1>2, <1>3, <1>4, <1>5, <1>6, <1>7, Zenon DEF Running, EndOfSequence, Host, RuntimeRc, LockFile, Skip,
     ActionSucceeds, ActionFails, ActionAborts, DeliveryFailsLate, SelectBlock, SelectWaitedCopy,
     SelectUnwaitedCopy, EnterBlock, Selected, At

\* Activations that keep their place keep what they are.
LEMMA KeptKinds ==
    ASSUME NEW s, NEW r, NEW n \in Nat, Len(s) \in Nat, n <= Len(s), Len(r) = n,
           \A i \in 1..n : Kept(s[i], r[i])
    PROVE  /\ AsideUndelivered(s) => AsideUndelivered(r)
           /\ NoInclude(s) => NoInclude(r)
           /\ NoneWaited(s) => NoneWaited(r)
BY DEF AsideUndelivered, NoInclude, NoneWaited, Kept

\* The parts of the invariant that another thread's step leaves alone.
LEMMA StopsOthers ==
    ASSUME Shape, Stops, prog' = prog, NEW t \in Threads, Stopping(t)',
           \A u \in Threads \ {t} : /\ stack'[u] = stack[u] /\ mode'[u] = mode[u]
                                    /\ ret'[u] = ret[u] /\ delivered'[u] = delivered[u]
    PROVE  \A u \in Threads : Stopping(u)'
<1> SUFFICES ASSUME NEW u \in Threads, u # t PROVE Stopping(u)'
  BY Zenon
<1> QED
  BY Zenon DEF Stopping, Stops

\* A thread at work has not delivered its message.
LEMMA WorkUndelivered ==
    ASSUME Data, Stops, NEW t \in Threads, mode[t] \in {"idle", "run", "block", "copy"}
    PROVE  /\ delivered[t] = FALSE
           /\ t = 0 => history.finals = 0
<1>3. ~delivered[t]
  BY Zenon DEF Stopping, Leaving, Stops
<1> QED
  BY <1>3 DEF Data, Observed, Stops

\* Work that delivers nothing.
LEMMA StopsWork ==
    ASSUME Shape, Data, Stops, prog' = prog, NEW t \in Threads,
           mode[t] \in {"run", "block", "copy"}, delivered' = delivered,
           history'.finals = history.finals, history'.afterStop = history.afterStop,
           mode'[t] = "return" => ret'[t].control # "complete",
           \A u \in Threads \ {t} : /\ stack'[u] = stack[u] /\ mode'[u] = mode[u]
                                    /\ ret'[u] = ret[u],
           AsideUndelivered(stack'[t])
    PROVE  Stops'
BY WorkUndelivered, StopsOthers, ThreadFacts, Zenon DEF Stops, Stopping, Data, Observed

\* Nobody includes a file from where an unwaited copy block is.
LEMMA UnwaitedOutside ==
    ASSUME Shape, Nest, StopReaches(prog), NEW t \in Threads, mode[t] \notin {"idle", "done"},
           Top(t).seq \in WithUnwaited(prog)
    PROVE  /\ NoInclude(stack[t]) /\ Top(t).kind # "block"
           /\ Top(t).kind # "include"
<1>1. /\ Len(stack[t]) \in Nat /\ Len(stack[t]) > 0 /\ Top(t) = stack[t][Len(stack[t])]
  BY TopFacts, Zenon
<1> QED
  BY <1>1 DEF NestFine, NoInclude, Nest, StopReaches

\* Activations are given up by a thread that goes on leaving.
LEMMA StopsLeave ==
    ASSUME Shape, Data, Stops, prog' = prog, NEW t \in Threads, mode[t] \notin {"idle", "done"},
           Top(t).kind \notin {"root", "branch"}, Back(t), history' = history,
           \A u \in Threads \ {t} : ret'[u] = ret[u] /\ delivered'[u] = delivered[u],
           Top(t).kind # "waited" => delivered'[t] = delivered[t],
           delivered'[t] => Leaving(stack'[t], mode'[t], ret'[t].control),
           mode'[t] = "return" /\ ret'[t].control = "complete" =>
               stack'[t][Len(stack'[t])].seq \in WithUnwaited(prog)
    PROVE  Stops'
<1> DEFINE s == stack[t]
           r == stack'[t]
           n == Len(stack[t]) - 1
<1>1. /\ Len(stack[t]) \in Nat /\ Len(stack[t]) > 1 /\ Top(t) = stack[t][Len(stack[t])]
      /\ Len(stack'[t]) = Len(stack[t]) - 1
      /\ \A i \in 1..(Len(stack[t]) - 1) : Kept(stack[t][i], stack'[t][i])
      /\ \A u \in Threads \ {t} : stack'[u] = stack[u] /\ mode'[u] = mode[u]
  BY BackFacts, TopFacts, Zenon
<1>3. n \in Nat /\ Len(s) \in Nat /\ n <= Len(s) /\ Len(r) = n /\ \A i \in 1..n : Kept(s[i], r[i])
  BY <1>1
<1> HIDE DEF s, r, n
<1>8. ASSUME history.finals > 0 PROVE delivered'[0] /\ NoneWaited(stack'[0])
  <2>1. delivered[0] /\ NoneWaited(stack[0]) /\ 0 \in Threads
    BY <1>8, ThreadFacts, Zenon DEF Stops
  <2>2. CASE t = 0
    <3>1. Top(t).kind # "waited"
      BY <1>1, <2>1, <2>2 DEF NoneWaited
    <3> QED
      BY <1>3, KeptKinds, <2>1, <2>2, <3>1, Zenon DEF s, r, Stops, Stopping
  <2>3. CASE t # 0
    BY <1>1, <2>1, <2>3, Zenon
  <2> QED
    BY <2>2, <2>3, Zenon
<1> QED
  BY <1>1, <1>3, KeptKinds, StopsOthers, <1>8, Zenon DEF Stops, Stopping, s, r

\* Leaving a copy branch gives back an undelivered message.
LEMMA LeaveCopyUndelivers ==
    ASSUME Shape, Data, Stops, NEW t \in Threads, mode[t] \notin {"idle", "done"},
           Top(t).kind = "waited", LeaveCopy(t)
    PROVE  /\ delivered'[t] = FALSE
           /\ \A u \in Threads \ {t} : delivered'[u] = delivered[u]
<1>2. Top(t).saved.delivered = FALSE
  BY TopFacts DEF AsideUndelivered, Stops, Stopping
<1> QED
  BY <1>2, Zenon DEF Data, LeaveCopy

\* A thread returns to, or unwinds to, the caller of its top activation.
LEMMA StopsBack ==
    ASSUME Shape, Data, Parents, Nest, StopReaches(prog), Stops, NEW t \in Threads,
           ReturnBlock(t) \/ ReturnRc(t) \/ ReturnWaited(t) \/ ReturnParent(t) \/ Unwind(t)
    PROVE  Stops'
<1>1. /\ mode[t] \in {"return", "unwind"} /\ Top(t).kind \notin {"root", "branch"}
      /\ history' = history /\ prog' = prog /\ Running(t)
      /\ Top(t).kind # "waited" => delivered' = delivered
  BY Zenon DEF ReturnBlock, ReturnRc, ReturnWaited, ReturnParent, Unwind, Returning, LeaveCopy, context, Running
<1>2. Back(t)
  BY ReturnBlockShape, ReturnRcShape, ReturnWaitedShape, ReturnParentShape, UnwindShape, Zenon
<1>3. \A u \in Threads \ {t} : ret'[u] = ret[u]
  BY <1>1, LeavingOthers, Zenon
<1>4. \A u \in Threads \ {t} : delivered'[u] = delivered[u]
  <2>1. CASE Top(t).kind = "waited"
    BY <1>1, <2>1, LeaveCopyUndelivers, Zenon DEF ReturnBlock, ReturnRc, ReturnWaited,
       ReturnParent, Unwind, Returning
  <2> QED
    BY <1>1, <2>1, Zenon
<1>5. /\ Len(stack[t]) \in Nat /\ Len(stack[t]) > 1 /\ Top(t) = stack[t][Len(stack[t])]
      /\ Len(stack'[t]) = Len(stack[t]) - 1
      /\ \A i \in 1..(Len(stack[t]) - 1) : Kept(stack[t][i], stack'[t][i])
  BY <1>1, <1>2, BackFacts, TopFacts, Zenon
<1>6. NoInclude(stack[t]) => NoInclude(stack'[t])
  BY <1>5 DEF NoInclude, Kept
<1>7. /\ delivered[t] => Leaving(stack[t], mode[t], ret[t].control)
      /\ mode[t] = "return" /\ ret[t].control = "complete" => Top(t).seq \in WithUnwaited(prog)
  BY <1>5, Zenon DEF Stops, Stopping
<1>9. CASE ReturnBlock(t)
  <2> DEFINE c == IF ret[t].control = "complete" THEN "continue" ELSE ret[t].control
  <2>1. /\ mode[t] = "return" /\ Top(t).kind = "block" /\ delivered' = delivered
        /\ RecipeDone(t, CallerRest(t), Caller(t), TRUE, ret[t].action, Top(t).handled, c)
    BY <1>9, Zenon DEF ReturnBlock, Returning, context
  <2>2. c # "complete" /\ c = ret[t].control
    BY <1>1, <1>7, UnwaitedOutside, <2>1, Zenon
  <2> HIDE DEF c
  <2>6. c = "continue" => mode'[t] = "run"
    BY <2>1, DoneControl, Zenon
  <2>4. ASSUME delivered'[t] PROVE Leaving(stack'[t], mode'[t], ret'[t].control)
    BY <1>6, <2>1, <2>2, <1>7, <2>4 DEF Leaving, RecipeDone, SetMode, Shape
  <2>5. mode'[t] = "return" => ret'[t].control # "complete"
    BY <2>2, <2>1, <2>6 DEF RecipeDone, SetMode, Shape
  <2> QED
    BY <1>1, <1>2, <1>3, <1>4, <2>1, <2>4, <2>5, StopsLeave, Zenon
<1>10. CASE ReturnRc(t)
  <2>1. /\ mode[t] = "return" /\ Top(t).kind \in {"include", "switch"} /\ delivered' = delivered
    BY <1>10, Zenon DEF ReturnRc, Returning, context
  <2>2. \/ ret[t].control = "stop" /\ Leave(t, CallerRest(t), Caller(t), "stop")
        \/ /\ ret[t].control # "stop" /\ Top(t).kind = "switch"
           /\ Leave(t, CallerRest(t), Caller(t), "endrc")
        \/ /\ ret[t].control # "stop" /\ Top(t).kind = "include"
           /\ Advance(t, CallerRest(t), Caller(t))
    BY <1>10, <2>1, Zenon DEF ReturnRc
  <2>4. ASSUME delivered'[t] PROVE Leaving(stack'[t], mode'[t], ret'[t].control)
    <3>2. CASE ret[t].control = "stop"
      BY <2>2, <3>2, LeaveControl, Zenon DEF Leaving
    <3>3. CASE ret[t].control # "stop"
      BY <1>6, <2>2, <1>5, <1>7, <1>1, UnwaitedOutside, <2>1, <2>4, <3>3, LeaveControl DEF
         Leaving, NoInclude
    <3> QED
      BY <3>2, <3>3, Zenon
  <2> QED
    BY <1>1, <1>2, <1>3, <1>4, <2>1, <2>4, <2>2, LeaveControl, AdvanceControl, StopsLeave
<1>11. CASE ReturnWaited(t)
  BY <1>1, <1>2, <1>3, <1>4, <1>11, LeaveCopyUndelivers, DoneControl, StopsLeave, Zenon DEF
     ReturnWaited, Returning
<1>12. CASE ReturnParent(t)
  <2>1. /\ mode[t] = "return" /\ Top(t).kind = "parent" /\ delivered' = delivered
        /\ \/ mode' = [mode EXCEPT ![t] = "unwind"]
           \/ RecipeDone(t, CallerRest(t), Caller(t), TRUE, ret[t].action, Top(t).handled, "complete")
    BY <1>12, Zenon DEF ReturnParent, Returning, SetMode
  <2>2. mode'[t] = "unwind" \/ (mode'[t] = "return" /\ ret'[t].control = "complete")
    <3>1. ASSUME mode' = [mode EXCEPT ![t] = "unwind"] PROVE mode'[t] = "unwind"
      BY <3>1, Zenon DEF Shape
    <3>2. ASSUME RecipeDone(t, CallerRest(t), Caller(t), TRUE, ret[t].action, Top(t).handled, "complete")
          PROVE  mode'[t] = "return" /\ ret'[t].control = "complete"
      BY <3>2 DEF RecipeDone, SetMode, Shape
    <3> QED
      BY <2>1, <3>1, <3>2, Zenon
  <2>4. stack'[t][Len(stack'[t])].seq \in WithUnwaited(prog)
    <3> DEFINE k == Len(stack[t]) - 1
    <3>1. k \in 1..(Len(stack[t]) - 1) /\ stack[t][k + 1] = Top(t) /\ Len(stack'[t]) = k
      BY <1>5
    <3> HIDE DEF k
    <3> QED
      BY <3>1, <1>5, <2>1, Zenon DEF Kept, NestFine, Nest
  <2> QED
    BY <1>1, <1>2, <1>3, <1>4, <2>1, <2>2, <2>4, StopsLeave, Zenon DEF Leaving
<1>13. CASE Unwind(t)
  BY <1>1, <1>2, <1>3, <1>4, <1>13, StopsLeave, Zenon DEF Unwind, Leaving
<1> QED
  BY <1>9, <1>10, <1>11, <1>12, <1>13, Zenon

\* A thread delivers its message, or ends the root file, and leaves from now on.
LEMMA StopsDeliver ==
    ASSUME Shape, Data, Stops, prog' = prog, NEW t \in Threads, mode[t] = "run", Redo(t),
           \A u \in Threads \ {t} : ret'[u] = ret[u] /\ delivered'[u] = delivered[u],
           mode'[t] = "return", ret'[t].control # "complete",
           ret'[t].control = "stop" \/ (ret'[t].control = "endrc" /\ NoInclude(stack[t])),
           history'.afterStop = FALSE, history'.finals <= 1,
           history'.finals # history.finals => t = 0 /\ delivered'[0] /\ NoneWaited(stack[0])
    PROVE  Stops'
<1> DEFINE s == stack[t]
           r == stack'[t]
           n == Len(stack[t])
<1>1. n \in Nat /\ Len(s) \in Nat /\ n <= Len(s) /\ Len(r) = n /\ \A i \in 1..n : Kept(s[i], r[i])
  BY RedoFacts, TopFacts
<1> HIDE DEF s, r, n
<1>7. ASSUME history'.finals > 0 PROVE delivered'[0] /\ NoneWaited(stack'[0])
  <2>1. CASE history'.finals # history.finals
    BY <2>1, <1>1, KeptKinds, Zenon DEF s, r, Stops, Stopping
  <2>2. CASE history'.finals = history.finals
    <3>2. t # 0
      BY <1>7, <2>2, ThreadFacts, WorkUndelivered, Zenon DEF Stops
    <3> QED
      BY <1>7, <2>2, ThreadFacts, <3>2, RedoFacts, Zenon DEF Stops
  <2> QED
    BY <2>1, <2>2, Zenon
<1> QED
  BY <1>1, KeptKinds, RedoFacts, StopsOthers, <1>7 DEF Stops, Stopping, Leaving, s, r

\* An unwaited copy branch is started by a thread at work.
LEMMA StopsFork ==
    ASSUME Shape, Data, Stops, prog' = prog, NEW t \in Threads, mode[t] = "run",
           NEW u \in Threads \ {t}, u # 0, mode[u] = "idle",
           NEW f \in Frame, f.kind = "parent", NEW b \in Frame, b.kind = "branch",
           Forks(t, u, f, b), delivered' = delivered, history' = history,
           \A v \in Threads \ {t} : ret'[v] = ret[v]
    PROVE  Stops'
<1>1. mode \in [Threads -> Modes] /\ Len(stack[t]) \in Nat /\ 0 \in Threads
  BY TopFacts, ThreadFacts, Zenon DEF Shape
<1>2. /\ Pushed(stack[t], stack'[t], f) /\ Len(stack'[u]) = 1 /\ stack'[u][1] = b
      /\ mode'[u] = "copy" /\ mode'[t] = "run"
      /\ \A v \in Threads \ {t, u} : stack'[v] = stack[v] /\ mode'[v] = mode[v]
  BY <1>1, Zenon DEF Forks, Pushed
<1>3. delivered[t] = FALSE /\ delivered[u] = FALSE /\ (t = 0 => history.finals = 0)
  BY WorkUndelivered, Zenon
<1>4. AsideUndelivered(stack[t])
  BY Zenon DEF Stops, Stopping
<1>5. AsideUndelivered(stack'[t])
  BY <1>1, <1>2, <1>4 DEF AsideUndelivered, Pushed
<1>8. Stopping(u)'
  BY <1>2, <1>3 DEF Stopping, AsideUndelivered
<1>9. ASSUME NEW v \in Threads \ {t, u} PROVE Stopping(v)'
  BY <1>2, <1>9, Zenon DEF Stopping, Stops
<1>11. history.finals > 0 => delivered'[0] /\ NoneWaited(stack'[0])
  <2>1. CASE t = 0
    BY <1>3, <2>1
  <2>2. CASE t # 0
    BY <1>1, <1>2, <2>2, Zenon DEF Stops
  <2> QED
    BY <2>1, <2>2, Zenon
<1> QED
  BY <1>2, <1>3, <1>5, <1>8, <1>9, <1>11, Zenon DEF Stops, Stopping

\* Every step of a thread that has delivered its message leaves an activation.
LEMMA StopsStep ==
    ASSUME Shape, Data, Parents, Nest, StopReaches(prog), Stops, [Next]_vars
    PROVE  Stops'
<1>1. /\ 0 \in Threads /\ history \in Observed /\ delivered \in [Threads -> BOOLEAN]
      /\ history.finals \in Nat /\ mode \in [Threads -> Modes] /\ ret \in [Threads -> Returns]
  BY ThreadFacts, Zenon DEF Data, Observed, Shape
<1>2. ASSUME NEW t \in Threads, Redo(t), Running(t), mode[t] \in {"run", "block", "copy"},
             delivered' = delivered, history'.finals = history.finals,
             history'.afterStop = history.afterStop
      PROVE  Stops'
  <2> DEFINE s == stack[t]
             r == stack'[t]
             n == Len(stack[t])
  <2>1. n \in Nat /\ Len(s) \in Nat /\ n <= Len(s) /\ Len(r) = n /\ \A i \in 1..n : Kept(s[i], r[i])
    BY <1>2, RedoFacts, TopFacts
  <2> HIDE DEF s, r, n
  <2>4. /\ mode'[t] = "return" => ret'[t].control # "complete"
        /\ \A u \in Threads \ {t} : ret'[u] = ret[u]
        /\ \A u \in Threads \ {t} : stack'[u] = stack[u] /\ mode'[u] = mode[u]
        /\ prog' = prog
    BY <1>2, WorkControl, RedoFacts, StepForms, Zenon
  <2> QED
    BY <1>2, <2>1, KeptKinds, <2>4, StopsWork, Zenon DEF Stops, Stopping, s, r
<1>3. ASSUME NEW t \in Threads, NEW f \in Frame, mode[t] \in {"run", "block", "copy"},
             Pushed(stack[t], stack'[t], f), f.kind = "waited" => f.saved.delivered = delivered[t]
      PROVE  AsideUndelivered(stack'[t])
  <2> DEFINE s == stack[t]
             r == stack'[t]
  <2>1. AsideUndelivered(s) /\ delivered[t] = FALSE
    BY <1>3, WorkUndelivered, Zenon DEF Stops, Stopping
  <2>2. Len(s) \in Nat /\ Pushed(s, r, f)
    BY <1>3, LenIs, Zenon DEF Shape
  <2>3. f.kind = "waited" => f.saved.delivered = FALSE
    BY <1>3, <2>1, Zenon
  <2> HIDE DEF s, r
  <2>4. \A i \in 1..Len(r) : i \in 1..Len(s) \/ i = Len(s) + 1
    BY <2>2 DEF Pushed
  <2> QED
    BY <2>1, <2>2, <2>3, <2>4, Zenon DEF AsideUndelivered, Pushed, r
<1>4. ASSUME NEW t \in Threads, Running(t) PROVE Stops'
  <2>1. CASE \/ EndOfSequence(t) \/ LockFile(t) \/ Skip(t)
             \/ ActionFails(t) \/ ActionAborts(t) \/ SelectBlock(t)
    <3>2. Redo(t)
      BY <2>1, EndOfSequenceShape, LockFileShape, SkipShape,
         ActionFailsShape, ActionAbortsShape, SelectBlockShape, Zenon
    <3> QED
      BY <1>2, <1>4, <2>1, <3>2, Zenon DEF EndOfSequence, LockFile, Skip, ActionFails,
         ActionAborts, SelectBlock, Selected, At, context
  <2>13. CASE DeliveryFailsLate(t)
    <3>1. mode[t] = "run" /\ delivered' = delivered
      BY <2>13, Zenon DEF DeliveryFailsLate, Selected, At, context
    <3>2. /\ history'.finals = history.finals
          /\ history'.afterStop = (history.afterStop \/ delivered[t])
      BY <1>1, <2>13, Zenon DEF DeliveryFailsLate, Observed
    <3>3. history'.afterStop = history.afterStop
      BY <3>1, <3>2, WorkUndelivered, Zenon DEF Stops
    <3> QED
      BY <1>2, <1>4, <2>13, <3>1, <3>2, <3>3, DeliveryFailsLateShape, Zenon
  <2>2. CASE Host(t)
    <3>1. mode[t] = "run" /\ Redo(t) /\ At(t, {"host"}) /\ prog' = prog
      BY <2>2, HostShape, Zenon DEF Host, At
    <3>2. CASE delivered' = delivered /\ history' = history
      BY <1>2, <1>4, <3>1, <3>2, Zenon
    <3>3. CASE /\ Leave(t, Rest(t), Top(t), "endrc")
               /\ delivered' = [delivered EXCEPT ![t] = TRUE]
               /\ history' = [history EXCEPT !.hostEnded =
                    @ \/ (OnOriginal(t) /\ \A i \in DOMAIN stack[t] : stack[t][i].kind # "include")]
      <4>1. /\ mode'[t] = "return" /\ ret'[t].control = "endrc"
            /\ \A u \in Threads \ {t} : ret'[u] = ret[u]
        BY <3>3, LeaveControl, Zenon
      <4> QED
        BY <3>1, <4>1, <1>1, <3>3, HostOutside, StopsDeliver, Zenon DEF StopReaches, Observed,
           Stops
    <3> QED
      BY <2>2, <3>2, <3>3, Zenon DEF Host
  <2>3. CASE ActionSucceeds(t)
    <3> DEFINE final == Item(Top(t)).op # "edit" /\ ~Item(Top(t)).copy
    <3>1. /\ mode[t] = "run" /\ Redo(t) /\ prog' = prog
          /\ delivered' = [delivered EXCEPT ![t] = @ \/ final]
      BY <2>3, ActionSucceedsShape, Zenon DEF ActionSucceeds, Selected, At
    <3>2. /\ history'.finals = history.finals + (IF final /\ OnOriginal(t) THEN 1 ELSE 0)
          /\ history'.afterStop = (history.afterStop \/ delivered[t])
      BY <2>3, <1>1, Zenon DEF ActionSucceeds, Observed
    <3>3. ActionDone(t, "succeeded", IF final THEN "stop" ELSE "continue")
      BY <2>3, Zenon DEF ActionSucceeds
    <3> HIDE DEF final
    <3>5. delivered[t] = FALSE /\ (t = 0 => history.finals = 0)
      BY <3>1, WorkUndelivered, Zenon
    <3>6. history'.afterStop = FALSE
      BY <3>2, <3>5, Zenon DEF Stops
    <3>7. CASE final
      <4>2. /\ mode'[t] = "return" /\ ret'[t].control = "stop"
            /\ \A u \in Threads \ {t} : ret'[u] = ret[u]
        BY <3>3, <3>7 DEF ActionDone, RecipeDone, SetMode, Shape
      <4>4. delivered'[t]
        BY <1>1, <3>1, <3>7, Zenon
      <4>5. CASE OnOriginal(t)
        <5>2. history'.finals <= 1 /\ delivered'[0]
          BY <4>4, <3>2, <3>5, <3>7, <4>5 DEF OnOriginal, NoneWaited
        <5> QED
          BY <3>1, <3>6, <4>2, <1>1, <3>2, <3>5, <3>7, <4>5, <5>2, StopsDeliver, Zenon DEF
             OnOriginal, NoneWaited
      <4>6. CASE ~OnOriginal(t)
        <5>1. history'.finals = history.finals /\ history.finals <= 1
          BY <1>1, <3>2, <4>6 DEF Stops
        <5> QED
          BY <3>1, <3>6, <4>2, <1>1, <5>1, StopsDeliver, Zenon
      <4> QED
        BY <4>5, <4>6, Zenon
    <3>8. CASE ~final
      <4>1. delivered' = delivered
        BY <1>1, <3>1, <3>5, <3>8, Zenon
      <4>5. /\ \A u \in Threads \ {t} : stack'[u] = stack[u] /\ mode'[u] = mode[u]
            /\ Len(stack'[t]) = Len(stack[t]) /\ Len(stack[t]) \in Nat
            /\ \A i \in 1..Len(stack[t]) : Kept(stack[t][i], stack'[t][i])
        BY <3>1, RedoFacts, TopFacts, Zenon
      <4>6. AsideUndelivered(stack'[t])
        BY <4>5 DEF Stops, Stopping, AsideUndelivered, Kept
      <4>8. \A u \in Threads : Stopping(u)'
        BY <3>1, <4>1, <3>3, <3>8, DoneControl, <4>5, <3>5, <4>6, StopsOthers, Zenon DEF
           ActionDone, Stopping
      <4> QED
        BY <3>6, <1>1, <3>2, <3>8, <4>8, <3>5, <4>1, <4>5 DEF Stops
    <3> QED
      BY <3>7, <3>8, Zenon
  <2>4. CASE RuntimeRc(t) \/ EnterBlock(t) \/ SelectWaitedCopy(t)
    <3>1. /\ mode[t] \in {"run", "block", "copy"} /\ delivered' = delivered /\ history' = history
          /\ prog' = prog
      BY <2>4, Zenon DEF RuntimeRc, EnterBlock, SelectWaitedCopy, Selected, At, context
    <3>2. Redo(t) \/ \E f \in Frame : Enters(t, f) /\ (f.kind = "waited" => f.saved.delivered = delivered[t])
      <4>1. CASE RuntimeRc(t) \/ EnterBlock(t)
        BY <4>1, RuntimeRcShape, EnterBlockShape, Zenon
      <4>2. CASE SelectWaitedCopy(t)
        BY <4>2, WaitedFrameIs, SelectWaitedCopyShape, Zenon DEF SelectWaitedCopy
      <4> QED
        BY <2>4, <4>1, <4>2, Zenon
    <3>3. ASSUME NEW f \in Frame, Enters(t, f), f.kind = "waited" => f.saved.delivered = delivered[t]
          PROVE  Stops'
      BY <3>1, <3>3, EntersFacts, <1>3, <1>4, WorkControl, StopsWork, Zenon
    <3> QED
      BY <1>2, <1>4, <3>1, <3>2, <3>3, Zenon
  <2>5. CASE SelectUnwaitedCopy(t)
    <3>1. /\ Selected(t, {"block"}) /\ mode[t] = "run" /\ history' = history /\ delivered' = delivered
          /\ started \in 0..MaxBranches /\ prog' = prog
      BY <2>5, Zenon DEF SelectUnwaitedCopy, Data, Selected, At
    <3>2. CASE Redo(t)
      BY <1>2, <1>4, <3>1, <3>2, Zenon
    <3>3. CASE /\ started + 1 \in Threads \ {t} /\ mode[started + 1] = "idle"
               /\ Forks(t, started + 1, ParentFrame(t), BranchFrame(t))
      <4>2. started + 1 # 0
        BY <3>1, OrderedEvalAssumption
      <4> QED
        BY <3>1, <3>3, ParentFrameIs, BranchFrameIs, <4>2, <1>4, WorkControl, StopsFork, Zenon
    <3> QED
      BY <2>5, <3>1, <3>2, <3>3, SelectUnwaitedCopyShape, Zenon
  <2>6. CASE ReturnBlock(t) \/ ReturnRc(t) \/ ReturnWaited(t) \/ ReturnParent(t) \/ Unwind(t)
    BY <2>6, StopsBack, Zenon
  <2>7. CASE ThreadEnds(t)
    <3>1. /\ delivered' = delivered /\ history' = history /\ prog' = prog /\ ret' = ret
      BY <2>7, Zenon DEF ThreadEnds, context
    <3>2. /\ Len(stack'[t]) = 0 /\ mode' = [mode EXCEPT ![t] = "done"]
          /\ \A u \in Threads \ {t} : stack'[u] = stack[u]
      BY <2>7, ThreadEndsShape, Zenon
    <3>5. Stopping(t)'
      BY <1>1, <3>2 DEF Stopping, Leaving, AsideUndelivered, NoneWaited
    <3> QED
      BY <3>1, <3>2, <1>1, <3>5, StopsOthers DEF Stops, AsideUndelivered, NoneWaited
  <2> QED
    BY <1>4, <2>13, <2>1, <2>2, <2>3, <2>4, <2>5, <2>6, <2>7, Zenon DEF Running
<1>5. CASE UNCHANGED vars
  BY <1>5, Zenon DEF vars, context, Stops, Stopping
<1> QED
  BY <1>4, <1>5, Zenon DEF Next, Terminated

\* If unwaited copy blocks stand neither inside a block nor in an included file,
\* and no included file has a HOST line, a final delivery ends its path: nothing
\* more is done for a message that was delivered, and the original is delivered at
\* most once (SequenceControl::Stop, SequenceComplete and EndRc).
THEOREM StopStaysFinal ==
    ASSUME \A p \in Programs : StopReaches(p)
    PROVE  Spec => []StopEndsPath
<1>1. Init => Stops
  <2> SUFFICES ASSUME Init PROVE Stops
    BY Zenon
  <2>1. /\ 0 \in Threads /\ Len(stack[0]) = 1 /\ stack[0][1].kind = "root"
        /\ \A t \in Threads : t # 0 => Len(stack[t]) = 0
        /\ mode = [t \in Threads |-> IF t = 0 THEN "run" ELSE "idle"]
    BY InitStack, Zenon
  <2>2. delivered = [t \in Threads |-> FALSE] /\ history.finals = 0 /\ history.afterStop = FALSE
    BY Zenon DEF Init
  <2>3. \A t \in Threads : Stopping(t)
    BY <2>1, <2>2 DEF Stopping, AsideUndelivered
  <2> QED
    BY <2>2, <2>3 DEF Stops
<1>2. WellFormed /\ Nest /\ Stops /\ [Next]_vars => Stops'
  <2> SUFFICES ASSUME WellFormed, Nest, Stops, [Next]_vars PROVE Stops'
    BY Zenon
  <2>1. StopReaches(prog)
    BY Zenon DEF WellFormed, Shape
  <2> QED
    BY <2>1, StopsStep, Zenon DEF WellFormed
<1>3. Stops => StopEndsPath
  BY Zenon DEF Stops, StopEndsPath
<1> QED
  BY <1>1, <1>2, <1>3, WellFormedInvariance, NestInvariance, PTL DEF Spec

-----------------------------------------------------------------------------
\* Publications, and the threads that count them.

\* Nothing adds up to nothing.
LEMMA AddUpNone ==
    ASSUME NEW s, \A t \in Threads : s[t] = 0
    PROVE  AddUpTo(s, 0)
<1> DEFINE total == [S \in SUBSET Threads |-> 0]
<1>1. total \in [SUBSET Threads -> Int] /\ \A S \in SUBSET Threads : total[S] = 0
  OBVIOUS
<1> HIDE DEF total
<1>2. total[Threads] = 0
  BY <1>1, Zenon
<1>3. ASSUME NEW S \in SUBSET Threads, NEW t \in S PROVE total[S] = total[S \ {t}] + s[t]
  BY <1>1, <1>3
<1> QED
  BY <1>1, <1>2, <1>3, Zenon DEF AddUpTo

\* One value grows by k, and so does the sum.
LEMMA AddUpMore ==
    ASSUME NEW s \in [Threads -> Int], NEW d \in Int, AddUpTo(s, d), NEW t \in Threads, NEW k \in Int
    PROVE  AddUpTo([s EXCEPT ![t] = @ + k], d + k)
<1> DEFINE r == [s EXCEPT ![t] = @ + k]
<1>1. PICK total \in [SUBSET Threads -> Int] :
        /\ total[Threads] = d
        /\ \A S \in SUBSET Threads : \A u \in S : total[S] = total[S \ {u}] + s[u]
        /\ \A S \in SUBSET Threads : (\A u \in S : s[u] = 0) => total[S] = 0
  BY Zenon DEF AddUpTo
<1> DEFINE more == [S \in SUBSET Threads |-> IF t \in S THEN total[S] + k ELSE total[S]]
<1>2. more \in [SUBSET Threads -> Int] /\ more[Threads] = d + k
  BY <1>1
<1>3. ASSUME NEW S \in SUBSET Threads, NEW u \in S PROVE more[S] = more[S \ {u}] + r[u]
  <2>2. CASE u = t
    BY <1>1, <2>2
  <2>3. CASE u # t
    BY <1>1, <2>3
  <2> QED
    BY <2>2, <2>3, Zenon
<1>4. ASSUME NEW S \in SUBSET Threads, \A u \in S : r[u] = 0 PROVE more[S] = 0
  <2>1. CASE t \notin S
    BY <1>1, <1>4, <2>1, Zenon
  <2>2. CASE t \in S
    <3>2. total[S \ {t}] = 0 /\ total[S] = total[S \ {t}] + s[t] /\ s[t] \in Int /\ s[t] + k = 0
      BY <1>1, <1>4, <2>2, Zenon
    <3> QED
      BY <2>2, <3>2
  <2> QED
    BY <2>1, <2>2, Zenon
<1> HIDE DEF more, r
<1> QED
  BY <1>2, <1>3, <1>4, Zenon DEF r, AddUpTo

\* If only the value of thread 0 may differ from 0 it is the sum.
LEMMA AddUpOne ==
    ASSUME NEW s \in [Threads -> Int], NEW d \in Int, AddUpTo(s, d),
           \A t \in Threads : t # 0 => s[t] = 0
    PROVE  d = s[0]
<1>1. PICK total \in [SUBSET Threads -> Int] :
        /\ total[Threads] = d
        /\ \A S \in SUBSET Threads : \A u \in S : total[S] = total[S \ {u}] + s[u]
        /\ \A S \in SUBSET Threads : (\A u \in S : s[u] = 0) => total[S] = 0
  BY Zenon DEF AddUpTo
<1>3. total[Threads \ {0}] = 0
  BY <1>1, Zenon
<1> QED
  BY <1>1, ThreadFacts, <1>3

\* No activation will join a thread that none would before, and none is lost.
SameJoins ==
    \A v, u \in Threads :
        /\ \A i \in 1..Len(stack'[v]) :
            Joining(stack'[v][i], u) => i \in 1..Len(stack[v]) /\ Joining(stack[v][i], u)
        /\ ParentIn(stack[v], u) => ParentIn(stack'[v], u)

\* A thread that goes on in its top activation keeps the joins to come.
LEMMA RedoJoins ==
    ASSUME Shape, NEW t \in Threads, mode[t] \notin {"idle", "done"}, Redo(t)
    PROVE  SameJoins
<1>2. ASSUME NEW v \in Threads, NEW u \in Threads
      PROVE  /\ \A i \in 1..Len(stack'[v]) :
                    Joining(stack'[v][i], u) => i \in 1..Len(stack[v]) /\ Joining(stack[v][i], u)
             /\ ParentIn(stack[v], u) => ParentIn(stack'[v], u)
  <2>1. CASE v = t
    BY <2>1, RedoFacts DEF Joining, ParentIn, Kept
  <2>2. CASE v # t
    BY <2>2, RedoFacts, Zenon
  <2> QED
    BY <2>1, <2>2, Zenon
<1> QED
  BY <1>2, Zenon DEF SameJoins

\* Entering an activation that joins nobody keeps the joins to come.
LEMMA EnterJoins ==
    ASSUME Shape, NEW t \in Threads, mode[t] \notin {"idle", "done"}, NEW f \in Frame,
           Enters(t, f), f.kind # "parent"
    PROVE  SameJoins
<1>1. /\ \A u \in Threads \ {t} : stack'[u] = stack[u]
      /\ Pushed(stack[t], stack'[t], f) /\ Len(stack[t]) \in Nat
  BY EntersFacts, TopFacts, Zenon
<1>2. ASSUME NEW v \in Threads, NEW u \in Threads
      PROVE  /\ \A i \in 1..Len(stack'[v]) :
                    Joining(stack'[v][i], u) => i \in 1..Len(stack[v]) /\ Joining(stack[v][i], u)
             /\ ParentIn(stack[v], u) => ParentIn(stack'[v], u)
  <2>1. CASE v = t
    BY <2>1, <1>1 DEF Joining, ParentIn, Pushed
  <2>2. CASE v # t
    BY <2>2, <1>1, Zenon
  <2> QED
    BY <2>1, <2>2, Zenon
<1> QED
  BY <1>2, Zenon DEF SameJoins

\* Leaving an activation that joins nobody keeps the joins to come.
LEMMA BackJoins ==
    ASSUME Shape, NEW t \in Threads, mode[t] \notin {"idle", "done"},
           Top(t).kind \notin {"root", "branch", "parent"}, Back(t)
    PROVE  SameJoins
<1>1. /\ \A u \in Threads \ {t} : stack'[u] = stack[u]
      /\ Len(stack'[t]) = Len(stack[t]) - 1
      /\ \A i \in 1..(Len(stack[t]) - 1) : Kept(stack[t][i], stack'[t][i])
      /\ Top(t) = stack[t][Len(stack[t])] /\ Len(stack[t]) \in Nat
  BY BackFacts, TopFacts, Zenon
<1>2. ASSUME NEW v \in Threads, NEW u \in Threads
      PROVE  /\ \A i \in 1..Len(stack'[v]) :
                    Joining(stack'[v][i], u) => i \in 1..Len(stack[v]) /\ Joining(stack[v][i], u)
             /\ ParentIn(stack[v], u) => ParentIn(stack'[v], u)
  <2>1. CASE v = t
    <3>1. \A i \in 1..(Len(stack[t]) - 1) :
            i \in 1..Len(stack[t]) /\ (Joining(stack'[t][i], u) <=> Joining(stack[t][i], u))
      BY <1>1 DEF Joining, Kept
    <3> QED
      BY <2>1, <3>1, <1>1 DEF Joining, ParentIn
  <2>2. CASE v # t
    BY <2>2, <1>1, Zenon
  <2> QED
    BY <2>1, <2>2, Zenon
<1> QED
  BY <1>2, Zenon DEF SameJoins

\* Thread t, which counts its own publications, publishes k times.
LEMMA CountedBy ==
    ASSUME Data, Parents, Counted, SameJoins, NEW t \in Threads, mode[t] \notin {"idle", "done"},
           started' = started, \A u \in Threads : mode'[u] = "idle" => mode[u] = "idle",
           NEW k \in Nat, published' = [published EXCEPT ![t] = @ + k],
           Reported' = Reported + k
    PROVE  Counted'
<1>1. published \in [Threads -> Nat] /\ Reported \in Int /\ Shares \in [Threads -> Int]
  BY DEF Data, Observed, Shares, Reported
<1>2. JoinedOnce'
  <2>1. \A v, u \in Threads : \A i \in 1..Len(stack'[v]) :
          Joining(stack'[v][i], u) => i \in 1..Len(stack[v]) /\ Joining(stack[v][i], u)
    BY Zenon DEF SameJoins
  <2>2. \A v, u \in Threads : \A i \in 1..Len(stack'[v]) :
          Joining(stack'[v][i], u) => 0 < u /\ u <= started'
    BY <2>1, Zenon DEF Counted, JoinedOnce
  <2>3. ASSUME NEW v \in Threads, NEW w \in Threads, NEW u \in Threads,
               NEW i \in 1..Len(stack'[v]), NEW j \in 1..Len(stack'[w]),
               Joining(stack'[v][i], u), Joining(stack'[w][j], u)
        PROVE  v = w /\ i = j
    <3>1. /\ i \in 1..Len(stack[v]) /\ Joining(stack[v][i], u)
          /\ j \in 1..Len(stack[w]) /\ Joining(stack[w][j], u)
      BY <2>1, <2>3, Zenon
    <3>2. JoinedOnce
      BY Zenon DEF Counted
    <3> QED
      BY <3>1, <3>2 DEF JoinedOnce
  <2> QED
    BY <2>2, <2>3 DEF JoinedOnce
<1>3. \A u \in Threads : mode'[u] = "idle" => published'[u] = 0
  BY <1>1, Zenon DEF Counted
<1>4. \A v, u \in Threads : ParentIn(stack[v], u) <=> ParentIn(stack'[v], u)
  <2>1. ASSUME NEW v \in Threads, NEW u \in Threads, ParentIn(stack'[v], u)
        PROVE  ParentIn(stack[v], u)
    BY <2>1 DEF SameJoins, ParentIn, Joining
  <2> QED
    BY <2>1, Zenon DEF SameJoins
<1>5. t = 0 \/ \E v \in Threads : ParentIn(stack[v], t)
  <2>1. CASE t # 0
    <3>1. {t} \in SUBSET Branches
      BY <2>1, ThreadFacts DEF Branches
    <3> QED
      BY <3>1 DEF Parents
  <2> QED
    BY <2>1, Zenon
<1>6. Shares' = [Shares EXCEPT ![t] = @ + k]
  BY <1>1, <1>4, <1>5, Zenon DEF Shares
<1>7. AddUpTo(Shares, Reported)
  BY Zenon DEF Counted
<1>8. AddUpTo([Shares EXCEPT ![t] = @ + k], Reported + k)
  <2> DEFINE s == Shares
             d == Reported
  <2>1. s \in [Threads -> Int] /\ d \in Int /\ AddUpTo(s, d) /\ k \in Int
    BY <1>1, <1>7
  <2> HIDE DEF s, d
  <2>2. AddUpTo([s EXCEPT ![t] = @ + k], d + k)
    BY <2>1, AddUpMore, Zenon
  <2> QED
    BY <2>2, Zenon DEF s, d
<1>9. AddUpTo(Shares, Reported)'
  BY <1>6, <1>8, Zenon DEF AddUpTo
<1> QED
  BY <1>2, <1>3, <1>9, Zenon DEF Counted

\* The new branch has published nothing, and one activation joins it.
LEMMA CountedFork ==
    ASSUME Shape, Data, Parents, Counted, NEW t \in Threads, Selected(t, {"block"}),
           started + 1 \in Threads \ {t}, mode[started + 1] = "idle", mode[t] = "run",
           Forks(t, started + 1, ParentFrame(t), BranchFrame(t)),
           published' = published, history' = history
    PROVE  Counted'
<1> DEFINE u == started + 1
           f == ParentFrame(t)
           b == BranchFrame(t)
           n == Len(stack[t])
<1>1. f.kind = "parent" /\ f.branch = u /\ b.kind = "branch"
  BY ParentFrameIs, BranchFrameIs, Zenon
<1>2. n \in Nat /\ mode \in [Threads -> Modes] /\ Len(stack[u]) = 0 /\ stack \in [Threads -> Seq(Frame)]
  BY SelectedFacts, Zenon DEF Shape, ModeFine
<1>3. started \in Nat /\ u \in Threads /\ u # t /\ u # 0 /\ started < u
  BY OrderedEvalAssumption DEF Data
<1>4. /\ started' = u
      /\ Len(stack'[t]) = n + 1 /\ stack'[t][n + 1] = f
      /\ \A i \in 1..n : stack'[t][i] = stack[t][i]
      /\ Len(stack'[u]) = 1 /\ stack'[u][1] = b
      /\ \A v \in Threads \ {t, u} : stack'[v] = stack[v]
      /\ mode' = [mode EXCEPT ![u] = "copy"]
  BY Zenon DEF Forks
<1>5. Threads \subseteq Nat
  BY ThreadFacts, Zenon
<1> HIDE DEF u, f, b, n
<1>6. ASSUME NEW v \in Threads, NEW w \in Threads, NEW i \in 1..Len(stack'[v]), Joining(stack'[v][i], w)
      PROVE  \/ v = t /\ i = n + 1 /\ w = u
             \/ v # u /\ i \in 1..Len(stack[v]) /\ Joining(stack[v][i], w)
  <2>1. CASE v = t
    BY <2>1, <1>1, <1>2, <1>3, <1>4, <1>6 DEF Joining, n
  <2>2. CASE v = u
    BY <2>2, <1>1, <1>4, <1>6 DEF Joining
  <2>3. CASE v \notin {t, u}
    BY <2>3, <1>4, <1>6, Zenon
  <2> QED
    BY <2>1, <2>2, <2>3, Zenon
<1>7. \A v, w \in Threads : \A i \in 1..Len(stack[v]) : Joining(stack[v][i], w) => 0 < w /\ w <= started /\ w # u
  BY <1>3, <1>5 DEF Counted, JoinedOnce
<1>8. JoinedOnce'
  <2>1. ASSUME NEW v \in Threads, NEW w \in Threads, NEW i \in 1..Len(stack'[v]), Joining(stack'[v][i], w)
        PROVE  0 < w /\ w <= started'
    BY <2>1, <1>3, <1>4, <1>5, <1>6, <1>7
  <2>2. ASSUME NEW v \in Threads, NEW x \in Threads, NEW w \in Threads,
               NEW i \in 1..Len(stack'[v]), NEW j \in 1..Len(stack'[x]),
               Joining(stack'[v][i], w), Joining(stack'[x][j], w)
        PROVE  v = x /\ i = j
    <3>1. CASE w = u
      BY <2>2, <3>1, <1>6, <1>7, Zenon
    <3>2. CASE w # u
      BY <2>2, <3>2, <1>6 DEF Counted, JoinedOnce
    <3> QED
      BY <3>1, <3>2, Zenon
  <2> QED
    BY <2>1, <2>2, Zenon DEF JoinedOnce
<1>9. \A v \in Threads : mode'[v] = "idle" => published'[v] = 0
  BY <1>2, <1>4, Zenon DEF Counted
<1>10. published \in [Threads -> Nat] /\ published[u] = 0
  BY <1>3, Zenon DEF Counted, Data, u
<1>11. ASSUME NEW w \in Threads, w # u
       PROVE  (\E v \in Threads : ParentIn(stack[v], w)) <=> (\E v \in Threads : ParentIn(stack'[v], w))
  <2>1. ASSUME NEW v \in Threads, ParentIn(stack[v], w)
        PROVE  ParentIn(stack'[v], w)
    <3>1. PICK i \in 1..Len(stack[v]) : stack[v][i].kind = "parent" /\ stack[v][i].branch = w
      BY <2>1, Zenon DEF ParentIn
    <3>2. i \in 1..Len(stack'[v]) /\ stack'[v][i] = stack[v][i]
      <4>1. CASE v = t
        BY <3>1, <4>1, <1>2, <1>4 DEF n
      <4>2. CASE v = u
        <5>1. 1..Len(stack[v]) = {}
          BY <4>2, <1>2
        <5> QED
          BY <3>1, <5>1, Zenon
      <4>3. CASE v \notin {t, u}
        BY <3>1, <4>3, <1>4, Zenon
      <4> QED
        BY <4>1, <4>2, <4>3, Zenon
    <3> QED
      BY <3>1, <3>2, Zenon DEF ParentIn
  <2>2. ASSUME NEW v \in Threads, ParentIn(stack'[v], w)
        PROVE  ParentIn(stack[v], w)
    BY <2>2, <1>6, <1>11 DEF ParentIn, Joining
  <2> QED
    BY <2>1, <2>2, Zenon
<1>12. Shares' = Shares
  BY <1>10, <1>11, Zenon DEF Shares
<1>13. AddUpTo(Shares, Reported)'
  BY <1>12, Zenon DEF Counted, AddUpTo, Reported
<1> QED
  BY <1>8, <1>9, <1>13, Zenon DEF Counted

\* A branch that is joined hands its publications over to the thread that joins it.
LEMMA CountedJoin ==
    ASSUME Shape, Data, Parents, Counted, NEW t \in Threads, mode[t] \notin {"idle", "done"},
           Top(t).kind = "parent", Back(t), Join(t, Top(t).branch),
           started' = started, history' = history
    PROVE  Counted'
<1> DEFINE u == Top(t).branch
           n == Len(stack[t])
           p == published[u]
<1>1. /\ \A v \in Threads \ {t} : stack'[v] = stack[v] /\ mode'[v] = mode[v]
      /\ mode'[t] \in Busy /\ n \in Nat /\ n > 1 /\ Top(t) = stack[t][n]
      /\ Len(stack'[t]) = n - 1
      /\ \A i \in 1..(n - 1) : Kept(stack[t][i], stack'[t][i])
  BY BackFacts, TopFacts, Zenon
<1>2. u \in Threads /\ Joining(stack[t][n], u) /\ n \in 1..Len(stack[t])
  BY <1>1, TopFacts DEF FrameFine, Joining
<1>3. mode[u] = "done" /\ published' = [published EXCEPT ![t] = @ + p]
  BY Zenon DEF Join
<1>4. published \in [Threads -> Nat] /\ Reported \in Int /\ p \in Nat /\ Shares \in [Threads -> Int]
  BY <1>2 DEF Data, Observed, Shares, Reported
<1>5. u # 0 /\ u # t
  BY <1>2, <1>3, ThreadFacts DEF Counted, JoinedOnce
<1> HIDE DEF u, n, p
<1>6. ASSUME NEW v \in Threads, NEW w \in Threads, NEW i \in 1..Len(stack'[v]), Joining(stack'[v][i], w)
      PROVE  w # u /\ i \in 1..Len(stack[v]) /\ Joining(stack[v][i], w)
  <2>1. CASE v = t
    <3>1. i \in 1..(n - 1) /\ i \in 1..n /\ i # n
      BY <2>1, <1>1, <1>6
    <3>2. Joining(stack[t][i], w)
      BY <2>1, <3>1, <1>1, <1>6, Zenon DEF Joining, Kept
    <3> QED
      BY <2>1, <3>1, <3>2, <1>2 DEF Counted, JoinedOnce, n
  <2>2. CASE v # t
    BY <2>2, <1>1, <1>2, <1>6 DEF Counted, JoinedOnce
  <2> QED
    BY <2>1, <2>2, Zenon
<1>7. JoinedOnce'
  BY <1>6 DEF Counted, JoinedOnce
<1>8. \A v \in Threads : mode'[v] = "idle" => published'[v] = 0
  BY <1>1, <1>3, <1>4, Zenon DEF Counted, Busy
<1>9. ASSUME NEW w \in Threads, w # u
      PROVE  (\E v \in Threads : ParentIn(stack[v], w)) <=> (\E v \in Threads : ParentIn(stack'[v], w))
  <2>1. ASSUME NEW v \in Threads, ParentIn(stack[v], w)
        PROVE  ParentIn(stack'[v], w)
    <3>1. PICK i \in 1..Len(stack[v]) : Joining(stack[v][i], w)
      BY <2>1, Zenon DEF ParentIn, Joining
    <3>2. CASE v = t
      <4>1. i \in 1..(n - 1)
        BY <3>1, <3>2, <1>1, <1>2, <1>9 DEF Joining, n
      <4> QED
        BY <3>1, <3>2, <4>1, <1>1, Zenon DEF ParentIn, Joining, Kept
    <3>3. CASE v # t
      BY <2>1, <3>3, <1>1, Zenon
    <3> QED
      BY <3>2, <3>3, Zenon
  <2>2. ASSUME NEW v \in Threads, ParentIn(stack'[v], w)
        PROVE  ParentIn(stack[v], w)
    BY <2>2, <1>6 DEF ParentIn, Joining
  <2> QED
    BY <2>1, <2>2, Zenon
<1>10. \A v \in Threads : ~ParentIn(stack'[v], u) /\ ParentIn(stack[t], u)
  BY <1>2, <1>6, Zenon DEF ParentIn, Joining
<1>11. t = 0 \/ \E v \in Threads : ParentIn(stack[v], t)
  <2>1. CASE t # 0
    <3>1. {t} \in SUBSET Branches
      BY <2>1, ThreadFacts DEF Branches
    <3> QED
      BY <3>1, Zenon DEF Parents
  <2> QED
    BY <2>1, Zenon
<1> DEFINE s == [Shares EXCEPT ![t] = @ + p]
<1>12. s \in [Threads -> Int] /\ Shares' = [s EXCEPT ![u] = @ + (-p)]
  <2>1. Shares[u] = p /\ Shares[t] = published[t]
    BY <1>2, <1>10, <1>11, Zenon DEF Shares, p
  <2>2. Shares' = [w \in Threads |-> IF w = u THEN 0 ELSE IF w = t THEN Shares[t] + p ELSE Shares[w]]
    BY <1>2, <1>3, <1>4, <1>5, <1>9, <1>10, <1>11, <2>1, Zenon DEF Shares
  <2>3. s = [w \in Threads |-> IF w = t THEN Shares[t] + p ELSE Shares[w]]
    BY <1>4, Zenon
  <2>4. s \in [Threads -> Int] /\ s[u] + (-p) = 0
    BY <1>2, <1>4, <1>5, <2>1
  <2>5. [s EXCEPT ![u] = @ + (-p)]
            = [w \in Threads |-> IF w = u THEN 0 ELSE IF w = t THEN Shares[t] + p ELSE Shares[w]]
    <3> HIDE DEF s
    <3>1. [s EXCEPT ![u] = @ + (-p)] = [w \in Threads |-> IF w = u THEN s[u] + (-p) ELSE s[w]]
      BY <2>4, Zenon
    <3> QED
      BY <2>3, <2>4, <3>1, Zenon
  <2> QED
    BY <2>2, <2>4, <2>5, Zenon
<1>13. AddUpTo([s EXCEPT ![u] = @ + (-p)], Reported)
  <2> DEFINE r == Shares
             d == Reported
             q == -p
  <2>1. r \in [Threads -> Int] /\ d \in Int /\ AddUpTo(r, d) /\ p \in Int /\ q \in Int /\ (d + p) + q = d
        /\ d + p \in Int
    BY <1>4 DEF Counted
  <2>2. s = [r EXCEPT ![t] = @ + p]
    BY Zenon
  <2> HIDE DEF r, d, q, s
  <2>3. AddUpTo(s, d + p)
    BY <2>1, <2>2, AddUpMore, Zenon
  <2>4. AddUpTo([s EXCEPT ![u] = @ + q], (d + p) + q)
    BY <1>2, <1>12, <2>1, <2>3, AddUpMore, Zenon
  <2> QED
    BY <2>1, <2>4, Zenon DEF d, q
<1>14. AddUpTo(Shares, Reported)'
  BY <1>12, <1>13, Zenon DEF AddUpTo, Reported
<1> QED
  BY <1>7, <1>8, <1>14, Zenon DEF Counted

\* A thread that ends has no branch left to join.
LEMMA EndJoins ==
    ASSUME Shape, NEW t \in Threads, ThreadEnds(t)
    PROVE  SameJoins
<1>1. /\ Len(stack[t]) = 1 /\ mode[t] \in {"return", "unwind"} /\ Len(stack'[t]) = 0
      /\ \A u \in Threads \ {t} : stack'[u] = stack[u]
  BY ThreadEndsShape, Zenon
<1>3. ASSUME NEW v \in Threads, NEW u \in Threads
      PROVE  /\ \A i \in 1..Len(stack'[v]) :
                    Joining(stack'[v][i], u) => i \in 1..Len(stack[v]) /\ Joining(stack[v][i], u)
             /\ ParentIn(stack[v], u) => ParentIn(stack'[v], u)
  <2>1. CASE v = t
    BY <2>1, <1>1, TopFacts DEF ParentIn, ThreadEnds
  <2>2. CASE v # t
    BY <2>2, <1>1, Zenon
  <2> QED
    BY <2>1, <2>2, Zenon
<1> QED
  BY <1>3, Zenon DEF SameJoins

\* Every step keeps the deliveries counted.
LEMMA CountedStep ==
    ASSUME Shape, Data, Parents, Counted, [Next]_vars
    PROVE  Counted'
<1>0. Shape /\ Data /\ Parents /\ Parents'
  BY ParentsStep, Zenon
<1>1. ASSUME NEW t \in Threads, Running(t) PROVE Counted'
  <2>0. /\ history \in Observed /\ Reported \in Int
        /\ history' = history => Reported' = Reported
    BY <1>0 DEF Reported, Data, Observed
  <2>1. ASSUME SameJoins, mode[t] \notin {"idle", "done"}, started' = started, NEW k \in Nat,
               published' = [published EXCEPT ![t] = @ + k],
               Reported' = Reported + k
        PROVE  Counted'
    <3>1. \A u \in Threads : mode'[u] = "idle" => mode[u] = "idle"
      BY <1>0, <2>1, Zenon DEF Parents
    <3> QED
      BY <1>0, <2>1, <3>1, CountedBy, Zenon
  <2>2. ASSUME SameJoins, mode[t] \notin {"idle", "done"}, started' = started,
               published' = published, Reported' = Reported
        PROVE  Counted'
    <3> DEFINE k == 0
    <3>1. k \in Nat /\ published' = [published EXCEPT ![t] = @ + k]
          /\ Reported' = Reported + k
      BY <1>0, <2>2 DEF Data, Observed, Reported
    <3> HIDE DEF k
    <3> QED
      BY <2>1, <2>2, <3>1, Zenon
  <2>3. CASE \/ EndOfSequence(t) \/ Host(t) \/ LockFile(t) \/ Skip(t) \/ ActionFails(t)
             \/ ActionAborts(t) \/ SelectBlock(t)
    <3>1. /\ mode[t] \notin {"idle", "done"} /\ started' = started /\ published' = published
          /\ history'.deliveries = history.deliveries /\ history'.late = history.late
      BY <1>0, <2>3, Zenon DEF EndOfSequence, Host, LockFile, Skip, ActionFails, ActionAborts,
                  SelectBlock, Selected, At, context, Data, Observed
    <3>2. Redo(t)
      BY <1>0, <2>3, EndOfSequenceShape, HostShape, LockFileShape, SkipShape,
         ActionFailsShape, ActionAbortsShape, SelectBlockShape, Zenon
    <3> QED
      BY <1>0, <2>2, <3>1, <3>2, RedoJoins, Zenon DEF Reported
  <2>4. CASE ActionSucceeds(t)
    <3> DEFINE k == IF Item(Top(t)).op = "deliver" THEN 1 ELSE 0
    <3>1. mode[t] \notin {"idle", "done"} /\ started' = started /\ k \in Nat
      BY <2>4, Zenon DEF ActionSucceeds, Selected, At
    <3>2. published' = [published EXCEPT ![t] = @ + k]
      BY <2>4, Zenon DEF ActionSucceeds
    <3>3. history'.deliveries = history.deliveries + k /\ history'.late = history.late
      BY <1>0, <2>4, Zenon DEF ActionSucceeds, Data, Observed
    <3>4. SameJoins
      BY <1>0, <2>4, <3>1, ActionSucceedsShape, RedoJoins, Zenon
    <3> HIDE DEF k
    <3>5. Reported' = Reported + k
      BY <2>0, <3>1, <3>3 DEF Reported, Observed
    <3> QED
      BY <2>1, <3>1, <3>2, <3>4, <3>5, Zenon
  <2>5. CASE RuntimeRc(t)
    <3>1. /\ mode[t] \notin {"idle", "done"} /\ started' = started /\ published' = published
          /\ history' = history
      BY <2>5, Zenon DEF RuntimeRc, At, context
    <3>2. SameJoins
      BY <1>0, <2>5, <3>1, RuntimeRcShape, RedoJoins, EnterJoins, Zenon
    <3> QED
      BY <2>0, <2>2, <3>1, <3>2, Zenon
  <2>6. CASE SelectWaitedCopy(t)
    <3>1. /\ Selected(t, {"block"}) /\ started' = started /\ published' = published /\ history' = history
      BY <2>6, Zenon DEF SelectWaitedCopy
    <3>2. mode[t] \notin {"idle", "done"} /\ WaitedFrame(t) \in Frame /\ WaitedFrame(t).kind = "waited"
      BY <1>0, <3>1, SelectedFacts, WaitedFrameIs, Zenon
    <3>3. SameJoins
      BY <1>0, <2>6, <3>2, SelectWaitedCopyShape, EnterJoins, Zenon
    <3> QED
      BY <2>0, <2>2, <3>1, <3>2, <3>3, Zenon
  <2>7. CASE SelectUnwaitedCopy(t)
    <3>1. /\ Selected(t, {"block"}) /\ started \in 0..MaxBranches /\ published' = published /\ history' = history
      BY <1>0, <2>7, Zenon DEF SelectUnwaitedCopy, Data
    <3>2. mode[t] \notin {"idle", "done"}
      BY <1>0, <3>1, SelectedFacts, Zenon
    <3>3. CASE Redo(t) /\ started' = started
      BY <1>0, <2>0, <2>2, <3>1, <3>2, <3>3, RedoJoins, Zenon
    <3>4. CASE ~(Redo(t) /\ started' = started)
      BY <1>0, <2>7, <3>1, <3>4, SelectUnwaitedCopyShape, CountedFork, Zenon
    <3> QED
      BY <3>3, <3>4, Zenon
  <2>8. CASE EnterBlock(t)
    <3>1. /\ mode[t] \notin {"idle", "done"} /\ started' = started /\ published' = published
          /\ history' = history
      BY <2>8, Zenon DEF EnterBlock
    <3>2. SameJoins
      BY <1>0, <2>8, <3>1, EnterBlockShape, RedoJoins, EnterJoins, Zenon
    <3> QED
      BY <2>0, <2>2, <3>1, <3>2, Zenon
  <2>9. CASE ReturnBlock(t) \/ ReturnRc(t) \/ ReturnWaited(t)
    <3>1. /\ mode[t] = "return" /\ started' = started /\ published' = published /\ history' = history
          /\ Top(t).kind \in {"block", "include", "switch", "waited"}
      BY <2>9, Zenon DEF ReturnBlock, ReturnRc, ReturnWaited, Returning, context
    <3>2. SameJoins
      BY <1>0, <2>9, <3>1, ReturnBlockShape, ReturnRcShape, ReturnWaitedShape, BackJoins, Zenon
    <3> QED
      BY <2>0, <2>2, <3>1, <3>2, Zenon
  <2>10. CASE ReturnParent(t)
    <3>1. /\ mode[t] = "return" /\ started' = started /\ history' = history /\ Top(t).kind = "parent"
          /\ Join(t, Top(t).branch)
      BY <2>10, Zenon DEF ReturnParent, Returning
    <3> QED
      BY <1>0, <2>10, <3>1, ReturnParentShape, CountedJoin, Zenon
  <2>11. CASE Unwind(t)
    <3>1. /\ mode[t] = "unwind" /\ started' = started /\ history' = history
          /\ Top(t).kind \notin {"root", "branch"} /\ Back(t)
      BY <1>0, <2>11, UnwindShape, Zenon DEF Unwind
    <3>2. CASE Top(t).kind = "parent"
      <4>1. Join(t, Top(t).branch)
        BY <2>11, <3>2, Zenon DEF Unwind
      <4> QED
        BY <1>0, <3>1, <3>2, <4>1, CountedJoin, Zenon
    <3>3. CASE Top(t).kind # "parent"
      <4>1. published' = published
        BY <2>11, <3>3, Zenon DEF Unwind
      <4> QED
        BY <1>0, <2>0, <2>2, <3>1, <3>3, <4>1, BackJoins, Zenon
    <3> QED
      BY <3>2, <3>3, Zenon
  <2>12. CASE ThreadEnds(t)
    BY <1>0, <2>0, <2>2, <2>12, EndJoins, Zenon DEF ThreadEnds, context
  <2>13. CASE DeliveryFailsLate(t)
    <3>1. mode[t] \notin {"idle", "done"} /\ started' = started /\ published' = published
      BY <2>13, Zenon DEF DeliveryFailsLate, Selected, At, context
    <3>2. history'.deliveries = history.deliveries + 1 /\ history'.late = history.late + 1
      BY <2>0, <2>13, Zenon DEF DeliveryFailsLate, Observed
    <3>3. Reported' = Reported
      BY <2>0, <3>2 DEF Reported, Observed
    <3>4. SameJoins
      BY <1>0, <2>13, <3>1, DeliveryFailsLateShape, RedoJoins, Zenon
    <3> QED
      BY <2>2, <3>1, <3>3, <3>4, Zenon
  <2> QED
    BY <1>1, <2>3, <2>4, <2>5, <2>6, <2>7, <2>8, <2>9, <2>10, <2>11, <2>12, <2>13, Zenon DEF Running
<1>2. CASE UNCHANGED vars
  <2>1. stack' = stack /\ mode' = mode /\ published' = published /\ history' = history /\ started' = started
    BY <1>2, Zenon DEF vars, context
  <2>2. Shares' = Shares
    BY <2>1, Zenon DEF Shares
  <2>3. JoinedOnce'
    BY <2>1 DEF Counted, JoinedOnce
  <2> QED
    BY <2>1, <2>2, <2>3, Zenon DEF Counted, AddUpTo, Reported
<1> QED
  BY <1>1, <1>2, Zenon DEF Next, Terminated

\* An error is never taken back, and a delivery that fails late raises one.
LEMMA LateFailedStep ==
    ASSUME Data, LateFailed, [Next]_vars
    PROVE  LateFailed'
<1>0. fault \in [Threads -> Faults] /\ history \in Observed
  BY Zenon DEF Data
<1>1. ASSUME NEW t \in Threads, NEW error, error # "none", fault' = [fault EXCEPT ![t] = error]
      PROVE  LateFailed'
  BY <1>0, <1>1, Zenon DEF LateFailed
<1>2. ASSUME fault' = fault, history'.late = history.late
      PROVE  LateFailed'
  BY <1>2, Zenon DEF LateFailed
<1>3. ASSUME NEW t \in Threads, NEW error, error # "none", Raise(t, error)
      PROVE  LateFailed'
  BY <1>1, <1>3, Zenon DEF Raise
<1>4. ASSUME NEW t \in Threads, Running(t) PROVE LateFailed'
  <2>1. CASE Host(t) \/ RuntimeRc(t) \/ LockFile(t)
    BY <1>0, <1>2, <1>3, <2>1 DEF Host, RuntimeRc, LockFile, Observed
  <2>2. CASE ActionAborts(t) \/ DeliveryFailsLate(t)
    BY <1>3, <2>2 DEF ActionAborts, DeliveryFailsLate
  <2>3. CASE SelectUnwaitedCopy(t)
    BY <1>2, <1>3, <2>3 DEF SelectUnwaitedCopy
  <2>4. CASE ReturnParent(t)
    <3>1. history' = history
      BY <2>4, Zenon DEF ReturnParent
    <3> QED
      BY <1>1, <1>2, <2>4, <3>1, Zenon DEF ReturnParent
  <2>5. CASE Unwind(t)
    <3>1. history' = history
      BY <2>5, Zenon DEF Unwind
    <3>2. CASE JoinError(Top(t).branch) = "none" \/ Top(t).kind # "parent"
      <4>1. fault' = fault
        BY <2>5, <3>2, Zenon DEF Unwind
      <4> QED
        BY <1>2, <3>1, <4>1, Zenon
    <3>3. CASE JoinError(Top(t).branch) # "none" /\ Top(t).kind = "parent"
      <4>1. fault' = [fault EXCEPT ![t] = JoinError(Top(t).branch)]
        BY <2>5, <3>3, Zenon DEF Unwind
      <4> QED
        BY <1>1, <3>3, <4>1, Zenon
    <3> QED
      BY <3>2, <3>3, Zenon
  <2>6. CASE ThreadEnds(t)
    <3>1. history' = history
      BY <2>6, Zenon DEF ThreadEnds
    <3> QED
      BY <1>1, <1>2, <2>6, <3>1 DEF ThreadEnds
  <2>7. CASE ActionSucceeds(t)
    BY <1>0, <1>2, <2>7, Zenon DEF ActionSucceeds, Observed
  <2>8. CASE \/ EndOfSequence(t) \/ Skip(t) \/ ActionFails(t) \/ SelectBlock(t) \/ SelectWaitedCopy(t)
             \/ EnterBlock(t) \/ ReturnBlock(t) \/ ReturnRc(t) \/ ReturnWaited(t)
    <3>1. fault' = fault /\ history' = history
      BY <2>8, Zenon DEF EndOfSequence, Skip, ActionFails, SelectBlock, SelectWaitedCopy,
                         EnterBlock, ReturnBlock, ReturnRc, ReturnWaited
    <3> QED
      BY <1>2, <3>1, Zenon
  <2> QED
    BY <1>4, <2>1, <2>2, <2>3, <2>4, <2>5, <2>6, <2>7, <2>8, Zenon DEF Running
<1> QED
  BY <1>2, <1>4, Zenon DEF Next, Terminated, vars

\* However the run ends, the publications that the threads add up are the
\* destinations that got the message but for deliveries that failed behind
\* publication, whatever branches were started, failed or joined on an error
\* path; a run without an error lacks one only where an unwaited branch failed
\* (the join of execute_unwaited_copy_block).
THEOREM DeliveriesStayCounted == Spec => []CountsAllDeliveries
<1>1. Init => Counted /\ LateFailed
  <2> SUFFICES ASSUME Init PROVE Counted /\ LateFailed
    BY Zenon
  <2>1. /\ Threads \subseteq Nat /\ Len(stack[0]) = 1 /\ stack[0][1].kind = "root"
        /\ \A t \in Threads : t # 0 => Len(stack[t]) = 0
    BY InitStack, Zenon
  <2>2. published = [t \in Threads |-> 0] /\ history.deliveries = 0 /\ history.late = 0
    BY Zenon DEF Init
  <2>5. Reported = 0 /\ ~(history.late > 0)
    BY <2>2 DEF Reported
  <2>3. ASSUME NEW t \in Threads, NEW u \in Threads, NEW i \in 1..Len(stack[t])
        PROVE  ~Joining(stack[t][i], u)
    <3>1. t = 0
      BY <2>1
    <3> DEFINE n == Len(stack[t])
    <3>2. n = 1
      BY <2>1, <3>1, Zenon
    <3> HIDE DEF n
    <3>3. \A j \in 1..n : j = 1
      BY <3>2
    <3>4. i = 1
      BY <3>3, Zenon DEF n
    <3> QED
      BY <2>1, <3>1, <3>4, Zenon DEF Joining
  <2>4. AddUpTo(Shares, 0)
    <3>1. \A t \in Threads : Shares[t] = 0
      BY <2>2, Zenon DEF Shares
    <3> QED
      BY <3>1, AddUpNone, Zenon
  <2> QED
    BY <2>2, <2>3, <2>4, <2>5, Zenon DEF Counted, JoinedOnce, LateFailed
<1>2. WellFormed /\ Counted /\ LateFailed /\ [Next]_vars => Counted' /\ LateFailed'
  BY CountedStep, LateFailedStep, Zenon DEF WellFormed
<1>3. WellFormed /\ Counted /\ LateFailed => CountsAllDeliveries
  <2> SUFFICES ASSUME WellFormed, Counted, LateFailed, mode[0] = "done"
               PROVE  /\ published[0] + history.late = history.deliveries
                      /\ Status \in {0, 79} /\ history.late > 0
                            => \E u \in Threads \ {0} : fault[u] # "none"
    BY Zenon DEF CountsAllDeliveries
  <2>1. \A t \in Threads : Len(stack[t]) = 0
    BY LastOneOut, Zenon DEF WellFormed, Shape, ModeFine
  <2>2. \A u \in Threads : u # 0 => Shares[u] = 0
    BY <2>1 DEF Shares, ParentIn
  <2>3. 0 \in Threads /\ Shares[0] = published[0] /\ Shares \in [Threads -> Int]
    BY ThreadFacts DEF Shares, WellFormed, Data
  <2>4. Reported \in Int /\ history \in Observed /\ AddUpTo(Shares, Reported)
    BY DEF WellFormed, Data, Observed, Counted, Reported
  <2> DEFINE s == Shares
             d == Reported
  <2> HIDE DEF s, d
  <2>5. d = s[0]
    BY <2>2, <2>3, <2>4, AddUpOne, Zenon DEF s, d
  <2>6. published[0] = Reported
    BY <2>3, <2>5, Zenon DEF s, d
  <2>7. published[0] + history.late = history.deliveries
    BY <2>4, <2>6 DEF Reported, Observed
  <2>8. Status \in {0, 79} => fault[0] = "none"
    BY DEF Status
  <2> QED
    BY <2>7, <2>8, Zenon DEF LateFailed
<1> QED
  BY <1>1, <1>2, <1>3, WellFormedInvariance, PTL DEF Spec
=============================================================================
