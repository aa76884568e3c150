------------------------- MODULE OrderedScopeProofs -------------------------
(***************************************************************************)
(* Ordered execution: what belongs to one scope.  Lock files are held      *)
(* exactly by the scopes that took them, the message of the original path  *)
(* is apart from those of copy branches, and in a chain of E recipes at    *)
(* most one is executed, in every tree where no E recipe stands right      *)
(* behind a copy block.                                                    *)
(*                                                                         *)
(* Each result has an inductive invariant of its own over the well-formed  *)
(* stacks of OrderedShapeProofs.  LocksInv says that no lock is in two     *)
(* slots of a thread, without which releasing one slot would not show that *)
(* the thread gave the lock up.  Isolated follows the message that the     *)
(* first waited branch put aside.  Elses follows the chain of every        *)
(* activation: once one of its recipes ran, either else_handled makes the  *)
(* next E recipe skip or no E recipe follows; and a caller waits at an     *)
(* item of the kind that its callee returns to, so that what it records    *)
(* then keeps the chain closed.                                            *)
(***************************************************************************)
EXTENDS OrderedShapeProofs

-----------------------------------------------------------------------------
\* The locks that frames and slots hold.

\* Frames that keep their slots hold the same locks.
LEMMA HoldsSame ==
    ASSUME NEW s \in Seq(Frame), NEW s2 \in Seq(Frame), NEW g, Slotwise(s, s2, Len(s))
    PROVE  /\ \A l : HoldsIn(s2, g, l) <=> HoldsIn(s, g, l)
           /\ OneIn(s, g) => OneIn(s2, g)
BY DEF HoldsIn, Slotwise, OneIn

\* The global lock is released.
LEMMA HoldsLoseGlobal ==
    ASSUME NEW s \in Seq(Frame), NEW g \in Slots, OneIn(s, g)
    PROVE  /\ \A l \in Locks : HoldsIn(s, NoLock, l) <=> HoldsIn(s, g, l) /\ l # g
           /\ OneIn(s, NoLock)
<1> USE OrderedEvalAssumption
<1> QED
  BY Zenon DEF HoldsIn, OneIn, Slots

\* A global lock is taken.
LEMMA HoldsGainGlobal ==
    ASSUME NEW s \in Seq(Frame), NEW g \in Slots, OneIn(s, NoLock),
           g \in Locks => ~HoldsIn(s, NoLock, g)
    PROVE  /\ \A l \in Locks : HoldsIn(s, g, l) <=> HoldsIn(s, NoLock, l) \/ l = g
           /\ OneIn(s, g)
<1> USE OrderedEvalAssumption
<1> QED
  BY Zenon DEF HoldsIn, OneIn

\* Entering an activation adds its lock.
LEMMA HoldsPush ==
    ASSUME NEW s \in Seq(Frame), NEW s2 \in Seq(Frame), NEW f \in Frame, NEW g \in Slots,
           Pushed(s, s2, f), f.saved.lock = NoLock, OneIn(s, g),
           f.lock \in Locks => ~HoldsIn(s, g, f.lock)
    PROVE  /\ \A l \in Locks : HoldsIn(s2, g, l) <=> HoldsIn(s, g, l) \/ l = f.lock
           /\ OneIn(s2, g)
<1> USE OrderedEvalAssumption
<1> DEFINE n == Len(s)
<1>0. n \in Nat /\ Len(s2) = n + 1 /\ s2[n + 1] = f
      /\ \A i \in 1..n : s2[i] = s[i]
  BY DEF Pushed
<1> HIDE DEF n
<1>1. \A i \in 1..(n + 1) : i \in 1..n \/ i = n + 1
  BY <1>0
<1>4. OneIn(s2, g)
  <2>3. \A i, j \in 1..(n + 1) : i # j =>
            /\ s2[i].lock \in Locks => s2[i].lock # s2[j].lock
            /\ s2[i].saved.lock \in Locks => s2[i].saved.lock # s2[j].saved.lock
    BY <1>0, <1>1 DEF OneIn, HoldsIn, n
  <2> QED
    BY <1>0, <1>1, <2>3 DEF OneIn, HoldsIn, n
<1> QED
  BY <1>0, <1>1, <1>4 DEF HoldsIn, n

\* A waited branch puts the global lock aside.
LEMMA HoldsPutAside ==
    ASSUME NEW s \in Seq(Frame), NEW s2 \in Seq(Frame), NEW f \in Frame, NEW g \in Slots,
           Pushed(s, s2, f), f.lock = NoLock, f.saved.lock = g, OneIn(s, g)
    PROVE  /\ \A l \in Locks : HoldsIn(s2, NoLock, l) <=> HoldsIn(s, g, l)
           /\ OneIn(s2, NoLock)
<1> USE OrderedEvalAssumption
<1> DEFINE n == Len(s)
<1>0. n \in Nat /\ Len(s2) = n + 1 /\ s2[n + 1] = f
      /\ \A i \in 1..n : s2[i] = s[i]
  BY DEF Pushed
<1> HIDE DEF n
<1>1. \A i \in 1..(n + 1) : i \in 1..n \/ i = n + 1
  BY <1>0
<1>4. OneIn(s2, NoLock)
  <2>3. \A i, j \in 1..(n + 1) : i # j =>
            /\ s2[i].lock \in Locks => s2[i].lock # s2[j].lock
            /\ s2[i].saved.lock \in Locks => s2[i].saved.lock # s2[j].saved.lock
    BY <1>0, <1>1 DEF OneIn, n
  <2> QED
    BY <1>0, <1>1, <2>3 DEF OneIn, n
<1> QED
  BY <1>0, <1>1, <1>4 DEF HoldsIn, n

\* The top activation is left and its lock released.
LEMMA HoldsPop ==
    ASSUME NEW s \in Seq(Frame), NEW s2 \in Seq(Frame), NEW g \in Slots, Len(s) > 0,
           Slotwise(s, s2, Len(s) - 1), s[Len(s)].saved.lock = NoLock, OneIn(s, g)
    PROVE  /\ \A l \in Locks : HoldsIn(s2, g, l) <=> HoldsIn(s, g, l) /\ l # s[Len(s)].lock
           /\ OneIn(s2, g)
<1> USE OrderedEvalAssumption
<1> DEFINE n == Len(s)
<1>0. n \in Nat /\ n > 0 /\ Len(s2) = n - 1
      /\ \A i \in 1..(n - 1) : s2[i].lock = s[i].lock /\ s2[i].saved.lock = s[i].saved.lock
  BY DEF Slotwise
<1>9. s[n].saved.lock = NoLock /\ Len(s) = n
  BY Zenon
<1> HIDE DEF n
<1>2. 1..(n - 1) \subseteq 1..n /\ n \in 1..n /\ \A i \in 1..(n - 1) : i # n
  BY <1>0
<1>3. \A l \in Locks : HoldsIn(s2, g, l) <=> HoldsIn(s, g, l) /\ l # s[n].lock
  <2> TAKE l \in Locks
  <2> QED
    BY <1>0, <1>9, <1>2 DEF HoldsIn, OneIn
<1>4. OneIn(s2, g)
  <2>2. \A i, j \in 1..(n - 1) : s2[i].lock \in Locks => s2[i].lock # s2[j].saved.lock
    BY <1>0, <1>2, <1>9 DEF OneIn
  <2>3. \A i, j \in 1..(n - 1) : i # j =>
            /\ s2[i].lock \in Locks => s2[i].lock # s2[j].lock
            /\ s2[i].saved.lock \in Locks => s2[i].saved.lock # s2[j].saved.lock
    BY <1>0, <1>2, <1>9 DEF OneIn
  <2> QED
    BY <1>0, <1>2, <1>9, <2>2, <2>3 DEF OneIn
<1> QED
  BY <1>3, <1>4, Zenon DEF n

\* A waited branch is left: its global lock is released, the one put aside is back.
LEMMA HoldsBack ==
    ASSUME NEW s \in Seq(Frame), NEW s2 \in Seq(Frame), NEW g \in Slots, Len(s) > 0,
           Slotwise(s, s2, Len(s) - 1), s[Len(s)].lock = NoLock, OneIn(s, g)
    PROVE  LET h == s[Len(s)].saved.lock IN
           /\ \A l \in Locks : HoldsIn(s2, h, l) <=> HoldsIn(s, g, l) /\ l # g
           /\ OneIn(s2, h)
<1> USE OrderedEvalAssumption
<1> DEFINE n == Len(s)
           h == s[n].saved.lock
<1>0. n \in Nat /\ n > 0 /\ Len(s2) = n - 1
      /\ \A i \in 1..(n - 1) : s2[i].lock = s[i].lock /\ s2[i].saved.lock = s[i].saved.lock
  BY DEF Slotwise
<1>9. s[n].lock = NoLock /\ Len(s) = n /\ h = s[n].saved.lock
  BY Zenon
<1> HIDE DEF n, h
<1>2. 1..(n - 1) \subseteq 1..n /\ n \in 1..n /\ \A i \in 1..(n - 1) : i # n
  BY <1>0
<1>3. \A l \in Locks : HoldsIn(s2, h, l) <=> HoldsIn(s, g, l) /\ l # g
  <2> TAKE l \in Locks
  <2> QED
    BY <1>0, <1>9, <1>2 DEF HoldsIn, OneIn
<1>4. OneIn(s2, h)
  BY <1>0, <1>2, <1>9 DEF OneIn
<1> QED
  BY <1>3, <1>4, Zenon DEF n, h

\* The other threads keep their frames, their slot and their mode.
OthersKeep(t) ==
    \A u \in Threads \ {t} :
        stack'[u] = stack[u] /\ globalLock'[u] = globalLock[u] /\ mode'[u] = mode[u]

\* The slots of t are in order after the step.
SlotsKept(t) ==
    /\ OneIn(stack'[t], globalLock'[t])
    /\ mode'[t] \in {"idle", "done"} => globalLock'[t] = NoLock

\* Locks of other threads are not affected by a thread's own slots.
LEMMA LocksOfOthers ==
    ASSUME LocksInv, NEW t \in Threads, OthersKeep(t), SlotsKept(t),
           \A u \in Threads \ {t}, l \in Locks : owner'[l] = u <=> owner[l] = u,
           \A l \in Locks : owner'[l] = t <=> HoldsIn(stack'[t], globalLock'[t], l)
    PROVE  LocksInv'
<1>1. \A u \in Threads, l \in Locks : owner'[l] = u <=> HoldsIn(stack'[u], globalLock'[u], l)
  <2> TAKE u \in Threads, l \in Locks
  <2>1. CASE u = t
    BY <2>1, Zenon
  <2>2. CASE u # t
    BY <2>2 DEF LocksInv, OthersKeep
  <2> QED
    BY <2>1, <2>2, Zenon
<1> QED
  BY <1>1, Zenon DEF LocksInv, OthersKeep, SlotsKept

\* A step that neither takes nor releases a lock.
LEMMA LocksSame ==
    ASSUME LocksInv, NEW t \in Threads, OthersKeep(t), SlotsKept(t), owner' = owner,
           \A l \in Locks : HoldsIn(stack'[t], globalLock'[t], l) <=> HoldsIn(stack[t], globalLock[t], l)
    PROVE  LocksInv'
BY LocksOfOthers, Zenon DEF LocksInv

\* A step that releases lock k of its thread.
LEMMA LocksLose ==
    ASSUME LocksInv, NEW t \in Threads, OthersKeep(t), SlotsKept(t),
           NEW k, owner' = Released(k), k \in Locks => HoldsIn(stack[t], globalLock[t], k),
           \A l \in Locks : HoldsIn(stack'[t], globalLock'[t], l)
                                <=> HoldsIn(stack[t], globalLock[t], l) /\ l # k
    PROVE  LocksInv'
BY ThreadFacts, LocksOfOthers DEF LocksInv, Released

\* A step that takes the free lock k.
LEMMA LocksGain ==
    ASSUME LocksInv, NEW t \in Threads, OthersKeep(t), SlotsKept(t),
           NEW k, owner' = Acquired(t, k), Free(k),
           \A l \in Locks : HoldsIn(stack'[t], globalLock'[t], l)
                                <=> HoldsIn(stack[t], globalLock[t], l) \/ l = k
    PROVE  LocksInv'
BY ThreadFacts, LocksOfOthers DEF LocksInv, Acquired, Free

\* A free lock is in no slot.
LEMMA FreeIsUnheld ==
    ASSUME LocksInv, NEW t \in Threads, NEW k, Free(k), k \in Locks
    PROVE  ~HoldsIn(stack[t], globalLock[t], k)
BY ThreadFacts, Zenon DEF LocksInv, Free

-----------------------------------------------------------------------------
\* Every action keeps track of its locks.

\* A thread that goes on is neither idle nor done.
LEMMA BusyFacts == Busy \cap {"idle", "done"} = {} /\ Busy \subseteq Modes
BY Zenon DEF Busy, Modes

\* The slots of the top activation.
LEMMA TopSlots ==
    ASSUME Shape, NEW t \in Threads, mode[t] \notin {"idle", "done"}
    PROVE  /\ Top(t).kind # "block" => Top(t).lock = NoLock
           /\ Top(t).kind # "waited" => Top(t).saved.lock = NoLock
           /\ Top(t).lock \in Slots /\ Top(t).saved \in SavedContext
BY TopFacts, FrameFields, Zenon DEF FrameFine

\* Steps of kind Redo that leave the global lock alone.
LEMMA LocksRedo ==
    ASSUME Shape, Data, LocksInv, NEW t \in Threads, mode[t] \notin {"idle", "done"}, Redo(t),
           UNCHANGED locks
    PROVE  LocksInv'
BY RedoFacts, HoldsSame, BusyFacts, LocksSame DEF locks, LocksInv, OthersKeep, SlotsKept

\* Entering an activation without a lock.
LEMMA LocksEnter ==
    ASSUME Shape, Data, LocksInv, NEW t \in Threads, mode[t] \notin {"idle", "done"},
           NEW f \in Frame, Enters(t, f), f.saved.lock = NoLock, globalLock' = globalLock,
           \/ f.lock = NoLock /\ owner' = owner
           \/ Free(f.lock) /\ owner' = Acquired(t, f.lock)
    PROVE  LocksInv'
<1>5. /\ \A l \in Locks : HoldsIn(stack'[t], globalLock[t], l)
                            <=> HoldsIn(stack[t], globalLock[t], l) \/ l = f.lock
      /\ OneIn(stack'[t], globalLock[t])
  BY EntersFacts, FreeIsUnheld, OrderedEvalAssumption, HoldsPush DEF Data, LocksInv
<1>7. CASE f.lock = NoLock /\ owner' = owner
  BY EntersFacts, <1>5, BusyFacts, <1>7, OrderedEvalAssumption, LocksSame, Zenon DEF OthersKeep,
     SlotsKept
<1>8. CASE Free(f.lock) /\ owner' = Acquired(t, f.lock)
  BY <1>5, EntersFacts, BusyFacts, <1>8, LocksGain, Zenon DEF OthersKeep, SlotsKept
<1> QED
  BY <1>7, <1>8, Zenon

\* Leaving an activation releases its block's lock.
LEMMA LocksBack ==
    ASSUME Shape, Data, LocksInv, NEW t \in Threads, mode[t] \notin {"idle", "done"},
           Top(t).kind \notin {"root", "branch", "waited"}, Back(t), globalLock' = globalLock,
           \/ Top(t).kind # "block" /\ owner' = owner
           \/ owner' = Released(Top(t).lock)
    PROVE  LocksInv'
<1>5. Top(t).saved.lock = NoLock /\ (Top(t).kind # "block" => Top(t).lock = NoLock)
  BY TopSlots, Zenon
<1>6. /\ \A l \in Locks : HoldsIn(stack'[t], globalLock[t], l)
                            <=> HoldsIn(stack[t], globalLock[t], l) /\ l # Top(t).lock
      /\ OneIn(stack'[t], globalLock[t])
  BY BackFacts, TopFacts, <1>5, HoldsPop DEF Data, LocksInv
<1>8. CASE Top(t).kind # "block" /\ owner' = owner
  BY BackFacts, <1>6, BusyFacts, <1>8, <1>5, OrderedEvalAssumption, LocksSame, Zenon DEF
     OthersKeep, SlotsKept
<1>9. CASE owner' = Released(Top(t).lock)
  <2>1. HoldsIn(stack[t], globalLock[t], Top(t).lock)
    BY TopFacts DEF HoldsIn
  <2> QED
    BY <1>6, BackFacts, BusyFacts, <1>9, <2>1, LocksLose, Zenon DEF OthersKeep, SlotsKept
<1> QED
  BY <1>8, <1>9, Zenon

\* Leaving a waited branch releases its global lock and brings back the one put
\* aside (leave_copy_branch).
LEMMA LocksLeaveCopy ==
    ASSUME Shape, Data, LocksInv, NEW t \in Threads, mode[t] \notin {"idle", "done"},
           Top(t).kind = "waited", Back(t), LeaveCopy(t)
    PROVE  LocksInv'
<1>2. globalLock \in [Threads -> Slots] /\ globalLock[t] \in Slots
  BY Zenon DEF Data
<1> DEFINE h == Top(t).saved.lock
<1>6. /\ \A l \in Locks : HoldsIn(stack'[t], h, l)
                            <=> HoldsIn(stack[t], globalLock[t], l) /\ l # globalLock[t]
      /\ OneIn(stack'[t], h)
  BY BackFacts, <1>2, TopFacts, TopSlots, HoldsBack DEF LocksInv
<1>7. owner' = Released(globalLock[t]) /\ globalLock' = [globalLock EXCEPT ![t] = h]
  BY Zenon DEF LeaveCopy
<1> HIDE DEF h
<1>8. globalLock'[t] = h /\ \A u \in Threads \ {t} : globalLock'[u] = globalLock[u]
  BY <1>2, <1>7, Zenon
<1>9. OthersKeep(t) /\ SlotsKept(t)
  BY <1>6, <1>8, BackFacts, BusyFacts, Zenon DEF OthersKeep, SlotsKept
<1>10. HoldsIn(stack[t], globalLock[t], globalLock[t])
  BY Zenon DEF HoldsIn
<1> QED
  BY <1>6, <1>7, <1>8, <1>9, <1>10, LocksLose, Zenon

\* RuntimeRc takes and releases no lock.
LEMMA RuntimeRcLocks ==
    ASSUME Shape, Data, LocksInv, NEW t \in Threads, RuntimeRc(t)
    PROVE  LocksInv'
<1>1. mode[t] \notin {"idle", "done"} /\ UNCHANGED locks
  BY Zenon DEF RuntimeRc, At
<1>3. CASE Redo(t)
  BY <1>1, <1>3, LocksRedo, Zenon
<1>4. CASE \E f \in Frame : Enters(t, f) /\ f.lock = NoLock /\ f.saved.lock = NoLock
  BY <1>1, <1>4, LocksEnter, Zenon DEF locks
<1> QED
  BY <1>3, <1>4, RuntimeRcShape, Zenon

\* LockFile releases the old global lock before it takes the new one
\* (replace_global_lock).
LEMMA LockFileLocks ==
    ASSUME Shape, Data, LocksInv, NEW t \in Threads, LockFile(t)
    PROVE  LocksInv'
<1> DEFINE new == Item(Top(t)).lock
           g == globalLock[t]
<1>2. mode[t] \notin {"idle", "done"} /\ new \in Slots
  BY AtFacts, Zenon DEF ProgramItem, Slots, LockFile
<1>4. /\ stack[t] \in Seq(Frame) /\ stack'[t] \in Seq(Frame)
      /\ Slotwise(stack[t], stack'[t], Len(stack[t]))
      /\ \A u \in Threads \ {t} : stack'[u] = stack[u] /\ mode'[u] = mode[u]
      /\ mode'[t] \in Busy
  BY <1>2, LockFileShape, RedoFacts, Zenon
<1>5. globalLock \in [Threads -> Slots] /\ g \in Slots /\ OneIn(stack[t], g) /\ NoLock \in Slots
  BY Zenon DEF Data, LocksInv, Slots
<1>6. \/ /\ owner' = Released(g)
         /\ globalLock' = [globalLock EXCEPT ![t] = NoLock]
      \/ /\ g = NoLock /\ Free(new) /\ owner' = Acquired(t, new)
         /\ globalLock' = [globalLock EXCEPT ![t] = new]
      \/ UNCHANGED locks
  BY Zenon DEF LockFile
<1> HIDE DEF new, g
<1>7. CASE /\ owner' = Released(g)
           /\ globalLock' = [globalLock EXCEPT ![t] = NoLock]
  <2>5. HoldsIn(stack[t], g, g) /\ g = globalLock[t]
    BY Zenon DEF HoldsIn, g
  <2>6. \A l \in Locks : HoldsIn(stack'[t], globalLock'[t], l)
                            <=> HoldsIn(stack[t], globalLock[t], l) /\ l # g
    BY <1>5, <1>7, <1>4, HoldsLoseGlobal, HoldsSame, <2>5, Zenon
  <2> QED
    BY <1>7, <1>4, <1>5, HoldsLoseGlobal, HoldsSame, <2>5, <2>6, LocksLose, Zenon DEF OthersKeep,
       SlotsKept
<1>8. CASE /\ g = NoLock /\ Free(new) /\ owner' = Acquired(t, new)
           /\ globalLock' = [globalLock EXCEPT ![t] = new]
  <2>4. /\ \A l : HoldsIn(stack'[t], new, l) <=> HoldsIn(stack[t], new, l)
        /\ OneIn(stack'[t], new)
    BY <1>4, <1>2, <1>5, <1>8, FreeIsUnheld, HoldsGainGlobal, HoldsSame, Zenon DEF g
  <2> QED
    BY <1>8, <1>4, <1>5, <2>4, BusyFacts, <1>2, FreeIsUnheld, HoldsGainGlobal, LocksGain, Zenon DEF
       OthersKeep, SlotsKept, g
<1>9. CASE UNCHANGED locks
  BY <1>2, LockFileShape, <1>9, LocksRedo, Zenon
<1> QED
  BY <1>6, <1>7, <1>8, <1>9, Zenon

\* SelectWaitedCopy puts the global lock aside (enter_copy_branch).
LEMMA SelectWaitedCopyLocks ==
    ASSUME Shape, Data, LocksInv, NEW t \in Threads, SelectWaitedCopy(t)
    PROVE  LocksInv'
<1> DEFINE f == WaitedFrame(t)
           g == globalLock[t]
<1>1. Selected(t, {"block"}) /\ owner' = owner /\ globalLock' = [globalLock EXCEPT ![t] = NoLock]
  BY Zenon DEF SelectWaitedCopy
<1>3. f \in Frame /\ f.lock = NoLock /\ f.saved.lock = g
  BY <1>1, WaitedFrameIs, Zenon
<1>4. Enters(t, f)
  BY SelectWaitedCopyShape, Zenon
<1>5. globalLock \in [Threads -> Slots] /\ g \in Slots /\ OneIn(stack[t], g)
  BY Zenon DEF Data, LocksInv
<1>6. g = globalLock[t]
  BY Zenon
<1> HIDE DEF f, g
<1> QED
  BY <1>1, <1>6, <1>3, <1>5, SelectedFacts, <1>4, EntersFacts, HoldsPutAside, LocksSame DEF
     OthersKeep, SlotsKept

\* EnterBlock takes the local lock of the block, or records a failure.
LEMMA EnterBlockLocks ==
    ASSUME Shape, Data, LocksInv, NEW t \in Threads, EnterBlock(t)
    PROVE  LocksInv'
<1>2. CASE Redo(t) /\ UNCHANGED owner
  BY <1>2, LocksRedo, Zenon DEF locks, EnterBlock
<1>3. CASE /\ Free(Item(Top(t)).lock) /\ owner' = Acquired(t, Item(Top(t)).lock)
           /\ \E f \in Frame : Enters(t, f) /\ f.kind = "block"
                    /\ f.lock = Item(Top(t)).lock /\ f.saved.lock = NoLock
  BY <1>3, LocksEnter, Zenon DEF EnterBlock
<1> QED
  BY <1>2, <1>3, EnterBlockShape, Zenon

\* A new branch starts without a lock.
LEMMA SelectUnwaitedCopyLocks ==
    ASSUME Shape, Data, Parents, LocksInv, NEW t \in Threads, SelectUnwaitedCopy(t)
    PROVE  LocksInv'
<1> DEFINE u == started + 1
           f == ParentFrame(t)
           b == BranchFrame(t)
           g == globalLock[t]
<1>1. Selected(t, {"block"}) /\ owner' = owner /\ globalLock' = globalLock
  BY Zenon DEF SelectUnwaitedCopy, locks
<1>2. mode[t] \notin {"idle", "done"} /\ stack \in [Threads -> Seq(Frame)] /\ started \in 0..MaxBranches
  BY <1>1, SelectedFacts, Zenon DEF Data
<1>3. CASE Redo(t)
  BY <1>1, <1>2, <1>3, LocksRedo, Zenon DEF locks
<1>4. CASE /\ u \in Threads \ {t} /\ mode[u] = "idle" /\ mode[t] = "run"
           /\ Forks(t, u, f, b)
  <2>1. f \in Frame /\ f.lock = NoLock /\ f.saved.lock = NoLock
    BY <1>1, <1>4, ParentFrameIs, Zenon
  <2>2. b \in Frame /\ b.lock = NoLock /\ b.saved.lock = NoLock
    BY <1>1, BranchFrameIs, Zenon
  <2>3. /\ g \in Slots /\ OneIn(stack[t], g) /\ globalLock[u] = NoLock /\ mode \in [Threads -> Modes]
        /\ \A v \in Threads, l \in Locks : owner[l] = v <=> HoldsIn(stack[v], globalLock[v], l)
        /\ ModeFine(u)
    BY <1>4, Zenon DEF Data, LocksInv, Shape
  <2> HIDE DEF u, f, b, g
  <2>4. /\ stack' \in [Threads -> Seq(Frame)] /\ Pushed(stack[t], stack'[t], f)
        /\ Len(stack'[u]) = 1 /\ stack'[u][1] = b
        /\ \A v \in Threads \ {t, u} : stack'[v] = stack[v]
        /\ mode' = [mode EXCEPT ![u] = "copy"]
    BY <1>4, Zenon DEF Forks, Pushed
  <2>5. /\ \A l \in Locks : HoldsIn(stack'[t], g, l) <=> HoldsIn(stack[t], g, l) \/ l = f.lock
        /\ OneIn(stack'[t], g)
    <3>1. stack[t] \in Seq(Frame) /\ stack'[t] \in Seq(Frame) /\ f.lock \notin Locks
      BY <1>2, <2>1, <2>4, OrderedEvalAssumption, Zenon
    <3> QED
      BY <2>1, <2>3, <2>4, <3>1, HoldsPush, Zenon
  <2>9. \A v \in Threads, l \in Locks : owner'[l] = v <=> HoldsIn(stack'[v], globalLock'[v], l)
    <3> TAKE v \in Threads, l \in Locks
    <3>1. CASE v = t
      BY <3>1, <1>1, <2>3, <2>1, <2>5, OrderedEvalAssumption DEF g
    <3>2. CASE v = u
      BY <3>2, <1>1, <2>3, <2>2, <2>4, OrderedEvalAssumption, <1>4 DEF OneIn, HoldsIn,
         ModeFine
    <3>3. CASE v \notin {t, u}
      BY <3>3, <1>1, <2>3, <2>4, Zenon
    <3> QED
      BY <3>1, <3>2, <3>3, Zenon
  <2>10. \A v \in Threads : OneIn(stack'[v], globalLock'[v])
    <3> TAKE v \in Threads
    <3>1. CASE v = t
      BY <3>1, <1>1, <2>5, Zenon DEF g
    <3>2. CASE v = u
      BY <3>2, <1>1, <2>3, <2>2, <2>4, OrderedEvalAssumption DEF OneIn, HoldsIn
    <3>3. CASE v \notin {t, u}
      BY <3>3, <1>1, <2>4, Zenon DEF LocksInv
    <3> QED
      BY <3>1, <3>2, <3>3, Zenon
  <2> QED
    BY <2>9, <2>10, <1>1, <2>3, <2>4, Zenon DEF LocksInv
<1> QED
  BY <1>2, <1>3, <1>4, SelectUnwaitedCopyShape, Zenon

\* ReturnBlock drops the guard of the block.
LEMMA ReturnBlockLocks ==
    ASSUME Shape, Data, LocksInv, NEW t \in Threads, ReturnBlock(t)
    PROVE  LocksInv'
BY ReturningFacts, ReturnBlockShape, LocksBack, Zenon DEF ReturnBlock

\* ReturnRc takes and releases no lock.
LEMMA ReturnRcLocks ==
    ASSUME Shape, Data, LocksInv, NEW t \in Threads, ReturnRc(t)
    PROVE  LocksInv'
BY ReturningFacts, ReturnRcShape, LocksBack DEF ReturnRc, locks

\* ReturnWaited releases the lock of the branch and restores the slot.
LEMMA ReturnWaitedLocks ==
    ASSUME Shape, Data, LocksInv, NEW t \in Threads, ReturnWaited(t)
    PROVE  LocksInv'
<1>2. mode[t] = "return" /\ Top(t).kind = "waited"
  BY ReturningFacts DEF ReturnWaited
<1> QED
  BY <1>2, ReturnWaitedShape, LocksLeaveCopy, Zenon DEF ReturnWaited

\* ReturnParent takes and releases no lock.
LEMMA ReturnParentLocks ==
    ASSUME Shape, Data, LocksInv, NEW t \in Threads, ReturnParent(t)
    PROVE  LocksInv'
BY ReturningFacts, ReturnParentShape, LocksBack, Zenon DEF ReturnParent, locks

\* The error path releases what the activation it leaves holds.
LEMMA UnwindLocks ==
    ASSUME Shape, Data, LocksInv, NEW t \in Threads, Unwind(t)
    PROVE  LocksInv'
<1>1. mode[t] = "unwind" /\ Top(t).kind \notin {"root", "branch"} /\ Back(t)
  BY UnwindShape, Zenon DEF Unwind
<1>3. CASE Top(t).kind = "waited" /\ LeaveCopy(t)
  BY <1>1, <1>3, LocksLeaveCopy, Zenon
<1>4. CASE Top(t).kind = "parent" /\ UNCHANGED locks
  BY <1>1, <1>4, LocksBack, Zenon DEF locks
<1>5. CASE /\ Top(t).kind \notin {"waited", "parent"} /\ owner' = Released(Top(t).lock)
           /\ globalLock' = globalLock
  BY <1>1, <1>5, LocksBack, Zenon
<1> QED
  BY <1>3, <1>4, <1>5, Zenon DEF Unwind

\* ThreadEnds releases the global lock of its thread.
LEMMA ThreadEndsLocks ==
    ASSUME Shape, Data, LocksInv, NEW t \in Threads, ThreadEnds(t)
    PROVE  LocksInv'
<1> DEFINE g == globalLock[t]
<1>1. /\ Len(stack[t]) = 1 /\ mode[t] \in {"return", "unwind"}
      /\ Len(stack'[t]) = 0
      /\ \A u \in Threads \ {t} : stack'[u] = stack[u]
      /\ mode' = [mode EXCEPT ![t] = "done"]
  BY ThreadEndsShape, Zenon
<1>2. /\ owner' = Released(g) /\ globalLock' = [globalLock EXCEPT ![t] = NoLock]
      /\ Top(t).kind \in {"root", "branch"}
  BY Zenon DEF ThreadEnds
<1>6. \A l \in Locks : HoldsIn(stack[t], g, l) <=> l = g
  BY <1>1, <1>2, TopFacts, TopSlots, OrderedEvalAssumption DEF HoldsIn
<1>8. OthersKeep(t) /\ SlotsKept(t)
  BY <1>1, <1>2, OrderedEvalAssumption DEF OthersKeep, SlotsKept, Data, Shape, OneIn,
     HoldsIn
<1>9. \A l \in Locks : HoldsIn(stack'[t], globalLock'[t], l) <=> HoldsIn(stack[t], globalLock[t], l) /\ l # g
  BY <1>1, <1>2, <1>6, OrderedEvalAssumption DEF Data, Shape, OneIn, HoldsIn
<1> QED
  BY <1>2, <1>8, <1>9, <1>6, LocksLose, Zenon

\* Every step keeps owners and slots in agreement.
LEMMA LocksStep ==
    ASSUME Shape, Data, Parents, LocksInv, [Next]_vars
    PROVE  LocksInv'
<1>1. ASSUME NEW t \in Threads, Running(t) PROVE LocksInv'
  <2>1. CASE \/ EndOfSequence(t) \/ Host(t) \/ Skip(t) \/ ActionSucceeds(t) \/ ActionFails(t)
             \/ ActionAborts(t) \/ DeliveryFailsLate(t) \/ SelectBlock(t)
    <3>2. Redo(t)
      BY <2>1, EndOfSequenceShape, HostShape, SkipShape, ActionSucceedsShape, ActionFailsShape,
         ActionAbortsShape, DeliveryFailsLateShape, SelectBlockShape, Zenon
    <3> QED
      BY <2>1, <3>2, LocksRedo, Zenon DEF EndOfSequence, Host, Skip, ActionSucceeds, ActionFails,
         ActionAborts, DeliveryFailsLate, SelectBlock, Selected, At
  <2>2. CASE RuntimeRc(t) \/ LockFile(t) \/ SelectWaitedCopy(t) \/ SelectUnwaitedCopy(t)
    BY <2>2, RuntimeRcLocks, LockFileLocks, SelectWaitedCopyLocks, SelectUnwaitedCopyLocks, Zenon
  <2>3. CASE EnterBlock(t) \/ ReturnBlock(t) \/ ReturnRc(t) \/ ReturnWaited(t) \/ ReturnParent(t)
    BY <2>3, EnterBlockLocks, ReturnBlockLocks, ReturnRcLocks, ReturnWaitedLocks, ReturnParentLocks, Zenon
  <2>4. CASE Unwind(t) \/ ThreadEnds(t)
    BY <2>4, UnwindLocks, ThreadEndsLocks, Zenon
  <2> QED
    BY <1>1, <2>1, <2>2, <2>3, <2>4, Zenon DEF Running
<1>2. CASE UNCHANGED vars
  BY <1>2, Zenon DEF vars, locks, LocksInv
<1> QED
  BY <1>1, <1>2, Zenon DEF Next, Terminated

\* What a thread holds is what HeldBy lists.
LEMMA HeldIs ==
    ASSUME Shape, NEW t \in Threads, NEW l \in Locks
    PROVE  l \in HeldBy(t) <=> HoldsIn(stack[t], globalLock[t], l)
<1>1. DOMAIN stack[t] = 1..Len(stack[t]) /\ StackFine(t)
  BY LenIs DEF Shape
<1>2. \A i \in 1..Len(stack[t]) : stack[t][i].kind # "waited" => stack[t][i].saved.lock = NoLock
  BY <1>1, Zenon DEF StackFine, FrameFine
<1>3. ASSUME NEW i \in 1..Len(stack[t])
      PROVE  l = stack[t][i].lock \/ l = stack[t][i].saved.lock <=>
             l \in {stack[t][i].lock} \cup
                   (IF stack[t][i].kind = "waited" THEN {stack[t][i].saved.lock} ELSE {})
  BY <1>2, OrderedEvalAssumption, Zenon
<1> QED
  BY <1>1, <1>3, Zenon DEF HeldBy, HoldsIn

\* Nothing is locked initially.
LEMMA LocksInit ==
    ASSUME Init
    PROVE  LocksInv
<1>1. /\ 0 \in Threads /\ Len(stack[0]) = 1
      /\ stack[0][1].lock = NoLock /\ stack[0][1].saved.lock = NoLock
      /\ \A t \in Threads : t # 0 => Len(stack[t]) = 0
  BY InitStack, Zenon
<1>2. /\ owner = [l \in Locks |-> Nobody] /\ globalLock = [t \in Threads |-> NoLock]
      /\ Nobody \notin Threads /\ NoLock \notin Locks
  BY ThreadFacts, OrderedEvalAssumption, Zenon DEF Init
<1>3. ASSUME NEW t \in Threads
      PROVE  OneIn(stack[t], NoLock) /\ \A l \in Locks : ~HoldsIn(stack[t], NoLock, l)
  <2>1. CASE t = 0
    BY <2>1, <1>1, <1>2 DEF OneIn, HoldsIn
  <2>2. CASE t # 0
    BY <2>2, <1>1, <1>2 DEF OneIn, HoldsIn
  <2> QED
    BY <2>1, <2>2, Zenon
<1> QED
  BY <1>2, <1>3, Zenon DEF LocksInv

\* Owners and slots agree in every reachable state.
LEMMA LocksInvariance == Spec => []LocksInv
<1>1. Init => LocksInv
  BY LocksInit, Zenon
<1>2. WellFormed /\ LocksInv /\ [Next]_vars => LocksInv'
  BY LocksStep, Zenon DEF WellFormed
<1> QED
  BY <1>1, <1>2, WellFormedInvariance, PTL DEF Spec

\* A lock file is held exactly as long as a scope that took it is alive, on every
\* path through Stop, HOST, SWITCHRC and errors, and nothing is held and no branch
\* runs when the run is over (LocalLockGuard, enter_copy_branch, leave_copy_branch).
THEOREM LocksStayScoped == Spec => []LocksScoped
<1>1. WellFormed /\ LocksInv => LocksScoped
  <2> SUFFICES ASSUME WellFormed, LocksInv PROVE LocksScoped
    BY Zenon
  <2>1. \A l \in Locks, t \in Threads : owner[l] = t <=> l \in HeldBy(t)
    BY HeldIs, Zenon DEF WellFormed, LocksInv
  <2>2. ASSUME mode[0] = "done"
        PROVE  /\ \A l \in Locks : owner[l] = Nobody
               /\ \A t \in Threads : mode[t] \in {"idle", "done"}
    <3>1. \A t \in Threads : mode[t] \in {"idle", "done"}
      BY <2>2, LastOneOut, Zenon
    <3>2. ASSUME NEW l \in Locks, owner[l] \in Threads PROVE FALSE
      <4> DEFINE u == owner[l]
      <4>1. mode[u] \in {"idle", "done"} /\ HoldsIn(stack[u], globalLock[u], l)
        BY <3>1, <3>2, Zenon DEF LocksInv
      <4>2. globalLock[u] = NoLock /\ Len(stack[u]) = 0
        BY <3>2, <4>1, Zenon DEF WellFormed, LocksInv, Shape, ModeFine
      <4> QED
        BY <4>1, <4>2, OrderedEvalAssumption DEF HoldsIn
    <3> QED
      BY <3>1, <3>2, Zenon DEF WellFormed, Data
  <2> QED
    BY <2>1, <2>2, Zenon DEF LocksScoped
<1> QED
  BY <1>1, WellFormedInvariance, LocksInvariance, PTL

-----------------------------------------------------------------------------
\* The message of the original path.

\* Thread t goes on, enters f or goes back: the copy branches of its stack.
LEMMA EditsRedo ==
    ASSUME Shape, NEW t \in Threads, mode[t] \notin {"idle", "done"}, Redo(t),
           NEW e, NEW o, NEW x, NEW y, EditsAre(stack[t], e, o),
           \/ x = e /\ y = o
           \/ ~NoneWaited(stack[t]) /\ y = o
           \/ NoneWaited(stack[t]) /\ x = y
    PROVE  EditsAre(stack'[t], x, y)
<1> DEFINE s == stack[t]
           r == stack'[t]
           n == Len(stack[t])
<1>1. n \in Nat /\ Len(s) = n /\ Len(r) = n /\ \A i \in 1..n : Kept(s[i], r[i])
  BY RedoFacts, TopFacts, Zenon
<1> HIDE DEF s, r, n
<1>4. \A i \in 1..n : FirstWaited(s, i) => ~NoneWaited(s)
  BY <1>1, Zenon DEF FirstWaited, NoneWaited
<1> QED
  BY <1>1, FirstsSame, <1>4, Zenon DEF EditsAre, r, Kept, s

\* A waited branch puts the message of the original path aside.
LEMMA EditsEnter ==
    ASSUME Shape, NEW t \in Threads, mode[t] \notin {"idle", "done"},
           NEW f \in Frame, Pushed(stack[t], stack'[t], f),
           NEW e, NEW o, EditsAre(stack[t], e, o),
           f.kind = "waited" => f.saved.edits = e
    PROVE  EditsAre(stack'[t], e, o)
<1> DEFINE s == stack[t]
           r == stack'[t]
           n == Len(stack[t])
<1>1. n \in Nat /\ Len(s) = n /\ Pushed(s, r, f)
  BY TopFacts, Zenon
<1>2. Len(r) = n + 1 /\ r[n + 1] = f /\ \A i \in 1..n : r[i] = s[i]
  BY Zenon DEF Pushed
<1> HIDE DEF s, r, n
<1>3. /\ NoneWaited(r) <=> NoneWaited(s) /\ f.kind # "waited"
      /\ \A i \in 1..n : FirstWaited(r, i) <=> FirstWaited(s, i)
      /\ FirstWaited(r, n + 1) <=> NoneWaited(s) /\ f.kind = "waited"
  BY <1>1, FirstsPush, Zenon
<1>4. EditsAre(s, e, o)
  BY Zenon DEF s
<1>5. ASSUME NEW i \in 1..Len(r), FirstWaited(r, i) PROVE r[i].saved.edits = o
  <2>1. CASE i = n + 1
    BY <2>1, <1>2, <1>3, <1>4, <1>5, Zenon DEF EditsAre
  <2>2. CASE i # n + 1
    BY <2>2, <1>1, <1>2, <1>3, <1>4, <1>5 DEF EditsAre
  <2> QED
    BY <2>1, <2>2, Zenon
<1> QED
  BY <1>3, <1>4, <1>5, Zenon DEF EditsAre, r

\* Leaving a waited branch brings it back.
LEMMA EditsBack ==
    ASSUME Shape, NEW t \in Threads, mode[t] \notin {"idle", "done"},
           Top(t).kind \notin {"root", "branch"}, Back(t),
           NEW e, NEW o, NEW x, EditsAre(stack[t], e, o),
           x = IF Top(t).kind = "waited" THEN Top(t).saved.edits ELSE e
    PROVE  EditsAre(stack'[t], x, o)
<1> DEFINE s == stack[t]
           r == stack'[t]
           n == Len(stack[t])
<1>1. /\ n \in Nat /\ n > 0 /\ Len(s) = n /\ Len(r) = n - 1 /\ Top(t) = s[n]
      /\ \A i \in 1..(n - 1) : Kept(s[i], r[i])
  BY BackFacts, TopFacts, Zenon
<1> HIDE DEF s, r, n
<1>4. NoneWaited(r) => x = o
  <2>1. /\ NoneWaited(r) /\ s[n].kind = "waited" => FirstWaited(s, n)
        /\ NoneWaited(r) /\ s[n].kind # "waited" => NoneWaited(s)
    BY <1>1, FirstsPop, Zenon
  <2>2. n \in 1..Len(s)
    BY <1>1
  <2> QED
    BY <1>1, <2>1, <2>2, Zenon DEF EditsAre, s
<1>5. ASSUME NEW i \in 1..(n - 1), FirstWaited(r, i) PROVE r[i].saved.edits = o
  <2>1. i \in 1..n /\ r[i].saved = s[i].saved
    BY <1>1 DEF Kept
  <2> QED
    BY <2>1, <1>1, FirstsPop, <1>5, Zenon DEF EditsAre, s
<1> QED
  BY <1>1, <1>4, <1>5, Zenon DEF EditsAre, r

\* Every step keeps the message of the original path apart from those of the
\* branches.
LEMMA IsolatedStep ==
    ASSUME Shape, Data, Parents, Isolated, [Next]_vars
    PROVE  Isolated'
<1> DEFINE e == edits[0]
           o == history.original
<1>1. 0 \in Threads /\ history \in Observed /\ edits \in [Threads -> Nat]
  BY ThreadFacts, Zenon DEF Data
<1>2. ASSUME NEW t \in Threads, Running(t) PROVE Isolated'
  <2>1. ASSUME t # 0, stack'[0] = stack[0], edits'[0] = edits[0], history'.original = history.original
        PROVE  Isolated'
    BY <2>1, Zenon DEF Isolated
  <2>2. CASE \/ EndOfSequence(t) \/ Host(t) \/ LockFile(t) \/ Skip(t)
             \/ ActionFails(t) \/ ActionAborts(t) \/ DeliveryFailsLate(t) \/ SelectBlock(t)
    <3>1. /\ mode[t] \notin {"idle", "done"} /\ edits' = edits
          /\ history'.original = history.original
      BY <1>1, <2>2, Zenon DEF EndOfSequence, Host, LockFile, Skip, ActionFails, ActionAborts,
                  DeliveryFailsLate, SelectBlock, Selected, At, context, Observed
    <3>2. Redo(t) /\ \A u \in Threads \ {t} : stack'[u] = stack[u]
      BY <2>2, <3>1, EndOfSequenceShape, HostShape, LockFileShape, SkipShape,
         ActionFailsShape, ActionAbortsShape, DeliveryFailsLateShape, SelectBlockShape,
         RedoFacts, Zenon
    <3> QED
      BY <2>1, <3>1, <3>2, <1>1, EditsRedo, Zenon DEF Isolated, Observed
  <2>3. CASE ActionSucceeds(t)
    <3> DEFINE own == Item(Top(t)).op = "edit" /\ OnOriginal(t)
    <3>1. /\ mode[t] \notin {"idle", "done"} /\ Redo(t)
          /\ edits' = [edits EXCEPT ![t] = @ + (IF Item(Top(t)).op = "edit" THEN 1 ELSE 0)]
      BY <2>3, ActionSucceedsShape, Zenon DEF ActionSucceeds, Selected, At
    <3>4. CASE t # 0
      BY <2>1, <3>1, <2>3, <1>1, <3>4, RedoFacts DEF ActionSucceeds, Observed, OnOriginal,
         NoneWaited
    <3>5. CASE t = 0
      <4>3. \/ edits'[0] = e /\ history'.original = o
            \/ ~NoneWaited(stack[0]) /\ history'.original = o
            \/ NoneWaited(stack[0]) /\ edits'[0] = history'.original
        BY <2>3, <1>1, <3>5, <3>1 DEF ActionSucceeds, Observed, OnOriginal, NoneWaited,
           Isolated, EditsAre
      <4> QED
        BY <3>1, <3>5, <4>3, EditsRedo, Zenon DEF Isolated
    <3> QED
      BY <3>4, <3>5, Zenon
  <2>4. CASE RuntimeRc(t) \/ EnterBlock(t)
    <3>3. CASE Redo(t)
      BY <2>1, <2>4, <3>3, <1>1, RedoFacts, EditsRedo, Zenon DEF Isolated, RuntimeRc, EnterBlock,
         At, context
    <3>4. ASSUME NEW f \in Frame, Enters(t, f), f.kind # "waited" PROVE Isolated'
      BY <2>1, <2>4, <3>4, <1>1, EntersFacts, EditsEnter, Zenon DEF Isolated, RuntimeRc,
         EnterBlock, At, context
    <3> QED
      BY <2>4, RuntimeRcShape, EnterBlockShape, <3>3, <3>4, Zenon
  <2>5. CASE SelectWaitedCopy(t)
    <3>1. Selected(t, {"block"}) /\ edits' = edits /\ history' = history
      BY <2>5, Zenon DEF SelectWaitedCopy
    <3>2. /\ mode[t] \notin {"idle", "done"} /\ WaitedFrame(t) \in Frame
          /\ WaitedFrame(t).saved.edits = edits[t] /\ Enters(t, WaitedFrame(t))
      BY <2>5, <3>1, SelectedFacts, WaitedFrameIs, SelectWaitedCopyShape, Zenon
    <3> QED
      BY <2>1, <3>1, <3>2, <1>1, EntersFacts, EditsEnter, Zenon DEF Isolated
  <2>6. CASE SelectUnwaitedCopy(t)
    <3>1. Selected(t, {"block"}) /\ history' = history /\ started \in 0..MaxBranches
      BY <2>6, Zenon DEF SelectUnwaitedCopy, Data
    <3>2. mode[t] \notin {"idle", "done"} /\ started + 1 # 0
      BY <3>1, SelectedFacts, OrderedEvalAssumption
    <3>3. CASE Redo(t) /\ UNCHANGED <<started, edits>>
      BY <2>1, <3>1, <3>2, <3>3, <1>1, RedoFacts, EditsRedo, Zenon DEF Isolated
    <3>4. CASE /\ started + 1 \in Threads \ {t}
               /\ Forks(t, started + 1, ParentFrame(t), BranchFrame(t))
               /\ edits' = [edits EXCEPT ![started + 1] = edits[t]]
      <4>2. CASE t # 0
        BY <2>1, <3>1, <3>2, <3>4, <1>1, <4>2, Zenon DEF Forks
      <4>3. CASE t = 0
        BY <3>1, <3>2, <3>4, <1>1, <4>3, ParentFrameIs, EditsEnter, Zenon DEF Isolated, Forks,
           Pushed
      <4> QED
        BY <4>2, <4>3, Zenon
    <3> QED
      BY <2>6, <3>1, <3>3, <3>4, SelectUnwaitedCopyShape, Zenon
  <2>7. CASE ReturnBlock(t) \/ ReturnRc(t) \/ ReturnWaited(t) \/ ReturnParent(t) \/ Unwind(t)
    <3>1. /\ mode[t] \notin {"idle", "done"} /\ Top(t).kind \notin {"root", "branch"}
          /\ history' = history
          /\ edits' = IF Top(t).kind = "waited" THEN [edits EXCEPT ![t] = Top(t).saved.edits] ELSE edits
      BY <2>7, Zenon DEF ReturnBlock, ReturnRc, ReturnWaited, ReturnParent, Unwind, Returning, LeaveCopy, context
    <3>3. CASE t # 0
      BY <2>1, <3>1, <2>7, ReturnBlockShape, ReturnRcShape, ReturnWaitedShape,
         ReturnParentShape, UnwindShape, <3>3, <1>1, BackFacts, Zenon
    <3>4. CASE t = 0
      BY <3>1, <2>7, ReturnBlockShape, ReturnRcShape, ReturnWaitedShape,
         ReturnParentShape, UnwindShape, <3>4, <1>1, EditsBack, Zenon DEF Isolated
    <3> QED
      BY <3>3, <3>4, Zenon
  <2>8. CASE ThreadEnds(t)
    <3>1. edits' = edits /\ history' = history /\ Top(t).kind \in {"root", "branch"}
      BY <2>8, Zenon DEF ThreadEnds, context
    <3>2. /\ Len(stack[t]) = 1 /\ mode[t] \in {"return", "unwind"} /\ Len(stack'[t]) = 0
          /\ \A u \in Threads \ {t} : stack'[u] = stack[u]
      BY <2>8, ThreadEndsShape, Zenon
    <3>5. CASE t # 0
      BY <2>1, <3>1, <3>2, <3>5, <1>1, Zenon
    <3>6. CASE t = 0
      BY <3>1, <3>2, TopFacts, <3>6 DEF Isolated, EditsAre, NoneWaited
    <3> QED
      BY <3>5, <3>6, Zenon
  <2> QED
    BY <1>2, <2>2, <2>3, <2>4, <2>5, <2>6, <2>7, <2>8, Zenon DEF Running
<1>3. CASE UNCHANGED vars
  BY <1>3, Zenon DEF vars, context, Isolated
<1> QED
  BY <1>2, <1>3, Zenon DEF Next, Terminated

\* The edits of the original path, by that path alone: what a copy branch does to
\* its message never reaches the original, in whatever order the branches run
\* (the saved and forked state of both kinds of copy block).
THEOREM OriginalStaysIsolated == Spec => []OriginalIsolated
<1>1. Init => Isolated
  <2> SUFFICES ASSUME Init PROVE Isolated
    BY Zenon
  <2>1. 0 \in Threads /\ Len(stack[0]) = 1 /\ stack[0][1].kind = "root"
    BY InitStack, Zenon
  <2>2. edits[0] = 0 /\ history.original = 0
    BY <2>1 DEF Init
  <2> QED
    BY <2>1, <2>2 DEF Isolated, EditsAre, FirstWaited
<1>2. WellFormed /\ Isolated /\ [Next]_vars => Isolated'
  BY IsolatedStep, Zenon DEF WellFormed
<1>3. Isolated => OriginalIsolated
  BY Zenon DEF Isolated, EditsAre, NoneWaited, OriginalIsolated, OnOriginal
<1> QED
  BY <1>1, <1>2, <1>3, WellFormedInvariance, PTL DEF Spec

-----------------------------------------------------------------------------
\* What a step does to a chain.

\* A recipe that ran closes its chain, or no E recipe follows it.
LEMMA RecordKeepsElse ==
    ASSUME prog \in Programs, NEW f \in Frame, FrameFine(prog, f), AtItem(prog, f),
           Item(f).op \in Recipes, ElseFine(prog, f),
           NEW matched \in BOOLEAN, matched => ExecutionGate(Item(f).ctl, f.state),
           NEW action \in ActionExecution, NEW handled \in BOOLEAN, NEW control,
           matched => handled \/ NoElseFrom(prog, f.seq, f.at + 1),
           Item(f).ctl = "E" /\ f.state.previous.handled => handled
    PROVE  LET g == Recorded(f, matched, action, handled, control) IN
           g.ran <= 1 /\ (control = "continue" => ElseFine(prog, g))
<1> DEFINE g == Recorded(f, matched, action, handled, control)
<1>1. /\ g.ran = (IF Item(f).ctl = "E" THEN f.ran ELSE 0) + (IF matched THEN 1 ELSE 0)
      /\ g.state = Record(f.state, Item(f).ctl, matched, action, handled) /\ g.seq = f.seq
      /\ control = "continue" => g.at = f.at + 1
  BY RecordedIs DEF Kept
<1>2. f.ran \in Nat /\ f.at \in Nat /\ f.at >= 1 /\ f.at <= Len(prog[f.seq]) /\ Len(prog[f.seq]) \in Nat
      /\ f.state \in SequenceState /\ Chained(f.state) /\ Item(f).ctl \in ControlFlow
  BY FrameFields, ProgramFacts, ItemFacts DEF FrameFine, AtItem
<1>4. Item(f).ctl = "E" => ~NoElseFrom(prog, f.seq, f.at)
  BY <1>2 DEF NoElseFrom, Item
<1> HIDE DEF g
<1> QED
  BY <1>1, <1>4, <1>2, RecordIs DEF g, ElseFine, ExecutionGate

\* A statement between two recipes changes nothing.
LEMMA AdvanceKeepsElse ==
    ASSUME prog \in Programs, NEW f \in Frame, FrameFine(prog, f), AtItem(prog, f),
           Item(f).op \notin Recipes, ElseFine(prog, f)
    PROVE  ElseFine(prog, Advanced(f))
<1> DEFINE g == Advanced(f)
<1> HIDE DEF g
<1>3. ASSUME NoElseFrom(prog, f.seq, f.at) PROVE NoElseFrom(prog, f.seq, f.at + 1)
  <2> DEFINE q == prog[f.seq]
             a == f.at
  <2>1. a \in Nat /\ Len(q) \in Nat /\ q[a].op \notin Recipes
    BY FrameFields, ProgramFacts, Zenon DEF Item, FrameFine
  <2>2. \A j \in a..Len(q) : q[j].op \in Recipes /\ q[j].ctl = "E" => \E k \in a..(j - 1) : q[k].op \in Recipes
    BY <1>3, Zenon DEF NoElseFrom
  <2> HIDE DEF q, a
  <2>3. ASSUME NEW j \in (a + 1)..Len(q), q[j].op \in Recipes, q[j].ctl = "E"
        PROVE  \E k \in (a + 1)..(j - 1) : q[k].op \in Recipes
    <3>1. PICK k \in a..(j - 1) : q[k].op \in Recipes
      BY <2>1, <2>2, <2>3
    <3> QED
      BY <3>1, <2>1
  <2> QED
    BY <2>3, Zenon DEF NoElseFrom, q, a
<1> QED
  BY AdvancedIs, <1>3, Zenon DEF ElseFine, g, Kept, Advanced, Frame

\* Frame n of a thread goes on as g, in mode m.
LEMMA ElseMove ==
    ASSUME Shape, Elses, prog' = prog, NEW t \in Threads, NEW n \in 1..Len(stack[t]),
           NEW g \in Frame, Kept(stack[t][n], g), NEW m, m # "copy", Moves(t, n, g, m),
           g.ran <= 1, m \notin {"return", "unwind"} => ElseFine(prog, g)
    PROVE  Elses'
<1> DEFINE s == stack[t]
           r == stack'[t]
<1>1. /\ Len(r) = n /\ r[n] = g /\ \A i \in 1..(n - 1) : r[i] = s[i]
      /\ \A u \in Threads \ {t} : stack'[u] = stack[u] /\ mode'[u] = mode[u]
      /\ mode'[t] = m /\ Len(s) \in Nat /\ n \in Nat /\ n <= Len(s) /\ n >= 1
  <2>1. Len(s) \in Nat
    BY LenIs, Zenon DEF Shape
  <2>2. n \in Nat /\ n <= Len(s) /\ n >= 1
    BY <2>1
  <2>3. Len(r) = n /\ r[n] = g /\ \A i \in 1..(n - 1) : r[i] = s[i]
    BY Zenon DEF Moves, Reframed
  <2>4. \A u \in Threads \ {t} : stack'[u] = stack[u]
    BY Zenon DEF Moves, Reframed
  <2>5. mode'[t] = m /\ \A u \in Threads \ {t} : mode'[u] = mode[u]
    BY Zenon DEF Moves, Shape
  <2> QED
    BY <2>1, <2>2, <2>3, <2>4, <2>5, Zenon
<1>2. ElseStack(prog, s, mode[t])
  BY Zenon DEF Elses
<1> HIDE DEF s, r
<1>3. \A i \in 1..n : r[i].kind = s[i].kind /\ r[i].handled = s[i].handled
  <2>1. g.kind = s[n].kind /\ g.handled = s[n].handled
    BY Zenon DEF Kept, s
  <2>2. \A i \in 1..n : i = n \/ i \in 1..(n - 1)
    BY <1>1
  <2> QED
    BY <1>1, <2>1, <2>2, Zenon
<1>4. \A i \in 1..n : r[i].ran <= 1
  <2>1. \A i \in 1..n : i = n \/ (i \in 1..(n - 1) /\ i \in 1..Len(s))
    BY <1>1
  <2> QED
    BY <1>1, <1>2, <2>1, Zenon DEF ElseStack
<1>5. ASSUME NEW i \in 1..n, i < n \/ m \notin {"return", "unwind"} PROVE ElseFine(prog, r[i])
  <2>1. CASE i = n
    BY <1>1, <1>5, <2>1
  <2>2. CASE i # n
    BY <1>1, <1>2, <1>5, <2>2 DEF ElseStack
  <2> QED
    BY <2>1, <2>2, Zenon
<1>6. \A i \in 1..n : r[i].kind \in {"waited", "parent"} => r[i].handled
  BY <1>1, <1>2, <1>3 DEF ElseStack
<1>7. ASSUME NEW i \in 1..(n - 1) PROVE EnteredAt(prog, r[i], r[i + 1])
  <2>1. i \in 1..(Len(s) - 1) /\ i + 1 \in 1..n /\ r[i] = s[i]
    BY <1>1, <1>7
  <2> QED
    BY <1>2, <1>3, <2>1, Zenon DEF ElseStack, EnteredAt
<1>8. ElseStack(prog, r, m)
  BY <1>1, <1>4, <1>5, <1>6, <1>7, Zenon DEF ElseStack
<1> QED
  BY <1>1, <1>8, Zenon DEF Elses, r

\* A thread enters f.
LEMMA ElsePush ==
    ASSUME NEW p, NEW s, NEW r, NEW f, NEW m, NEW k, Pushed(s, r, f), Len(s) \in Nat, Len(s) > 0,
           ElseStack(p, s, k), k \notin {"return", "unwind"}, ElseFine(p, f),
           f.kind \in {"waited", "parent"} => f.handled,
           EnteredAt(p, s[Len(s)], f), m = "copy" => AtCopy(p, f)
    PROVE  ElseStack(p, r, m)
<1> DEFINE n == Len(s)
<1>1. n \in Nat /\ n > 0 /\ Len(s) = n /\ Len(r) = n + 1 /\ r[n + 1] = f /\ \A i \in 1..n : r[i] = s[i]
  BY Zenon DEF Pushed
<1> HIDE DEF n
<1>3. \A i \in 1..(n + 1) : ElseFine(p, r[i])
  <2>2. \A i \in 1..n : ElseFine(p, s[i])
    BY <1>1, Zenon DEF ElseStack
  <2> QED
    BY <1>1, <2>2
<1>5. \A i \in 1..(n + 1) : r[i].kind \in {"waited", "parent"} => r[i].handled
  <2>1. \A i \in 1..(n + 1) : i = n + 1 \/ i \in 1..n
    BY <1>1
  <2> QED
    BY <1>1, <2>1, Zenon DEF ElseStack
<1>6. ASSUME NEW i \in 1..n PROVE EnteredAt(p, r[i], r[i + 1])
  <2>1. CASE i = n
    BY <1>1, <2>1, Zenon
  <2>2. CASE i # n
    <3>1. i \in 1..(Len(s) - 1) /\ i + 1 \in 1..n
      BY <1>1, <1>6, <2>2
    <3> QED
      BY <1>1, <3>1, Zenon DEF ElseStack
  <2> QED
    BY <2>1, <2>2, Zenon
<1>7. (n + 1) - 1 = n
  BY <1>1
<1> QED
  BY <1>1, <1>3, <1>5, <1>6, <1>7, Zenon DEF ElseStack, ElseFine

\* The recipe at frame n of a thread is done.
LEMMA ElseDone ==
    ASSUME Shape, Elses, prog' = prog, NEW t \in Threads, NEW n, NEW rest, NEW frame,
           Below(t, n, rest, frame), AtItem(prog, frame),
           Item(frame).op \in Recipes, ElseFine(prog, frame),
           NEW matched \in BOOLEAN, matched => ExecutionGate(Item(frame).ctl, frame.state),
           NEW action \in ActionExecution, NEW handled \in BOOLEAN, NEW control \in Controls,
           matched => handled \/ NoElseFrom(prog, frame.seq, frame.at + 1),
           Item(frame).ctl = "E" /\ frame.state.previous.handled => handled,
           RecipeDone(t, rest, frame, matched, action, handled, control)
    PROVE  Elses'
<1> DEFINE f == Recorded(frame, matched, action, handled, control)
           m == IF control = "continue" THEN "run" ELSE "return"
<1>1. Moves(t, n, f, m) /\ Kept(stack[t][n], f) /\ f \in Frame
  BY DoneMoves
<1>3. f.ran <= 1 /\ (control = "continue" => ElseFine(prog, f))
  BY RecordKeepsElse, Zenon DEF Below, Shape
<1>4. m # "copy" /\ (m \notin {"return", "unwind"} => control = "continue")
  BY Zenon
<1> HIDE DEF f, m
<1> QED
  BY <1>1, <1>3, <1>4, ElseMove, Zenon DEF Below, Shape

\* The frames of a thread at work, and those that wait for another one.
LEMMA ElseTop ==
    ASSUME Shape, Elses, NEW t \in Threads, mode[t] \notin {"idle", "done"}
    PROVE  /\ Top(t).ran <= 1
           /\ mode[t] \notin {"return", "unwind"} => ElseFine(prog, Top(t))
           /\ mode[t] = "copy" => Item(Top(t)).copy
           /\ Top(t).kind \in {"waited", "parent"} => Top(t).handled
<1>2. ElseStack(prog, stack[t], mode[t]) /\ Len(stack[t]) \in 1..Len(stack[t])
  BY TopFacts DEF Elses
<1> QED
  BY TopFacts, <1>2, Zenon DEF ElseStack, AtCopy, Item

\* The caller of an activation waits at an item of its kind.
LEMMA ElseCaller ==
    ASSUME Shape, Elses, NEW t \in Threads, mode[t] \notin {"idle", "done"},
           Top(t).kind \notin {"root", "branch"}
    PROVE  /\ ElseFine(prog, Caller(t))
           /\ Top(t).kind = "block" => Top(t).handled \/ Item(Caller(t)).copy
           /\ Top(t).kind \in {"include", "switch"} => Item(Caller(t)).op \notin Recipes
<1> DEFINE n == Len(stack[t]) - 1
<1>1. /\ n \in 1..Len(stack[t]) /\ n < Len(stack[t]) /\ n \in 1..(Len(stack[t]) - 1)
      /\ Caller(t) = stack[t][n] /\ Top(t) = stack[t][n + 1]
  BY TopFacts, CallerFacts
<1> HIDE DEF n
<1> QED
  BY <1>1, Zenon DEF Item, ElseStack, EnteredAt, AtCopy, AtRecipe, Elses

\* Nothing follows a copy block that it could exclude.
LEMMA CopyExcludes ==
    ASSUME prog \in Programs, NoElseAfterCopy(prog), NEW f \in Frame, FrameFine(prog, f),
           AtItem(prog, f), Item(f).op = "block", Item(f).copy
    PROVE  NoElseFrom(prog, f.seq, f.at + 1)
<1>1. f.seq \in DOMAIN prog /\ f.at \in 1..Len(prog[f.seq])
  BY FrameFields, ProgramFacts DEF FrameFine, AtItem
<1> QED
  BY <1>1, Zenon DEF NoElseAfterCopy, Item

\* A thread leaves a sequence, or an error is raised.
LEMMA ElseLeave ==
    ASSUME Shape, Elses, prog' = prog, NEW t \in Threads, NEW n, NEW rest, NEW frame,
           Below(t, n, rest, frame), frame.ran <= 1, NEW control \in Controls,
           Leave(t, rest, frame, control)
    PROVE  Elses'
<1> DEFINE m == "return"
<1> HIDE DEF m
<1> QED
  BY LeaveMoves, ElseMove, Zenon DEF Below

\* A statement is done and the thread goes on behind it.
LEMMA ElseAdvance ==
    ASSUME Shape, Elses, prog' = prog, NEW t \in Threads, NEW n, NEW rest, NEW frame,
           Below(t, n, rest, frame), AtItem(prog, frame), ElseFine(prog, frame),
           Item(frame).op \notin Recipes, Advance(t, rest, frame)
    PROVE  Elses'
<1> DEFINE g == Advanced(frame)
           m == "run"
<1>1. Moves(t, n, g, m) /\ Kept(stack[t][n], g) /\ g \in Frame
  BY AdvanceMoves, Zenon
<1>3. ElseFine(prog, g)
  BY AdvanceKeepsElse, Zenon DEF Below, Shape
<1>4. g.ran <= 1 /\ m # "copy"
  BY <1>3, Zenon DEF ElseFine
<1> HIDE DEF g, m
<1> QED
  BY <1>1, <1>3, <1>4, ElseMove, Zenon DEF Below, Shape

\* The frames stay as they are.
LEMMA ElseSame ==
    ASSUME Shape, Elses, prog' = prog, NEW t \in Threads, mode[t] \notin {"idle", "done", "return", "unwind"},
           NEW m, m # "copy", stack' = stack, mode' = [mode EXCEPT ![t] = m]
    PROVE  Elses'
BY Zenon DEF Elses, Shape, ElseStack

\* An error leaves the frames to the error path.
LEMMA ElseRaise ==
    ASSUME Shape, Elses, prog' = prog, NEW t \in Threads, mode[t] = "run", NEW error, Raise(t, error)
    PROVE  Elses'
<1> DEFINE m == "unwind"
<1> HIDE DEF m
<1> QED
  BY ElseSame, Zenon DEF Raise, SetMode

\* A thread enters the activation f.
LEMMA ElseEnter ==
    ASSUME Shape, Elses, prog' = prog, NEW t \in Threads, mode[t] \in {"run", "block", "copy"},
           NEW f \in Frame, Enters(t, f), ElseFine(prog, f),
           f.kind \in {"waited", "parent"} => f.handled,
           f.kind = "block" => f.handled \/ Item(Top(t)).copy,
           f.kind \in {"include", "switch"} => Item(Top(t)).op \notin Recipes,
           mode'[t] = "copy" => Item(f).copy
    PROVE  Elses'
<1> DEFINE s == stack[t]
           r == stack'[t]
           k == mode[t]
           m == mode'[t]
<1>1. Len(s) \in Nat /\ Len(s) > 0 /\ Top(t) = s[Len(s)]
  BY TopFacts, Zenon
<1>2. /\ Pushed(s, r, f) /\ \A u \in Threads \ {t} : stack'[u] = stack[u] /\ mode'[u] = mode[u]
  BY EntersFacts, Zenon
<1>3. ElseStack(prog, s, k) /\ k \notin {"return", "unwind"}
  BY Zenon DEF Elses
<1>4. EnteredAt(prog, s[Len(s)], f) /\ (m = "copy" => AtCopy(prog, f))
  BY <1>1, Zenon DEF EnteredAt, AtCopy, AtRecipe, Item
<1> HIDE DEF s, r, k, m
<1>5. ElseStack(prog, r, m)
  BY <1>1, <1>2, <1>3, <1>4, ElsePush, Zenon
<1> QED
  BY <1>2, <1>5, Zenon DEF Elses, r, m

\* A thread forks.
LEMMA ElseFork ==
    ASSUME Shape, Elses, prog' = prog, NEW t \in Threads, mode[t] = "run",
           NEW u \in Threads \ {t},
           NEW f \in Frame, f.kind = "parent", f.handled, f.ran = 0,
           NEW b \in Frame, b.kind = "branch", ElseFine(prog, b), Item(b).copy,
           Forks(t, u, f, b)
    PROVE  Elses'
<1> DEFINE s == stack[t]
           r == stack'[t]
           k == mode[t]
<1>1. Len(s) \in Nat /\ Len(s) > 0 /\ mode \in [Threads -> Modes]
  BY TopFacts, Zenon DEF Shape
<1>2. /\ Pushed(s, r, f) /\ Len(stack'[u]) = 1 /\ stack'[u][1] = b
      /\ mode'[u] = "copy" /\ mode'[t] = k
      /\ \A v \in Threads \ {t, u} : stack'[v] = stack[v] /\ mode'[v] = mode[v]
  BY <1>1, Zenon DEF Forks, Pushed
<1>3. ElseStack(prog, s, k) /\ k \notin {"return", "unwind"} /\ k # "copy"
  BY Zenon DEF Elses
<1>4. ElseFine(prog, f) /\ EnteredAt(prog, s[Len(s)], f)
  BY DEF ElseFine, EnteredAt
<1> HIDE DEF s, r, k
<1>6. ElseStack(prog, stack'[u], mode'[u])
  BY <1>2 DEF ElseStack, ElseFine, AtCopy, Item
<1>8. ElseStack(prog, stack'[t], mode'[t])
  BY <1>2, <1>1, <1>3, <1>4, ElsePush, Zenon DEF r
<1> QED
  BY <1>6, <1>2, <1>8, Zenon DEF Elses

-----------------------------------------------------------------------------
\* Every action keeps the chains.

\* The frames below the top are dropped on the error path.
LEMMA ElseDrop ==
    ASSUME Shape, Elses, prog' = prog, NEW t \in Threads, mode[t] \notin {"idle", "done"},
           Top(t).kind \notin {"root", "branch"},
           stack' = [stack EXCEPT ![t] = Rest(t)], mode' = [mode EXCEPT ![t] = "unwind"]
    PROVE  Elses'
<1> DEFINE n == Len(stack[t]) - 1
           g == Caller(t)
           m == "unwind"
<1>1. /\ Len(stack[t]) > 1 /\ g = stack[t][n] /\ g \in Frame /\ stack \in [Threads -> Seq(Frame)]
      /\ n \in 1..Len(stack[t])
  BY CallerFacts, TopFacts
<1>2. Moves(t, n, g, m)
  BY <1>1, ReframedDrop, Zenon DEF Moves
<1>3. g.ran <= 1 /\ Kept(stack[t][n], g) /\ m # "copy" /\ ~(m \notin {"return", "unwind"})
  BY <1>1, ElseCaller, KeptSame, Zenon DEF ElseFine
<1> HIDE DEF n, g, m
<1> QED
  BY <1>1, <1>2, <1>3, ElseMove, Zenon

\* A push makes the stack longer, so the top activation does not just go on.
LEMMA PushIsNoRedo ==
    ASSUME Shape, NEW t \in Threads, mode[t] \notin {"idle", "done"}, NEW f \in Frame, stack' = Push(t, f)
    PROVE  ~Redo(t)
BY TopFacts, ReframedPush, RedoFacts DEF Reframed

\* A matching recipe counts as handled; one that is skipped is what its chain is.
LEMMA HandledMeans ==
    ASSUME NEW t
    PROVE  /\ Handled(t, TRUE) = TRUE
           /\ Item(Top(t)).ctl = "E" /\ Top(t).state.previous.handled => Handled(t, FALSE)
  BY Zenon DEF Handled, ElseHandled

\* The recipe that a caller waits for is done.
LEMMA ElseCallerDone ==
    ASSUME Shape, Elses, NoElseAfterCopy(prog), prog' = prog, NEW t \in Threads, mode[t] = "return",
           Top(t).kind \in {"block", "waited", "parent"},
           NEW action \in ActionExecution, NEW control \in Controls,
           RecipeDone(t, CallerRest(t), Caller(t), TRUE, action, Top(t).handled, control)
    PROVE  Elses'
<1> DEFINE f == Caller(t)
           q == CallerRest(t)
           n == Len(stack[t]) - 1
           h == Top(t).handled
           y == TRUE
<1>1. /\ Below(t, n, q, f) /\ AtItem(prog, f) /\ AtOpenBlock(prog, f) /\ f \in Frame
      /\ FrameFine(prog, f) /\ prog \in Programs /\ h \in BOOLEAN /\ y \in BOOLEAN
  BY BelowCaller, CallerFacts, TopFacts, FrameFields, Zenon
<1>2. Item(f).op = "block" /\ ExecutionGate(Item(f).ctl, f.state)
  BY <1>1, Zenon DEF AtOpenBlock, Item
<1>3. ElseFine(prog, f) /\ (h \/ Item(f).copy)
  BY ElseCaller, ElseTop, Zenon
<1>6. RecipeDone(t, q, f, y, action, h, control) /\ Item(f).op \in Recipes
  BY <1>2, Zenon DEF Recipes
<1> HIDE DEF f, q, n, h, y
<1> QED
  BY <1>1, <1>2, <1>3, CopyExcludes, <1>6, ElseDone, Zenon DEF ExecutionGate

\* Every step keeps at most one executed recipe per chain.
LEMMA ElsesStep ==
    ASSUME Shape, Data, Parents, NoElseAfterCopy(prog), Elses, [Next]_vars
    PROVE  Elses'
<1>1. ASSUME NEW t \in Threads, Running(t) PROVE Elses'
  <2>1. CASE EndOfSequence(t)
    BY <2>1, BelowTop, ElseTop, ElseLeave, Zenon DEF EndOfSequence, Controls
  <2>2. CASE Host(t)
    <3>1. CASE Raise(t, "evaluation")
      BY <2>2, <3>1, ElseRaise, Zenon DEF Host, At
    <3>2. CASE ~Raise(t, "evaluation")
      BY <2>2, <3>2, AtFacts, ElseTop, ElseAdvance, ElseLeave DEF Host, Recipes, Controls
    <3> QED
      BY <3>1, <3>2, Zenon
  <2>3. CASE RuntimeRc(t)
    <3>1. At(t, {"include", "switch"}) /\ prog' = prog
      BY <2>3, Zenon DEF RuntimeRc
    <3>2. /\ Below(t, Len(stack[t]), Rest(t), Top(t)) /\ AtItem(prog, Top(t))
          /\ Item(Top(t)).op \notin Recipes /\ mode[t] = "run" /\ "endrc" \in Controls
      BY <3>1, AtFacts DEF Recipes, Controls
    <3>4. CASE Advance(t, Rest(t), Top(t)) \/ Leave(t, Rest(t), Top(t), "endrc")
      BY <3>1, <3>2, ElseTop, <3>4, ElseAdvance, ElseLeave, Zenon
    <3>5. CASE Raise(t, "evaluation")
      BY <3>1, <3>2, <3>5, ElseRaise, Zenon
    <3>6. CASE /\ Item(Top(t)).child # 0 /\ mode' = mode
               /\ stack' = Push(t, Entered(Item(Top(t)).op, Item(Top(t)).child, NoLock, FALSE))
      <4>1. Entered(Item(Top(t)).op, Item(Top(t)).child, NoLock, FALSE) \in Frame
        <5> DEFINE a == Item(Top(t)).op
                   c == Item(Top(t)).child
                   h == FALSE
        <5>1. a \in {"block", "include", "switch"} /\ a # "block" /\ c \in DOMAIN prog /\ h \in BOOLEAN
              /\ NoLock \in Slots
          BY <3>1, <3>2, <3>6, TopFacts, ItemFacts, Zenon DEF At, Slots
        <5> HIDE DEF a, c, h
        <5> QED
          BY <5>1, EnteredIs, Zenon DEF a, c, h
      <4>3. PICK f \in Frame : Enters(t, f) /\ f.kind \in {"include", "switch"} /\ f.ran = 0
        BY <2>3, <3>2, <3>6, <4>1, PushIsNoRedo, RuntimeRcShape, Zenon
      <4> QED
        BY <3>1, <3>2, <4>3, <3>6, ElseEnter DEF ElseFine
    <3> QED
      BY <2>3, <3>4, <3>5, <3>6, Zenon DEF RuntimeRc
  <2>4. CASE LockFile(t)
    <3>1. At(t, {"lockfile"}) /\ prog' = prog
      BY <2>4, Zenon DEF LockFile
    <3>2. /\ Below(t, Len(stack[t]), Rest(t), Top(t)) /\ AtItem(prog, Top(t))
          /\ Item(Top(t)).op \notin Recipes /\ mode[t] = "run"
      BY <3>1, AtFacts DEF Recipes
    <3>4. CASE UNCHANGED <<stack, mode>>
      BY <3>1, <3>4, Zenon DEF Elses
    <3>5. CASE Advance(t, Rest(t), Top(t))
      BY <3>1, <3>2, ElseTop, <3>5, ElseAdvance, Zenon
    <3>6. CASE Raise(t, "delivery")
      BY <3>1, <3>2, <3>6, ElseRaise, Zenon
    <3> QED
      BY <2>4, <3>4, <3>5, <3>6, Zenon DEF LockFile
  <2>5. CASE Skip(t)
    <3> DEFINE f == Top(t)
               q == Rest(t)
               n == Len(stack[t])
               h == Handled(t, FALSE)
               y == FALSE
               a == "none"
               c == "continue"
    <3>1. At(t, Recipes) /\ prog' = prog /\ RecipeDone(t, q, f, y, a, h, c)
      BY <2>5, Zenon DEF Skip
    <3>2. /\ Below(t, n, q, f) /\ AtItem(prog, f) /\ Item(f).op \in Recipes /\ mode[t] = "run"
      BY <3>1, AtFacts, Zenon
    <3>3. ElseFine(prog, f)
      BY <3>2, ElseTop, Zenon
    <3>4. /\ h \in BOOLEAN /\ y \in BOOLEAN /\ ~y /\ a \in ActionExecution /\ c \in Controls
      BY HandledIs, Zenon DEF ActionExecution, Controls
    <3>5. Item(f).ctl = "E" /\ f.state.previous.handled => h
      BY HandledMeans, Zenon
    <3> HIDE DEF f, q, n, h, y, a, c
    <3> QED
      BY <3>1, <3>2, <3>3, <3>4, <3>5, ElseDone, Zenon
  <2>6. CASE ActionSucceeds(t) \/ ActionFails(t)
    <3> DEFINE f == Top(t)
               q == Rest(t)
               n == Len(stack[t])
               h == Handled(t, TRUE)
               y == TRUE
    <3>1. PICK a \in {"succeeded", "failed"}, c \in {"stop", "continue"} : ActionDone(t, a, c)
      BY <2>6, Zenon DEF ActionSucceeds, ActionFails
    <3>2. At(t, {"deliver", "pipe", "edit"}) /\ ExecutionGate(Item(f).ctl, f.state) /\ prog' = prog
      BY <2>6, Zenon DEF ActionSucceeds, ActionFails, Selected
    <3>3. /\ Below(t, n, q, f) /\ AtItem(prog, f) /\ Item(f).op \in Recipes /\ mode[t] = "run"
      BY <3>2, AtFacts, Zenon DEF Recipes
    <3>4. ElseFine(prog, f)
      BY <3>3, ElseTop, Zenon
    <3>5. h \in BOOLEAN /\ h /\ y \in BOOLEAN /\ a \in ActionExecution /\ c \in Controls
      BY HandledMeans, Zenon DEF ActionExecution, Controls
    <3>6. RecipeDone(t, q, f, y, a, h, c)
      BY <3>1, Zenon DEF ActionDone
    <3> HIDE DEF f, q, n, h, y
    <3> QED
      BY <3>2, <3>3, <3>4, <3>5, <3>6, ElseDone, Zenon
  <2>7. CASE ActionAborts(t) \/ DeliveryFailsLate(t)
    BY <2>7, ElseRaise, Zenon DEF ActionAborts, DeliveryFailsLate, Selected, At
  <2>8. CASE SelectBlock(t)
    <3> DEFINE m == "block"
    <3> HIDE DEF m
    <3> QED
      BY <2>8, ElseSame, Zenon DEF SelectBlock, Selected, At, SetMode
  <2>9. CASE SelectWaitedCopy(t)
    <3>1. Selected(t, {"block"}) /\ prog' = prog /\ Item(Top(t)).copy
      BY <2>9, Zenon DEF SelectWaitedCopy
    <3> DEFINE f == WaitedFrame(t)
    <3>4. /\ f \in Frame /\ f.kind = "waited" /\ f.seq = Top(t).seq /\ f.at = Top(t).at
          /\ f.state = Top(t).state /\ f.ran = Top(t).ran /\ f.handled = Handled(t, TRUE)
      BY <3>1, WaitedFrameIs, Zenon
    <3>5. Enters(t, f)
      BY <2>9, SelectWaitedCopyShape, Zenon
    <3> HIDE DEF f
    <3> QED
      BY <3>1, SelectedFacts, <3>4, <3>5, ElseTop, HandledMeans, ElseEnter, Zenon DEF ElseFine,
         Item
  <2>10. CASE SelectUnwaitedCopy(t)
    <3>1. /\ Selected(t, {"block"}) /\ prog' = prog /\ Item(Top(t)).copy
          /\ started \in 0..MaxBranches
      BY <2>10, Zenon DEF SelectUnwaitedCopy, Data
    <3>2. mode[t] = "run"
      BY <3>1, SelectedFacts, Zenon
    <3>3. ElseFine(prog, Top(t))
      BY <3>2, ElseTop, Zenon
    <3>4. CASE Raise(t, "evaluation")
      BY <3>1, <3>2, <3>4, ElseRaise, Zenon
    <3>5. CASE started + 1 \in Threads \ {t} /\ Forks(t, started + 1, ParentFrame(t), BranchFrame(t))
      <4> DEFINE f == ParentFrame(t)
                 b == BranchFrame(t)
      <4>1. f \in Frame /\ f.kind = "parent" /\ f.ran = 0 /\ f.handled = Handled(t, TRUE)
        BY <3>1, <3>5, ParentFrameIs, Zenon
      <4>2. /\ b \in Frame /\ b.kind = "branch" /\ b.seq = Top(t).seq /\ b.at = Top(t).at
            /\ b.state = Top(t).state /\ b.ran = Top(t).ran
        BY <3>1, BranchFrameIs, Zenon
      <4>3. f.handled /\ Forks(t, started + 1, f, b)
        BY <3>5, <4>1, HandledMeans, Zenon
      <4> HIDE DEF f, b
      <4> QED
        BY <3>1, <3>2, <3>5, <4>1, <4>2, <4>3, <3>3, ElseFork, Zenon DEF ElseFine, Item
    <3>6. CASE Redo(t)
      <4>3. CASE started' = started + 1
        BY <2>10, <3>1, <3>5, <4>3, OrderedEvalAssumption, SelectUnwaitedCopyShape
      <4> QED
        BY <3>4, <2>10, <4>3, Zenon DEF SelectUnwaitedCopy
    <3> QED
      BY <2>10, <3>1, <3>5, <3>6, SelectUnwaitedCopyShape, Zenon
  <2>11. CASE EnterBlock(t)
    <3>1. mode[t] \in {"block", "copy"} /\ prog' = prog
      BY <2>11, Zenon DEF EnterBlock
    <3>2. /\ AtOpenBlock(prog, Top(t)) /\ Top(t) \in Frame /\ FrameFine(prog, Top(t)) /\ prog \in Programs
          /\ Below(t, Len(stack[t]), Rest(t), Top(t))
      BY <3>1, TopFacts, BelowTop, Zenon
    <3>3. AtItem(prog, Top(t)) /\ Item(Top(t)).op = "block" /\ ExecutionGate(Item(Top(t)).ctl, Top(t).state)
      BY <3>2, Zenon DEF AtOpenBlock, Item
    <3> DEFINE h == mode[t] = "block" /\ Handled(t, TRUE)
    <3>6. CASE RecipeDone(t, Rest(t), Top(t), TRUE, "failed", h, "continue")
      <4> DEFINE f == Top(t)
                 q == Rest(t)
                 n == Len(stack[t])
                 y == TRUE
                 a == "failed"
                 c == "continue"
      <4>1. RecipeDone(t, q, f, y, a, h, c) /\ a \in ActionExecution /\ c \in Controls /\ y \in BOOLEAN
            /\ h \in BOOLEAN /\ Below(t, n, q, f)
        BY <3>2, <3>6, Zenon DEF ActionExecution, Controls
      <4>2. h \/ NoElseFrom(prog, f.seq, f.at + 1)
        BY <3>2, <3>3, <3>1, ElseTop, HandledMeans, CopyExcludes, Zenon
      <4>4. Item(f).op \in Recipes /\ AtItem(prog, f) /\ ElseFine(prog, f)
            /\ ExecutionGate(Item(f).ctl, f.state)
        BY <3>3, <3>1, ElseTop, Zenon DEF Recipes
      <4> HIDE DEF f, q, n, y, a, c, h
      <4> QED
        BY <3>1, <4>1, <4>2, <3>3, <4>4, ElseDone, Zenon DEF ExecutionGate
    <3>7. CASE /\ stack' = Push(t, Entered("block", Item(Top(t)).child, Item(Top(t)).lock, h))
               /\ SetMode(t, "run")
      <4> HIDE DEF h
      <4>1. Entered("block", Item(Top(t)).child, Item(Top(t)).lock, h) \in Frame
        <5> DEFINE a == "block"
                   c == Item(Top(t)).child
                   l == Item(Top(t)).lock
        <5>1. a \in {"block", "include", "switch"} /\ a = "block" /\ c \in DOMAIN prog /\ h \in BOOLEAN
              /\ l \in Slots
          BY <3>2, <3>3, ItemFacts, Zenon DEF h
        <5> HIDE DEF a, c, l
        <5> QED
          BY <5>1, EnteredIs, Zenon DEF a, c, l
      <4>3. PICK f \in Frame : /\ Enters(t, f) /\ f.kind = "block" /\ f.ran = 0
                               /\ f.handled = (mode[t] = "block" /\ Handled(t, TRUE))
        BY <2>11, <3>1, <3>7, <4>1, PushIsNoRedo, EnterBlockShape, Zenon
      <4>4. ElseFine(prog, f) /\ mode'[t] # "copy"
        BY <3>7, <4>3 DEF ElseFine, SetMode, Shape
      <4> QED
        BY <3>1, <4>3, <4>4, ElseTop, HandledMeans, ElseEnter, Zenon DEF h
    <3> QED
      BY <2>11, <3>6, <3>7, Zenon DEF EnterBlock
  <2>12. CASE ReturnBlock(t)
    <3> DEFINE c == IF ret[t].control = "complete" THEN "continue" ELSE ret[t].control
    <3>1. /\ Returning(t, {"block"}) /\ prog' = prog
          /\ RecipeDone(t, CallerRest(t), Caller(t), TRUE, ret[t].action, Top(t).handled, c)
      BY <2>12, Zenon DEF ReturnBlock
    <3>3. c \in Controls
      BY <3>1, ReturningFacts, Zenon DEF Controls
    <3> HIDE DEF c
    <3> QED
      BY <3>1, ReturningFacts, <3>3, ElseCallerDone, Zenon
  <2>13. CASE ReturnRc(t)
    BY <2>13, ReturningFacts, BelowCaller, CallerFacts, ElseCaller, ElseLeave, ElseAdvance
       DEF ReturnRc, ElseFine, Controls
  <2>14. CASE ReturnWaited(t)
    <3>1. PICK a \in {"failed", "succeeded"} :
            RecipeDone(t, CallerRest(t), Caller(t), TRUE, a, Top(t).handled, "continue")
      BY <2>14, Zenon DEF ReturnWaited
    <3> QED
      BY <3>1, <2>14, ElseCallerDone, Zenon DEF ReturnWaited, Returning, ActionExecution, Controls
  <2>15. CASE ReturnParent(t)
    <3>1. Returning(t, {"parent"}) /\ prog' = prog
      BY <2>15, Zenon DEF ReturnParent
    <3>2. mode[t] = "return" /\ Top(t).kind = "parent" /\ ret[t].action \in ActionExecution
      BY <3>1, ReturningFacts
    <3>3. CASE stack' = [stack EXCEPT ![t] = Rest(t)] /\ SetMode(t, "unwind")
      BY <3>1, <3>2, <3>3, ElseDrop, Zenon DEF SetMode
    <3>4. CASE RecipeDone(t, CallerRest(t), Caller(t), TRUE, ret[t].action, Top(t).handled, "complete")
      BY <3>1, <3>2, <3>4, ElseCallerDone, Zenon DEF Controls
    <3> QED
      BY <2>15, <3>3, <3>4, Zenon DEF ReturnParent
  <2>16. CASE Unwind(t)
    BY <2>16, ElseDrop, Zenon DEF Unwind, Shape
  <2>17. CASE ThreadEnds(t)
    <3>2. /\ Len(stack'[t]) = 0 /\ mode' = [mode EXCEPT ![t] = "done"]
          /\ \A u \in Threads \ {t} : stack'[u] = stack[u]
      BY <2>17, ThreadEndsShape, Zenon
    <3>4. ElseStack(prog, stack'[t], mode'[t])
      BY <3>2 DEF ElseStack, Shape
    <3> QED
      BY <2>17, <3>2, <3>4, Zenon DEF Elses, ThreadEnds, Shape
  <2> QED
    BY <1>1, <2>1, <2>2, <2>3, <2>4, <2>5, <2>6, <2>7, <2>8, <2>9, <2>10, <2>11, <2>12, <2>13,
       <2>14, <2>15, <2>16, <2>17, Zenon DEF Running
<1>2. CASE UNCHANGED vars
  BY <1>2, Zenon DEF vars, Elses
<1> QED
  BY <1>1, <1>2, Zenon DEF Next, Terminated

\* If no E recipe stands right behind a copy block, at most one recipe of every
\* chain of E recipes is executed, in every activation of every thread
\* (else_handled).  With such a recipe it may be two: both kinds of copy block
\* record themselves with else_handled = false in their branch.
THEOREM ElseStaysExclusive ==
    ASSUME \A p \in Programs : NoElseAfterCopy(p)
    PROVE  Spec => []ElseExclusive
<1>1. Init => Elses
  <2> SUFFICES ASSUME Init, NEW t \in Threads PROVE ElseStack(prog, stack[t], mode[t])
    BY Zenon DEF Elses
  <2>1. /\ 0 \in Threads /\ Len(stack[0]) = 1 /\ stack[0][1].kind = "root" /\ stack[0][1].ran = 0
        /\ \A u \in Threads : u # 0 => Len(stack[u]) = 0
        /\ mode = [u \in Threads |-> IF u = 0 THEN "run" ELSE "idle"]
    BY InitStack, Zenon
  <2>2. CASE t = 0
    BY <2>1, <2>2 DEF ElseStack, ElseFine
  <2>3. CASE t # 0
    BY <2>1, <2>3 DEF ElseStack
  <2> QED
    BY <2>2, <2>3, Zenon
<1>2. WellFormed /\ Elses /\ [Next]_vars => Elses'
  <2> SUFFICES ASSUME WellFormed, Elses, [Next]_vars PROVE Elses'
    BY Zenon
  <2>1. NoElseAfterCopy(prog)
    BY Zenon DEF WellFormed, Shape
  <2> QED
    BY <2>1, ElsesStep, Zenon DEF WellFormed
<1>3. WellFormed /\ Elses => ElseExclusive
  <2> SUFFICES ASSUME WellFormed, Elses, NEW t \in Threads, NEW i \in DOMAIN stack[t]
               PROVE  stack[t][i].ran <= 1
    BY Zenon DEF ElseExclusive
  <2>1. i \in 1..Len(stack[t])
    BY LenIs DEF WellFormed, Shape
  <2> QED
    BY <2>1, Zenon DEF Elses, ElseStack
<1> QED
  BY <1>1, <1>2, <1>3, WellFormedInvariance, PTL DEF Spec
=============================================================================
