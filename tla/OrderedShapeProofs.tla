------------------------- MODULE OrderedShapeProofs -------------------------
(***************************************************************************)
(* Ordered execution, for every compiled tree, every number of branches    *)
(* and every set of locks: the activations of all threads are well formed. *)
(*                                                                         *)
(* Every action replaces the frames of its thread from some frame on       *)
(* (Reframed), and does so in one of three ways: it goes on in the top     *)
(* activation (Redo), leaves it (Back) or enters another one (Enters);     *)
(* Forks and ThreadEnds start and end a thread.  The invariant WellFormed  *)
(* is proved from these forms, and the modules OrderedScopeProofs and      *)
(* OrderedPathProofs use them for the other invariants.                    *)
(***************************************************************************)
EXTENDS OrderedInvariants, TLAPS

-----------------------------------------------------------------------------
\* The gates of a recipe sequence, of any length.

\* A matched predecessor belongs to a chain whose base matched, and it counts as
\* handled for a following E recipe.
Coherent(s) ==
    /\ s \in SequenceState
    /\ s.previous.matched => s.chain
    /\ s.previous.matched => s.previous.handled
    /\ s.previous.action # "none" => s.previous.matched

\* A recipe that the gate let through and one that was skipped, as
\* execute_ordered_from records them.  The two paths that continue behind a copy
\* block record it with else_handled = false and are not covered.
Executed(s, control, action) == Record(s, control, TRUE, action, ElseHandled(control, s, TRUE))
Skipped(s, control) == Record(s, control, FALSE, "none", ElseHandled(control, s, FALSE))

\* The state before the first recipe is coherent (SequenceState::default).
LEMMA DefaultCoherent == Coherent(DefaultState)
  BY Zenon DEF Coherent, DefaultState, SequenceState, RecipeExecution, ActionExecution

\* Recording a recipe keeps the state coherent, because only a recipe the gate
\* let through can match (SequenceState::record, execution_gate).
THEOREM RecordKeepsCoherence ==
    ASSUME NEW s, Coherent(s), NEW control \in ControlFlow
    PROVE  /\ Coherent(Skipped(s, control))
           /\ \A action \in {"succeeded", "failed"} :
                ExecutionGate(control, s) => Coherent(Executed(s, control, action))
<1> USE DEF Coherent, ControlFlow, SequenceState, RecipeExecution, ActionExecution, Record, ElseHandled
<1>1. Coherent(Skipped(s, control))
  BY Zenon DEF Skipped
<1>2. ASSUME NEW action \in {"succeeded", "failed"}, ExecutionGate(control, s)
      PROVE  Coherent(Executed(s, control, action))
  <2>1. control \in {"A", "a"} => s.chain
    BY <1>2, Zenon DEF ExecutionGate
  <2> QED
    BY <2>1, Zenon DEF Executed
<1> QED
  BY <1>1, <1>2, Zenon

\* Flag `a` lets a recipe run only where `A` would, and the recipes `a` and `e`
\* behind the same recipe exclude each other, as `E` excludes both
\* (execution_gate; procmail-rs.rc(5), flags A, a, E and e).
THEOREM GatesExclude ==
    ASSUME NEW s, Coherent(s)
    PROVE  /\ ExecutionGate("a", s) => ExecutionGate("A", s)
           /\ ~(ExecutionGate("a", s) /\ ExecutionGate("e", s))
           /\ ExecutionGate("E", s) => ~ExecutionGate("a", s) /\ ~ExecutionGate("e", s)
  BY Zenon DEF Coherent, ExecutionGate, SequenceState, RecipeExecution

\* Along a chain of E recipes the answer "handled" is never taken back, and a
\* recipe that ran closes the gate of every later E recipe of the chain
\* (else_handled).
THEOREM ElseChainIsExclusive ==
    ASSUME NEW s, Coherent(s), NEW action \in {"succeeded", "failed"}, NEW control \in ControlFlow
    PROVE  /\ ~ExecutionGate("E", Executed(s, control, action))
           /\ ~ExecutionGate("E", s) => ~ExecutionGate("E", Skipped(s, "E"))
  BY Zenon DEF Executed, Skipped, Record, ElseHandled, ExecutionGate

-----------------------------------------------------------------------------
\* Sequences, items and frames.

\* The first n elements of a sequence (slices of the frames below an activation).
LEMMA PrefixIs ==
    ASSUME NEW S, NEW s \in Seq(S), NEW n \in 0..Len(s)
    PROVE  /\ SubSeq(s, 1, n) \in Seq(S)
           /\ Len(SubSeq(s, 1, n)) = n
           /\ \A i \in 1..n : SubSeq(s, 1, n)[i] = s[i]
<1>1. Len(s) \in Nat /\ n \in Nat /\ \A i \in 1..n : s[i] \in S
  OBVIOUS
<1>2. SubSeq(s, 1, n) \in Seq(S)
  BY <1>1
<1>3. Len(SubSeq(s, 1, n)) = n
  BY <1>1
<1>4. \A i \in 1..n : SubSeq(s, 1, n)[i] = s[i]
  BY <1>1
<1> QED
  BY <1>2, <1>3, <1>4, Zenon

\* What pushing a frame does to a stack.
LEMMA AppendIs ==
    ASSUME NEW S, NEW s \in Seq(S), NEW e \in S
    PROVE  /\ Append(s, e) \in Seq(S)
           /\ Len(Append(s, e)) = Len(s) + 1
           /\ \A i \in 1..Len(s) : Append(s, e)[i] = s[i]
           /\ Append(s, e)[Len(s) + 1] = e
OBVIOUS

\* Thread 0 works for the original message; Nobody is not a thread.
LEMMA ThreadFacts == 0 \in Threads /\ Nobody \notin Threads /\ Threads \subseteq Nat
BY OrderedEvalAssumption DEF Threads, Nobody

\* What ProgramsAssumption says of the compiled tree at hand.
LEMMA ProgramFacts ==
    ASSUME prog \in Programs
    PROVE  /\ prog \in Seq(Seq(ProgramItem)) /\ Len(prog) > 0
           /\ \A s \in DOMAIN prog : prog[s] \in Seq(ProgramItem) /\ Len(prog[s]) \in Nat
           /\ \A s \in DOMAIN prog : \A i \in 1..Len(prog[s]) :
                /\ prog[s][i] \in ProgramItem
                /\ prog[s][i].child # 0 => prog[s][i].child \in DOMAIN prog
                /\ prog[s][i].op = "block" => prog[s][i].child # 0
<1>2. \A s \in DOMAIN prog : prog[s] \in Seq(ProgramItem) /\ Len(prog[s]) \in Nat
  BY ProgramsAssumption
<1> QED
  BY ProgramsAssumption, <1>2

\* The item at which an activation is, read from the compiled tree.
LEMMA ItemFacts ==
    ASSUME prog \in Programs, NEW f \in Frame, FrameFine(prog, f), AtItem(prog, f)
    PROVE  /\ Item(f) \in ProgramItem
           /\ Item(f).ctl \in ControlFlow
           /\ Item(f).lock \in Slots
           /\ Item(f).child # 0 => Item(f).child \in DOMAIN prog
           /\ Item(f).op = "block" => Item(f).child \in DOMAIN prog
<1>3. Item(f) \in ProgramItem
  BY ProgramFacts DEF FrameFine, AtItem, Item
<1> QED
  BY ProgramFacts, <1>3 DEF FrameFine, AtItem, Item, ProgramItem, Slots

\* The types of the fields of a frame.
LEMMA FrameFields ==
    ASSUME NEW f \in Frame
    PROVE  /\ f.kind \in Kinds /\ f.seq \in Nat /\ f.at \in Nat /\ f.state \in SequenceState
           /\ f.action \in Results /\ f.lock \in Slots /\ f.handled \in BOOLEAN
           /\ f.saved \in SavedContext /\ f.branch \in Threads \cup {Nobody} /\ f.ran \in Nat
BY Zenon DEF Frame

\* The fields of a new activation of execute_ordered_from.
LEMMA NewFrameIs ==
    ASSUME NEW kind \in Kinds, NEW seq \in Nat, NEW at \in Nat, NEW state \in SequenceState,
           NEW lock \in Slots, NEW handled \in BOOLEAN
    PROVE  LET f == NewFrame(kind, seq, at, state, lock, handled) IN
           /\ f \in Frame
           /\ f.kind = kind /\ f.seq = seq /\ f.at = at /\ f.state = state
           /\ f.lock = lock /\ f.handled = handled /\ f.saved.lock = NoLock
           /\ f.branch = Nobody /\ f.ran = 0
BY Zenon DEF NewFrame, Frame, SavedContext, Slots, Results

\* A new sequence state belongs to no chain (SequenceState::default).
LEMMA DefaultIs == DefaultState \in SequenceState /\ Chained(DefaultState)
BY Zenon DEF DefaultState, SequenceState, RecipeExecution, ActionExecution, Chained

\* Recording a recipe that the gate let through keeps the state of the sequence
\* coherent (SequenceState::record).
LEMMA RecordIs ==
    ASSUME NEW state \in SequenceState, Chained(state), NEW ctl \in ControlFlow,
           NEW matched \in BOOLEAN, matched => ExecutionGate(ctl, state),
           NEW action \in ActionExecution, NEW handled \in BOOLEAN
    PROVE  /\ Record(state, ctl, matched, action, handled) \in SequenceState
           /\ Chained(Record(state, ctl, matched, action, handled))
           /\ Record(state, ctl, matched, action, handled).previous.handled = handled
BY Zenon DEF Record, SequenceState, Chained, RecipeExecution, ExecutionGate, ControlFlow

\* The frame RecipeDone leaves behind.
Recorded(frame, matched, action, handled, control) ==
    [frame EXCEPT
        !.state = Record(@, Item(frame).ctl, matched, action, handled),
        !.action = IF action = "none" THEN @ ELSE action,
        !.ran = (IF Item(frame).ctl = "E" THEN @ ELSE 0) + (IF matched THEN 1 ELSE 0),
        !.at = IF control = "continue" THEN @ + 1 ELSE @]

\* g is another state of the activation f.
Kept(f, g) ==
    /\ g.kind = f.kind /\ g.seq = f.seq /\ g.lock = f.lock
    /\ g.handled = f.handled /\ g.saved = f.saved /\ g.branch = f.branch

\* An activation is another state of itself.
LEMMA KeptSame == ASSUME NEW f \in Frame PROVE Kept(f, f)
BY Zenon DEF Kept

\* Recording a recipe changes only the progress of the activation.
LEMMA RecordedIs ==
    ASSUME prog \in Programs, NEW f \in Frame, FrameFine(prog, f), AtItem(prog, f),
           NEW matched \in BOOLEAN, matched => ExecutionGate(Item(f).ctl, f.state),
           NEW action \in ActionExecution, NEW handled \in BOOLEAN, NEW control
    PROVE  LET g == Recorded(f, matched, action, handled, control) IN
           /\ g \in Frame /\ FrameFine(prog, g) /\ Kept(f, g)
           /\ g.state = Record(f.state, Item(f).ctl, matched, action, handled)
           /\ g.ran = (IF Item(f).ctl = "E" THEN f.ran ELSE 0) + (IF matched THEN 1 ELSE 0)
           /\ control # "continue" => g.at = f.at
           /\ control = "continue" => g.at = f.at + 1
<1> DEFINE g == Recorded(f, matched, action, handled, control)
           st == Record(f.state, Item(f).ctl, matched, action, handled)
           ran == (IF Item(f).ctl = "E" THEN f.ran ELSE 0) + (IF matched THEN 1 ELSE 0)
           act == IF action = "none" THEN f.action ELSE action
           at == IF control = "continue" THEN f.at + 1 ELSE f.at
<1>1. st \in SequenceState /\ Chained(st)
  BY RecordIs, ItemFacts, FrameFields, Zenon DEF FrameFine
<1>2. ran \in Nat /\ at \in Nat /\ act \in Results
  BY FrameFields DEF ActionExecution, Results
<1>3. g = [f EXCEPT !.state = st, !.action = act, !.ran = ran, !.at = at]
  BY Zenon DEF Recorded
<1> HIDE DEF st, ran, act, at
<1>4. /\ [f EXCEPT !.state = st, !.action = act, !.ran = ran, !.at = at] \in Frame
      /\ g.state = st /\ g.ran = ran /\ g.at = at /\ Kept(f, g)
  BY <1>1, <1>2, <1>3, Zenon DEF Frame, Kept
<1>6. FrameFine(prog, g)
  BY <1>1, <1>4, ProgramFacts, FrameFields DEF FrameFine, Kept, at, AtItem
<1> HIDE DEF g
<1> QED
  BY <1>4, <1>6, <1>3, Zenon DEF g, st, ran, at

\* The frame Advance leaves behind.
Advanced(frame) == [frame EXCEPT !.at = @ + 1]

\* Passing a statement changes only the position of the activation.
LEMMA AdvancedIs ==
    ASSUME prog \in Programs, NEW f \in Frame, FrameFine(prog, f), AtItem(prog, f)
    PROVE  LET g == Advanced(f) IN
           /\ g \in Frame /\ FrameFine(prog, g) /\ Kept(f, g)
           /\ g.state = f.state /\ g.ran = f.ran
<1>1. f.at + 1 \in Nat /\ f.at + 1 \in 1..(Len(prog[f.seq]) + 1)
  BY ProgramFacts, FrameFields DEF FrameFine, AtItem
<1> DEFINE at == f.at + 1
<1> HIDE DEF at
<1> QED
  BY <1>1, Zenon DEF at, Advanced, Frame, Kept, FrameFine

-----------------------------------------------------------------------------
\* A step gives up the frames of a thread from some point on, or adds one.

\* The frames of thread t from n on are given up, and frame n is now f.
Reframed(t, n, f) ==
    /\ stack' \in [Threads -> Seq(Frame)]
    /\ Len(stack'[t]) = n
    /\ \A i \in 1..(n - 1) : stack'[t][i] = stack[t][i]
    /\ stack'[t][n] = f
    /\ \A u \in Threads \ {t} : stack'[u] = stack[u]

Moves(t, n, f, m) ==
    /\ Reframed(t, n, f)
    /\ mode' = [mode EXCEPT ![t] = m]

\* The stack of a thread is a sequence of frames.
LEMMA LenIs ==
    ASSUME stack \in [Threads -> Seq(Frame)], NEW t \in Threads
    PROVE  /\ stack[t] \in Seq(Frame) /\ Len(stack[t]) \in Nat
           /\ \A i \in 1..Len(stack[t]) : stack[t][i] \in Frame
OBVIOUS

\* Replacing the frames of a thread from n on by f (RecipeDone, Leave, Advance).
LEMMA ReframedBy ==
    ASSUME stack \in [Threads -> Seq(Frame)], NEW t \in Threads, NEW n \in Nat \ {0},
           NEW rest \in Seq(Frame), Len(rest) = n - 1,
           \A i \in 1..(n - 1) : rest[i] = stack[t][i],
           NEW f \in Frame,
           stack' = [stack EXCEPT ![t] = Append(rest, f)]
    PROVE  Reframed(t, n, f)
<1> DEFINE s == Append(rest, f)
<1> HIDE DEF s
<1> QED
  BY AppendIs DEF Reframed, s

\* Entering the activation f.
LEMMA ReframedPush ==
    ASSUME stack \in [Threads -> Seq(Frame)], NEW t \in Threads, NEW f \in Frame,
           stack' = Push(t, f)
    PROVE  Reframed(t, Len(stack[t]) + 1, f)
<1>3. Len(stack[t]) + 1 \in Nat \ {0} /\ Len(stack[t]) = (Len(stack[t]) + 1) - 1
  BY LenIs
<1> QED
  BY LenIs, <1>3, ReframedBy, Zenon DEF Push

\* The frames below the top activation.
LEMMA RestIs ==
    ASSUME stack \in [Threads -> Seq(Frame)], NEW t \in Threads, Len(stack[t]) > 0
    PROVE  /\ Rest(t) \in Seq(Frame) /\ Len(Rest(t)) = Len(stack[t]) - 1
           /\ \A i \in 1..(Len(stack[t]) - 1) : Rest(t)[i] = stack[t][i]
           /\ Top(t) = stack[t][Len(stack[t])] /\ Top(t) \in Frame
           /\ Len(stack[t]) \in Nat
<1> DEFINE n == Len(stack[t]) - 1
<1>1. stack[t] \in Seq(Frame) /\ Len(stack[t]) \in Nat /\ n \in 0..Len(stack[t])
  BY LenIs
<1>2. Rest(t) = SubSeq(stack[t], 1, n)
  BY Zenon DEF Rest
<1> HIDE DEF n
<1>3. Rest(t) \in Seq(Frame) /\ Len(Rest(t)) = n /\ \A i \in 1..n : Rest(t)[i] = stack[t][i]
  BY <1>1, <1>2, PrefixIs, Zenon
<1> QED
  BY <1>1, <1>3, LenIs DEF n, Top

\* The caller of the top activation and the frames below it.
LEMMA CallerIs ==
    ASSUME stack \in [Threads -> Seq(Frame)], NEW t \in Threads, Len(stack[t]) > 1
    PROVE  /\ CallerRest(t) \in Seq(Frame) /\ Len(CallerRest(t)) = Len(stack[t]) - 2
           /\ \A i \in 1..(Len(stack[t]) - 2) : CallerRest(t)[i] = stack[t][i]
           /\ Caller(t) = stack[t][Len(stack[t]) - 1] /\ Caller(t) \in Frame
           /\ Len(stack[t]) \in Nat
<1> DEFINE n == Len(stack[t]) - 2
<1>1. stack[t] \in Seq(Frame) /\ Len(stack[t]) \in Nat /\ n \in 0..Len(stack[t])
  BY LenIs
<1>2. CallerRest(t) = SubSeq(stack[t], 1, n)
  BY Zenon DEF CallerRest
<1> HIDE DEF n
<1>3. /\ CallerRest(t) \in Seq(Frame) /\ Len(CallerRest(t)) = n
      /\ \A i \in 1..n : CallerRest(t)[i] = stack[t][i]
  BY <1>1, <1>2, PrefixIs, Zenon
<1>4. Len(stack[t]) - 1 \in 1..Len(stack[t])
  BY <1>1
<1>5. Caller(t) = stack[t][Len(stack[t]) - 1] /\ Caller(t) \in Frame
  BY <1>4, LenIs, Zenon DEF Caller
<1> QED
  BY <1>1, <1>3, <1>5, Zenon DEF n

\* Dropping the top activation on the error path.
LEMMA ReframedDrop ==
    ASSUME stack \in [Threads -> Seq(Frame)], NEW t \in Threads, Len(stack[t]) > 1,
           stack' = [stack EXCEPT ![t] = Rest(t)]
    PROVE  Reframed(t, Len(stack[t]) - 1, stack[t][Len(stack[t]) - 1])
<1>1. /\ Rest(t) \in Seq(Frame) /\ Len(Rest(t)) = Len(stack[t]) - 1
      /\ \A i \in 1..(Len(stack[t]) - 1) : Rest(t)[i] = stack[t][i]
      /\ Len(stack[t]) \in Nat
  BY LenIs, RestIs
<1> QED
  BY <1>1 DEF Reframed

\* A step that leaves the stack alone.
LEMMA ReframedSame ==
    ASSUME stack \in [Threads -> Seq(Frame)], NEW t \in Threads, Len(stack[t]) > 0,
           UNCHANGED stack
    PROVE  Reframed(t, Len(stack[t]), Top(t))
BY RestIs, Zenon DEF Reframed

\* What a move must respect to keep the shape of the stacks.
GoodMode(t, f, m) ==
    /\ m \in {"run", "block", "copy", "return", "unwind"}
    /\ m \in {"block", "copy"} => AtOpenBlock(prog, f)
    /\ m = "return" => ret'[t].action \in Results

OthersReturn(t) ==
    ret' \in [Threads -> Returns] /\ \A u \in Threads \ {t} : ret'[u] = ret[u]

\* A thread that does not move keeps the shape of its stack.
LEMMA OtherFine ==
    ASSUME prog' = prog, NEW u \in Threads, StackFine(u), ModeFine(u),
           stack'[u] = stack[u], mode'[u] = mode[u], ret'[u] = ret[u]
    PROVE  StackFine(u)' /\ ModeFine(u)'
BY Zenon DEF StackFine, ModeFine

\* Frame n goes on as f, and whatever was above it is gone: the shape is kept.
LEMMA StayShape ==
    ASSUME Shape, prog' = prog, NEW t \in Threads, NEW n \in 1..Len(stack[t]),
           NEW f \in Frame, FrameFine(prog, f), Kept(stack[t][n], f),
           NEW m, Moves(t, n, f, m), GoodMode(t, f, m), OthersReturn(t)
    PROVE  Shape'
<1>0. stack \in [Threads -> Seq(Frame)] /\ mode \in [Threads -> Modes] /\ n \in Nat
  BY LenIs DEF Shape
<1>1. /\ stack' \in [Threads -> Seq(Frame)] /\ Len(stack'[t]) = n
      /\ \A i \in 1..(n - 1) : stack'[t][i] = stack[t][i]
      /\ stack'[t][n] = f
      /\ \A u \in Threads \ {t} : stack'[u] = stack[u]
  BY Zenon DEF Moves, Reframed
<1>2. mode'[t] = m /\ mode' \in [Threads -> Modes] /\ \A u \in Threads \ {t} : mode'[u] = mode[u]
  BY <1>0, Zenon DEF Moves, GoodMode, Modes
<1>3. StackFine(t)'
  <2>0. StackFine(t) /\ Len(stack[t]) \in Nat /\ n <= Len(stack[t])
    BY <1>0, LenIs DEF Shape
  <2>1. \A i \in 1..n : FrameFine(prog, stack'[t][i])
    <3> TAKE i \in 1..n
    <3>1. CASE i = n
      BY <3>1, <1>1, Zenon
    <3>2. CASE i < n
      <4>1. i \in 1..(n - 1) /\ i \in 1..Len(stack[t])
        BY <1>0, <2>0, <3>2
      <4> QED
        BY <1>1, <2>0, <4>1, Zenon DEF StackFine
    <3> QED
      BY <1>0, <3>1, <3>2
  <2>2. \A i \in 1..n : stack'[t][i].kind = stack[t][i].kind
    BY <1>0, <1>1 DEF Kept
  <2>4. \A i \in 1..(n - 1) : /\ AtItem(prog, stack'[t][i])
                              /\ stack'[t][i + 1].kind \in {"block", "waited", "parent"} => AtOpenBlock(prog, stack'[t][i])
    <3> TAKE i \in 1..(n - 1)
    <3> QED
      BY <2>0, <1>0, <1>1, <2>2 DEF StackFine
  <2> QED
    BY <1>1, <2>1, <2>0, <2>2, <2>4 DEF StackFine
<1> QED
  BY <1>1, <1>2, <1>3, <1>0, OtherFine DEF Shape, OthersReturn, ModeFine, GoodMode

\* The frames after an activation is entered.
LEMMA EnterStack ==
    ASSUME Shape, prog' = prog, NEW t \in Threads, Len(stack[t]) > 0,
           NEW f \in Frame, FrameFine(prog, f), f.kind \notin {"root", "branch"},
           AtItem(prog, Top(t)),
           f.kind \in {"block", "waited", "parent"} => AtOpenBlock(prog, Top(t)),
           Len(stack'[t]) = Len(stack[t]) + 1,
           \A i \in 1..Len(stack[t]) : stack'[t][i] = stack[t][i],
           stack'[t][Len(stack[t]) + 1] = f
    PROVE  StackFine(t)'
<1> DEFINE n == Len(stack[t])
<1>0. stack \in [Threads -> Seq(Frame)] /\ n \in Nat /\ n > 0
  BY LenIs, Zenon DEF Shape
<1>1. /\ Len(stack'[t]) = n + 1
      /\ \A i \in 1..n : stack'[t][i] = stack[t][i]
      /\ stack'[t][n + 1] = f
  BY Zenon
<1>2. StackFine(t) /\ Top(t) = stack[t][n]
  BY <1>0, RestIs, Zenon DEF Shape
<1> HIDE DEF n
<1>3. \A i \in 1..(n + 1) : FrameFine(prog, stack'[t][i])
  BY <1>0, <1>1, <1>2 DEF StackFine, n
<1>4. \A i \in 1..(n + 1) : stack'[t][i].kind \in {"root", "branch"} <=> i = 1
  BY <1>0, <1>1, <1>2 DEF StackFine, n
<1>5. \A i \in 1..n :
        /\ AtItem(prog, stack'[t][i])
        /\ stack'[t][i + 1].kind \in {"block", "waited", "parent"} => AtOpenBlock(prog, stack'[t][i])
  <2> TAKE i \in 1..n
  <2>1. CASE i = n
    BY <2>1, <1>0, <1>1, <1>2, Zenon
  <2>2. CASE i < n
    <3>1. i \in 1..(n - 1) /\ i + 1 \in 1..n
      BY <1>0, <2>2
    <3> QED
      BY <3>1, <1>0, <1>1, <1>2, Zenon DEF StackFine, n
  <2> QED
    BY <1>0, <2>1, <2>2
<1>6. Len(stack'[t]) - 1 = n
  BY <1>0, <1>1
<1> QED
  BY <1>1, <1>3, <1>4, <1>5, <1>6, Zenon DEF StackFine

\* Entering an activation keeps the shape of the stacks.
LEMMA EnterShape ==
    ASSUME Shape, prog' = prog, NEW t \in Threads, Len(stack[t]) > 0,
           NEW f \in Frame, FrameFine(prog, f), f.kind \notin {"root", "branch"},
           AtItem(prog, Top(t)),
           f.kind \in {"block", "waited", "parent"} => AtOpenBlock(prog, Top(t)),
           NEW m, Moves(t, Len(stack[t]) + 1, f, m), GoodMode(t, f, m), OthersReturn(t)
    PROVE  Shape'
<1> DEFINE n == Len(stack[t])
<1>0. stack \in [Threads -> Seq(Frame)] /\ mode \in [Threads -> Modes] /\ n \in Nat /\ n > 0
  BY LenIs, Zenon DEF Shape
<1>1. /\ stack' \in [Threads -> Seq(Frame)] /\ Len(stack'[t]) = n + 1
      /\ \A i \in 1..n : stack'[t][i] = stack[t][i]
      /\ stack'[t][n + 1] = f
      /\ \A u \in Threads \ {t} : stack'[u] = stack[u]
  BY <1>0 DEF Moves, Reframed
<1>2. mode'[t] = m /\ mode' \in [Threads -> Modes] /\ \A u \in Threads \ {t} : mode'[u] = mode[u]
  BY <1>0, Zenon DEF Moves, GoodMode, Modes
<1>4. ModeFine(t)'
  BY <1>0, <1>1, <1>2 DEF ModeFine, GoodMode
<1> QED
  BY <1>1, <1>2, <1>0, EnterStack, <1>4, OtherFine, Zenon DEF Shape, OthersReturn

\* A thread that is alive has a top activation in a sequence of the tree.
LEMMA TopFacts ==
    ASSUME Shape, NEW t \in Threads, mode[t] \notin {"idle", "done"}
    PROVE  /\ Len(stack[t]) \in Nat /\ Len(stack[t]) > 0
           /\ Top(t) = stack[t][Len(stack[t])] /\ Top(t) \in Frame /\ FrameFine(prog, Top(t))
           /\ mode[t] \in {"block", "copy"} => AtOpenBlock(prog, Top(t))
           /\ stack \in [Threads -> Seq(Frame)] /\ prog \in Programs
<1>1. stack \in [Threads -> Seq(Frame)] /\ StackFine(t) /\ ModeFine(t) /\ prog \in Programs
  BY Zenon DEF Shape
<1>2. Len(stack[t]) \in Nat /\ Len(stack[t]) > 0
  BY <1>1, LenIs DEF ModeFine
<1> QED
  BY <1>1, <1>2, RestIs DEF StackFine, ModeFine

\* An activation that is not the first one of its thread has a caller, which is at
\* the item that entered it.
LEMMA CallerFacts ==
    ASSUME Shape, NEW t \in Threads, mode[t] \notin {"idle", "done"},
           Top(t).kind \notin {"root", "branch"}
    PROVE  /\ Len(stack[t]) > 1
           /\ Caller(t) = stack[t][Len(stack[t]) - 1] /\ Caller(t) \in Frame
           /\ FrameFine(prog, Caller(t)) /\ AtItem(prog, Caller(t))
           /\ Top(t).kind \in {"block", "waited", "parent"} => AtOpenBlock(prog, Caller(t))
<1>1. stack \in [Threads -> Seq(Frame)] /\ StackFine(t)
  BY Zenon DEF Shape
<1>2. Len(stack[t]) \in Nat /\ Len(stack[t]) > 0 /\ Top(t) = stack[t][Len(stack[t])]
  BY TopFacts, Zenon
<1> DEFINE n == Len(stack[t])
<1>4. n > 1
  <2>1. n \in Nat /\ n > 0 /\ n # 1
    BY <1>2, <1>1 DEF StackFine
  <2> HIDE DEF n
  <2> QED
    BY <2>1
<1> QED
  BY <1>1, <1>2, <1>4, CallerIs DEF StackFine

\* Frame n of thread t and the frames below it.
Below(t, n, rest, frame) ==
    /\ n \in 1..Len(stack[t])
    /\ rest \in Seq(Frame) /\ Len(rest) = n - 1
    /\ \A i \in 1..(n - 1) : rest[i] = stack[t][i]
    /\ frame = stack[t][n] /\ frame \in Frame /\ FrameFine(prog, frame)

\* The top activation is the last frame of its thread.
LEMMA BelowTop ==
    ASSUME Shape, NEW t \in Threads, mode[t] \notin {"idle", "done"}
    PROVE  Below(t, Len(stack[t]), Rest(t), Top(t))
BY TopFacts, RestIs DEF Below

\* The caller of the top activation is the last but one.
LEMMA BelowCaller ==
    ASSUME Shape, NEW t \in Threads, mode[t] \notin {"idle", "done"},
           Top(t).kind \notin {"root", "branch"}
    PROVE  Below(t, Len(stack[t]) - 1, CallerRest(t), Caller(t))
BY TopFacts, CallerFacts, CallerIs DEF Below

\* The end of a recipe (RecipeDone) moves frame n of the thread and keeps the
\* shape.
LEMMA DoneMoves ==
    ASSUME Shape, prog' = prog, NEW t \in Threads, NEW n, NEW rest, NEW frame,
           Below(t, n, rest, frame), AtItem(prog, frame),
           NEW matched \in BOOLEAN, matched => ExecutionGate(Item(frame).ctl, frame.state),
           NEW action \in ActionExecution, NEW handled \in BOOLEAN, NEW control \in Controls,
           RecipeDone(t, rest, frame, matched, action, handled, control)
    PROVE  LET f == Recorded(frame, matched, action, handled, control) IN
           /\ Moves(t, n, f, IF control = "continue" THEN "run" ELSE "return")
           /\ Kept(stack[t][n], f) /\ f \in Frame
           /\ control # "continue" => ret'[t].control = control
           /\ Shape'
<1> DEFINE f == Recorded(frame, matched, action, handled, control)
           m == IF control = "continue" THEN "run" ELSE "return"
<1>0. /\ stack \in [Threads -> Seq(Frame)] /\ ret \in [Threads -> Returns] /\ prog \in Programs
      /\ n \in Nat \ {0} /\ n \in 1..Len(stack[t])
  BY LenIs DEF Shape, Below
<1>1. f \in Frame /\ FrameFine(prog, f) /\ Kept(frame, f)
  BY <1>0, RecordedIs, Zenon DEF Below
<1>2. /\ stack' = [stack EXCEPT ![t] = Append(rest, f)]
      /\ mode' = [mode EXCEPT ![t] = m]
      /\ control = "continue" => ret' = ret
      /\ control # "continue" => ret' = [ret EXCEPT ![t] = [action |-> f.action, control |-> control]]
  BY Zenon DEF RecipeDone, Recorded, SetMode
<1> HIDE DEF f
<1>5. /\ OthersReturn(t)
      /\ control # "continue" => ret'[t].action = f.action /\ ret'[t].control = control
  <2> QED
    <3>1. CASE control = "continue"
      BY <3>1, <1>0, <1>2, Zenon DEF OthersReturn
    <3>2. CASE control # "continue"
      <4> DEFINE r == [action |-> f.action, control |-> control]
      <4>1. r.action = f.action /\ r.control = control
        BY Zenon
      <4> HIDE DEF r
      <4>2. ret' = [ret EXCEPT ![t] = r] /\ r \in Returns
        BY <3>2, <1>2, <1>1, FrameFields, Zenon DEF r, Returns, Results, ActionExecution
      <4> QED
        BY <3>2, <1>0, <4>1, <4>2, Zenon DEF OthersReturn
    <3> QED
      BY <3>1, <3>2, Zenon
<1>6. Moves(t, n, f, m) /\ GoodMode(t, f, m)
  BY <1>2, <1>0, <1>1, ReframedBy, FrameFields, <1>5, Zenon DEF Moves, GoodMode, Below, Results,
     ActionExecution
<1> QED
  BY <1>1, <1>5, <1>6, <1>0, StayShape, Zenon DEF f, Below

\* A statement that ends its sequence (Leave) moves frame n of the thread.
LEMMA LeaveMoves ==
    ASSUME Shape, prog' = prog, NEW t \in Threads, NEW n, NEW rest, NEW frame,
           Below(t, n, rest, frame), NEW control \in Controls,
           Leave(t, rest, frame, control)
    PROVE  /\ Moves(t, n, frame, "return")
           /\ Kept(stack[t][n], frame) /\ frame \in Frame
           /\ ret'[t].control = control
           /\ Shape'
<1>0. /\ stack \in [Threads -> Seq(Frame)] /\ ret \in [Threads -> Returns]
      /\ n \in Nat \ {0} /\ n \in 1..Len(stack[t])
  BY LenIs DEF Shape, Below
<1>1. frame \in Frame /\ FrameFine(prog, frame) /\ Kept(stack[t][n], frame)
  BY KeptSame, Zenon DEF Below
<1>4. OthersReturn(t) /\ ret'[t].action = frame.action /\ ret'[t].control = control
  BY <1>0, <1>1, FrameFields, Zenon DEF OthersReturn, Leave, Returns, Results, ActionExecution
<1> QED
  BY <1>1, <1>4, <1>0, ReframedBy, FrameFields, StayShape, Zenon DEF Moves, GoodMode, Leave,
     SetMode, Below, Results, ActionExecution

\* A statement that is done (Advance) moves frame n of the thread.
LEMMA AdvanceMoves ==
    ASSUME Shape, prog' = prog, NEW t \in Threads, NEW n, NEW rest, NEW frame,
           Below(t, n, rest, frame), AtItem(prog, frame),
           Advance(t, rest, frame)
    PROVE  /\ Moves(t, n, Advanced(frame), "run")
           /\ Kept(stack[t][n], Advanced(frame)) /\ Advanced(frame) \in Frame
           /\ Shape'
<1> DEFINE f == Advanced(frame)
<1>0. /\ stack \in [Threads -> Seq(Frame)] /\ ret \in [Threads -> Returns] /\ prog \in Programs
      /\ n \in Nat \ {0} /\ n \in 1..Len(stack[t])
  BY LenIs DEF Shape, Below
<1>1. f \in Frame /\ FrameFine(prog, f) /\ Kept(stack[t][n], f)
  BY <1>0, AdvancedIs, Zenon DEF Below
<1>2. stack' = [stack EXCEPT ![t] = Append(rest, f)]
  BY Zenon DEF Advance, Advanced
<1> HIDE DEF f
<1> QED
  BY <1>1, <1>0, <1>2, ReframedBy, StayShape, Zenon DEF f, Moves, GoodMode, Advance, SetMode,
     Below, OthersReturn

\* A step that changes only the mode of its thread.
LEMMA SameMoves ==
    ASSUME Shape, prog' = prog, NEW t \in Threads, mode[t] \notin {"idle", "done"},
           NEW m, UNCHANGED <<stack, ret>>, mode' = [mode EXCEPT ![t] = m],
           GoodMode(t, Top(t), m)
    PROVE  Moves(t, Len(stack[t]), Top(t), m) /\ Kept(Top(t), Top(t)) /\ Shape'
<1>1. /\ Len(stack[t]) \in 1..Len(stack[t]) /\ Len(stack[t]) > 0
      /\ stack \in [Threads -> Seq(Frame)]
      /\ Top(t) = stack[t][Len(stack[t])] /\ Top(t) \in Frame /\ FrameFine(prog, Top(t))
  BY TopFacts
<1> QED
  BY <1>1, ReframedSame, KeptSame, StayShape, Zenon DEF Moves, OthersReturn, Shape

-----------------------------------------------------------------------------
\* What every action does to the stack of its thread.

Busy == {"run", "block", "copy", "return", "unwind"}

\* The top activation goes on; it is left and its caller goes on; f is entered.
Redo(t) == \E f \in Frame : \E m \in Busy :
    Kept(Top(t), f) /\ Moves(t, Len(stack[t]), f, m)

Back(t) == \E f \in Frame : \E m \in Busy :
    Kept(Caller(t), f) /\ Moves(t, Len(stack[t]) - 1, f, m)

Enters(t, f) == \E m \in Busy : Moves(t, Len(stack[t]) + 1, f, m)

\* The item at which a running thread is.
LEMMA AtFacts ==
    ASSUME Shape, NEW t \in Threads, NEW ops, At(t, ops)
    PROVE  /\ mode[t] = "run" /\ AtItem(prog, Top(t)) /\ Item(Top(t)).op \in ops
           /\ Item(Top(t)) \in ProgramItem
           /\ Below(t, Len(stack[t]), Rest(t), Top(t))
           /\ Top(t) = stack[t][Len(stack[t])]
BY TopFacts, BelowTop, ItemFacts, Zenon DEF At, AtItem

\* A move of the top frame is a step of kind Redo.
LEMMA RedoIs ==
    ASSUME NEW t \in Threads, NEW f \in Frame, NEW m \in Busy, Kept(Top(t), f),
           Moves(t, Len(stack[t]), f, m)
    PROVE  Redo(t)
BY Zenon DEF Redo

\* A move of the caller's frame is a step of kind Back.
LEMMA BackIs ==
    ASSUME NEW t \in Threads, NEW f \in Frame, NEW m \in Busy, Kept(Caller(t), f),
           Moves(t, Len(stack[t]) - 1, f, m)
    PROVE  Back(t)
BY Zenon DEF Back

\* else_handled is a Boolean.
LEMMA HandledIs == ASSUME NEW t, NEW matched \in BOOLEAN PROVE Handled(t, matched) \in BOOLEAN
BY Zenon DEF Handled, ElseHandled

\* EndOfSequence goes on in the top activation and keeps the shape.
LEMMA EndOfSequenceShape ==
    ASSUME Shape, NEW t \in Threads, EndOfSequence(t)
    PROVE  Redo(t) /\ Shape'
BY BelowTop, TopFacts, LeaveMoves, RedoIs DEF Controls, Busy, EndOfSequence

\* An error leaves the frames to the error path.
LEMMA RaiseShape ==
    ASSUME Shape, NEW t \in Threads, mode[t] = "run", prog' = prog, NEW error, Raise(t, error)
    PROVE  Redo(t) /\ Shape'
BY SameMoves, TopFacts, RedoIs, Zenon DEF GoodMode, Busy, Raise, SetMode

\* Host goes on in the top activation or raises an error, and keeps the shape.
LEMMA HostShape ==
    ASSUME Shape, NEW t \in Threads, Host(t)
    PROVE  Redo(t) /\ Shape'
<1>1. At(t, {"host"}) /\ prog' = prog
      /\ \/ Advance(t, Rest(t), Top(t)) \/ Leave(t, Rest(t), Top(t), "endrc")
         \/ Raise(t, "evaluation")
  BY Zenon DEF Host
<1>3. "endrc" \in Controls /\ "return" \in Busy /\ "run" \in Busy
  BY Zenon DEF Controls, Busy
<1>4. CASE Advance(t, Rest(t), Top(t))
  BY <1>3, <1>1, AtFacts, <1>4, AdvanceMoves, RedoIs
<1>5. CASE Leave(t, Rest(t), Top(t), "endrc")
  BY <1>3, <1>1, AtFacts, <1>5, LeaveMoves, RedoIs
<1>6. CASE Raise(t, "evaluation")
  BY <1>1, <1>6, RaiseShape, Zenon DEF At
<1> QED
  BY <1>1, <1>4, <1>5, <1>6, Zenon

\* The activation that a block, INCLUDERC or SWITCHRC enters.
LEMMA EnteredIs ==
    ASSUME Shape, NEW kind \in {"block", "include", "switch"}, NEW seq \in DOMAIN prog,
           NEW lock \in Slots, NEW handled \in BOOLEAN, kind # "block" => lock = NoLock
    PROVE  LET f == Entered(kind, seq, lock, handled) IN
           /\ f \in Frame /\ FrameFine(prog, f) /\ f.kind = kind /\ f.seq = seq /\ f.lock = lock
           /\ f.handled = handled /\ f.saved.lock = NoLock /\ f.state = DefaultState /\ f.ran = 0
<1>2. seq \in Nat /\ kind \in Kinds
  BY ProgramFacts DEF Kinds, Shape
<1> DEFINE f == Entered(kind, seq, lock, handled)
<1>3. /\ f \in Frame
      /\ f.kind = kind /\ f.seq = seq /\ f.at = 1 /\ f.state = DefaultState
      /\ f.lock = lock /\ f.handled = handled /\ f.saved.lock = NoLock /\ f.ran = 0
  BY <1>2, DefaultIs, NewFrameIs DEF Entered
<1> HIDE DEF f
<1> QED
  BY <1>3, ProgramFacts, DefaultIs DEF f, FrameFine, Shape

\* RuntimeRc goes on in the top activation or enters the child of its item.
LEMMA RuntimeRcShape ==
    ASSUME Shape, NEW t \in Threads, RuntimeRc(t)
    PROVE  /\ \/ Redo(t)
              \/ \E f \in Frame : Enters(t, f) /\ f.kind \in {"include", "switch"}
                    /\ f.lock = NoLock /\ f.saved.lock = NoLock /\ f.ran = 0
                    /\ f.kind = Item(Top(t)).op /\ f.seq = Item(Top(t)).child
           /\ Shape'
<1> DEFINE item == Item(Top(t))
           f == Entered(item.op, item.child, NoLock, FALSE)
<1>0. At(t, {"include", "switch"}) /\ prog' = prog
  BY Zenon DEF RuntimeRc
<1>1. Below(t, Len(stack[t]), Rest(t), Top(t)) /\ Top(t) = stack[t][Len(stack[t])]
      /\ AtItem(prog, Top(t)) /\ item.op \in {"include", "switch"} /\ mode[t] = "run"
  BY <1>0, AtFacts, Zenon
<1>2. "endrc" \in Controls /\ "return" \in Busy /\ "run" \in Busy
  BY Zenon DEF Controls, Busy
<1>4. CASE item.child # 0 /\ stack' = Push(t, f) /\ UNCHANGED <<mode, ret>>
  <2>1. item.child \in DOMAIN prog /\ Len(stack[t]) > 0 /\ stack \in [Threads -> Seq(Frame)]
    BY <1>1, <1>4, TopFacts, ItemFacts, Zenon
  <2>3. /\ f \in Frame /\ FrameFine(prog, f) /\ f.kind = item.op /\ f.seq = item.child
        /\ f.lock = NoLock /\ f.saved.lock = NoLock /\ f.ran = 0
    <3> DEFINE k == item.op
               c == item.child
               h == FALSE
    <3>2. f = Entered(k, c, NoLock, h) /\ c \in DOMAIN prog /\ h \in BOOLEAN
          /\ k \in {"block", "include", "switch"} /\ k # "block"
      BY <2>1, <1>1, Zenon
    <3> HIDE DEF item, k, c, h, f
    <3> QED
      BY <3>2, EnteredIs DEF k, c, Slots
  <2> HIDE DEF f
  <2>8. f.kind \notin {"root", "branch"} /\ f.kind \notin {"block", "waited", "parent"}
    BY <1>1, <2>3, Zenon
  <2>9. Shape'
    BY <1>0, <1>1, <2>1, <2>3, <1>4, ReframedPush, <2>8, EnterShape DEF Moves, GoodMode,
       Shape, OthersReturn
  <2> QED
    BY <1>1, <1>2, <2>3, <1>4, <2>1, ReframedPush, <2>9, Zenon DEF Enters, Moves, GoodMode, Shape
<1>5. CASE Advance(t, Rest(t), Top(t))
  BY <1>2, <1>0, <1>1, <1>5, AdvanceMoves, RedoIs, Zenon
<1>6. CASE Leave(t, Rest(t), Top(t), "endrc")
  BY <1>2, <1>0, <1>1, <1>6, LeaveMoves, RedoIs
<1>7. CASE Raise(t, "evaluation")
  BY <1>0, <1>1, <1>7, RaiseShape, Zenon
<1> QED
  BY <1>4, <1>5, <1>6, <1>7, Zenon DEF RuntimeRc

\* LockFile goes on in the top activation and keeps the shape.
LEMMA LockFileShape ==
    ASSUME Shape, NEW t \in Threads, LockFile(t)
    PROVE  Redo(t) /\ Shape'
<1>0. At(t, {"lockfile"}) /\ prog' = prog
  BY Zenon DEF LockFile
<1>1. Below(t, Len(stack[t]), Rest(t), Top(t)) /\ Top(t) = stack[t][Len(stack[t])]
      /\ AtItem(prog, Top(t)) /\ mode[t] = "run"
  BY <1>0, AtFacts, Zenon
<1>4. CASE UNCHANGED <<stack, mode, ret>>
  <2>3. Moves(t, Len(stack[t]), Top(t), "run") /\ Kept(Top(t), Top(t)) /\ Shape'
    BY <1>0, <1>1, <1>4, TopFacts, SameMoves, Zenon DEF Shape, GoodMode
  <2> QED
    BY <1>1, TopFacts, <2>3, RedoIs, Zenon DEF Busy, GoodMode
<1>5. CASE Advance(t, Rest(t), Top(t))
  BY <1>0, <1>1, <1>5, AdvanceMoves, RedoIs, Zenon DEF Busy
<1>7. CASE Raise(t, "delivery")
  BY <1>0, <1>1, <1>7, RaiseShape, Zenon
<1> QED
  BY <1>4, <1>5, <1>7, Zenon DEF LockFile

\* A recipe of the top activation is done.
LEMMA TopDone ==
    ASSUME Shape, prog' = prog, NEW t \in Threads, mode[t] \notin {"idle", "done"},
           AtItem(prog, Top(t)),
           NEW matched \in BOOLEAN, matched => ExecutionGate(Item(Top(t)).ctl, Top(t).state),
           NEW action \in ActionExecution, NEW handled \in BOOLEAN, NEW control \in Controls,
           RecipeDone(t, Rest(t), Top(t), matched, action, handled, control)
    PROVE  Redo(t) /\ Shape'
<1> DEFINE f == Recorded(Top(t), matched, action, handled, control)
           m == IF control = "continue" THEN "run" ELSE "return"
<1>2. Moves(t, Len(stack[t]), f, m) /\ Kept(Top(t), f) /\ f \in Frame /\ Shape'
  BY TopFacts, BelowTop, DoneMoves
<1>3. m \in Busy
  BY Zenon DEF Busy
<1> HIDE DEF f, m
<1> QED
  BY <1>2, <1>3, RedoIs, Zenon

\* The recipe that the caller of the top activation waits for is done.
LEMMA CallerDone ==
    ASSUME Shape, prog' = prog, NEW t \in Threads, mode[t] \notin {"idle", "done"},
           Top(t).kind \in {"block", "waited", "parent"},
           NEW action \in ActionExecution, NEW handled \in BOOLEAN, NEW control \in Controls,
           RecipeDone(t, CallerRest(t), Caller(t), TRUE, action, handled, control)
    PROVE  Back(t) /\ Shape'
<1>1. Below(t, Len(stack[t]) - 1, CallerRest(t), Caller(t))
      /\ Caller(t) = stack[t][Len(stack[t]) - 1] /\ AtOpenBlock(prog, Caller(t)) /\ AtItem(prog, Caller(t))
  BY CallerFacts, BelowCaller, Zenon
<1>2. ExecutionGate(Item(Caller(t)).ctl, Caller(t).state)
  BY <1>1, Zenon DEF AtOpenBlock, Item
<1> DEFINE f == Recorded(Caller(t), TRUE, action, handled, control)
           m == IF control = "continue" THEN "run" ELSE "return"
<1>3. Moves(t, Len(stack[t]) - 1, f, m) /\ Kept(Caller(t), f) /\ f \in Frame /\ Shape'
  <2> DEFINE n == Len(stack[t]) - 1
             matched == TRUE
  <2>1. matched \in BOOLEAN /\ (matched => ExecutionGate(Item(Caller(t)).ctl, Caller(t).state))
        /\ Below(t, n, CallerRest(t), Caller(t)) /\ Caller(t) = stack[t][n]
        /\ RecipeDone(t, CallerRest(t), Caller(t), matched, action, handled, control)
        /\ AtItem(prog, Caller(t))
    BY <1>1, <1>2, Zenon
  <2>2. f = Recorded(Caller(t), matched, action, handled, control)
        /\ m = IF control = "continue" THEN "run" ELSE "return"
    BY Zenon
  <2> HIDE DEF n, matched, f, m
  <2>3. Moves(t, n, f, m) /\ Kept(stack[t][n], f) /\ f \in Frame /\ Shape'
    BY <2>1, <2>2, DoneMoves
  <2> QED
    BY <2>1, <2>3, Zenon DEF n
<1>4. m \in Busy
  BY Zenon DEF Busy
<1> HIDE DEF f, m
<1> QED
  BY <1>3, <1>4, BackIs, Zenon

\* Skip goes on in the top activation and keeps the shape.
LEMMA SkipShape ==
    ASSUME Shape, NEW t \in Threads, Skip(t)
    PROVE  Redo(t) /\ Shape'
BY AtFacts, HandledIs, TopDone, Zenon DEF Skip, ActionExecution, Controls

\* An action that was selected goes on in the top activation.
LEMMA ActionShape ==
    ASSUME Shape, NEW t \in Threads, prog' = prog, NEW ops, Selected(t, ops),
           NEW action \in ActionExecution, NEW control \in Controls,
           ActionDone(t, action, control)
    PROVE  Redo(t) /\ Shape'
BY AtFacts, HandledIs, TopDone, Zenon DEF Selected, ActionDone

\* ActionSucceeds goes on in the top activation and keeps the shape.
LEMMA ActionSucceedsShape ==
    ASSUME Shape, NEW t \in Threads, ActionSucceeds(t)
    PROVE  Redo(t) /\ Shape'
<1>1. PICK final \in BOOLEAN :
        ActionDone(t, "succeeded", IF final THEN "stop" ELSE "continue")
  BY Zenon DEF ActionSucceeds
<1> QED
  BY <1>1, ActionShape, Zenon DEF ActionSucceeds, ActionExecution, Controls

\* ActionFails goes on in the top activation and keeps the shape.
LEMMA ActionFailsShape ==
    ASSUME Shape, NEW t \in Threads, ActionFails(t)
    PROVE  Redo(t) /\ Shape'
BY ActionShape, Zenon DEF ActionFails, ActionExecution, Controls

\* ActionAborts leaves the frames to the error path.
LEMMA ActionAbortsShape ==
    ASSUME Shape, NEW t \in Threads, ActionAborts(t)
    PROVE  Redo(t) /\ Shape'
BY RaiseShape, Zenon DEF ActionAborts, Selected, At

\* DeliveryFailsLate leaves the frames to the error path.
LEMMA DeliveryFailsLateShape ==
    ASSUME Shape, NEW t \in Threads, DeliveryFailsLate(t)
    PROVE  Redo(t) /\ Shape'
BY RaiseShape, Zenon DEF DeliveryFailsLate, Selected, At

\* A selected block is an open one at the top activation.
LEMMA SelectedFacts ==
    ASSUME Shape, NEW t \in Threads, Selected(t, {"block"})
    PROVE  /\ AtOpenBlock(prog, Top(t)) /\ AtItem(prog, Top(t)) /\ mode[t] = "run"
           /\ Top(t) \in Frame /\ FrameFine(prog, Top(t)) /\ Len(stack[t]) > 0
           /\ Len(stack[t]) \in Nat /\ Top(t) = stack[t][Len(stack[t])]
           /\ stack \in [Threads -> Seq(Frame)]
<1>3. AtOpenBlock(prog, Top(t))
  BY AtFacts DEF AtOpenBlock, Item, Selected
<1> QED
  BY AtFacts, <1>3, TopFacts, Zenon DEF Selected

\* SelectBlock stays at the block and keeps the shape.
LEMMA SelectBlockShape ==
    ASSUME Shape, NEW t \in Threads, SelectBlock(t)
    PROVE  Redo(t) /\ Shape'
<1>2. mode[t] = "run" /\ AtOpenBlock(prog, Top(t)) /\ Top(t) \in Frame
  BY SelectedFacts, Zenon DEF SelectBlock, SetMode
<1> QED
  BY <1>2, SameMoves, RedoIs, Zenon DEF GoodMode, Busy, SelectBlock, SetMode

\* The activation of a waited copy branch.
WaitedFrame(t) ==
    [NewFrame("waited", Top(t).seq, Top(t).at, Top(t).state, NoLock, Handled(t, TRUE)) EXCEPT
        !.saved = [edits |-> edits[t], delivered |-> delivered[t], lock |-> globalLock[t]],
        !.ran = Top(t).ran]

\* The activation of a waited branch is at the same block as its caller and keeps
\* the caller's message, delivery and lock slot.
LEMMA WaitedFrameIs ==
    ASSUME Shape, Data, NEW t \in Threads, Selected(t, {"block"})
    PROVE  LET f == WaitedFrame(t) IN
           /\ f \in Frame /\ FrameFine(prog, f) /\ f.kind = "waited" /\ f.lock = NoLock
           /\ f.seq = Top(t).seq /\ f.at = Top(t).at /\ f.state = Top(t).state
           /\ f.saved = [edits |-> edits[t], delivered |-> delivered[t], lock |-> globalLock[t]]
           /\ f.saved.edits = edits[t] /\ f.saved.delivered = delivered[t]
           /\ f.saved.lock = globalLock[t] /\ f.ran = Top(t).ran
           /\ f.handled = Handled(t, TRUE) /\ AtOpenBlock(prog, f)
<1> DEFINE g == NewFrame("waited", Top(t).seq, Top(t).at, Top(t).state, NoLock, Handled(t, TRUE))
           sv == [edits |-> edits[t], delivered |-> delivered[t], lock |-> globalLock[t]]
           f == WaitedFrame(t)
<1>1. AtOpenBlock(prog, Top(t)) /\ Top(t) \in Frame /\ FrameFine(prog, Top(t))
  BY SelectedFacts, Zenon
<1>2. /\ Top(t).seq \in Nat /\ Top(t).at \in Nat /\ Top(t).state \in SequenceState /\ Top(t).ran \in Nat
  BY <1>1, FrameFields, Zenon
<1>3. "waited" \in Kinds /\ NoLock \in Slots /\ Handled(t, TRUE) \in BOOLEAN
  BY HandledIs, Zenon DEF Kinds, Slots
<1>4. /\ g \in Frame /\ g.kind = "waited" /\ g.seq = Top(t).seq /\ g.at = Top(t).at
      /\ g.state = Top(t).state /\ g.lock = NoLock /\ g.handled = Handled(t, TRUE)
  <2> DEFINE k == "waited"
             h == Handled(t, TRUE)
  <2>1. k \in Kinds /\ h \in BOOLEAN /\ g = NewFrame(k, Top(t).seq, Top(t).at, Top(t).state, NoLock, h)
    BY <1>3, Zenon
  <2> HIDE DEF k, h, g
  <2>2. /\ g \in Frame /\ g.kind = k /\ g.seq = Top(t).seq /\ g.at = Top(t).at
        /\ g.state = Top(t).state /\ g.lock = NoLock /\ g.handled = h
    BY <1>2, <1>3, <2>1, NewFrameIs
  <2> QED
    BY <2>2, Zenon DEF k, h
<1>5. edits[t] \in Nat /\ delivered[t] \in BOOLEAN /\ globalLock[t] \in Slots
  BY Zenon DEF Data
<1>6. sv \in SavedContext
  BY <1>5, Zenon DEF SavedContext
<1>7. f = [g EXCEPT !.saved = sv, !.ran = Top(t).ran]
  BY Zenon DEF WaitedFrame
<1>8. sv.edits = edits[t] /\ sv.delivered = delivered[t] /\ sv.lock = globalLock[t]
  BY Zenon
<1> HIDE DEF g, sv, f
<1>9. /\ f \in Frame /\ f.kind = "waited" /\ f.seq = Top(t).seq /\ f.at = Top(t).at
      /\ f.state = Top(t).state /\ f.lock = NoLock /\ f.saved = sv /\ f.ran = Top(t).ran
      /\ f.handled = Handled(t, TRUE)
  BY <1>2, <1>4, <1>6, <1>7, Zenon DEF Frame
<1>10. FrameFine(prog, f)
  BY <1>1, <1>9, Zenon DEF FrameFine
<1>11. AtOpenBlock(prog, f)
  BY <1>1, <1>9, Zenon DEF AtOpenBlock, AtItem
<1> QED
  BY <1>8, <1>9, <1>10, <1>11, Zenon DEF f, sv

\* SelectWaitedCopy enters the activation of the branch.
LEMMA SelectWaitedCopyShape ==
    ASSUME Shape, Data, NEW t \in Threads, SelectWaitedCopy(t)
    PROVE  Enters(t, WaitedFrame(t)) /\ Shape'
<1> DEFINE f == WaitedFrame(t)
<1>1. prog' = prog /\ Selected(t, {"block"}) /\ mode' = [mode EXCEPT ![t] = "copy"] /\ ret' = ret
  BY Zenon DEF SelectWaitedCopy, SetMode
<1>2. stack' = Push(t, f)
  BY Zenon DEF SelectWaitedCopy, WaitedFrame
<1>3. f \in Frame /\ FrameFine(prog, f) /\ f.kind = "waited" /\ AtOpenBlock(prog, f)
  BY <1>1, WaitedFrameIs, Zenon
<1> HIDE DEF f
<1> QED
  BY <1>1, <1>2, <1>3, SelectedFacts, ReframedPush, EnterShape, Zenon DEF Enters, f, Moves,
     GoodMode, Busy, OthersReturn, Shape

\* EnterBlock records a failed lock or enters the children with the lock.
LEMMA EnterBlockShape ==
    ASSUME Shape, NEW t \in Threads, EnterBlock(t)
    PROVE  /\ \/ /\ Redo(t) /\ UNCHANGED owner
              \/ /\ Free(Item(Top(t)).lock) /\ owner' = Acquired(t, Item(Top(t)).lock)
                 /\ \E f \in Frame : Enters(t, f) /\ f.kind = "block"
                        /\ f.lock = Item(Top(t)).lock /\ f.saved.lock = NoLock
                        /\ f.seq = Item(Top(t)).child /\ f.ran = 0
                        /\ f.handled = (mode[t] = "block" /\ Handled(t, TRUE))
           /\ Shape'
<1> DEFINE item == Item(Top(t))
           handled == mode[t] = "block" /\ Handled(t, TRUE)
           f == Entered("block", item.child, item.lock, handled)
<1>0. mode[t] \in {"block", "copy"} /\ prog' = prog
  BY Zenon DEF EnterBlock
<1>1. /\ AtOpenBlock(prog, Top(t)) /\ Top(t) \in Frame /\ FrameFine(prog, Top(t))
      /\ Len(stack[t]) > 0 /\ stack \in [Threads -> Seq(Frame)] /\ prog \in Programs
  BY <1>0, TopFacts, Zenon
<1>2. AtItem(prog, Top(t)) /\ item.op = "block" /\ ExecutionGate(item.ctl, Top(t).state)
  BY <1>1, Zenon DEF AtOpenBlock, Item
<1>4. handled \in BOOLEAN
  BY Zenon
<1>6. CASE RecipeDone(t, Rest(t), Top(t), TRUE, "failed", handled, "continue") /\ UNCHANGED owner
  <2> HIDE DEF handled
  <2> QED
    BY <1>6, <1>0, <1>2, <1>4, TopDone, Zenon DEF ActionExecution, Controls
<1>7. CASE /\ Free(item.lock) /\ owner' = Acquired(t, item.lock)
           /\ stack' = Push(t, f) /\ SetMode(t, "run") /\ UNCHANGED ret
  <2> DEFINE k == "block"
             c == item.child
             l == item.lock
  <2>1. f = Entered(k, c, l, handled) /\ k \in {"block", "include", "switch"} /\ k = "block"
        /\ c \in DOMAIN prog /\ l \in Slots
    BY <1>1, <1>2, ItemFacts, Zenon
  <2> HIDE DEF k, c, l, handled, f
  <2>2. /\ f \in Frame /\ FrameFine(prog, f) /\ f.kind = k /\ f.lock = l /\ f.saved.lock = NoLock
        /\ f.seq = c /\ f.handled = handled /\ f.ran = 0
    BY <1>4, <2>1, EnteredIs
  <2>5. GoodMode(t, f, "run") /\ "run" \in Busy /\ OthersReturn(t)
    BY <1>7, Zenon DEF GoodMode, Busy, OthersReturn, Shape
  <2>6. Shape'
    BY <1>0, <1>1, <1>2, <2>2, <2>1, <1>7, ReframedPush, <2>5, EnterShape, Zenon DEF l, c, Moves,
       SetMode
  <2> QED
    BY <1>7, <2>2, <2>1, <2>6, <1>1, ReframedPush, <2>5, Zenon DEF l, c, handled, Enters, Moves,
       SetMode
<1> QED
  BY <1>6, <1>7, Zenon DEF EnterBlock

\* What an activation returns to its caller.
LEMMA ReturningFacts ==
    ASSUME Shape, NEW t \in Threads, NEW kinds, Returning(t, kinds)
    PROVE  /\ mode[t] = "return" /\ Top(t).kind \in kinds /\ Top(t) \in Frame
           /\ ret[t].action \in ActionExecution /\ ret[t].control \in Controls
           /\ Top(t).handled \in BOOLEAN
BY TopFacts, FrameFields, Zenon DEF Returns, Returning, Shape

\* ReturnBlock goes back to the caller of the block.
LEMMA ReturnBlockShape ==
    ASSUME Shape, NEW t \in Threads, ReturnBlock(t)
    PROVE  Back(t) /\ Shape'
<1> DEFINE control == IF ret[t].control = "complete" THEN "continue" ELSE ret[t].control
<1>1. Returning(t, {"block"}) /\ prog' = prog
      /\ RecipeDone(t, CallerRest(t), Caller(t), TRUE, ret[t].action, Top(t).handled, control)
  BY Zenon DEF ReturnBlock
<1>2. /\ mode[t] = "return" /\ Top(t).kind = "block" /\ ret[t].action \in ActionExecution
      /\ ret[t].control \in Controls /\ Top(t).handled \in BOOLEAN
  BY <1>1, ReturningFacts
<1>3. control \in Controls
  BY <1>2, Zenon DEF Controls
<1> HIDE DEF control
<1> QED
  BY <1>1, <1>2, <1>3, CallerDone, Zenon

\* ReturnRc goes back to the INCLUDERC or SWITCHRC line.
LEMMA ReturnRcShape ==
    ASSUME Shape, NEW t \in Threads, ReturnRc(t)
    PROVE  Back(t) /\ Shape'
<1>1. Returning(t, {"include", "switch"}) /\ prog' = prog
  BY Zenon DEF ReturnRc
<1> DEFINE n == Len(stack[t]) - 1
<1>4. Below(t, n, CallerRest(t), Caller(t)) /\ Caller(t) = stack[t][n] /\ AtItem(prog, Caller(t))
  BY <1>1, ReturningFacts, CallerFacts, BelowCaller
<1>6. {"stop", "endrc"} \subseteq Controls /\ "return" \in Busy /\ "run" \in Busy
  BY Zenon DEF Controls, Busy
<1> HIDE DEF n
<1>7. CASE \E control \in {"stop", "endrc"} : Leave(t, CallerRest(t), Caller(t), control)
  BY <1>6, <1>1, <1>4, <1>7, LeaveMoves, BackIs, Zenon DEF n
<1>8. CASE Advance(t, CallerRest(t), Caller(t))
  BY <1>6, <1>1, <1>4, <1>8, AdvanceMoves, BackIs, Zenon DEF n
<1> QED
  BY <1>7, <1>8, Zenon DEF ReturnRc

\* ReturnWaited goes back to the copy block.
LEMMA ReturnWaitedShape ==
    ASSUME Shape, NEW t \in Threads, ReturnWaited(t)
    PROVE  Back(t) /\ Shape'
<1> DEFINE action == IF pendingError[t] THEN "failed" ELSE "succeeded"
           control == "continue"
<1>1. Returning(t, {"waited"}) /\ prog' = prog
      /\ RecipeDone(t, CallerRest(t), Caller(t), TRUE, action, Top(t).handled, control)
  BY Zenon DEF ReturnWaited
<1>3. action \in ActionExecution /\ control \in Controls
  BY Zenon DEF Controls, ActionExecution
<1> HIDE DEF action, control
<1> QED
  BY <1>1, ReturningFacts, <1>3, CallerDone, Zenon

\* An activation is dropped on the error path.
LEMMA DropShape ==
    ASSUME Shape, prog' = prog, NEW t \in Threads, mode[t] \notin {"idle", "done"},
           Top(t).kind \notin {"root", "branch"}, ret' = ret,
           stack' = [stack EXCEPT ![t] = Rest(t)], mode' = [mode EXCEPT ![t] = "unwind"]
    PROVE  Back(t) /\ Shape'
<1> DEFINE n == Len(stack[t]) - 1
<1>1. /\ n \in 1..Len(stack[t]) /\ Len(stack[t]) > 1 /\ Caller(t) = stack[t][n]
      /\ Caller(t) \in Frame /\ FrameFine(prog, Caller(t)) /\ stack \in [Threads -> Seq(Frame)]
  BY CallerFacts, TopFacts
<1>3. Moves(t, n, Caller(t), "unwind") /\ GoodMode(t, Caller(t), "unwind") /\ "unwind" \in Busy
  BY <1>1, ReframedDrop, Zenon DEF Moves, GoodMode, Busy
<1>5. Back(t)
  BY <1>1, <1>3, KeptSame, BackIs, Zenon DEF OthersReturn, Shape
<1> HIDE DEF n
<1> QED
  BY <1>5, <1>1, <1>3, KeptSame, StayShape, Zenon DEF OthersReturn, Shape

\* ReturnParent goes back to the copy block, or raises the branch's error.
LEMMA ReturnParentShape ==
    ASSUME Shape, NEW t \in Threads, ReturnParent(t)
    PROVE  Back(t) /\ Shape'
<1> DEFINE control == "complete"
<1>1. Returning(t, {"parent"}) /\ prog' = prog
      /\ \/ /\ mode' = [mode EXCEPT ![t] = "unwind"] /\ stack' = [stack EXCEPT ![t] = Rest(t)] /\ ret' = ret
         \/ RecipeDone(t, CallerRest(t), Caller(t), TRUE, ret[t].action, Top(t).handled, control)
  BY Zenon DEF ReturnParent, SetMode
<1>3. control \in Controls
  BY Zenon DEF Controls
<1>4. mode[t] \notin {"idle", "done"} /\ Top(t).kind \in {"block", "waited", "parent"}
      /\ Top(t).kind \notin {"root", "branch"}
  BY <1>1, ReturningFacts
<1> HIDE DEF control
<1> QED
  BY <1>1, ReturningFacts, <1>3, <1>4, CallerDone, DropShape, Zenon

\* Unwind drops one activation.
LEMMA UnwindShape ==
    ASSUME Shape, NEW t \in Threads, Unwind(t)
    PROVE  Back(t) /\ Shape'
BY DropShape, Zenon DEF Unwind, Shape

\* ThreadEnds leaves a thread without activations.
LEMMA ThreadEndsShape ==
    ASSUME Shape, NEW t \in Threads, ThreadEnds(t)
    PROVE  /\ Len(stack[t]) = 1 /\ mode[t] \in {"return", "unwind"}
           /\ stack' \in [Threads -> Seq(Frame)] /\ Len(stack'[t]) = 0
           /\ \A u \in Threads \ {t} : stack'[u] = stack[u]
           /\ mode' = [mode EXCEPT ![t] = "done"]
           /\ Shape'
<1>1. /\ prog' = prog /\ stack' = [stack EXCEPT ![t] = <<>>] /\ mode' = [mode EXCEPT ![t] = "done"]
      /\ ret' = ret /\ mode[t] \in {"return", "unwind"} /\ Top(t).kind \in {"root", "branch"}
  BY Zenon DEF ThreadEnds, SetMode
<1>2. /\ stack \in [Threads -> Seq(Frame)] /\ mode \in [Threads -> Modes] /\ ret \in [Threads -> Returns]
      /\ StackFine(t) /\ prog \in Programs
  BY Zenon DEF Shape
<1>3. Len(stack[t]) \in Nat /\ Len(stack[t]) > 0 /\ Top(t) = stack[t][Len(stack[t])]
  BY <1>1, TopFacts, Zenon
<1>4. Len(stack[t]) = 1
  <2>1. Len(stack[t]) \in 1..Len(stack[t])
    BY <1>3
  <2> QED
    BY <1>1, <1>2, <1>3, <2>1, Zenon DEF StackFine
<1>5. /\ stack' \in [Threads -> Seq(Frame)] /\ stack'[t] = <<>>
      /\ \A u \in Threads \ {t} : stack'[u] = stack[u]
  BY <1>1, <1>2
<1>6. mode' \in [Threads -> Modes] /\ mode'[t] = "done" /\ \A u \in Threads \ {t} : mode'[u] = mode[u]
  BY <1>1, <1>2, Zenon DEF Modes
<1>7. Len(stack'[t]) = 0
  BY <1>5
<1>8. StackFine(t)' /\ ModeFine(t)'
  BY <1>6, <1>7 DEF StackFine, ModeFine
<1>9. \A u \in Threads \ {t} : StackFine(u)' /\ ModeFine(u)'
  BY <1>1, <1>5, <1>6, OtherFine, Zenon DEF Shape
<1> QED
  BY <1>1, <1>2, <1>4, <1>5, <1>6, <1>7, <1>8, <1>9, Zenon DEF Shape

ParentFrame(t) ==
    [NewFrame("parent", Top(t).seq, Top(t).at + 1,
              Record(Top(t).state, Item(Top(t)).ctl, TRUE, "succeeded", FALSE),
              NoLock, Handled(t, TRUE))
     EXCEPT !.branch = started + 1]

BranchFrame(t) ==
    [NewFrame("branch", Top(t).seq, Top(t).at, Top(t).state, NoLock, FALSE)
     EXCEPT !.ran = Top(t).ran]

\* The activation in which a caller goes on behind an unwaited copy block.
LEMMA ParentFrameIs ==
    ASSUME Shape, NEW t \in Threads, Selected(t, {"block"}), started + 1 \in Threads
    PROVE  LET f == ParentFrame(t) IN
           /\ f \in Frame /\ FrameFine(prog, f) /\ f.kind = "parent" /\ f.lock = NoLock
           /\ f.saved.lock = NoLock /\ f.branch = started + 1
           /\ f.seq = Top(t).seq /\ f.ran = 0 /\ f.handled = Handled(t, TRUE)
<1> DEFINE k == "parent"
           h == Handled(t, TRUE)
           at == Top(t).at + 1
           st == Record(Top(t).state, Item(Top(t)).ctl, TRUE, "succeeded", FALSE)
           g == NewFrame(k, Top(t).seq, at, st, NoLock, h)
           f == ParentFrame(t)
           u == started + 1
<1>1. /\ AtOpenBlock(prog, Top(t)) /\ Top(t) \in Frame /\ FrameFine(prog, Top(t))
      /\ AtItem(prog, Top(t)) /\ prog \in Programs
  BY SelectedFacts, Zenon DEF Shape
<1>2. /\ Top(t).seq \in Nat /\ Top(t).at \in Nat /\ Top(t).state \in SequenceState
      /\ Item(Top(t)).ctl \in ControlFlow /\ Chained(Top(t).state)
  BY <1>1, FrameFields, ItemFacts, Zenon DEF FrameFine
<1>3. k \in Kinds /\ NoLock \in Slots /\ h \in BOOLEAN
  BY HandledIs, Zenon DEF Kinds, Slots
<1>4. st \in SequenceState /\ Chained(st)
  <2> DEFINE a == "succeeded"
             m == TRUE
             e == FALSE
  <2>1. a \in ActionExecution /\ m \in BOOLEAN /\ e \in BOOLEAN
        /\ (m => ExecutionGate(Item(Top(t)).ctl, Top(t).state))
        /\ st = Record(Top(t).state, Item(Top(t)).ctl, m, a, e)
    BY <1>1, Zenon DEF AtOpenBlock, Item, ActionExecution
  <2> HIDE DEF a, m, e, st
  <2> QED
    BY <1>2, <2>1, RecordIs, Zenon
<1>5. at \in Nat /\ at \in 1..(Len(prog[Top(t).seq]) + 1)
  BY <1>1, <1>2, ProgramFacts DEF FrameFine, AtItem
<1>6. f = [g EXCEPT !.branch = u]
  BY Zenon DEF ParentFrame
<1> HIDE DEF k, h, at, st, g, f, u
<1>9. f \in Frame /\ f.kind = k /\ f.seq = Top(t).seq /\ f.at = at /\ f.state = st
      /\ f.lock = NoLock /\ f.saved.lock = NoLock /\ f.branch = u /\ f.ran = 0 /\ f.handled = h
  BY <1>6, <1>2, <1>3, <1>4, <1>5, NewFrameIs DEF Frame, g, u
<1> QED
  BY <1>9, <1>1, <1>4, <1>5, Zenon DEF f, k, u, h, FrameFine

\* The first activation of an unwaited branch is at the copy block.
LEMMA BranchFrameIs ==
    ASSUME Shape, NEW t \in Threads, Selected(t, {"block"})
    PROVE  LET f == BranchFrame(t) IN
           /\ f \in Frame /\ FrameFine(prog, f) /\ f.kind = "branch" /\ f.lock = NoLock
           /\ f.saved.lock = NoLock /\ AtOpenBlock(prog, f)
           /\ f.seq = Top(t).seq /\ f.at = Top(t).at /\ f.state = Top(t).state /\ f.ran = Top(t).ran
<1> DEFINE k == "branch"
           h == FALSE
           g == NewFrame(k, Top(t).seq, Top(t).at, Top(t).state, NoLock, h)
           f == BranchFrame(t)
<1>1. AtOpenBlock(prog, Top(t)) /\ Top(t) \in Frame /\ FrameFine(prog, Top(t))
  BY SelectedFacts, Zenon
<1>2. Top(t).seq \in Nat /\ Top(t).at \in Nat /\ Top(t).state \in SequenceState /\ Top(t).ran \in Nat
  BY <1>1, FrameFields, Zenon
<1>3. k \in Kinds /\ NoLock \in Slots /\ h \in BOOLEAN
  BY Zenon DEF Kinds, Slots
<1>4. f = [g EXCEPT !.ran = Top(t).ran]
  BY Zenon DEF BranchFrame
<1>5. k # "block" /\ k # "waited" /\ k # "parent"
  BY Zenon
<1> HIDE DEF k, h, g, f
<1>7. f \in Frame /\ f.kind = k /\ f.seq = Top(t).seq /\ f.at = Top(t).at /\ f.state = Top(t).state
      /\ f.lock = NoLock /\ f.saved.lock = NoLock /\ f.ran = Top(t).ran
  BY <1>2, <1>4, <1>3, NewFrameIs DEF Frame, g
<1> QED
  BY <1>7, <1>1, <1>5, Zenon DEF f, k, FrameFine, AtOpenBlock, AtItem

\* Thread u is started with the activation b, and t goes on in f.
Forks(t, u, f, b) ==
    /\ started' = u
    /\ stack' \in [Threads -> Seq(Frame)]
    /\ Len(stack'[t]) = Len(stack[t]) + 1
    /\ \A i \in 1..Len(stack[t]) : stack'[t][i] = stack[t][i]
    /\ stack'[t][Len(stack[t]) + 1] = f
    /\ Len(stack'[u]) = 1 /\ stack'[u][1] = b
    /\ \A v \in Threads \ {t, u} : stack'[v] = stack[v]
    /\ mode' = [mode EXCEPT ![u] = "copy"]

\* Starting a branch keeps the shape of the stacks.
LEMMA ForkShape ==
    ASSUME Shape, NEW t \in Threads, NEW u \in Threads \ {t}, mode[t] = "run", prog' = prog,
           ret' = ret,
           NEW f \in Frame, FrameFine(prog, f), f.kind = "parent", AtOpenBlock(prog, Top(t)),
           NEW b \in Frame, FrameFine(prog, b), b.kind = "branch", AtOpenBlock(prog, b),
           Forks(t, u, f, b)
    PROVE  Shape'
<1>1. /\ stack \in [Threads -> Seq(Frame)] /\ mode \in [Threads -> Modes] /\ ret \in [Threads -> Returns]
      /\ prog \in Programs /\ Len(stack[t]) \in Nat /\ Len(stack[t]) > 0
  BY TopFacts, Zenon DEF Shape
<1>3. mode' \in [Threads -> Modes] /\ mode'[u] = "copy" /\ \A v \in Threads \ {u} : mode'[v] = mode[v]
  BY <1>1, Zenon DEF Forks, Modes
<1>5. ModeFine(t)'
  BY <1>1, <1>3 DEF ModeFine, Forks
<1>6. StackFine(u)' /\ ModeFine(u)'
  BY <1>3 DEF ModeFine, StackFine, Forks
<1>7. \A v \in Threads \ {t, u} : StackFine(v)' /\ ModeFine(v)'
  <2> TAKE v \in Threads \ {t, u}
  <2> QED
    BY <1>3, OtherFine, Zenon DEF Forks, Shape
<1> QED
  BY <1>1, <1>3, EnterStack, <1>5, <1>6, <1>7, Zenon DEF Shape, Forks, AtOpenBlock

\* SelectUnwaitedCopy forks, or raises an error if no branch is left.
LEMMA SelectUnwaitedCopyShape ==
    ASSUME Shape, Parents, started \in 0..MaxBranches, NEW t \in Threads, SelectUnwaitedCopy(t)
    PROVE  /\ \/ Redo(t) /\ UNCHANGED <<started, edits>>
              \/ /\ started + 1 \in Threads \ {t} /\ mode[started + 1] = "idle" /\ mode[t] = "run"
                 /\ Forks(t, started + 1, ParentFrame(t), BranchFrame(t))
                 /\ edits' = [edits EXCEPT ![started + 1] = edits[t]]
           /\ Shape'
<1> DEFINE u == started + 1
           f == ParentFrame(t)
           b == BranchFrame(t)
<1>1. Selected(t, {"block"}) /\ prog' = prog
  BY Zenon DEF SelectUnwaitedCopy
<1>2. /\ mode[t] = "run" /\ AtOpenBlock(prog, Top(t)) /\ stack \in [Threads -> Seq(Frame)]
      /\ Len(stack[t]) > 0 /\ Len(stack[t]) \in Nat
  BY <1>1, SelectedFacts, Zenon
<1>4. CASE Raise(t, "evaluation") /\ UNCHANGED <<started, edits>>
  BY <1>1, <1>2, <1>4, RaiseShape, Zenon
<1>5. CASE /\ started < MaxBranches
           /\ started' = u
           /\ stack' = [Push(t, f) EXCEPT ![u] = <<b>>]
           /\ mode' = [mode EXCEPT ![u] = "copy"]
           /\ edits' = [edits EXCEPT ![u] = edits[t]]
           /\ UNCHANGED ret
  <2>1. u \in Threads /\ u > started
    BY <1>5, OrderedEvalAssumption DEF Threads
  <2>2. mode[u] = "idle" /\ u # t
    BY <1>2, <2>1, Zenon DEF Parents
  <2>3. f \in Frame /\ FrameFine(prog, f) /\ f.kind = "parent"
    BY <1>1, <2>1, ParentFrameIs, Zenon
  <2>4. b \in Frame /\ FrameFine(prog, b) /\ b.kind = "branch" /\ AtOpenBlock(prog, b)
    BY <1>1, BranchFrameIs, Zenon
  <2> HIDE DEF u, f, b
  <2> DEFINE s == Append(stack[t], f)
  <2>5. /\ s \in Seq(Frame) /\ Len(s) = Len(stack[t]) + 1
        /\ \A i \in 1..Len(stack[t]) : s[i] = stack[t][i]
        /\ s[Len(stack[t]) + 1] = f
    BY <1>2, <2>3, LenIs, AppendIs
  <2>6. stack' = [[stack EXCEPT ![t] = s] EXCEPT ![u] = <<b>>]
    BY <1>5, Zenon DEF Push
  <2> HIDE DEF s
  <2>8. /\ stack' \in [Threads -> Seq(Frame)] /\ stack'[t] = s /\ stack'[u] = <<b>>
        /\ \A v \in Threads \ {t, u} : stack'[v] = stack[v]
    BY <1>2, <2>1, <2>2, <2>5, <2>6, <2>4
  <2>9. Forks(t, u, f, b)
    BY <1>5, <2>5, <2>4, <2>8 DEF Forks
  <2> QED
    BY <1>2, <1>5, <2>1, <2>2, <2>9, <1>1, <2>3, <2>4, ForkShape, Zenon DEF u, f, b
<1> QED
  BY <1>4, <1>5, Zenon DEF SelectUnwaitedCopy, BranchAvailable, ParentFrame, BranchFrame

-----------------------------------------------------------------------------
\* The frames after a step, one by one.

\* s2 holds the first n frames of s, up to changes that keep their slots.
Slotwise(s, s2, n) ==
    /\ Len(s2) = n
    /\ \A i \in 1..n : s2[i].lock = s[i].lock /\ s2[i].saved.lock = s[i].saved.lock

\* f is entered on top of s.
Pushed(s, s2, f) ==
    /\ Len(s2) = Len(s) + 1
    /\ \A i \in 1..Len(s) : s2[i] = s[i]
    /\ s2[Len(s) + 1] = f

\* After a step of kind Redo every frame is another state of itself.
LEMMA RedoFacts ==
    ASSUME Shape, NEW t \in Threads, mode[t] \notin {"idle", "done"}, Redo(t)
    PROVE  /\ stack[t] \in Seq(Frame) /\ stack'[t] \in Seq(Frame)
           /\ Slotwise(stack[t], stack'[t], Len(stack[t]))
           /\ \A u \in Threads \ {t} : stack'[u] = stack[u] /\ mode'[u] = mode[u]
           /\ mode'[t] \in Busy
           /\ Len(stack'[t]) = Len(stack[t])
           /\ \A i \in 1..Len(stack[t]) : Kept(stack[t][i], stack'[t][i])
<1> DEFINE n == Len(stack[t])
<1>1. PICK f \in Frame, m \in Busy : Kept(Top(t), f) /\ Moves(t, n, f, m)
  BY Zenon DEF Redo
<1>2. /\ stack \in [Threads -> Seq(Frame)] /\ n \in Nat /\ n > 0 /\ Top(t) = stack[t][n]
      /\ mode \in [Threads -> Modes]
  BY TopFacts, Zenon DEF Shape
<1>4. /\ stack' \in [Threads -> Seq(Frame)] /\ Len(stack'[t]) = n
      /\ \A i \in 1..(n - 1) : stack'[t][i] = stack[t][i]
      /\ stack'[t][n] = f
      /\ \A u \in Threads \ {t} : stack'[u] = stack[u]
      /\ mode' = [mode EXCEPT ![t] = m]
  BY <1>1, Zenon DEF Moves, Reframed
<1> HIDE DEF n
<1>5. \A i \in 1..n : Kept(stack[t][i], stack'[t][i])
  <2> TAKE i \in 1..n
  <2>1. CASE i = n
    BY <2>1, <1>1, <1>2, <1>4, Zenon
  <2>2. CASE i # n
    BY <2>2, <1>2, LenIs, <1>4, KeptSame
  <2> QED
    BY <2>1, <2>2, Zenon
<1> QED
  BY <1>2, <1>4, <1>5, Zenon DEF n, Slotwise, Kept

\* After a step of kind Back the top frame is gone and the others are kept.
LEMMA BackFacts ==
    ASSUME Shape, NEW t \in Threads, mode[t] \notin {"idle", "done"},
           Top(t).kind \notin {"root", "branch"}, Back(t)
    PROVE  /\ stack[t] \in Seq(Frame) /\ stack'[t] \in Seq(Frame) /\ Len(stack[t]) > 1
           /\ Slotwise(stack[t], stack'[t], Len(stack[t]) - 1)
           /\ \A u \in Threads \ {t} : stack'[u] = stack[u] /\ mode'[u] = mode[u]
           /\ mode'[t] \in Busy
           /\ Len(stack'[t]) = Len(stack[t]) - 1
           /\ \A i \in 1..(Len(stack[t]) - 1) : Kept(stack[t][i], stack'[t][i])
<1> DEFINE n == Len(stack[t]) - 1
<1>1. PICK f \in Frame, m \in Busy : Kept(Caller(t), f) /\ Moves(t, n, f, m)
  BY Zenon DEF Back
<1>2. /\ stack \in [Threads -> Seq(Frame)] /\ n \in Nat /\ n > 0 /\ Caller(t) = stack[t][n]
      /\ n \in 1..Len(stack[t]) /\ mode \in [Threads -> Modes] /\ Len(stack[t]) > 1
      /\ Len(stack[t]) \in Nat
  BY TopFacts, CallerFacts DEF Shape
<1>3. \A i \in 1..n : stack[t][i] \in Frame
  BY <1>2, LenIs
<1>4. /\ stack' \in [Threads -> Seq(Frame)] /\ Len(stack'[t]) = n
      /\ \A i \in 1..(n - 1) : stack'[t][i] = stack[t][i]
      /\ stack'[t][n] = f
      /\ \A u \in Threads \ {t} : stack'[u] = stack[u]
      /\ mode' = [mode EXCEPT ![t] = m]
  BY <1>1, Zenon DEF Moves, Reframed
<1> HIDE DEF n
<1>5. \A i \in 1..n : Kept(stack[t][i], stack'[t][i])
  <2> TAKE i \in 1..n
  <2>1. CASE i = n
    BY <2>1, <1>1, <1>2, <1>4, Zenon
  <2>2. CASE i # n
    <3>1. i \in 1..(n - 1)
      BY <2>2, <1>2
    <3> QED
      BY <3>1, <1>3, <1>4, KeptSame, Zenon
  <2> QED
    BY <2>1, <2>2, Zenon
<1>6. Slotwise(stack[t], stack'[t], n)
  BY <1>4, <1>5, Zenon DEF Slotwise, Kept
<1>7. mode'[t] = m /\ \A u \in Threads \ {t} : mode'[u] = mode[u]
  BY <1>2, <1>4, Zenon
<1> QED
  BY <1>2, <1>4, <1>5, <1>6, <1>7, Zenon DEF n

\* After a step of kind Enters the frames are those before and f.
LEMMA EntersFacts ==
    ASSUME Shape, NEW t \in Threads, mode[t] \notin {"idle", "done"}, NEW f \in Frame, Enters(t, f)
    PROVE  /\ stack[t] \in Seq(Frame) /\ stack'[t] \in Seq(Frame)
           /\ Pushed(stack[t], stack'[t], f)
           /\ \A u \in Threads \ {t} : stack'[u] = stack[u] /\ mode'[u] = mode[u]
           /\ mode'[t] \in Busy
<1> DEFINE n == Len(stack[t])
<1>1. PICK m \in Busy : Moves(t, n + 1, f, m)
  BY Zenon DEF Enters
<1>2. stack \in [Threads -> Seq(Frame)] /\ n \in Nat /\ mode \in [Threads -> Modes]
  BY TopFacts, Zenon DEF Shape
<1>4. /\ stack' \in [Threads -> Seq(Frame)] /\ Len(stack'[t]) = n + 1
      /\ \A i \in 1..((n + 1) - 1) : stack'[t][i] = stack[t][i]
      /\ stack'[t][n + 1] = f
      /\ \A u \in Threads \ {t} : stack'[u] = stack[u]
      /\ mode' = [mode EXCEPT ![t] = m]
  BY <1>1, Zenon DEF Moves, Reframed
<1> QED
  BY <1>2, <1>4 DEF Pushed

\* The copy branches of a stack are the same if every frame is kept.
LEMMA FirstsSame ==
    ASSUME NEW s, NEW r, NEW n \in Nat, Len(s) = n, Len(r) = n,
           \A i \in 1..n : Kept(s[i], r[i])
    PROVE  /\ NoneWaited(r) <=> NoneWaited(s)
           /\ \A i \in 1..n : FirstWaited(r, i) <=> FirstWaited(s, i)
<1>2. ASSUME NEW i \in 1..n PROVE FirstWaited(r, i) <=> FirstWaited(s, i)
  <2>1. \A j \in 1..n : r[j].kind = s[j].kind
    BY Zenon DEF Kept
  <2>2. \A j \in 1..(i - 1) : j \in 1..n
    OBVIOUS
  <2> QED
    BY <2>1, <2>2, Zenon DEF FirstWaited
<1> QED
  BY <1>2, Zenon DEF NoneWaited, Kept

\* The copy branches of a stack after an activation is entered.
LEMMA FirstsPush ==
    ASSUME NEW s, NEW r, NEW f, Pushed(s, r, f), Len(s) \in Nat
    PROVE  /\ NoneWaited(r) <=> NoneWaited(s) /\ f.kind # "waited"
           /\ \A i \in 1..Len(s) : FirstWaited(r, i) <=> FirstWaited(s, i)
           /\ FirstWaited(r, Len(s) + 1) <=> NoneWaited(s) /\ f.kind = "waited"
<1> DEFINE n == Len(s)
<1>1. Len(r) = n + 1 /\ r[n + 1] = f /\ n \in Nat /\ \A i \in 1..n : r[i] = s[i]
  BY Zenon DEF Pushed
<1>2. NoneWaited(s) <=> \A i \in 1..n : s[i].kind # "waited"
  BY Zenon DEF NoneWaited
<1> HIDE DEF n
<1>3. NoneWaited(r) <=> NoneWaited(s) /\ f.kind # "waited"
  BY <1>1, <1>2 DEF NoneWaited
<1>4. ASSUME NEW i \in 1..n PROVE FirstWaited(r, i) <=> FirstWaited(s, i)
  BY <1>1 DEF FirstWaited
<1>5. FirstWaited(r, n + 1) <=> NoneWaited(s) /\ f.kind = "waited"
  BY <1>1, <1>2 DEF FirstWaited
<1> QED
  BY <1>3, <1>4, <1>5, Zenon DEF n

\* The copy branches of a stack after its top activation is left.
LEMMA FirstsPop ==
    ASSUME NEW s, NEW r, Len(s) \in Nat, Len(s) > 0, Len(r) = Len(s) - 1,
           \A i \in 1..(Len(s) - 1) : Kept(s[i], r[i])
    PROVE  /\ NoneWaited(r) /\ s[Len(s)].kind = "waited" => FirstWaited(s, Len(s))
           /\ NoneWaited(r) /\ s[Len(s)].kind # "waited" => NoneWaited(s)
           /\ \A i \in 1..(Len(s) - 1) : FirstWaited(r, i) <=> FirstWaited(s, i)
<1> DEFINE n == Len(s)
<1>1. n \in Nat \ {0} /\ n - 1 \in Nat
  OBVIOUS
<1>2. \A i \in 1..(n - 1) : r[i].kind = s[i].kind
  BY Zenon DEF Kept
<1>3. NoneWaited(r) <=> \A i \in 1..(n - 1) : r[i].kind # "waited"
  BY Zenon DEF NoneWaited
<1>4. NoneWaited(s) <=> \A i \in 1..n : s[i].kind # "waited"
  BY Zenon DEF NoneWaited
<1> HIDE DEF n
<1>6. NoneWaited(r) /\ s[n].kind # "waited" => NoneWaited(s)
  BY <1>1, <1>2, <1>3, <1>4
<1>7. ASSUME NEW i \in 1..(n - 1) PROVE FirstWaited(r, i) <=> FirstWaited(s, i)
  BY <1>2, <1>1 DEF FirstWaited
<1> QED
  BY <1>2, <1>3, <1>6, <1>7, Zenon DEF n, FirstWaited

-----------------------------------------------------------------------------
\* Branches that run are joined by an activation of another thread.

\* Threads that only go on keep the joins to come.
LEMMA ParentsKeep ==
    ASSUME Parents, started' = started,
           \A u \in Threads : mode'[u] = "idle" <=> mode[u] = "idle",
           \A u \in Threads : mode[u] = "done" => mode'[u] = "done",
           \A v, u \in Threads : ParentIn(stack[v], u) /\ mode[u] # "done" => ParentIn(stack'[v], u)
    PROVE  Parents'
<1>3. ASSUME NEW S \in SUBSET Branches', S # {}
      PROVE  \E u \in S : \E t \in Threads \ S : ParentIn(stack'[t], u)
  <2>1. PICK u \in S, t \in Threads \ S : ParentIn(stack[t], u)
    BY <1>3, Zenon DEF Parents, Branches
  <2> QED
    BY <2>1, <1>3, Zenon DEF Branches
<1> QED
  BY <1>3, Zenon DEF Parents

\* Steps of kind Redo keep the joins to come.
LEMMA ParentsRedo ==
    ASSUME Shape, Parents, NEW t \in Threads, mode[t] \notin {"idle", "done"}, Redo(t),
           started' = started
    PROVE  Parents'
<1>1. /\ \A u \in Threads \ {t} : stack'[u] = stack[u] /\ mode'[u] = mode[u]
      /\ mode'[t] \in Busy
      /\ Len(stack'[t]) = Len(stack[t])
      /\ \A i \in 1..Len(stack[t]) : Kept(stack[t][i], stack'[t][i])
  BY RedoFacts, Zenon
<1> QED
  BY <1>1, ParentsKeep DEF ParentIn, Kept, Busy

\* Entering an activation keeps the joins to come.
LEMMA ParentsEnter ==
    ASSUME Shape, Parents, NEW t \in Threads, mode[t] \notin {"idle", "done"},
           NEW f \in Frame, Enters(t, f), started' = started
    PROVE  Parents'
<1>1. /\ \A u \in Threads \ {t} : stack'[u] = stack[u] /\ mode'[u] = mode[u]
      /\ mode'[t] \in Busy
      /\ Pushed(stack[t], stack'[t], f) /\ Len(stack[t]) \in Nat
  BY EntersFacts, TopFacts, Zenon
<1> QED
  BY <1>1, ParentsKeep DEF ParentIn, Pushed, Busy

\* Leaving an activation keeps the joins to come, because a parent is left only
\* after its branch is done (Join).
LEMMA ParentsBack ==
    ASSUME Shape, Parents, NEW t \in Threads, mode[t] \notin {"idle", "done"},
           Top(t).kind \notin {"root", "branch"}, Back(t), started' = started,
           Top(t).kind = "parent" => mode[Top(t).branch] = "done"
    PROVE  Parents'
<1>1. /\ \A u \in Threads \ {t} : stack'[u] = stack[u] /\ mode'[u] = mode[u]
      /\ mode'[t] \in Busy
      /\ Len(stack'[t]) = Len(stack[t]) - 1
      /\ \A i \in 1..(Len(stack[t]) - 1) : Kept(stack[t][i], stack'[t][i])
  BY BackFacts, Zenon
<1>3. ASSUME NEW u \in Threads, ParentIn(stack[t], u), mode[u] # "done"
      PROVE  ParentIn(stack'[t], u)
  <2>1. PICK i \in 1..Len(stack[t]) : stack[t][i].kind = "parent" /\ stack[t][i].branch = u
    BY <1>3, Zenon DEF ParentIn
  <2>4. stack'[t][i].kind = "parent" /\ stack'[t][i].branch = u
    BY <1>1, <2>1, TopFacts, <1>3 DEF Kept
  <2> QED
    BY <1>1, TopFacts, <1>3, <2>1, <2>4 DEF ParentIn
<1> QED
  BY <1>1, <1>3, ParentsKeep, Zenon DEF Busy

\* The new branch is joined by the parent frame of the thread that started it.
LEMMA ParentsFork ==
    ASSUME Shape, Data, Parents, NEW t \in Threads, Selected(t, {"block"}),
           started + 1 \in Threads \ {t}, mode[started + 1] = "idle", mode[t] = "run",
           Forks(t, started + 1, ParentFrame(t), BranchFrame(t))
    PROVE  Parents'
<1> DEFINE u == started + 1
           f == ParentFrame(t)
           n == Len(stack[t])
<1>2. n \in Nat /\ stack \in [Threads -> Seq(Frame)] /\ mode \in [Threads -> Modes] /\ ModeFine(u)
  BY SelectedFacts, Zenon DEF Shape
<1>3. started \in Nat /\ u \in Nat /\ u > started
  BY ThreadFacts, OrderedEvalAssumption, Zenon DEF Data, Parents, Threads
<1>4. /\ started' = u
      /\ Len(stack'[t]) = n + 1
      /\ \A i \in 1..n : stack'[t][i] = stack[t][i]
      /\ stack'[t][n + 1] = f
      /\ \A v \in Threads \ {t, u} : stack'[v] = stack[v]
      /\ mode' = [mode EXCEPT ![u] = "copy"]
  BY Zenon DEF Forks
<1>5. ParentIn(stack'[t], u) /\ t # u
  <2>1. n + 1 \in 1..Len(stack'[t])
    BY <1>2, <1>4
  <2> QED
    BY ParentFrameIs, <1>3, <1>4, <2>1, Zenon DEF ParentIn
<1> HIDE DEF f, n
<1>6. \A v, w \in Threads : v # u /\ ParentIn(stack[v], w) => ParentIn(stack'[v], w)
  <2> TAKE v, w \in Threads
  <2>1. ASSUME v = t, ParentIn(stack[t], w)
        PROVE  ParentIn(stack'[t], w)
    <3>1. PICK i \in 1..n : stack[t][i].kind = "parent" /\ stack[t][i].branch = w
      BY <2>1, Zenon DEF ParentIn, n
    <3>2. i \in 1..Len(stack'[t]) /\ stack'[t][i] = stack[t][i]
      BY <3>1, <1>2, <1>4
    <3> QED
      BY <3>1, <3>2, Zenon DEF ParentIn
  <2> QED
    BY <2>1, <1>4, Zenon
<1>8. \A w \in Threads : ~ParentIn(stack[u], w)
  BY <1>2 DEF ParentIn, ModeFine
<1>9. mode'[u] = "copy" /\ \A v \in Threads \ {u} : mode'[v] = mode[v]
  BY <1>2, <1>4, Zenon
<1>10. \A v \in Threads : mode'[v] = "idle" <=> v > started'
  <2> TAKE v \in Threads
  <2>2. CASE v = u
    BY <2>2, <1>3, <1>4, <1>9
  <2>3. CASE v # u
    BY ThreadFacts, <2>3, <1>3, <1>4, <1>9 DEF Parents
  <2> QED
    BY <2>2, <2>3, Zenon
<1>12. ASSUME NEW S \in SUBSET Branches', S # {}
       PROVE  \E v \in S : \E w \in Threads \ S : ParentIn(stack'[w], v)
  <2>1. CASE S = {u}
    BY <2>1, <1>5, Zenon
  <2>2. CASE S # {u}
    <3>1. S \ {u} # {} /\ S \ {u} \in SUBSET Branches
      BY <2>2, <1>9, <1>12, Zenon DEF Branches
    <3>2. PICK v \in S \ {u}, w \in Threads \ (S \ {u}) : ParentIn(stack[w], v)
      BY <3>1, Zenon DEF Parents
    <3> QED
      BY <3>2, <3>1, <1>6, <1>8, Zenon DEF Branches
  <2> QED
    BY <2>1, <2>2, Zenon
<1> QED
  BY <1>10, <1>12, Zenon DEF Parents

\* A thread that ends has no parent frame left, so it orphans nobody.
LEMMA ThreadEndsParents ==
    ASSUME Shape, Parents, NEW t \in Threads, ThreadEnds(t)
    PROVE  Parents'
<1>1. /\ Len(stack[t]) = 1 /\ mode[t] \in {"return", "unwind"}
      /\ \A u \in Threads \ {t} : stack'[u] = stack[u]
      /\ mode' = [mode EXCEPT ![t] = "done"] /\ mode \in [Threads -> Modes]
  BY ThreadEndsShape, Zenon DEF Shape
<1> QED
  BY <1>1, TopFacts, ParentsKeep DEF ThreadEnds, ParentIn

\* Every step keeps the joins to come (execute_unwaited_copy_block, join).
LEMMA ParentsStep ==
    ASSUME Shape, Data, Parents, [Next]_vars
    PROVE  Parents'
<1>1. ASSUME NEW t \in Threads, Running(t) PROVE Parents'
  <2>1. CASE \/ EndOfSequence(t) \/ Host(t) \/ LockFile(t) \/ Skip(t) \/ ActionSucceeds(t)
             \/ ActionFails(t) \/ ActionAborts(t) \/ DeliveryFailsLate(t) \/ SelectBlock(t)
    <3>1. mode[t] \notin {"idle", "done"} /\ started' = started
      BY <2>1, Zenon DEF EndOfSequence, Host, LockFile, Skip, ActionSucceeds, ActionFails, ActionAborts,
                  DeliveryFailsLate, SelectBlock, Selected, At
    <3> QED
      BY <3>1, <2>1, EndOfSequenceShape, HostShape, LockFileShape, SkipShape,
         ActionSucceedsShape, ActionFailsShape, ActionAbortsShape, DeliveryFailsLateShape,
         SelectBlockShape, ParentsRedo, Zenon
  <2>2. CASE RuntimeRc(t)
    BY <2>2, RuntimeRcShape, ParentsRedo, ParentsEnter, Zenon DEF RuntimeRc, At
  <2>3. CASE SelectWaitedCopy(t)
    <3>1. Selected(t, {"block"}) /\ started' = started
      BY <2>3, Zenon DEF SelectWaitedCopy
    <3> QED
      BY <2>3, <3>1, SelectedFacts, WaitedFrameIs, SelectWaitedCopyShape, ParentsEnter, Zenon
  <2>4. CASE SelectUnwaitedCopy(t)
    BY <2>4, SelectedFacts, SelectUnwaitedCopyShape, ParentsRedo, ParentsFork, Zenon DEF
       SelectUnwaitedCopy, Data
  <2>5. CASE EnterBlock(t)
    BY <2>5, EnterBlockShape, ParentsRedo, ParentsEnter, Zenon DEF EnterBlock
  <2>6. CASE ReturnBlock(t) \/ ReturnRc(t) \/ ReturnWaited(t)
    BY <2>6, ReturnBlockShape, ReturnRcShape, ReturnWaitedShape, ParentsBack, Zenon DEF
       ReturnBlock, ReturnRc, ReturnWaited, Returning
  <2>7. CASE ReturnParent(t)
    BY <2>7, ReturnParentShape, ParentsBack, Zenon DEF ReturnParent, Returning, Join
  <2>8. CASE Unwind(t)
    BY <2>8, UnwindShape, ParentsBack, Zenon DEF Unwind, Join
  <2>9. CASE ThreadEnds(t)
    BY <2>9, ThreadEndsParents, Zenon
  <2> QED
    BY <1>1, <2>1, <2>2, <2>3, <2>4, <2>5, <2>6, <2>7, <2>8, <2>9, Zenon DEF Running
<1>2. CASE UNCHANGED vars
  BY <1>2, Zenon DEF vars, Parents, Branches
<1> QED
  BY <1>1, <1>2, Zenon DEF Next, Terminated

-----------------------------------------------------------------------------
\* The invariant.

\* Every step keeps the types of the context, the locks and the counters.
LEMMA DataStep ==
    ASSUME Shape, Data, [Next]_vars
    PROVE  Data'
<1> USE DEF Faults
<1>1. ASSUME NEW t \in Threads, Running(t) PROVE Data'
  <2>1. CASE EndOfSequence(t) \/ Skip(t) \/ SelectBlock(t) \/ ReturnBlock(t) \/ ReturnRc(t)
             \/ EnterBlock(t)
    <3>1. CASE EndOfSequence(t) \/ Skip(t) \/ SelectBlock(t) \/ ReturnRc(t)
      BY <3>1, Zenon DEF EndOfSequence, Skip, SelectBlock, ReturnRc, context, locks, Data
    <3>2. CASE ReturnBlock(t)
      BY <3>2, Zenon DEF ReturnBlock, Released, context, Data
    <3>3. CASE EnterBlock(t)
      BY <3>3, Zenon DEF EnterBlock, Acquired, Data
    <3> QED
      BY <2>1, <3>1, <3>2, <3>3, Zenon
  <2>2. CASE Host(t)
    <3>1. history' \in Observed
      BY <2>2, Zenon DEF Host, Data, Observed
    <3>2. /\ delivered' = delivered \/ delivered' = [delivered EXCEPT ![t] = TRUE]
          /\ pendingError' = pendingError \/ pendingError' = [pendingError EXCEPT ![t] = FALSE]
          /\ fault' = fault \/ fault' = [fault EXCEPT ![t] = "evaluation"]
          /\ UNCHANGED <<published, edits, owner, globalLock, started>>
      BY <2>2, Zenon DEF Host, locks, Raise
    <3> QED
      BY <3>1, <3>2, Zenon DEF Data
  <2>3. CASE RuntimeRc(t) \/ ActionAborts(t)
    BY <2>3, Zenon DEF RuntimeRc, ActionAborts, Raise, context, locks, Data
  <2>4. CASE LockFile(t)
    <3>1. Item(Top(t)).lock \in Slots /\ UNCHANGED <<pendingError, delivered, published, edits, started, history>>
      BY <2>4, AtFacts, Zenon DEF LockFile, context, ProgramItem, Slots
    <3> QED
      BY <3>1, <2>4, Zenon DEF Data, LockFile, Released, Acquired, locks, Raise, Slots
  <2>5. CASE ActionSucceeds(t)
    <3>1. history' \in Observed
      <4> DEFINE final == Item(Top(t)).op # "edit" /\ ~Item(Top(t)).copy
                 a == IF Item(Top(t)).op = "deliver" THEN 1 ELSE 0
                 b == IF final /\ OnOriginal(t) THEN 1 ELSE 0
                 c == history.afterStop \/ delivered[t]
                 d == IF Item(Top(t)).op = "edit" /\ OnOriginal(t) THEN 1 ELSE 0
      <4>1. a \in Nat /\ b \in Nat /\ d \in Nat
        BY Zenon
      <4>2. history \in Observed /\ delivered[t] \in BOOLEAN
        BY Zenon DEF Data
      <4>3. c \in BOOLEAN
        BY <4>2, Zenon DEF Observed
      <4>4. history' = [history EXCEPT !.deliveries = @ + a, !.finals = @ + b, !.afterStop = c,
                                       !.original = @ + d]
        BY <2>5, Zenon DEF ActionSucceeds
      <4> HIDE DEF a, b, c, d
      <4>6. history' = [deliveries |-> history.deliveries + a, late |-> history.late,
                        finals |-> history.finals + b, afterStop |-> c, hostEnded |-> history.hostEnded,
                        original |-> history.original + d]
        BY <4>2, <4>4, Zenon DEF Observed
      <4> QED
        BY <4>3, <4>1, <4>2, <4>6 DEF Observed
    <3> QED
      BY <3>1, <2>5 DEF Data, ActionSucceeds, locks
  <2>6. CASE ActionFails(t)
    BY <2>6, Zenon DEF ActionFails, locks, Data
  <2>7. CASE SelectWaitedCopy(t)
    BY <2>7, Zenon DEF SelectWaitedCopy, Data, Slots
  <2>8. CASE SelectUnwaitedCopy(t)
    BY <2>8, OrderedEvalAssumption DEF SelectUnwaitedCopy, locks, Data, BranchAvailable,
       Raise
  <2>9. CASE ReturnWaited(t) \/ Unwind(t) \/ ReturnParent(t)
    <3>2. /\ Top(t).saved.edits \in Nat /\ Top(t).saved.delivered \in BOOLEAN
          /\ Top(t).saved.lock \in Slots
          /\ Top(t).kind = "parent" => Top(t).branch \in Threads
      BY <2>9, TopFacts, FrameFields, Zenon DEF SavedContext, FrameFine, ReturnWaited, Unwind,
         ReturnParent, Returning
    <3>3. ASSUME LeaveCopy(t)
          PROVE  /\ owner' \in [Locks -> Threads \cup {Nobody}]
                 /\ globalLock' \in [Threads -> Slots]
                 /\ edits' \in [Threads -> Nat]
                 /\ delivered' \in [Threads -> BOOLEAN]
      BY <3>2, <3>3, Zenon DEF LeaveCopy, Released, Data
    <3>4. ASSUME NEW u \in Threads, Join(t, u)
          PROVE  published' \in [Threads -> Nat]
      BY <3>4 DEF Join, Data
    <3>6. CASE ReturnWaited(t)
      BY <3>3, <3>6, Zenon DEF ReturnWaited, Data
    <3>7. CASE ReturnParent(t)
      BY <3>4, <3>7, <3>2, Zenon DEF ReturnParent, locks, Data, Returning, JoinError
    <3>8. CASE Unwind(t)
      <4>1. CASE Top(t).kind = "waited"
        BY <3>3, <3>8, <4>1, Zenon DEF Unwind, Data
      <4>2. CASE Top(t).kind = "parent"
        BY <3>4, <3>8, <4>2, <3>2, Zenon DEF Unwind, locks, Data, JoinError
      <4>3. CASE Top(t).kind \notin {"waited", "parent"}
        BY <3>8, <4>3, Zenon DEF Unwind, Released, Data
      <4> QED
        BY <4>1, <4>2, <4>3, Zenon
    <3> QED
      BY <2>9, <3>6, <3>7, <3>8, Zenon
  <2>10. CASE ThreadEnds(t)
    BY <2>10, Zenon DEF ThreadEnds, Released, Slots, context, Data
  <2>11. CASE DeliveryFailsLate(t)
    <3> DEFINE c == history.afterStop \/ delivered[t]
    <3>1. history \in Observed /\ delivered[t] \in BOOLEAN
      BY Zenon DEF Data
    <3>2. c \in BOOLEAN
      BY <3>1, Zenon DEF Observed
    <3>3. history' = [history EXCEPT !.deliveries = @ + 1, !.late = @ + 1, !.afterStop = c]
      BY <2>11, Zenon DEF DeliveryFailsLate
    <3> HIDE DEF c
    <3>4. history' = [deliveries |-> history.deliveries + 1, late |-> history.late + 1,
                      finals |-> history.finals, afterStop |-> c,
                      hostEnded |-> history.hostEnded, original |-> history.original]
      BY <3>1, <3>3, Zenon DEF Observed
    <3>5. history' \in Observed
      BY <3>1, <3>2, <3>4 DEF Observed
    <3> QED
      BY <2>11, <3>5, Zenon DEF DeliveryFailsLate, Raise, context, locks, Data
  <2> QED
    BY <1>1, <2>1, <2>2, <2>3, <2>4, <2>5, <2>6, <2>7, <2>8, <2>9, <2>10, <2>11, Zenon DEF Running
<1>2. CASE UNCHANGED vars
  BY <1>2, Zenon DEF vars, context, locks, Data
<1> QED
  BY <1>1, <1>2, Zenon DEF Next, Terminated

\* Every step keeps the shape of the stacks.
LEMMA ShapeStep ==
    ASSUME Shape, Data, Parents, [Next]_vars
    PROVE  Shape'
<1>1. ASSUME NEW t \in Threads, Running(t) PROVE Shape'
  <2>1. CASE \/ EndOfSequence(t) \/ Host(t) \/ RuntimeRc(t) \/ LockFile(t) \/ Skip(t)
             \/ ActionSucceeds(t) \/ ActionFails(t) \/ ActionAborts(t) \/ DeliveryFailsLate(t)
             \/ SelectBlock(t)
    BY <2>1, EndOfSequenceShape, HostShape, RuntimeRcShape, LockFileShape, SkipShape,
       ActionSucceedsShape, ActionFailsShape, ActionAbortsShape, DeliveryFailsLateShape,
       SelectBlockShape, Zenon
  <2>2. CASE \/ SelectWaitedCopy(t) \/ SelectUnwaitedCopy(t) \/ EnterBlock(t) \/ ReturnBlock(t)
             \/ ReturnRc(t) \/ ReturnWaited(t) \/ ReturnParent(t) \/ Unwind(t) \/ ThreadEnds(t)
    BY <2>2, SelectWaitedCopyShape, SelectUnwaitedCopyShape, EnterBlockShape,
       ReturnBlockShape, ReturnRcShape, ReturnWaitedShape, ReturnParentShape, UnwindShape,
       ThreadEndsShape, Zenon DEF Data
  <2> QED
    BY <1>1, <2>1, <2>2, Zenon DEF Running
<1>2. CASE UNCHANGED vars
  BY <1>2, Zenon DEF vars, Shape, StackFine, ModeFine
<1> QED
  BY <1>1, <1>2, Zenon DEF Next, Terminated

\* In the initial states thread 0 has the activation of the root rc file and no
\* other thread has any.
LEMMA InitStack ==
    ASSUME Init
    PROVE  /\ 0 \in Threads /\ Threads \subseteq Nat
           /\ prog \in Programs /\ stack \in [Threads -> Seq(Frame)]
           /\ Len(stack[0]) = 1 /\ FrameFine(prog, stack[0][1])
           /\ stack[0][1].kind = "root" /\ stack[0][1].ran = 0
           /\ stack[0][1].lock = NoLock /\ stack[0][1].saved.lock = NoLock
           /\ \A t \in Threads : t # 0 => Len(stack[t]) = 0
           /\ mode = [t \in Threads |-> IF t = 0 THEN "run" ELSE "idle"]
<1> DEFINE f == Entered("root", 1, NoLock, FALSE)
<1>1. 0 \in Threads /\ Threads \subseteq Nat
  BY ThreadFacts, Zenon
<1>2. prog \in Programs /\ 1 \in DOMAIN prog /\ Len(prog[1]) \in Nat
  <2>1. prog \in Programs
    BY Zenon DEF Init
  <2>2. prog \in Seq(Seq(ProgramItem)) /\ Len(prog) > 0
    BY <2>1, ProgramFacts, Zenon
  <2>3. 1 \in DOMAIN prog
    BY <2>2
  <2> QED
    BY <2>1, <2>3, ProgramFacts, Zenon
<1>3. /\ f \in Frame /\ f.kind = "root" /\ f.seq = 1 /\ f.at = 1 /\ f.state = DefaultState
      /\ f.lock = NoLock /\ f.saved.lock = NoLock /\ f.ran = 0
  <2> DEFINE kind == "root"
             one == 1
             no == FALSE
  <2>1. /\ kind \in Kinds /\ one \in Nat /\ DefaultState \in SequenceState
        /\ NoLock \in Slots /\ no \in BOOLEAN
    BY DefaultIs, Zenon DEF Kinds, Slots
  <2> DEFINE g == NewFrame(kind, one, one, DefaultState, NoLock, no)
  <2>2. f = g /\ kind = "root" /\ one = 1
    BY Zenon DEF Entered
  <2> HIDE DEF f, kind, one, no
  <2>3. /\ g \in Frame /\ g.kind = kind /\ g.seq = one /\ g.at = one /\ g.state = DefaultState
        /\ g.lock = NoLock /\ g.saved.lock = NoLock /\ g.ran = 0
    BY <2>1, Zenon DEF g, NewFrame, Frame, SavedContext, Slots, Results
  <2> HIDE DEF g
  <2> QED
    BY <2>2, <2>3, Zenon
<1>4. FrameFine(prog, f)
  <2> HIDE DEF f
  <2>1. f.at \in 1..(Len(prog[f.seq]) + 1)
    BY <1>2, <1>3
  <2> QED
    BY <2>1, <1>2, <1>3, DefaultIs, Zenon DEF FrameFine
<1>5. stack = [t \in Threads |-> IF t = 0 THEN <<f>> ELSE <<>>]
  BY Zenon DEF Init
<1>6. mode = [t \in Threads |-> IF t = 0 THEN "run" ELSE "idle"]
  BY Zenon DEF Init
<1> HIDE DEF f
<1>7. /\ stack \in [Threads -> Seq(Frame)] /\ Len(stack[0]) = 1 /\ stack[0][1] = f
      /\ \A t \in Threads : t # 0 => Len(stack[t]) = 0
  BY <1>1, <1>3, <1>5
<1> QED
  BY <1>1, <1>2, <1>3, <1>4, <1>6, <1>7, Zenon

\* The initial states are well formed.
LEMMA WellFormedInit ==
    ASSUME Init
    PROVE  WellFormed
<1>1. /\ 0 \in Threads /\ Threads \subseteq Nat
      /\ prog \in Programs /\ stack \in [Threads -> Seq(Frame)]
      /\ Len(stack[0]) = 1 /\ FrameFine(prog, stack[0][1]) /\ stack[0][1].kind = "root"
      /\ \A t \in Threads : t # 0 => Len(stack[t]) = 0
      /\ mode = [t \in Threads |-> IF t = 0 THEN "run" ELSE "idle"]
  BY InitStack, Zenon
<1>2. \A t \in Threads : StackFine(t)
  <2> TAKE t \in Threads
  <2>1. CASE t = 0
    <3>1. \A i \in 1..Len(stack[t]) : i = 1
      BY <2>1, <1>1
    <3>2. 1..(Len(stack[t]) - 1) = {}
      BY <2>1, <1>1
    <3> QED
      BY <2>1, <3>1, <3>2, <1>1, Zenon DEF StackFine
  <2>2. CASE t # 0
    <3>1. 1..Len(stack[t]) = {} /\ 1..(Len(stack[t]) - 1) = {}
      BY <2>2, <1>1
    <3> QED
      BY <3>1, Zenon DEF StackFine
  <2> QED
    BY <2>1, <2>2, Zenon
<1>3. \A t \in Threads : ModeFine(t)
  BY <1>1 DEF ModeFine
<1>4. Shape
  <2>1. ret \in [Threads -> Returns]
    BY Zenon DEF Init, Returns, Controls, ActionExecution
  <2>2. mode \in [Threads -> Modes]
    BY <1>1, Zenon DEF Modes
  <2> QED
    BY <1>1, <1>2, <1>3, <2>1, <2>2, Zenon DEF Shape
<1>5. Data
  BY OrderedEvalAssumption DEF Init, Data, Faults, Slots, Observed
<1>6. Parents
  <2>1. started = 0
    BY Zenon DEF Init
  <2>2. \A u \in Threads : u # 0 <=> u > started
    BY <2>1, <1>1
  <2>3. \A u \in Threads : mode[u] = "idle" <=> u > started
    BY <2>2, <1>1, Zenon
  <2>4. \A u \in Threads : ~(u > 0 /\ mode[u] \notin {"idle", "done"})
    BY <2>1, <2>3, Zenon
  <2>5. \A S \in SUBSET Branches : S = {}
    BY <2>4, Zenon DEF Branches
  <2> QED
    BY <2>3, <2>5, Zenon DEF Parents
<1> QED
  BY <1>4, <1>5, <1>6, Zenon DEF WellFormed

\* In every reachable state the activations of all threads are well formed, and
\* branches that run are joined by an activation of a thread that is none of them
\* (execute_ordered_from, execute_unwaited_copy_block).
THEOREM WellFormedInvariance == Spec => []WellFormed
<1>1. Init => WellFormed
  BY WellFormedInit, Zenon
<1>2. WellFormed /\ [Next]_vars => WellFormed'
  BY ShapeStep, DataStep, ParentsStep, Zenon DEF WellFormed
<1> QED
  BY <1>1, <1>2, PTL DEF Spec

\* When the original is done no thread is alive: the branches that were would be
\* joined by a thread that is none of them (JoinHandle::join in
\* execute_unwaited_copy_block).
LEMMA LastOneOut ==
    ASSUME WellFormed, mode[0] = "done", NEW t \in Threads
    PROVE  mode[t] \in {"idle", "done"}
<1> SUFFICES ASSUME Branches # {} PROVE FALSE
  BY ThreadFacts DEF Branches
<1>1. PICK v \in Threads \ Branches, u \in Branches : ParentIn(stack[v], u)
  BY Zenon DEF WellFormed, Parents
<1>2. Len(stack[v]) # 0
  BY <1>1 DEF ParentIn
<1>3. mode[v] \notin {"idle", "done"}
  BY <1>1, <1>2, Zenon DEF WellFormed, Shape, ModeFine
<1> QED
  BY <1>1, <1>3, ThreadFacts DEF Branches

\* Every variable keeps its type, in particular no activation runs past the end of
\* its sequence and no more branches are started than BackgroundCopyBudget allows.
THEOREM OrderedTypes == Spec => []TypeOK
<1>1. WellFormed => TypeOK
  <2> SUFFICES ASSUME WellFormed PROVE TypeOK
    BY Zenon
  <2>1. Shape /\ Data
    BY Zenon DEF WellFormed
  <2>2. ASSUME NEW t \in Threads, NEW i \in DOMAIN stack[t]
        PROVE  /\ stack[t][i].state \in SequenceState
               /\ stack[t][i].at \in 1..(Len(prog[stack[t][i].seq]) + 1)
               /\ stack[t][i].lock \in Slots
    <3>1. i \in 1..Len(stack[t]) /\ stack[t][i] \in Frame /\ StackFine(t)
      BY <2>1, LenIs DEF Shape
    <3> QED
      BY <3>1, FrameFields, Zenon DEF StackFine, FrameFine
  <2> QED
    BY <2>1, <2>2, Zenon DEF TypeOK, Data, Faults, Slots
<1> QED
  BY <1>1, WellFormedInvariance, PTL

\* In every activation of every thread `a` lets a recipe run only where `A` would
\* (SequenceState::record, execution_gate).
THEOREM ChainsCohere == Spec => []ChainCoherent
<1>1. WellFormed => ChainCoherent
  <2> SUFFICES ASSUME WellFormed, NEW t \in Threads, NEW i \in DOMAIN stack[t]
               PROVE  ExecutionGate("a", stack[t][i].state) => ExecutionGate("A", stack[t][i].state)
    BY Zenon DEF ChainCoherent
  <2>1. i \in 1..Len(stack[t]) /\ stack[t][i] \in Frame /\ StackFine(t)
    BY LenIs DEF WellFormed, Shape
  <2>2. Chained(stack[t][i].state)
    BY <2>1, Zenon DEF StackFine, FrameFine
  <2> QED
    BY <2>2, Zenon DEF Chained, ExecutionGate
<1> QED
  BY <1>1, WellFormedInvariance, PTL
=============================================================================
