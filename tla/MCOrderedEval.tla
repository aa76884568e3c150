--------------------------- MODULE MCOrderedEval ---------------------------
(* Recipe trees for TLC: all chains of three recipes behind a first one with *)
(* every combination of A, a, E and e, and trees with blocks, copy branches, *)
(* rc transitions and locks.                                                 *)
EXTENDS OrderedInvariants

CONSTANTS l1, l2

MCLocks == {l1, l2}

Stmt(op, child, lock) ==
    [op |-> op, ctl |-> "I", cond |-> FALSE, copy |-> FALSE, wait |-> FALSE,
     lock |-> lock, child |-> child]
Recipe(ctl, op, copy, lock) ==
    [op |-> op, ctl |-> ctl, cond |-> TRUE, copy |-> copy, wait |-> FALSE,
     lock |-> lock, child |-> 0]
Block(ctl, child, copy, wait, lock) ==
    [op |-> "block", ctl |-> ctl, cond |-> TRUE, copy |-> copy, wait |-> wait,
     lock |-> lock, child |-> child]

Edit(ctl) == Recipe(ctl, "edit", FALSE, NoLock)
Copy(ctl) == Recipe(ctl, "deliver", TRUE, NoLock)
Final(ctl) == Recipe(ctl, "deliver", FALSE, NoLock)
Pipe(ctl) == Recipe(ctl, "pipe", FALSE, l1)

Chains ==
    {<< <<Copy("I"), Edit(c1), Copy(c2), Final(c3)>> >> : c1, c2, c3 \in ControlFlow}

\* A block with a lock, rc transitions in it, and a handler behind it.
Blocks ==
    << << Stmt("lockfile", 0, l2), Block("I", 2, FALSE, FALSE, l1), Final("e") >>,
       << Stmt("include", 3, NoLock), Copy("I"), Stmt("switch", 4, NoLock), Final("I") >>,
       << Copy("I"), Final("E"), Stmt("switch", 0, NoLock) >>,
       << Pipe("I"), Stmt("lockfile", 0, NoLock), Final("I") >> >>

\* A waited copy that edits, delivers and stops its branch.
Waited ==
    << << Stmt("lockfile", 0, l2), Block("I", 2, TRUE, TRUE, l1), Edit("a"), Final("e"), Final("I") >>,
       << Edit("I"), Stmt("lockfile", 0, l2), Final("I"), Stmt("host", 0, NoLock) >> >>

\* A branch that wants the lock its caller holds while it joins the branch.
Unwaited ==
    << << Stmt("lockfile", 0, l1), Block("I", 2, TRUE, FALSE, NoLock), Edit("I"),
          Recipe("I", "deliver", FALSE, l2) >>,
       << Edit("I"), Block("I", 3, FALSE, FALSE, l1), Stmt("host", 0, NoLock) >>,
       << Copy("I") >> >>

TwoBranches ==
    << << Block("I", 2, TRUE, FALSE, NoLock), Block("I", 2, TRUE, FALSE, NoLock), Final("I") >>,
       << Copy("I") >> >>

\* A copy branch in a block, and a recipe behind that block.
Nested ==
    << << Block("I", 2, FALSE, FALSE, NoLock), Final("I") >>,
       << Block("I", 3, TRUE, FALSE, NoLock), Final("I") >>,
       << Copy("I") >> >>

\* A HOST line in an included file.
HostInInclude ==
    << << Stmt("include", 2, NoLock), Final("I") >>,
       << Stmt("host", 0, NoLock) >> >>

\* An E recipe behind a copy block.
ElseAfterCopy ==
    << << Block("I", 2, TRUE, TRUE, NoLock), Final("E"), Final("I") >>,
       << Copy("I") >> >>

\* An included file with blocks, and one with an unwaited copy block in front of a
\* block, HOST and a final recipe, which SWITCHRC enters from the root file.
Switched ==
    << << Stmt("include", 2, NoLock), Stmt("switch", 3, NoLock), Final("I") >>,
       << Block("I", 4, FALSE, FALSE, NoLock), Block("I", 4, TRUE, TRUE, NoLock), Final("I") >>,
       << Block("I", 4, TRUE, FALSE, NoLock), Block("I", 4, FALSE, FALSE, NoLock),
          Stmt("host", 0, NoLock), Final("I") >>,
       << Copy("I"), Final("E") >> >>

MCPrograms == Chains \cup {Blocks, Waited, Unwaited, TwoBranches, Switched}
MCNested == {Nested}
MCHost == {HostInInclude}
MCElse == {ElseAfterCopy}

\* The trees of the passing run are in the classes that the theorems about
\* StatusIsEarned, StopEndsPath and ElseExclusive are restricted to, and each tree
\* of a finding is outside of the class that matters to it.
ASSUME ClassesAssumption ==
    /\ \A p \in MCPrograms : StopReaches(p) /\ NoElseAfterCopy(p)
    /\ ~NoHostIncluded(HostInInclude)
    /\ NoHostIncluded(Nested) /\ ~StopReaches(Nested)
    /\ ~NoElseAfterCopy(ElseAfterCopy)
=============================================================================
