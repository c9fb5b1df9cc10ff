---------------------------- MODULE ChainProofs ----------------------------
(***************************************************************************)
(* Facts about branches of the block tree that the proofs about the header *)
(* thread and the node rest on.  All follow from BranchAssumption: the     *)
(* branch of a block on a branch is an initial part of that branch.        *)
(***************************************************************************)
EXTENDS ChainDB, TLAPS

\* A branch is a non-empty sequence of blocks that ends with its block.
LEMMA BranchType ==
    ASSUME NEW b \in Blocks
    PROVE  /\ Branch[b] \in Seq(Blocks)
           /\ Len(Branch[b]) \in Nat
           /\ Height(b) \in Nat
           /\ Len(Branch[b]) = Height(b) + 1
           /\ Branch[b][Height(b) + 1] = b
           /\ Branch[b][1] = Genesis
<1>1. Branch[b] \in Seq(Blocks) /\ Len(Branch[b]) > 0 /\ Branch[b][Len(Branch[b])] = b
      /\ Branch[b][1] = Genesis
  BY BranchAssumption
<1>2. Len(Branch[b]) \in Nat
  BY <1>1
<1> QED
  BY <1>1, <1>2 DEF Height

\* The block at position i of a branch has height i - 1 and the same branch up to i.
LEMMA BranchElement ==
    ASSUME NEW b \in Blocks, NEW i \in 1..Len(Branch[b])
    PROVE  /\ Branch[b][i] \in Blocks
           /\ Height(Branch[b][i]) = i - 1
           /\ \A j \in 1..i : Branch[Branch[b][i]][j] = Branch[b][j]
<1>1. Branch[b] \in Seq(Blocks) /\ Len(Branch[b]) \in Nat
  BY BranchType
<1>2. Branch[b][i] \in Blocks
  BY <1>1
<1>3. Branch[Branch[b][i]] = SubSeq(Branch[b], 1, i)
  BY BranchAssumption
<1>4. Len(SubSeq(Branch[b], 1, i)) = i
  BY <1>1
<1>5. \A j \in 1..i : SubSeq(Branch[b], 1, i)[j] = Branch[b][j]
  BY <1>1
<1> QED
  BY <1>2, <1>3, <1>4, <1>5 DEF Height

\* Being on a branch is being one of its elements.
LEMMA OnBranchIsElement ==
    ASSUME NEW b \in Blocks, NEW t \in Blocks
    PROVE  OnBranch(b, t) <=> \E i \in 1..Len(Branch[t]) : Branch[t][i] = b
<1>1. /\ Height(b) \in Nat /\ Height(t) \in Nat /\ Len(Branch[t]) = Height(t) + 1
  BY BranchType
<1>2. ASSUME OnBranch(b, t) PROVE \E i \in 1..Len(Branch[t]) : Branch[t][i] = b
  <2>1. Height(b) + 1 \in 1..Len(Branch[t])
    BY <1>1, <1>2 DEF OnBranch
  <2> QED
    BY <2>1, <1>2 DEF OnBranch
<1>3. ASSUME NEW i \in 1..Len(Branch[t]), Branch[t][i] = b PROVE OnBranch(b, t)
  <2>1. Height(b) = i - 1
    BY <1>3, BranchElement
  <2> QED
    BY <2>1, <1>1, <1>3 DEF OnBranch
<1> QED
  BY <1>2, <1>3

\* A block is on its own branch.
LEMMA OnBranchReflexive ==
    ASSUME NEW b \in Blocks
    PROVE  OnBranch(b, b)
BY BranchType DEF OnBranch

\* A branch contains the branches of its blocks.
LEMMA OnBranchTransitive ==
    ASSUME NEW a \in Blocks, NEW b \in Blocks, NEW c \in Blocks,
           OnBranch(a, b), OnBranch(b, c)
    PROVE  OnBranch(a, c)
<1>1. /\ Height(a) \in Nat /\ Height(b) \in Nat /\ Height(c) \in Nat
      /\ Len(Branch[c]) = Height(c) + 1
  BY BranchType
<1>2. /\ Height(a) <= Height(b) /\ Branch[b][Height(a) + 1] = a
      /\ Height(b) <= Height(c) /\ Branch[c][Height(b) + 1] = b
  BY DEF OnBranch
<1>3. Height(b) + 1 \in 1..Len(Branch[c]) /\ Height(a) + 1 \in 1..(Height(b) + 1)
  BY <1>1, <1>2
<1>4. Branch[Branch[c][Height(b) + 1]][Height(a) + 1] = Branch[c][Height(a) + 1]
  BY <1>3, BranchElement
<1> QED
  BY <1>1, <1>2, <1>4 DEF OnBranch

\* Every branch starts with the genesis block, which has height 0.
LEMMA GenesisOnBranch ==
    ASSUME NEW b \in Blocks
    PROVE  Height(Genesis) = 0 /\ OnBranch(Genesis, b)
<1>1. Len(Branch[b]) \in Nat /\ Len(Branch[b]) = Height(b) + 1 /\ Height(b) \in Nat
      /\ Branch[b][1] = Genesis
  BY BranchType
<1>2. 1 \in 1..Len(Branch[b])
  BY <1>1
<1>3. Height(Genesis) = 0
  BY <1>1, <1>2, BranchElement
<1> QED
  BY <1>1, <1>3 DEF OnBranch

\* The parent of a block other than the genesis block is the block below it, and
\* whatever else is on the branch of the block is on that of the parent.
LEMMA ParentBelow ==
    ASSUME NEW b \in Blocks, b # Genesis
    PROVE  /\ Parent(b) \in Blocks
           /\ Height(Parent(b)) = Height(b) - 1
           /\ OnBranch(Parent(b), b)
           /\ \A a \in Blocks : OnBranch(a, b) /\ a # b => OnBranch(a, Parent(b))
<1>1. /\ Height(b) \in Nat /\ Len(Branch[b]) = Height(b) + 1
      /\ Branch[b][Height(b) + 1] = b /\ Branch[b][1] = Genesis
  BY BranchType
<1>2. Height(b) \in 1..Len(Branch[b])
  BY <1>1
<1>3. Parent(b) = Branch[b][Height(b)]
  BY <1>1 DEF Parent
<1>4. Parent(b) \in Blocks /\ Height(Parent(b)) = Height(b) - 1
      /\ \A j \in 1..Height(b) : Branch[Parent(b)][j] = Branch[b][j]
  BY <1>2, <1>3, BranchElement
<1>5. OnBranch(Parent(b), b)
  BY <1>1, <1>3, <1>4 DEF OnBranch
<1>6. ASSUME NEW a \in Blocks, OnBranch(a, b), a # b PROVE OnBranch(a, Parent(b))
  <2>1. Height(a) \in Nat /\ Height(a) <= Height(b) /\ Branch[b][Height(a) + 1] = a
    BY <1>6, BranchType DEF OnBranch
  <2>2. Height(a) # Height(b)
    BY <1>1, <1>6, <2>1
  <2>3. Height(a) + 1 \in 1..Height(b)
    BY <1>1, <2>1, <2>2
  <2>4. Branch[Parent(b)][Height(a) + 1] = a
    BY <1>4, <2>1, <2>3
  <2>5. Height(a) <= Height(Parent(b))
    BY <1>1, <1>4, <2>1, <2>2
  <2> QED
    BY <2>4, <2>5 DEF OnBranch
<1> QED
  BY <1>4, <1>5, <1>6

\* The genesis block is alone on its branch.
LEMMA GenesisBranch ==
    ASSUME NEW a \in Blocks, OnBranch(a, Genesis)
    PROVE  a = Genesis
<1>1. Genesis \in Blocks
  BY BranchAssumption
<1>2. Height(Genesis) = 0 /\ Height(a) \in Nat /\ Height(a) <= 0
  BY <1>1, BranchType, GenesisOnBranch DEF OnBranch
<1>3. Branch[Genesis][1] = a
  BY <1>2 DEF OnBranch
<1> QED
  BY <1>1, <1>3, BranchType

\* Work grows along a branch.
LEMMA WorkGrows ==
    ASSUME NEW a \in Blocks, NEW b \in Blocks, OnBranch(a, b), a # b
    PROVE  Work[a] < Work[b]
<1>1. Height(a) \in Nat /\ Height(b) \in Nat /\ Height(a) <= Height(b)
      /\ Branch[b][Height(a) + 1] = a /\ Branch[b][Height(b) + 1] = b
  BY BranchType DEF OnBranch
<1>2. Height(a) # Height(b)
  BY <1>1
<1>3. Height(a) + 1 \in 1..Height(b)
  BY <1>1, <1>2
<1> QED
  BY <1>1, <1>3, WorkAssumption

=============================================================================
