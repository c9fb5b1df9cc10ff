------------------------------ MODULE ChainDB ------------------------------
(***************************************************************************)
(* The header chain a node follows: murmel's ChainDB, a library, modelled  *)
(* from the way blockdownload.rs, p2p_bitcoin.rs and the ChainDBTrunk      *)
(* adapter use it.                                                         *)
(*                                                                         *)
(* A block id commits to all its predecessors, so the tree of all blocks   *)
(* that can ever be mined is a constant: Branch[b] is the path from the    *)
(* genesis block to b.  What changes is which headers the node knows and   *)
(* which one is its tip.  The trunk is the branch of the tip.              *)
(***************************************************************************)
EXTENDS Integers, Sequences

CONSTANTS
    Blocks,     \* every block that can be mined
    Genesis,    \* the first block of every branch
    Branch,     \* [Blocks -> Seq(Blocks)]: the path from Genesis to the block
    Work,       \* [Blocks -> Nat]: accumulated proof of work of the branch
    Time,       \* [Blocks -> Nat]: the time stamp in the header
    NoBlock     \* the absence of a block (None, or an empty hash)

\* Height of a block: the genesis block has height 0.
Height(b) == Len(Branch[b]) - 1

\* The block prev_blockhash of the header of b points to.
Parent(b) == Branch[b][Len(Branch[b]) - 1]

\* b is t or one of the blocks below t.
OnBranch(b, t) == Height(b) <= Height(t) /\ Branch[t][Height(b) + 1] = b

ASSUME BranchAssumption ==
    /\ Genesis \in Blocks
    /\ NoBlock \notin Blocks
    /\ Branch \in [Blocks -> Seq(Blocks)]
    /\ \A b \in Blocks :
          /\ Len(Branch[b]) > 0
          /\ Branch[b][1] = Genesis
          /\ Branch[b][Len(Branch[b])] = b
          /\ \A i \in 1..Len(Branch[b]) : Branch[Branch[b][i]] = SubSeq(Branch[b], 1, i)

ASSUME WorkAssumption ==
    /\ Work \in [Blocks -> Nat]
    /\ \A b \in Blocks : \A i \in 1..Height(b) : Work[Branch[b][i]] < Work[b]

ASSUME TimeAssumption == Time \in [Blocks -> Nat]

VARIABLES
    known,      \* headers in the header cache
    tip         \* the last header of the trunk

\* ChainDB::pos_on_trunk answers with a height.
OnTrunk(b) == OnBranch(b, tip)

\* ChainDB::add_header stores a header that is new and connects to a known one;
\* a known header is ignored, an unconnected one is an error.
Stores(h) == h \notin known /\ h # Genesis /\ Parent(h) \in known

\* The trunk moves only to a header with more work than the current tip ...
MovesTip(h) == Stores(h) /\ Work[tip] < Work[h]

\* ... and blocks of the old trunk are unwound unless the header extends it.
Reorganises(h) == MovesTip(h) /\ Parent(h) # tip

\* ChainDB::add_header.
ChainAddHeader(h) ==
    /\ known' = IF Stores(h) THEN known \cup {h} ELSE known
    /\ tip' = IF MovesTip(h) THEN h ELSE tip

\* A node starts with the genesis header.
ChainInit ==
    /\ known = {Genesis}
    /\ tip = Genesis

=============================================================================
