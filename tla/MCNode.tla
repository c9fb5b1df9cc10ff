------------------------------- MODULE MCNode -------------------------------
(***************************************************************************)
(* Instances of Node for TLC.  Two branches, the longer one wins:          *)
(*                                                                         *)
(*     g - a1                                                              *)
(*       \ b1 - b2                                                         *)
(***************************************************************************)
EXTENDS Node

MCBlocks == {"g", "a1", "b1", "b2"}

MCBranch ==
    [b \in MCBlocks |->
        CASE b = "g"  -> <<"g">>
          [] b = "a1" -> <<"g", "a1">>
          [] b = "b1" -> <<"g", "b1">>
          [] b = "b2" -> <<"g", "b1", "b2">>]

MCWork == [b \in MCBlocks |-> Len(MCBranch[b])]

\* The genesis block is older than the wallet.
MCTime == [b \in MCBlocks |-> IF b = "g" THEN 0 ELSE 2]

MCAds == {"x", "y"}

\* One ad fits, two do not.
MCLength == [a \in MCAds |-> 2]

Proof(a, b, t, v) == [ad |-> a, block |-> b, term |-> t, amount |-> v, genuine |-> TRUE]

\* A peer sends x, which is funded on both branches, on one of them for its block only.
MCProofs == {Proof("x", "a1", 1, 4), Proof("x", "b1", 0, 4)}

\* The node funds y, which is heavier; the transaction is mined on both branches.
MCFundings == {[ad |-> "y", term |-> 2, amount |-> 6]}

MCMined == [b \in MCBlocks |-> IF b \in {"a1", "b1"} THEN MCFundings ELSE {}]

=============================================================================
