-------------------------- MODULE MCBlockDownload --------------------------
(***************************************************************************)
(* Instances of BlockDownload for TLC.  The tree is a common block c1 with *)
(* two branches on top of it, the longer one wins:                         *)
(*                                                                         *)
(*     g - c1 - a2 - a3 - a4                                               *)
(*            \ b2 - b3                                                    *)
(***************************************************************************)
EXTENDS BlockDownload

MCBlocks == {"g", "c1", "a2", "a3", "a4", "b2", "b3"}

MCBranch ==
    [b \in MCBlocks |->
        CASE b = "g"  -> <<"g">>
          [] b = "c1" -> <<"g", "c1">>
          [] b = "a2" -> <<"g", "c1", "a2">>
          [] b = "a3" -> <<"g", "c1", "a2", "a3">>
          [] b = "a4" -> <<"g", "c1", "a2", "a3", "a4">>
          [] b = "b2" -> <<"g", "c1", "b2">>
          [] b = "b3" -> <<"g", "c1", "b2", "b3">>]

MCWork == [b \in MCBlocks |-> Len(MCBranch[b])]

\* The genesis block is older than the wallet.
MCTime == [b \in MCBlocks |-> IF b = "g" THEN 0 ELSE 2]

=============================================================================
