------------------------------ MODULE MCSendTx ------------------------------
(***************************************************************************)
(* Instances of SendTx for TLC.                                            *)
(***************************************************************************)
EXTENDS SendTx

=============================================================================
