------------------------------ MODULE MCWallet ------------------------------
(* The wallet on an instance with one size of deposit. Funding 5 leaves a    *)
(* change of 2, withdrawing 6 a change of 1 that is dust, withdrawing        *)
(* everything leaves none, and withdrawing a change of 2 is an amount below  *)
(* the fee. Five headers are the least with which a start gives blocks of    *)
(* the trunk to the wallet it has processed before.                          *)
EXTENDS Wallet
============================================================================
