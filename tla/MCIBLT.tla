------------------------------- MODULE MCIBLT -------------------------------
(***************************************************************************)
(* Instances of IBLT for TLC: all ways two hash functions can place keys   *)
(* in three buckets.                                                       *)
(***************************************************************************)
EXTENDS IBLT

MCBuckets == 0..2

MCHashings == [Keys -> {s \in SUBSET MCBuckets : Cardinality(s) \in {1, 2}}]

=============================================================================
