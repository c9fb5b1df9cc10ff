---------------------------- MODULE MCDiscovery ----------------------------
(***************************************************************************)
(* An instance of Discovery for TLC: two nodes that know one of the two    *)
(* addresses each. The sizes of the tables are scaled down so that both    *)
(* are used: the larger one when the sets have nothing in common.          *)
(***************************************************************************)
EXTENDS Discovery

MCNodes == {"A", "B"}
MCLinks == {<<"A", "B">>, <<"B", "A">>}
MCAddresses == 1..2
MCKnown == [n \in MCNodes |-> IF n = "A" THEN {1} ELSE {2}]

\* The sketches of any two sets differ, some in one hash only.
MCHashes == <<[a \in MCAddresses |-> a], [a \in MCAddresses |-> 3 - a]>>

=============================================================================
