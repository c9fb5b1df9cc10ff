--------------------------- MODULE MCAddressBook ---------------------------
(***************************************************************************)
(* Instances of AddressBook for TLC: the Bitcoin network with a seed u, an *)
(* address x that has a slot of its own, and a banned peer f of the        *)
(* defiads network that shares the slot of u.                              *)
(***************************************************************************)
EXTENDS AddressBook

MCAddresses == {"f", "u", "x"}

MCSlot == [a \in MCAddresses |-> IF a = "x" THEN 1 ELSE 2]

=============================================================================
