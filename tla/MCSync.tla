------------------------------- MODULE MCSync -------------------------------
(***************************************************************************)
(* Instances of Sync for TLC: two nodes, each publishing one ad.           *)
(***************************************************************************)
EXTENDS Sync

MCNodes == {"A", "B"}
MCLinks == {<<"A", "B">>, <<"B", "A">>}
MCAds == {"x", "y"}
MCAuthor == [a \in MCAds |-> IF a = "x" THEN "A" ELSE "B"]
MCOpens == [a \in MCAds |-> 0]
MCWeight == [a \in MCAds |-> IF a = "x" THEN 1 ELSE 2]

\* x expires at height 1, or nothing expires.  A has room for one ad, B for both, or
\* both have room.
MCShort == [a \in MCAds |-> IF a = "x" THEN 1 ELSE 5]
MCLong == [a \in MCAds |-> 5]
MCLimit == [n \in MCNodes |-> IF n = "A" THEN 1 ELSE 2]
MCRoom == [n \in MCNodes |-> 2]

\* Two hash functions, in which the ads have opposite order: the sketches of any
\* two sets differ.
MCHashes == <<[a \in MCAds |-> IF a = "x" THEN 1 ELSE 2],
              [a \in MCAds |-> IF a = "x" THEN 2 ELSE 1]>>

=============================================================================
