------------------------------- MODULE Outbox -------------------------------
(***************************************************************************)
(* What a node promises its user of the transactions that fund ads or      *)
(* withdraw money: a transaction id is returned only for a transaction     *)
(* that is stored, the network gets to know no transaction the node could  *)
(* forget, and only what the network knows is mined.  SendTx implements    *)
(* this.                                                                   *)
(***************************************************************************)
CONSTANT Txs

VARIABLES
    status,     \* how far a transaction has got
    answered    \* the transactions whose id was returned to the user

outboxVars == <<status, answered>>

Init ==
    /\ status = [t \in Txs |-> "none"]
    /\ answered = {}

Store(t) ==
    /\ status[t] = "none"
    /\ status' = [status EXCEPT ![t] = "stored"]
    /\ UNCHANGED answered

Answer(t) ==
    /\ status[t] # "none"
    /\ answered' = answered \cup {t}
    /\ UNCHANGED status

Reach(t) ==
    /\ status[t] = "stored"
    /\ status' = [status EXCEPT ![t] = "known"]
    /\ UNCHANGED answered

Confirm(mined) ==
    /\ \A t \in mined : status[t] = "known"
    /\ status' = [t \in Txs |-> IF t \in mined THEN "confirmed" ELSE status[t]]
    /\ UNCHANGED answered

Next ==
    \/ \E t \in Txs : Store(t) \/ Answer(t) \/ Reach(t)
    \/ \E mined \in SUBSET Txs : Confirm(mined)

Spec == Init /\ [][Next]_outboxVars

=============================================================================
