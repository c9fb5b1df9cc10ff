---------------------------- MODULE SendTxProofs ----------------------------
(***************************************************************************)
(* The relay of transactions implements Outbox, for every set of           *)
(* transactions and peers, every capacity of channel and cache and any     *)
(* number of faults.                                                       *)
(***************************************************************************)
EXTENDS SendTx, TLAPS

Kinds == {"GetData", "Inv", "Tx", "Other", "Outgoing"}

AnyMessage == [kind : Kinds, peer : Peers \cup {NoPeer}, tx : Txs \cup {NoTx}]

Stored == {t \in Own : txout[t] # "none"}

\* A transaction as it may appear in a message: a foreign one, none, or stored.
Safe(t) == t \in Own => t \in Stored

\* Whatever the node handed out or could still hand out is stored: what the network
\* knows, what is on the way to it, in the cache, and in the channel.
Inv ==
    /\ txout \in [Own -> {"none", "unconfirmed", "confirmed"}]
    /\ answered \subseteq Stored
    /\ api \in Stored \cup {NoTx}
    /\ channel \in Seq(AnyMessage)
    /\ \A i \in 1..Len(channel) : Safe(channel[i].tx)
    /\ \A t \in cache : Safe(t)
    /\ \A m \in wire : Safe(m.tx)
    /\ \A t \in known : Safe(t)

-----------------------------------------------------------------------------
\* What a step does to the stored transactions: it forgets none.
Grows == txout' \in [Own -> {"none", "unconfirmed", "confirmed"}] /\ Stored \subseteq Stored'

\* Taking a message keeps the channel well-formed, and gives a transaction that may
\* be handed out.
LEMMA TakingKeeps ==
    ASSUME Inv, NEW kind, Taking(kind)
    PROVE  /\ channel' \in Seq(AnyMessage)
           /\ \A i \in 1..Len(channel') : Safe(channel'[i].tx)
           /\ Safe(Head(channel).tx)
PROOF
<1>1. channel \in Seq(AnyMessage) /\ channel # <<>> /\ channel' = Tail(channel)
  BY DEF Inv, Taking
<1>2. Len(channel) \in Nat /\ Len(channel) > 0 /\ Head(channel) = channel[1]
  BY <1>1
<1>3. channel' \in Seq(AnyMessage) /\ Len(channel') = Len(channel) - 1
      /\ \A i \in 1..Len(channel') : channel'[i] = channel[i + 1]
  BY <1>1, <1>2
<1>4. \A i \in 1..Len(channel) : Safe(channel[i].tx)
  BY DEF Inv
<1>5. \A i \in 1..Len(channel') : i + 1 \in 1..Len(channel)
  BY <1>2, <1>3
<1>6. \A i \in 1..Len(channel') : Safe(channel'[i].tx)
  BY <1>3, <1>4, <1>5
<1>7. Safe(Head(channel).tx)
  BY <1>2, <1>4
<1> QED
  BY <1>3, <1>6, <1>7

\* So does a message that arrives, if its transaction may be handed out.
LEMMA AppendKeeps ==
    ASSUME Inv, NEW m \in AnyMessage,
           Safe(m.tx), channel' = Append(channel, m)
    PROVE  /\ channel' \in Seq(AnyMessage)
           /\ \A i \in 1..Len(channel') : Safe(channel'[i].tx)
PROOF
<1>1. channel \in Seq(AnyMessage) /\ \A i \in 1..Len(channel) : Safe(channel[i].tx)
  BY DEF Inv
<1>2. channel' \in Seq(AnyMessage) /\ Len(channel') = Len(channel) + 1 /\ Len(channel) \in Nat
      /\ channel'[Len(channel) + 1] = m
      /\ \A i \in 1..Len(channel) : channel'[i] = channel[i]
  BY <1>1
<1>3. \A i \in 1..Len(channel') : i \in 1..Len(channel) \/ i = Len(channel) + 1
  BY <1>2
<1> QED
  BY <1>1, <1>2, <1>3

\* A step after which nothing is newly handed out and nothing is forgotten keeps
\* the invariant.
LEMMA MonotoneKeeps ==
    ASSUME Inv, Grows,
           answered' \subseteq Stored',
           api' \in Stored' \cup {NoTx},
           channel' \in Seq(AnyMessage),
           \A i \in 1..Len(channel') : Safe(channel'[i].tx),
           \A t \in cache' : Safe(t),
           \A m \in wire' : Safe(m.tx),
           \A t \in known' : Safe(t)
    PROVE  Inv'
PROOF
<1>1. \A t : Safe(t) => (t \in Own => t \in Stored')
  BY DEF Grows, Safe
<1>2. \A i \in 1..Len(channel') : channel'[i].tx \in Own => channel'[i].tx \in Stored'
  BY <1>1
<1>3. /\ \A t \in cache' : t \in Own => t \in Stored'
      /\ \A m \in wire' : m.tx \in Own => m.tx \in Stored'
      /\ \A t \in known' : t \in Own => t \in Stored'
  BY <1>1
<1>4. txout' \in [Own -> {"none", "unconfirmed", "confirmed"}]
  BY DEF Grows
<1> QED
  BY <1>2, <1>3, <1>4 DEF Inv, Safe

-----------------------------------------------------------------------------
\* Initially nothing is handed out, and the network knows foreign transactions only.
LEMMA InitInv == Init => Inv
BY SendTxAssumption DEF Init, Inv, Stored, Safe

\* What send_network and send_random_network put on the wire is what they were
\* given.
LEMMA SendsGiven ==
    ASSUME Inv, NEW p, NEW kind, NEW t, Safe(t)
    PROVE  /\ \A m \in SendNetwork(p, kind, t) : Safe(m.tx)
           /\ \A w \in Announcements(t) : \A m \in w : Safe(m.tx)
BY DEF Inv, SendNetwork, Announcements, Message

\* No step hands out a transaction that is not stored.
LEMMA NextInv == ASSUME Inv, [Next]_vars PROVE Inv'
PROOF
<1> USE SendTxAssumption
<1>0. Inv /\ (UNCHANGED txout => Grows /\ Stored' = Stored)
  BY DEF Grows, Inv, Stored
<1>c. UNCHANGED channel =>
         /\ channel' \in Seq(AnyMessage)
         /\ \A i \in 1..Len(channel') : Safe(channel'[i].tx)
  BY DEF Inv
<1>s. /\ \A t \in cache : Safe(t)
      /\ \A m \in wire : Safe(m.tx)
      /\ \A t \in known : Safe(t)
      /\ answered \subseteq Stored
      /\ api \in Stored \cup {NoTx}
  BY DEF Inv
<1>1. ASSUME NEW t \in Own, FundCommit(t) PROVE Inv'
  <2>1. Grows /\ t \in Stored'
    BY <1>1 DEF FundCommit, Grows, Stored, Inv
  <2> QED
    BY <1>1, <1>c, <1>s, <2>1, MonotoneKeeps DEF FundCommit, Grows
<1>2. CASE FundSend
  <2> DEFINE m == Message("Outgoing", NoPeer, api)
  <2>1. m \in AnyMessage /\ Safe(m.tx)
    BY <1>2, <1>s DEF FundSend, Message, Stored, Safe, Txs, AnyMessage, Kinds
  <2>2. channel' = Append(channel, m)
    BY <1>2 DEF FundSend
  <2>3. /\ channel' \in Seq(AnyMessage)
        /\ \A i \in 1..Len(channel') : Safe(channel'[i].tx)
    BY <2>1, <2>2, AppendKeeps
  <2>4. answered' \subseteq Stored' /\ api' \in Stored' \cup {NoTx}
    BY <1>2, <1>0, <1>s DEF FundSend
  <2> QED
    BY <1>2, <1>0, <1>s, <2>3, <2>4, MonotoneKeeps DEF FundSend
<1>3. ASSUME NEW mined \in SUBSET Own, BlockConnected(mined) PROVE Inv'
  <2>1. Grows
    BY <1>3 DEF BlockConnected, Grows, Stored, Inv, Unconfirmed
  <2> QED
    BY <1>3, <1>c, <1>s, <2>1, MonotoneKeeps DEF BlockConnected, Grows
<1>4. CASE Run
  <2>1. CASE OnGetData
    <3>1. \A m \in wire' : Safe(m.tx)
      BY <2>1, <1>s, TakingKeeps, SendsGiven DEF OnGetData
    <3> QED
      BY <2>1, <3>1, <1>0, <1>s, TakingKeeps, MonotoneKeeps DEF OnGetData
  <2>2. CASE ReadUnconfirmed
    <3>1. sender.tx \in Unconfirmed => Safe(sender.tx)
      BY DEF Unconfirmed, Safe, Stored
    <3>2. \A m \in wire' : Safe(m.tx)
      BY <2>2, <3>1, <1>s, SendsGiven DEF ReadUnconfirmed
    <3> QED
      BY <2>2, <3>2, <1>0, <1>c, <1>s, MonotoneKeeps DEF ReadUnconfirmed
  <2>3. CASE OnInv
    <3>1. \A m \in wire' : Safe(m.tx)
      BY <2>3, <1>s, TakingKeeps, SendsGiven DEF OnInv
    <3> QED
      BY <2>3, <3>1, <1>0, <1>s, TakingKeeps, MonotoneKeeps DEF OnInv
  <2>4. CASE OnTx
    <3>1. Safe(Head(channel).tx)
      BY <2>4, TakingKeeps DEF OnTx
    <3>2. \A m \in wire' : Safe(m.tx)
      BY <2>4, <3>1, <1>s, SendsGiven DEF OnTx
    <3>3. \A t \in cache' : Safe(t)
      BY <2>4, <3>1, <1>s DEF OnTx, Inserted
    <3> QED
      BY <2>4, <3>2, <3>3, <1>0, <1>s, TakingKeeps, MonotoneKeeps DEF OnTx
  <2>5. CASE OnOutgoing
    <3>1. \A m \in wire' : Safe(m.tx)
      BY <2>5, TakingKeeps, SendsGiven DEF OnOutgoing
    <3> QED
      BY <2>5, <3>1, <1>0, <1>s, TakingKeeps, MonotoneKeeps DEF OnOutgoing
  <2>6. CASE OnOther
    BY <2>6, <1>0, <1>s, TakingKeeps, MonotoneKeeps DEF OnOther
  <2>7. CASE Reannounce
    <3>1. \A t \in ToAnnounce : Safe(t)
      BY DEF ToAnnounce, Unconfirmed, Safe, Stored
    <3>2. \A m \in wire' : Safe(m.tx)
      BY <2>7, <3>1, <1>s DEF Reannounce, Message
    <3> QED
      BY <2>7, <3>2, <1>0, <1>c, <1>s, MonotoneKeeps DEF Reannounce
  <2>8. CASE ReannounceAlone
    BY <2>8, <1>0, <1>c, <1>s, MonotoneKeeps DEF ReannounceAlone
  <2> QED
    BY <1>4, <2>1, <2>2, <2>3, <2>4, <2>5, <2>6, <2>7, <2>8 DEF Run
<1>5. CASE MinutePasses
  BY <1>5, <1>0, <1>c, <1>s, MonotoneKeeps DEF MinutePasses
<1>6. ASSUME NEW p \in Peers, Peer(p) PROVE Inv'
  <2>a. ASSUME NEW kind \in Kinds, NEW t \in Txs \cup {NoTx}, Safe(t),
               Arrives(Message(kind, p, t))
        PROVE  /\ channel' \in Seq(AnyMessage)
               /\ \A i \in 1..Len(channel') : Safe(channel'[i].tx)
    <3> DEFINE m == Message(kind, p, t)
    <3>1. m \in AnyMessage /\ m.tx = t
      BY DEF Message, AnyMessage
    <3> QED
      BY <2>a, <3>1, AppendKeeps DEF Arrives
  <2>1. ASSUME NEW t \in Txs, PeerAsks(p, t) PROVE Inv'
    <3>1. Safe(t) /\ "GetData" \in Kinds
      BY <2>1, <1>s DEF PeerAsks, Message, Kinds
    <3> QED
      BY <2>1, <3>1, <2>a, <1>0, <1>c, <1>s, MonotoneKeeps DEF PeerAsks
  <2>2. ASSUME NEW t \in Txs, PeerGets(p, t) PROVE Inv'
    <3>1. Safe(t)
      BY <2>2, <1>s DEF PeerGets, Message
    <3> QED
      BY <2>2, <3>1, <1>0, <1>c, <1>s, MonotoneKeeps DEF PeerGets
  <2>3. ASSUME NEW t \in Txs, PeerServes(p, t) PROVE Inv'
    <3>1. Safe(t) /\ "Tx" \in Kinds
      BY <2>3, <1>s DEF PeerServes, Message, Kinds
    <3> QED
      BY <2>3, <3>1, <2>a, <1>0, <1>s, MonotoneKeeps DEF PeerServes
  <2>4. ASSUME NEW t \in Txs, PeerAnnounces(p, t) PROVE Inv'
    <3>1. Safe(t) /\ "Inv" \in Kinds
      BY <2>4, <1>s DEF PeerAnnounces, Kinds
    <3> QED
      BY <2>4, <3>1, <2>a, <1>0, <1>s, MonotoneKeeps DEF PeerAnnounces
  <2>5. CASE PeerOther(p)
    <3>1. Safe(NoTx) /\ "Other" \in Kinds
      BY DEF Safe, Txs, Kinds
    <3> QED
      BY <2>5, <3>1, <2>a, <1>0, <1>s, MonotoneKeeps DEF PeerOther
  <2>6. CASE Connect(p)
    BY <2>6, <1>0, <1>c, <1>s, MonotoneKeeps DEF Connect
  <2>7. CASE Disconnect(p)
    BY <2>7, <1>0, <1>c, <1>s, MonotoneKeeps DEF Disconnect
  <2> QED
    BY <1>6, <2>1, <2>2, <2>3, <2>4, <2>5, <2>6, <2>7 DEF Peer
<1>7. CASE Crash
  <2>1. channel' \in Seq(AnyMessage)
        /\ \A i \in 1..Len(channel') : Safe(channel'[i].tx)
    BY <1>7 DEF Crash
  <2> QED
    BY <1>7, <2>1, <1>0, <1>s, MonotoneKeeps DEF Crash
<1>8. CASE UNCHANGED vars
  BY <1>8, <1>0, <1>c, <1>s, MonotoneKeeps DEF vars
<1> QED
  BY <1>1, <1>2, <1>3, <1>4, <1>5, <1>6, <1>7, <1>8 DEF Next

-----------------------------------------------------------------------------
\* The invariant holds in every state the relay can reach.
THEOREM HandsOutStored == Spec => []Inv
PROOF
<1>1. Inv /\ [Next]_vars => Inv'
  BY NextInv
<1> QED
  BY <1>1, InitInv, PTL DEF Spec

\* Every step of the relay is one of Outbox, or none of its business.
LEMMA StepRefines == ASSUME Inv, [Next]_vars PROVE [Box!Next]_(Box!outboxVars)
PROOF
<1> USE SendTxAssumption
<1> DEFINE St == [t \in Own |-> Status(t)]
<1>0. UNCHANGED <<txout, known>> => UNCHANGED St
  BY DEF Status
<1>t. txout \in [Own -> {"none", "unconfirmed", "confirmed"}]
  BY DEF Inv
<1>k. \A t \in Own : t \in known => txout[t] # "none"
  BY DEF Inv, Safe, Stored
<1>1. ASSUME NEW t \in Own, FundCommit(t) PROVE Box!Store(t)
  <2>1. txout[t] = "none" /\ t \notin known /\ known' = known
        /\ txout' = [txout EXCEPT ![t] = "unconfirmed"] /\ answered' = answered
    BY <1>1, <1>k DEF FundCommit
  <2>2. \A u \in Own : Status(u)' = IF u = t THEN "stored" ELSE Status(u)
    BY <2>1, <1>t DEF Status
  <2> QED
    BY <2>1, <2>2 DEF Box!Store, Status
<1>2. CASE FundSend
  <2>1. api \in Own /\ txout[api] # "none" /\ answered' = answered \cup {api}
        /\ UNCHANGED <<txout, known>>
    BY <1>2 DEF FundSend, Inv, Stored
  <2>2. Status(api) # "none"
    BY <2>1, <1>t DEF Status
  <2> QED
    BY <2>1, <2>2, <1>0 DEF Box!Next, Box!Answer
<1>3. ASSUME NEW mined \in SUBSET Own, BlockConnected(mined) PROVE Box!Confirm(mined)
  <2>1. /\ \A t \in mined : txout[t] = "unconfirmed" /\ t \in known
        /\ txout' = [t \in Own |-> IF t \in mined THEN "confirmed" ELSE txout[t]]
        /\ known' = known /\ answered' = answered
    BY <1>3 DEF BlockConnected, Unconfirmed
  <2>2. \A t \in Own : Status(t)' = IF t \in mined THEN "confirmed" ELSE Status(t)
    BY <2>1, <1>t DEF Status
  <2>3. \A t \in mined : Status(t) = "known"
    BY <2>1 DEF Status
  <2> QED
    BY <2>1, <2>2, <2>3 DEF Box!Confirm
<1>4. CASE Run
  <2>1. UNCHANGED <<txout, known, answered>>
    BY <1>4 DEF Run, OnGetData, ReadUnconfirmed, OnInv, OnTx, OnOutgoing, OnOther,
                Reannounce, ReannounceAlone
  <2> QED
    BY <2>1, <1>0 DEF Box!outboxVars
<1>5. CASE MinutePasses \/ Crash \/ UNCHANGED vars
  <2>1. UNCHANGED <<txout, known, answered>>
    BY <1>5 DEF MinutePasses, Crash, vars
  <2> QED
    BY <2>1, <1>0 DEF Box!outboxVars
<1>6. ASSUME NEW p \in Peers, Peer(p) PROVE [Box!Next]_(Box!outboxVars)
  <2>1. ASSUME NEW t \in Txs, PeerGets(p, t) PROVE [Box!Next]_(Box!outboxVars)
    <3>1. known' = known \cup {t} /\ UNCHANGED <<txout, answered>>
      BY <2>1 DEF PeerGets
    <3>2. CASE t \in Own /\ Status(t) = "stored"
      <4>1. txout[t] = "unconfirmed"
        BY <3>2, <1>t DEF Status
      <4>2. \A u \in Own : Status(u)' = IF u = t THEN "known" ELSE Status(u)
        BY <3>1, <4>1 DEF Status
      <4>3. Box!Reach(t)
        BY <3>1, <3>2, <4>2 DEF Box!Reach
      <4> QED
        BY <3>2, <4>3 DEF Box!Next
    <3>3. CASE ~(t \in Own /\ Status(t) = "stored")
      <4>1. \A u \in Own : Status(u)' = Status(u)
        BY <3>1, <3>3, <1>t DEF Status
      <4> QED
        BY <3>1, <4>1 DEF Box!outboxVars
    <3> QED
      BY <3>2, <3>3
  <2>2. ASSUME ~ \E t \in Txs : PeerGets(p, t)
        PROVE UNCHANGED <<txout, known, answered>>
    BY <1>6, <2>2 DEF Peer, PeerAsks, PeerServes, PeerAnnounces, PeerOther, Connect, Disconnect
  <2> QED
    BY <2>1, <2>2, <1>0 DEF Box!outboxVars
<1> QED
  BY <1>1, <1>2, <1>3, <1>4, <1>5, <1>6 DEF Next, Box!Next

\* The relay implements Outbox: no interleaving of API, SendTx and header thread,
\* peers, lost connections and crashes lets fund or withdraw answer for, or a peer
\* learn of, a transaction that is not stored, or one be confirmed that no peer knows.
THEOREM RelayImplementsOutbox == Spec => ImplementsOutbox
PROOF
<1>1. Init => Box!Init
  BY DEF Init, Box!Init, Status
<1>2. Inv /\ [Next]_vars => [Box!Next]_(Box!outboxVars)
  BY StepRefines
<1> QED
  BY <1>1, <1>2, HandsOutStored, PTL DEF Spec, ImplementsOutbox, Box!Spec

=============================================================================
