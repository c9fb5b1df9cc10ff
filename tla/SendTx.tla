------------------------------- MODULE SendTx -------------------------------
(***************************************************************************)
(* The relay of transactions (sendtx.rs) and the threads that meet it: the *)
(* API thread that stores a transaction and hands it over (store.rs, fund  *)
(* and withdraw), the header thread that marks it confirmed, and the peers *)
(* of the Bitcoin network.                                                 *)
(*                                                                         *)
(* The API thread holds the store and the database until there is room in  *)
(* the bounded channel to the SendTx thread, which itself needs the        *)
(* database.  The other threads take and release the locks in one step.    *)
(***************************************************************************)
EXTENDS Integers, FiniteSets, Sequences

CONSTANTS
    Own, Foreign,   \* transactions of this node and of others
    Peers,
    Silent,         \* peers that neither send messages nor ask for what is announced
    BackPressure,   \* capacity of the channel to the SendTx thread
    CacheSize,
    MaxFaults,      \* bound: lost connections and crashes
    NoTx, NoPeer

Txs == Own \cup Foreign

ASSUME SendTxAssumption ==
    /\ Own \cap Foreign = {} /\ NoTx \notin Txs
    /\ Silent \subseteq Peers /\ NoPeer \notin Peers
    /\ {BackPressure, CacheSize} \subseteq Nat \ {0}
    /\ MaxFaults \in Nat

VARIABLES
    txout,      \* database: table txout, column confirmed
    answered,   \* transactions whose id the API has returned
    api,        \* the transaction the API thread has stored and not handed over
    channel,    \* messages to the SendTx thread
    sender,     \* the SendTx thread
    cache,      \* transactions got from peers
    due,        \* more than 60 seconds since last_announcement
    up,         \* connected peers
    wire,       \* messages on the way to peers
    known,      \* transactions the network knows
    faults

vars == <<txout, answered, api, channel, sender, cache, due, up, wire, known, faults>>

Message(kind, p, t) == [kind |-> kind, peer |-> p, tx |-> t]

Idle == Message("recv", NoPeer, NoTx)

Unconfirmed == {t \in Own : txout[t] = "unconfirmed"}

\* The API thread keeps the guards of store and database while it waits for room.
DbFree == api = NoTx

-----------------------------------------------------------------------------
(* The API thread: ContentStore::fund and withdraw after the wallet made the *)
(* transaction.                                                              *)

FundUnstored(t) ==
    /\ api = NoTx
    /\ txout[t] = "none"
    /\ api' = t
    /\ UNCHANGED <<txout, answered, channel, sender, cache, due, up, wire, known, faults>>

\* Lock store and database, store_txout, commit.
FundCommit(t) ==
    /\ api = NoTx
    /\ txout[t] = "none"
    /\ txout' = [txout EXCEPT ![t] = "unconfirmed"]
    /\ api' = t
    /\ UNCHANGED <<answered, channel, sender, cache, due, up, wire, known, faults>>

\* txout.send, which waits for room, and the answer to the user.
FundSend ==
    /\ api # NoTx
    /\ Len(channel) < BackPressure
    /\ channel' = Append(channel, Message("Outgoing", NoPeer, api))
    /\ answered' = answered \cup {api}
    /\ api' = NoTx
    /\ UNCHANGED <<txout, sender, cache, due, up, wire, known, faults>>

\* The header thread: block_connected with store_coins.
BlockConnected(mined) ==
    /\ DbFree
    /\ mined # {}
    /\ mined \subseteq known \cap Unconfirmed
    /\ txout' = [t \in Own |-> IF t \in mined THEN "confirmed" ELSE txout[t]]
    /\ UNCHANGED <<answered, api, channel, sender, cache, due, up, wire, known, faults>>

-----------------------------------------------------------------------------
(* The SendTx thread. *)

\* send_network: lost if the peer is gone.
SendNetwork(p, kind, t) == wire \cup (IF p \in up THEN {Message(kind, p, t)} ELSE {})

\* send_random_network with an Inv: to one of the peers, if there is one.
Announcements(t) == {wire \cup {Message("Inv", p, t)} : p \in up} \cup {w \in {wire} : up = {}}

TakingLocked(kind) ==
    /\ DbFree
    /\ sender = Idle
    /\ channel # <<>>
    /\ Head(channel).kind = kind
    /\ channel' = Tail(channel)

\* receiver.recv
Taking(kind) ==
    /\ sender = Idle
    /\ channel # <<>>
    /\ Head(channel).kind = kind
    /\ channel' = Tail(channel)

\* The end of the loop: time to announce own transactions again?
Handled == sender' = IF due THEN Message("announce", NoPeer, NoTx) ELSE Idle

\* GetData, answered from the cache or, further below, from the database
OnGetData ==
    /\ Taking("GetData")
    /\ LET m == Head(channel)
       IN  IF m.tx \in cache
             THEN wire' = SendNetwork(m.peer, "Tx", m.tx) /\ Handled
             ELSE sender' = Message("read", m.peer, m.tx) /\ UNCHANGED wire
    /\ UNCHANGED <<txout, answered, api, cache, due, up, known, faults>>

ReadUnconfirmed ==
    /\ sender.kind = "read"
    /\ DbFree
    /\ wire' = IF sender.tx \in Unconfirmed THEN SendNetwork(sender.peer, "Tx", sender.tx)
               ELSE wire
    /\ Handled
    /\ UNCHANGED <<txout, answered, api, channel, cache, due, up, known, faults>>

\* Inv: ask for what is not cached.
OnInv ==
    /\ Taking("Inv")
    /\ LET m == Head(channel)
       IN  wire' = IF m.tx \in cache THEN wire ELSE SendNetwork(m.peer, "GetData", m.tx)
    /\ Handled
    /\ UNCHANGED <<txout, answered, api, cache, due, up, known, faults>>

InsertedBeyond(t) == {cache \cup {t}}

\* LruCache::insert; which entry was used least recently is left open.
Inserted(t) ==
    IF Cardinality(cache \cup {t}) <= CacheSize THEN {cache \cup {t}}
    ELSE {(cache \ {u}) \cup {t} : u \in cache \ {t}}

\* Tx: cache it, and announce it if it was not cached.
OnTx ==
    /\ Taking("Tx")
    /\ LET t == Head(channel).tx
       IN  /\ cache' \in Inserted(t)
           /\ IF t \in cache THEN UNCHANGED wire ELSE wire' \in Announcements(t)
    /\ Handled
    /\ UNCHANGED <<txout, answered, api, due, up, known, faults>>

\* PeerMessage::Outgoing: announce the own transaction.
OnOutgoing ==
    /\ Taking("Outgoing")
    /\ wire' \in Announcements(Head(channel).tx)
    /\ Handled
    /\ UNCHANGED <<txout, answered, api, cache, due, up, known, faults>>

\* Any other message of the network wakes the thread, too.
OnOther ==
    /\ Taking("Other")
    /\ Handled
    /\ UNCHANGED <<txout, answered, api, cache, due, up, wire, known, faults>>

ToAnnounceCached == Unconfirmed \cap cache

\* Own unconfirmed transactions that no peer has sent back
ToAnnounce == Unconfirmed \ cache

\* Each of them goes to a peer of its own choice.
Reannounce ==
    /\ sender.kind = "announce"
    /\ DbFree
    /\ \E to \in [ToAnnounce -> up] :
          wire' = wire \cup {Message("Inv", to[t], t) : t \in ToAnnounce}
    /\ due' = FALSE
    /\ sender' = Idle
    /\ UNCHANGED <<txout, answered, api, channel, cache, up, known, faults>>

\* Without a peer the announcement goes nowhere.
ReannounceAlone ==
    /\ sender.kind = "announce"
    /\ DbFree
    /\ up = {} /\ ToAnnounce # {}
    /\ due' = FALSE
    /\ sender' = Idle
    /\ UNCHANGED <<txout, answered, api, channel, cache, up, wire, known, faults>>

\* Time goes on whatever the threads do.
MinutePasses ==
    /\ due' = TRUE
    /\ UNCHANGED <<txout, answered, api, channel, sender, cache, up, wire, known, faults>>

-----------------------------------------------------------------------------
(* Peers and the dispatcher, which waits for room in the channel. *)

Arrives(m) ==
    /\ m.peer \in up \ Silent
    /\ Len(channel) < BackPressure
    /\ channel' = Append(channel, m)

\* A peer that was told of a transaction it does not know asks for it.
PeerAsks(p, t) ==
    /\ p \notin Silent
    /\ Message("Inv", p, t) \in wire
    /\ wire' = wire \ {Message("Inv", p, t)}
    /\ IF t \in known THEN UNCHANGED channel ELSE Arrives(Message("GetData", p, t))
    /\ UNCHANGED <<txout, answered, api, sender, cache, due, up, known, faults>>

PeerGets(p, t) ==
    /\ Message("Tx", p, t) \in wire
    /\ wire' = wire \ {Message("Tx", p, t)}
    /\ known' = known \cup {t}
    /\ UNCHANGED <<txout, answered, api, channel, sender, cache, due, up, faults>>

PeerServes(p, t) ==
    /\ Message("GetData", p, t) \in wire
    /\ wire' = wire \ {Message("GetData", p, t)}
    /\ Arrives(Message("Tx", p, t))
    /\ UNCHANGED <<txout, answered, api, sender, cache, due, up, known, faults>>

PeerAnnounces(p, t) ==
    /\ t \in known
    /\ Arrives(Message("Inv", p, t))
    /\ UNCHANGED <<txout, answered, api, sender, cache, due, up, wire, known, faults>>

\* Headers, blocks, addresses, pings ...: every listener gets every message.
PeerOther(p) ==
    /\ Arrives(Message("Other", p, NoTx))
    /\ UNCHANGED <<txout, answered, api, sender, cache, due, up, wire, known, faults>>

Connect(p) ==
    /\ p \notin up
    /\ up' = up \cup {p}
    /\ UNCHANGED <<txout, answered, api, channel, sender, cache, due, wire, known, faults>>

Disconnect(p) ==
    /\ faults < MaxFaults
    /\ p \in up
    /\ up' = up \ {p}
    /\ wire' = {m \in wire : m.peer # p}
    /\ faults' = faults + 1
    /\ UNCHANGED <<txout, answered, api, channel, sender, cache, due, known>>

\* The process is killed and started again: only the database is left.
Crash ==
    /\ faults < MaxFaults
    /\ faults' = faults + 1
    /\ api' = NoTx
    /\ channel' = <<>>
    /\ sender' = Idle
    /\ cache' = {}
    /\ due' = FALSE
    /\ up' = {}
    /\ wire' = {}
    /\ UNCHANGED <<txout, answered, known>>

-----------------------------------------------------------------------------
Init ==
    /\ txout = [t \in Own |-> "none"]
    /\ answered = {}
    /\ api = NoTx
    /\ channel = <<>>
    /\ sender = Idle
    /\ cache = {}
    /\ due = FALSE
    /\ up = {}
    /\ wire = {}
    /\ known = Foreign
    /\ faults = 0

Run ==
    \/ OnGetData \/ ReadUnconfirmed \/ OnInv \/ OnTx \/ OnOutgoing \/ OnOther
    \/ Reannounce \/ ReannounceAlone

Peer(p) ==
    \/ \E t \in Txs : PeerAsks(p, t) \/ PeerGets(p, t) \/ PeerServes(p, t) \/ PeerAnnounces(p, t)
    \/ PeerOther(p) \/ Connect(p) \/ Disconnect(p)

Next ==
    \/ \E t \in Own : FundCommit(t)
    \/ FundSend
    \/ \E mined \in SUBSET Own : BlockConnected(mined)
    \/ Run
    \/ MinutePasses
    \/ \E p \in Peers : Peer(p)
    \/ Crash

Spec == Init /\ [][Next]_vars

\* The threads run, time passes, peers connect, send something from time to time
\* and ask for what is announced to them, and the random choice of a peer does not
\* avoid one for ever.
Fairness ==
    /\ WF_vars(FundSend) /\ WF_vars(Run) /\ WF_vars(MinutePasses)
    /\ \A p \in Peers : WF_vars(Connect(p)) /\ SF_vars(PeerOther(p))
    /\ \A p \in Peers \ Silent, t \in Own :
          /\ SF_vars(PeerAsks(p, t)) /\ WF_vars(PeerGets(p, t))
          /\ SF_vars(Reannounce /\ Message("Inv", p, t) \in wire')

FairSpec == Spec /\ Fairness

Messages == [kind : {"GetData", "Inv", "Tx"}, peer : Peers, tx : Txs]

\* The type of the relay's state (struct SendTx, its channel, the table txout).
TypeOK ==
    /\ txout \in [Own -> {"none", "unconfirmed", "confirmed"}]
    /\ answered \subseteq Own
    /\ api \in Own \cup {NoTx}
    /\ channel \in Seq(Messages \cup [kind : {"Other"}, peer : Peers, tx : {NoTx}]
                         \cup [kind : {"Outgoing"}, peer : {NoPeer}, tx : Own])
    /\ Len(channel) <= BackPressure
    /\ sender \in {Idle, Message("announce", NoPeer, NoTx)}
                    \cup [kind : {"read"}, peer : Peers, tx : Txs]
    /\ cache \subseteq Txs /\ Cardinality(cache) <= CacheSize
    /\ due \in BOOLEAN
    /\ up \subseteq Peers
    /\ wire \subseteq Messages
    /\ known \subseteq Txs
    /\ faults \in 0..MaxFaults

-----------------------------------------------------------------------------
Status(t) ==
    CASE txout[t] = "none" -> "none"
      [] txout[t] = "confirmed" -> "confirmed"
      [] txout[t] = "unconfirmed" /\ t \in known -> "known"
      [] OTHER -> "stored"

Box == INSTANCE Outbox WITH Txs <- Own, status <- [t \in Own |-> Status(t)], answered <- answered

\* The relay implements Outbox: fund and withdraw answer only for transactions that
\* survive a crash, peers learn of no other, and only what they know is confirmed.
ImplementsOutbox == Box!Spec

\* fund or withdraw waits for room in the channel with the database locked, and the
\* SendTx thread for the database before it takes the next message.
Deadlocked ==
    /\ ~DbFree
    /\ Len(channel) = BackPressure
    /\ sender.kind \in {"read", "announce"}

\* A stored transaction reaches the network through lost connections, restarts,
\* silent peers, races of the announcement with time and a cache or a channel that is
\* full: run() announces it again until a peer has sent it back.  Only a deadlock of
\* the SendTx thread with a call of fund or withdraw prevents it.
ReachesNetwork == \A t \in Own : Status(t) = "stored" ~> Status(t) # "stored" \/ Deadlocked

\* A call of fund or withdraw that waits for the SendTx thread ends, however full the
\* channel is, unless that thread waits for the database: this deadlock is the only
\* way in which the wait can go on for ever.
FundAnsweredOrDeadlocked == \A t \in Own : (api = t) ~> (api # t \/ Deadlocked)

\* fund and withdraw get to their answer, although they wait for the SendTx thread
\* with store and database locked (unless the process is killed).
FundAnswered == \A t \in Own : (api = t) ~> (api # t)

=============================================================================
