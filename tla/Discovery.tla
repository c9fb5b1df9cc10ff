----------------------------- MODULE Discovery -----------------------------
(***************************************************************************)
(* Nodes telling each other addresses of the defiads network: the          *)
(* discovery thread (discovery.rs) of every node and the links between     *)
(* them.                                                                   *)
(*                                                                         *)
(* A PollAddress is a question or the answer to one, as the receiver has   *)
(* an open question or not.  The answer lets the receiver estimate how     *)
(* many addresses differ, compute a table of a size that depends on it,    *)
(* remember the table and send it.  Who gets a table subtracts the one it  *)
(* sent, if any, and stores what is left.                                  *)
(*                                                                         *)
(* Of the table address only the set is kept that sketch and table are     *)
(* computed from: the addresses seen within a day and not banned for one.  *)
(* It changes in any way at any time, as rows are noted, banned, displaced *)
(* and grow old; AddressBook has the rows.                                 *)
(***************************************************************************)
EXTENDS Integers, FiniteSets, SequencesExt

CONSTANTS
    Nodes, Addresses,
    Links,              \* pairs of nodes, in both directions
    Known,              \* [Nodes -> SUBSET Addresses]: listed at the start
    Hashes,             \* sequence of the hash functions of the sketch, [Addresses -> Nat]
    MINIMUM_IBLT_SIZE,
    MAXIMUM_IBLT_SIZE,
    MaxFaults,          \* bound: links lost, restarts, overlapping polls, together
    MaxChanges,         \* bound: changes of the lists by others than this thread
    NoPoll, NoTable

ASSUME DiscoveryAssumption ==
    /\ \A l \in Links : l \in Nodes \X Nodes /\ l[1] # l[2] /\ <<l[2], l[1]>> \in Links
    /\ Known \in [Nodes -> SUBSET Addresses]
    /\ Hashes \in Seq([Addresses -> Nat]) /\ Hashes # <<>>
    /\ {MaxFaults, MaxChanges, MAXIMUM_IBLT_SIZE} \subseteq Nat
    /\ MINIMUM_IBLT_SIZE \in 1..MAXIMUM_IBLT_SIZE

VARIABLES
    listed,         \* the addresses that sketch and table of every node are computed from
    panicked,       \* nodes whose discovery thread is gone
    side,           \* <<n, m>>: what n knows of its link to m
    earlier,        \* the peers every node has dialled since it was started
    asked,          \* <<n, m>>: poll_asked of n for m
    sent,           \* <<n, m>>: iblt_sent of n for m
    expected,       \* <<n, m>>: Timeout, replies n expects from m
    net,            \* <<n, m>>: messages on the way from n to m
    overlapped,     \* history: links on which a poll was sent while one was open
    faults,         \* links lost, restarts, overlapping polls so far
    changes         \* changes of the lists so far

vars == <<listed, panicked, side, earlier, asked, sent, expected, net, overlapped, faults,
          changes>>

Back(l) == <<l[2], l[1]>>

Ends(l) == {l, Back(l)}

Replies == {"PollAddress", "AddressIBLT"}

NothingExpected == [r \in Replies |-> 0]

-----------------------------------------------------------------------------
(* Sketches and tables. *)

\* compute_address_sketch
Poll(n) ==
    [type |-> "PollAddress", size |-> Cardinality(listed[n]),
     sketch |-> [i \in 1..Len(Hashes) |->
                    IF listed[n] = {} THEN -1 ELSE Min({Hashes[i][a] : a \in listed[n]})]]

\* estimate_diff_size, with the factor 3/2 of its caller
EstimateDiffSize(p, q) ==
    LET k == Len(Hashes)
        same == Cardinality({i \in 1..k : p.sketch[i] = q.sketch[i]})
    IN  ((((k - same) * (p.size + q.size)) \div (k + same)) * 3) \div 2

\* The least size, four times larger each time, that is not below the estimate.
TableSize(diff) ==
    Min({s \in {MINIMUM_IBLT_SIZE * 4^i : i \in 0..MAXIMUM_IBLT_SIZE} :
            s >= MAXIMUM_IBLT_SIZE \/ s >= diff})

\* compute_address_iblt
Table(n, size) == [type |-> "AddressIBLT", size |-> size, keys |-> listed[n]]

\* What the iterator may return as Inserted: it may fail at any point, and what it
\* returned before stays.
Learned(table, own) == SUBSET (table.keys \ (IF own = NoTable THEN {} ELSE own.keys))

\* What may be listed once these addresses went through store_address: each is stored,
\* in a free slot or in place of another address, or refused, or remains banned.
Stored(old, new) ==
    {set \in SUBSET (old \cup new) : Cardinality(old \ set) <= Cardinality(set \ old)}

-----------------------------------------------------------------------------
(* Polls. *)

\* Timeout::expect
Expect(e, l, reply) == [e EXCEPT ![l][reply] = @ + 1]

ReceivedUnchecked(e, l, reply) == [e EXCEPT ![l][reply] = @ - 1]

\* Timeout::received
Received(e, l, reply) == [e EXCEPT ![l][reply] = IF @ > 0 THEN @ - 1 ELSE 0]

Send(nt, l, message) == [nt EXCEPT ![l] = Append(@, message)]

PollAddressUntimed(l, nt) ==
    /\ asked' = [asked EXCEPT ![l] = Poll(l[1])]
    /\ net' = Send(nt, l, Poll(l[1]))
    /\ UNCHANGED expected

\* poll_address; nt is the network without the message being handled
PollAddress(l, nt) ==
    /\ asked' = [asked EXCEPT ![l] = Poll(l[1])]
    /\ net' = Send(nt, l, Poll(l[1]))
    /\ expected' = Expect(expected, l, "PollAddress")

Runs(l) == l[1] \notin panicked

\* PeerMessage::Connected. The address of the peer is stored without a commit.
OnConnected(l) ==
    /\ Runs(l) /\ side[l] = "opening"
    /\ side' = [side EXCEPT ![l] = "up"]
    /\ PollAddress(l, net)
    /\ UNCHANGED <<listed, panicked, earlier, sent, overlapped, faults, changes>>

OnDisconnectedKeepsTable(l) ==
    /\ Runs(l) /\ side[l] = "lost"
    /\ side' = [side EXCEPT ![l] = "down"]
    /\ asked' = [asked EXCEPT ![l] = NoPoll]
    /\ expected' = [expected EXCEPT ![l] = NothingExpected]
    /\ UNCHANGED <<listed, panicked, earlier, sent, net, overlapped, faults, changes>>

\* PeerMessage::Disconnected. The next connection has a fresh PeerId, from which
\* nothing is expected.
OnDisconnected(l) ==
    /\ Runs(l) /\ side[l] = "lost"
    /\ side' = [side EXCEPT ![l] = "down"]
    /\ asked' = [asked EXCEPT ![l] = NoPoll]
    /\ sent' = [sent EXCEPT ![l] = NoTable]
    /\ expected' = [expected EXCEPT ![l] = NothingExpected]
    /\ UNCHANGED <<listed, panicked, earlier, net, overlapped, faults, changes>>

\* A minute after the last poll some peer is asked. The code does not look at what is
\* still open with it; that an earlier exchange is, counts as a fault.
TimedPoll(l) ==
    /\ Runs(l) /\ side[l] = "up"
    /\ \/ /\ expected[l] = NothingExpected /\ net[l] = <<>>
          /\ UNCHANGED <<overlapped, faults>>
       \/ /\ expected[l] # NothingExpected \/ net[l] # <<>>
          /\ faults < MaxFaults /\ faults' = faults + 1
          /\ overlapped' = overlapped \cup Ends(l)
    /\ PollAddress(l, net)
    /\ UNCHANGED <<listed, panicked, side, earlier, sent, changes>>

-----------------------------------------------------------------------------
(* Incoming messages. l is the receiver's end of the link. *)

Incoming(l) == net[Back(l)]

HasMessage(l, type) ==
    /\ Runs(l) /\ side[l] = "up"
    /\ Incoming(l) # <<>>
    /\ Head(Incoming(l)).type = type

Taken(l) == [net EXCEPT ![Back(l)] = Tail(@)]

\* PollAddress, not answering a question: it is answered with a poll.
OnPollRequest(l) ==
    /\ HasMessage(l, "PollAddress")
    /\ asked[l] = NoPoll
    /\ PollAddress(l, Taken(l))
    /\ UNCHANGED <<listed, panicked, side, earlier, sent, overlapped, faults, changes>>

QuestionOfNow(l) == Poll(l[1])

\* The estimate compares the answer with the question as it was asked.
Question(l) == asked[l]

\* PollAddress, answering a question: a table is sent if the sketches differ.
OnPollReply(l) ==
    /\ HasMessage(l, "PollAddress")
    /\ asked[l] # NoPoll
    /\ asked' = [asked EXCEPT ![l] = NoPoll]
    /\ LET diff == EstimateDiffSize(Question(l), Head(Incoming(l)))
           answered == Received(expected, l, "PollAddress")
           table == Table(l[1], TableSize(diff))
       IN  IF diff > 0
             THEN /\ sent' = [sent EXCEPT ![l] = table]
                  /\ expected' = Expect(answered, l, "AddressIBLT")
                  /\ net' = Send(Taken(l), l, table)
             ELSE expected' = answered /\ net' = Taken(l) /\ UNCHANGED sent
    /\ UNCHANGED <<listed, panicked, side, earlier, overlapped, faults, changes>>

\* AddressIBLT: substract asserts that the tables have the same size.
OnAddressIBLT(l) ==
    /\ HasMessage(l, "AddressIBLT")
    /\ expected' = Received(expected, l, "AddressIBLT")
    /\ sent' = [sent EXCEPT ![l] = NoTable]
    /\ net' = Taken(l)
    /\ LET table == Head(Incoming(l))
       IN  IF sent[l] # NoTable /\ sent[l].size # table.size
             THEN panicked' = panicked \cup {l[1]} /\ UNCHANGED listed
             ELSE /\ \E new \in Learned(table, sent[l]) :
                        \E set \in Stored(listed[l[1]], new) :
                            listed' = [listed EXCEPT ![l[1]] = set]
                  /\ UNCHANGED panicked
    /\ UNCHANGED <<side, earlier, asked, overlapped, faults, changes>>

-----------------------------------------------------------------------------
(* The rest of the node, and the network. *)

\* The AddressPoolMaintainer notes a connection or a ban, another peer tells
\* addresses, or a day passes since one was seen or banned.
Change(n) ==
    /\ changes < MaxChanges /\ changes' = changes + 1
    /\ \E set \in SUBSET Addresses : listed' = [listed EXCEPT ![n] = set]
    /\ UNCHANGED <<panicked, side, earlier, asked, sent, expected, net, overlapped, faults>>

Closed(l) == side[l] = "down" \/ (side[l] = "lost" /\ ~Runs(l))

\* KeepConnected dials an address it has not dialled before: earlier only grows.
Connect(l) ==
    /\ \A e \in Ends(l) : Closed(e)
    /\ l[2] \notin earlier[l[1]]
    /\ earlier' = [earlier EXCEPT ![l[1]] = @ \cup {l[2]}]
    /\ side' = [e \in Links |-> IF e \in Ends(l) THEN "opening" ELSE side[e]]
    /\ overlapped' = overlapped \ Ends(l)
    /\ UNCHANGED <<listed, panicked, asked, sent, expected, net, faults, changes>>

Lost(l) ==
    /\ side' = [e \in Links |-> IF e \in Ends(l) THEN "lost" ELSE side[e]]
    /\ net' = [e \in Links |-> IF e \in Ends(l) THEN <<>> ELSE net[e]]

\* The link breaks, with what is on the way.
Drop(l) ==
    /\ faults < MaxFaults
    /\ \A e \in Ends(l) : side[e] \in {"opening", "up"}
    /\ Lost(l)
    /\ faults' = faults + 1
    /\ UNCHANGED <<listed, panicked, earlier, asked, sent, expected, overlapped, changes>>

\* A node is stopped and started again.
Restart(n) ==
    /\ faults < MaxFaults
    /\ faults' = faults + 1
    /\ panicked' = panicked \ {n}
    /\ earlier' = [earlier EXCEPT ![n] = {}]
    /\ LET own == {l \in Links : l[1] = n}
           other == {l \in Links : l[2] = n}
       IN  /\ side' = [l \in Links |->
                          IF l \in own THEN "down"
                          ELSE IF l \in other /\ side[l] # "down" THEN "lost" ELSE side[l]]
           /\ net' = [l \in Links |-> IF l \in own \cup other THEN <<>> ELSE net[l]]
           /\ asked' = [l \in Links |-> IF l \in own THEN NoPoll ELSE asked[l]]
           /\ sent' = [l \in Links |-> IF l \in own THEN NoTable ELSE sent[l]]
           /\ expected' = [l \in Links |-> IF l \in own THEN NothingExpected ELSE expected[l]]
    /\ UNCHANGED <<listed, overlapped, changes>>

\* Timeout::check: the peer is late and gets disconnected. The timeout is longer
\* than it takes to handle the messages on the way; a slower peer is a Drop.
TimeoutCheck(l) ==
    /\ Runs(l) /\ side[l] = "up"
    /\ \A e \in Ends(l) : ~Runs(e) \/ (side[e] = "up" /\ Incoming(e) = <<>>)
    /\ expected[l] # NothingExpected
    /\ expected' = [expected EXCEPT ![l] = NothingExpected]
    /\ Lost(l)
    /\ UNCHANGED <<listed, panicked, earlier, asked, sent, overlapped, faults, changes>>

Init ==
    /\ listed = Known
    /\ panicked = {}
    /\ side = [l \in Links |-> "down"]
    /\ earlier = [n \in Nodes |-> {}]
    /\ asked = [l \in Links |-> NoPoll]
    /\ sent = [l \in Links |-> NoTable]
    /\ expected = [l \in Links |-> NothingExpected]
    /\ net = [l \in Links |-> <<>>]
    /\ overlapped = {}
    /\ faults = 0
    /\ changes = 0

Handle(l) ==
    \/ OnConnected(l) \/ OnDisconnected(l)
    \/ OnPollRequest(l) \/ OnPollReply(l) \/ OnAddressIBLT(l)

Next ==
    \/ \E l \in Links : Handle(l) \/ TimedPoll(l) \/ Connect(l) \/ Drop(l) \/ TimeoutCheck(l)
    \/ \E n \in Nodes : Change(n) \/ Restart(n)

Spec == Init /\ [][Next]_vars

\* Every thread handles its messages, and late peers are disconnected.
FairSpec ==
    /\ Spec
    /\ \A l \in Links : WF_vars(Handle(l)) /\ WF_vars(TimeoutCheck(l))

-----------------------------------------------------------------------------
Polls == [type : {"PollAddress"}, size : Nat, sketch : Seq(Int)]

Tables == [type : {"AddressIBLT"}, size : Nat, keys : SUBSET Addresses]

\* The type of the threads' state (struct Discovery, Timeout, the links).
TypeOK ==
    /\ listed \in [Nodes -> SUBSET Addresses] /\ earlier \in [Nodes -> SUBSET Nodes]
    /\ panicked \subseteq Nodes
    /\ side \in [Links -> {"down", "opening", "up", "lost"}]
    /\ expected \in [Links -> [Replies -> Nat]]
    /\ \A l \in Links : /\ asked[l] \in Polls \cup {NoPoll}
                        /\ sent[l] \in Tables \cup {NoTable}
                        /\ net[l] \in Seq(Polls \cup Tables)
    /\ overlapped \subseteq Links /\ faults \in 0..MaxFaults /\ changes \in 0..MaxChanges

\* The assertion of substract holds when a table comes in on a link where no poll was
\* sent before the last one was through: the two ends have chosen the same size,
\* although each computed it from what it asked and was answered, polls cross, and
\* the addresses change meanwhile. After overlapping polls it may fail, which ends
\* the thread (OnPollReply, OnAddressIBLT, IBLT::substract).
TablesFit ==
    \A l \in Links \ overlapped :
        HasMessage(l, "AddressIBLT") /\ sent[l] # NoTable =>
            Head(Incoming(l)).size = sent[l].size

\* The timeout waits for a reply whenever a question is open or a table is kept to be
\* subtracted, however polls cross and overlap (PollAddress, OnPollReply).
ExchangeTimed ==
    \A l \in Links : side[l] = "up" =>
        /\ asked[l] # NoPoll => expected[l]["PollAddress"] > 0
        /\ sent[l] # NoTable => expected[l]["AddressIBLT"] > 0

\* No exchange is open for ever, also if the peer's thread has panicked or the peer
\* took the question for an answer: what is left of it, a question or a table, is
\* gone some time, by an answer or because the timeout ends the connection, and can
\* not be mixed with a later exchange (OnDisconnected, TimeoutCheck).
ExchangesEnd ==
    \A l \in Links :
        asked[l] # NoPoll \/ sent[l] # NoTable ~>
            (asked[l] = NoPoll /\ sent[l] = NoTable) \/ ~Runs(l)

=============================================================================
