-------------------------------- MODULE Sync --------------------------------
(***************************************************************************)
(* Nodes exchanging ads: the updater thread (updater.rs) of every node and *)
(* the links between them.                                                 *)
(*                                                                         *)
(* A PollContent message is both a question and the answer to one: which   *)
(* of the two the receiver takes it for depends on whether it has an open  *)
(* question itself.  The answer makes the receiver send its table          *)
(* (ContentIBLT), from which the other end computes what it lacks, asks    *)
(* for it (Get) and gets it (Content).                                     *)
(*                                                                         *)
(* An updater that is asked for an ad it no longer has panics, and its     *)
(* thread is gone until the node is restarted; the other threads go on.    *)
(*                                                                         *)
(* The content store is reduced to what the exchange depends on.  Every ad *)
(* is funded in a block of the one chain all nodes follow, at different    *)
(* times, and has length one.                                              *)
(***************************************************************************)
EXTENDS Integers, FiniteSets, SequencesExt

CONSTANTS
    Nodes, Ads,
    Links,          \* the pairs of nodes that can reach each other, in both directions
    Author,         \* [Ads -> Nodes]: the node that publishes an ad
    Opens, Closes,  \* [Ads -> Nat]: height of the funding block, and the same plus the term
    Weight,         \* [Ads -> Nat], injective: rank of an ad
    Limit,          \* [Nodes -> Nat]: ads a node has room for (--storage-limit)
    Hashes,         \* sequence of the hash functions of the sketch, [Ads -> Nat]
    MaxTip,         \* bound: height of the chain
    MaxKeys,        \* bound: n_keys, and copies in a table, when nodes connect or poll
    MaxFaults,      \* bound: links lost, restarts, failed inversions, overlapping polls
    NoPoll, NoTable

ASSUME SyncAssumption ==
    /\ \A l \in Links : l \in Nodes \X Nodes /\ l[1] # l[2] /\ <<l[2], l[1]>> \in Links
    /\ Author \in [Ads -> Nodes]
    /\ Opens \in [Ads -> Nat] /\ Closes \in [Ads -> Nat] /\ Weight \in [Ads -> Nat]
    /\ \A a, b \in Ads : Weight[a] = Weight[b] => a = b
    /\ Limit \in [Nodes -> Nat]
    /\ Hashes \in Seq([Ads -> Nat]) /\ Hashes # <<>>

ASSUME SyncBounds == {MaxTip, MaxKeys, MaxFaults} \subseteq Nat

VARIABLES
    tip,            \* height of the chain at every node
    store,          \* content store of every node
    unpublished,    \* ads their author has not published yet
    side,           \* <<n, m>>: what n knows of its link to m
    earlier,        \* the peers every node has dialled since it was started
    asked,          \* <<n, m>>: poll_asked of n for m
    expected,       \* <<n, m>>: Timeout, replies n expects from m
    net,            \* <<n, m>>: messages on the way from n to m
    panicked,       \* the nodes whose updater thread is gone
    faults          \* links lost, restarts, failed inversions, overlapping polls so far

vars == <<tip, store, unpublished, side, earlier, asked, expected, net, panicked, faults>>

Back(l) == <<l[2], l[1]>>

Ends(l) == {l, Back(l)}

Incoming(l) == net[Back(l)]

\* Both ends have handled all that was sent to them, unless they can not any more.
Quiet(l) == \A e \in Ends(l) : e[1] \in panicked \/ (side[e] = "up" /\ Incoming(e) = <<>>)

Replies == {"PollContent", "ContentIBLT", "Content"}

NothingExpected == [r \in Replies |-> 0]

-----------------------------------------------------------------------------
(* The content store: the ads, the cached table (how often every ad is in   *)
(* it), the ads the sketch was computed from and n_keys.                    *)

EmptyStore == [ads |-> {}, table |-> NoTable, sketch |-> {}, n_keys |-> 0]

\* add_content, whether or not the ad is already stored
With(s, a) ==
    [ads |-> s.ads \cup {a},
     table |-> IF s.table = NoTable THEN NoTable ELSE [s.table EXCEPT ![a] = @ + 1],
     sketch |-> s.sketch \cup {a},
     n_keys |-> s.n_keys + 1]

WithoutLeavingTable(s, ads) ==
    IF ads = {} \/ s.table = NoTable THEN [s EXCEPT !.ads = @ \ ads]
    ELSE [ads |-> s.ads \ ads, table |-> s.table,
          sketch |-> s.ads \ ads, n_keys |-> Cardinality(s.ads \ ads)]

\* add_header and truncate_to_limit: the summaries are computed again if there was
\* a table to delete from.
Without(s, ads) ==
    IF ads = {} \/ s.table = NoTable THEN [s EXCEPT !.ads = @ \ ads]
    ELSE [ads |-> s.ads \ ads,
          table |-> [a \in Ads |-> IF a \in ads THEN s.table[a] - 1 ELSE s.table[a]],
          sketch |-> s.ads \ ads,
          n_keys |-> Cardinality(s.ads \ ads)]

\* get_iblt
WithTable(s) ==
    IF s.table # NoTable THEN s
    ELSE [s EXCEPT !.table = [a \in Ads |-> IF a \in s.ads THEN 1 ELSE 0]]

\* Ads beyond the limit of n in the order of their weight.
Excess(n, ads) == {a \in ads : Cardinality({b \in ads : Weight[b] >= Weight[a]}) > Limit[n]}

\* The test of add_content: funded on the trunk, the term has not ended.
Valid(n, a) == Opens[a] <= tip[n] /\ tip[n] <= Closes[a]

-----------------------------------------------------------------------------
(* Polls. *)

\* min_sketch: the least hash for every hash function
MinSketch(ads) ==
    [i \in 1..Len(Hashes) |-> IF ads = {} THEN -1 ELSE Min({Hashes[i][a] : a \in ads})]

Poll(n) ==
    [type |-> "PollContent", tip |-> tip[n],
     sketch |-> MinSketch(store[n].sketch), size |-> store[n].n_keys]

\* estimate_diff_size: (1 - r) / (1 + r) * (size + size), where r is the share of
\* the hash functions on which the sketches agree
EstimateDiffSize(p, q) ==
    LET k == Len(Hashes)
        same == Cardinality({i \in 1..k : p.sketch[i] = q.sketch[i]})
    IN  ((k - same) * (p.size + q.size)) \div (k + same)

ExpectOne(e, l, reply, n) == [e EXCEPT ![l][reply] = @ + 1]

\* Timeout::expect
Expect(e, l, reply, n) == [e EXCEPT ![l][reply] = @ + n]

ReceivedUnchecked(e, l, reply) == [e EXCEPT ![l][reply] = @ - 1]

\* Timeout::received
Received(e, l, reply) == [e EXCEPT ![l][reply] = IF @ > 0 THEN @ - 1 ELSE 0]

Send(nt, l, messages) == [nt EXCEPT ![l] = @ \o messages]

\* poll_content; nt is the network without the message being handled
PollContent(l, nt) ==
    /\ asked' = [asked EXCEPT ![l] = Poll(l[1])]
    /\ net' = Send(nt, l, <<Poll(l[1])>>)
    /\ expected' = Expect(expected, l, "PollContent", 1)

\* PeerMessage::Connected
OnConnected(l) ==
    /\ l[1] \notin panicked
    /\ side[l] = "opening"
    /\ side' = [side EXCEPT ![l] = "up"]
    /\ PollContent(l, net)
    /\ UNCHANGED <<tip, store, unpublished, earlier, panicked, faults>>

\* PeerMessage::Disconnected.  The next connection has a fresh PeerId, from which
\* nothing is expected.
OnDisconnected(l) ==
    /\ l[1] \notin panicked
    /\ side[l] = "lost"
    /\ side' = [side EXCEPT ![l] = "down"]
    /\ asked' = [asked EXCEPT ![l] = NoPoll]
    /\ expected' = [expected EXCEPT ![l] = NothingExpected]
    /\ UNCHANGED <<tip, store, unpublished, earlier, net, panicked, faults>>

WithinBounds(n) ==
    /\ store[n].n_keys <= MaxKeys
    /\ store[n].table # NoTable => \A a \in Ads : store[n].table[a] <= MaxKeys

\* A minute has passed since the last poll: ask some peer.  The code does not look at
\* what is still open with it; that an earlier exchange is, counts as a fault.
TimedPoll(l) ==
    /\ l[1] \notin panicked
    /\ side[l] = "up"
    /\ \/ expected[l] = NothingExpected /\ net[l] = <<>> /\ UNCHANGED faults
       \/ faults < MaxFaults /\ faults' = faults + 1
    /\ \A n \in Nodes : WithinBounds(n)
    /\ PollContent(l, net)
    /\ UNCHANGED <<tip, store, unpublished, side, earlier, panicked>>

-----------------------------------------------------------------------------
(* Incoming messages.  l is the receiver's end of the link. *)

HasMessage(l, type) ==
    /\ l[1] \notin panicked
    /\ side[l] = "up"
    /\ Incoming(l) # <<>>
    /\ Head(Incoming(l)).type = type

Taken(l) == [net EXCEPT ![Back(l)] = Tail(@)]

\* PollContent, not answering a question: it is answered with a poll.
OnPollRequest(l) ==
    /\ HasMessage(l, "PollContent")
    /\ asked[l] = NoPoll
    /\ PollContent(l, Taken(l))
    /\ UNCHANGED <<tip, store, unpublished, side, earlier, panicked, faults>>

\* PollContent, answering a question: a table is sent if both ends are at the same
\* tip and the sketches differ.
OnPollReply(l) ==
    /\ HasMessage(l, "PollContent")
    /\ asked[l] # NoPoll
    /\ asked' = [asked EXCEPT ![l] = NoPoll]
    /\ LET n == l[1]
           question == asked[l]
           poll == Head(Incoming(l))
           answered == Received(expected, l, "PollContent")
       IN  IF /\ tip[n] = question.tip /\ question.tip = poll.tip
              /\ (EstimateDiffSize(question, poll) * 3) \div 2 > 0
             THEN /\ store' = [store EXCEPT ![n] = WithTable(@)]
                  /\ expected' = Expect(answered, l, "ContentIBLT", 1)
                  /\ net' = Send(Taken(l), l, <<[type |-> "ContentIBLT", tip |-> tip[n],
                                                 table |-> store'[n].table]>>)
             ELSE expected' = answered /\ net' = Taken(l) /\ UNCHANGED store
    /\ UNCHANGED <<tip, unpublished, side, earlier, panicked, faults>>

InsertedSwapped(theirs, ours) == {a \in Ads : ours[a] - theirs[a] = 1}

\* What the iterator returns as Inserted if it inverts all of the difference: a bucket
\* is single only for a count of one.
Inserted(theirs, ours) == {a \in Ads : theirs[a] - ours[a] = 1}

\* ContentIBLT: ask for the ads that are missing here.  When the inversion fails, at
\* any point, those that were found before it are asked for.
OnContentIBLT(l) ==
    /\ HasMessage(l, "ContentIBLT")
    /\ LET n == l[1]
           message == Head(Incoming(l))
           answered == Received(expected, l, "ContentIBLT")
       IN  IF message.tip # tip[n]
             THEN expected' = answered /\ net' = Taken(l) /\ UNCHANGED <<store, faults>>
             ELSE /\ store' = [store EXCEPT ![n] = WithTable(@)]
                  /\ \E ids \in SUBSET Inserted(message.table, store'[n].table) :
                        /\ \/ ids = Inserted(message.table, store'[n].table) /\ UNCHANGED faults
                           \/ faults < MaxFaults /\ faults' = faults + 1
                        /\ IF ids = {} THEN expected' = answered /\ net' = Taken(l)
                           ELSE /\ expected' = Expect(answered, l, "Content", Cardinality(ids))
                                /\ net' = Send(Taken(l), l, <<[type |-> "Get", ids |-> ids]>>)
    /\ UNCHANGED <<tip, unpublished, side, earlier, asked, panicked>>

\* Get: deliver the ads in the order of the request.  For one that is not here (any
\* more) read_content fails, and the thread panics.
OnGet(l) ==
    /\ HasMessage(l, "Get")
    /\ \E ids \in SetToSeqs(Head(Incoming(l)).ids) :
          LET gone == {i \in 1..Len(ids) : ids[i] \notin store[l[1]].ads}
              sent == IF gone = {} THEN Len(ids) ELSE Min(gone) - 1
          IN  /\ net' = Send(Taken(l), l, [i \in 1..sent |-> [type |-> "Content", ad |-> ids[i]]])
              /\ panicked' = IF gone = {} THEN panicked ELSE panicked \cup {l[1]}
    /\ UNCHANGED <<tip, store, unpublished, side, earlier, asked, expected, faults>>

\* Content: store the ad if it is valid, and truncate if no more are expected.
OnContent(l) ==
    /\ HasMessage(l, "Content")
    /\ expected' = Received(expected, l, "Content")
    /\ LET n == l[1]
           a == Head(Incoming(l)).ad
           added == IF Valid(n, a) THEN With(store[n], a) ELSE store[n]
       IN  store' = [store EXCEPT ![n] =
                        IF expected'[l]["Content"] > 0 THEN added
                        ELSE Without(added, Excess(n, added.ads))]
    /\ net' = Taken(l)
    /\ UNCHANGED <<tip, unpublished, side, earlier, asked, panicked, faults>>

-----------------------------------------------------------------------------
(* The rest of the node, and the network. *)

\* The chain grows and add_header deletes what has expired.
TipMoves(n) ==
    /\ tip[n] < MaxTip
    /\ tip' = [tip EXCEPT ![n] = @ + 1]
    /\ store' = [store EXCEPT ![n] =
                    Without(@, {a \in @.ads : Closes[a] <= tip[n] + 1})]
    /\ UNCHANGED <<unpublished, side, earlier, asked, expected, net, panicked, faults>>

\* The block that funds an own ad is processed.
Publish(a) ==
    /\ a \in unpublished
    /\ Opens[a] <= tip[Author[a]]
    /\ unpublished' = unpublished \ {a}
    /\ store' = [store EXCEPT ![Author[a]] = IF Valid(Author[a], a) THEN With(@, a) ELSE @]
    /\ UNCHANGED <<tip, side, earlier, asked, expected, net, panicked, faults>>

\* There is no connection, and the updater has handled the end of the last one, if it
\* can.
Closed(l) == side[l] = "down" \/ (side[l] = "lost" /\ l[1] \in panicked)

\* KeepConnected dials an address it has not dialled before: earlier only grows.
Connect(l) ==
    /\ \A e \in Ends(l) : Closed(e)
    /\ l[2] \notin earlier[l[1]]
    /\ earlier' = [earlier EXCEPT ![l[1]] = @ \cup {l[2]}]
    /\ \A n \in Nodes : WithinBounds(n)
    /\ side' = [e \in Links |-> IF e \in Ends(l) THEN "opening" ELSE side[e]]
    /\ UNCHANGED <<tip, store, unpublished, asked, expected, net, panicked, faults>>

Lost(l) ==
    /\ side' = [e \in Links |-> IF e \in Ends(l) THEN "lost" ELSE side[e]]
    /\ net' = [e \in Links |-> IF e \in Ends(l) THEN <<>> ELSE net[e]]

\* The link breaks, with what is on the way.
Drop(l) ==
    /\ faults < MaxFaults
    /\ \A e \in Ends(l) : side[e] \in {"opening", "up"}
    /\ Lost(l)
    /\ faults' = faults + 1
    /\ UNCHANGED <<tip, store, unpublished, earlier, asked, expected, panicked>>

\* A node that has no peer and nobody left to dial.
Isolated(n) == \A l \in Links : l[1] = n => Closed(l) /\ l[2] \in earlier[n]

\* A node that does not recover by itself, or is beyond the bounds of the model.
Disabled(n) == Isolated(n) \/ n \in panicked \/ ~WithinBounds(n)

\* A node is stopped and started again: ContentStore::new computes the summaries.
Restart(n) ==
    /\ \/ Disabled(n) /\ UNCHANGED faults
       \/ ~Disabled(n) /\ faults < MaxFaults /\ faults' = faults + 1
    /\ LET own == {l \in Links : l[1] = n}
           other == {l \in Links : l[2] = n}
       IN  /\ side' = [l \in Links |->
                          IF l \in own THEN "down"
                          ELSE IF l \in other /\ side[l] # "down" THEN "lost" ELSE side[l]]
           /\ net' = [l \in Links |-> IF l \in own \cup other THEN <<>> ELSE net[l]]
           /\ asked' = [l \in Links |-> IF l \in own THEN NoPoll ELSE asked[l]]
           /\ expected' = [l \in Links |-> IF l \in own THEN NothingExpected ELSE expected[l]]
    /\ store' = [store EXCEPT ![n] =
                    [ads |-> @.ads, table |-> NoTable,
                     sketch |-> @.ads, n_keys |-> Cardinality(@.ads)]]
    /\ earlier' = [earlier EXCEPT ![n] = {}]
    /\ panicked' = panicked \ {n}
    /\ UNCHANGED <<tip, unpublished>>

\* Timeout::check: the peer is late and gets disconnected.  The timeout is longer
\* than it takes to handle the messages on the way; a slower peer is a Drop.
TimeoutCheck(l) ==
    /\ l[1] \notin panicked
    /\ side[l] = "up"
    /\ Quiet(l)
    /\ expected[l] # NothingExpected
    /\ expected' = [expected EXCEPT ![l] = NothingExpected]
    /\ Lost(l)
    /\ UNCHANGED <<tip, store, unpublished, earlier, asked, panicked, faults>>

-----------------------------------------------------------------------------
Init ==
    /\ tip = [n \in Nodes |-> 0]
    /\ store = [n \in Nodes |-> EmptyStore]
    /\ unpublished = Ads
    /\ side = [l \in Links |-> "down"]
    /\ earlier = [n \in Nodes |-> {}]
    /\ asked = [l \in Links |-> NoPoll]
    /\ expected = [l \in Links |-> NothingExpected]
    /\ net = [l \in Links |-> <<>>]
    /\ panicked = {}
    /\ faults = 0

Handle(l) ==
    \/ OnConnected(l) \/ OnDisconnected(l)
    \/ OnPollRequest(l) \/ OnPollReply(l) \/ OnContentIBLT(l) \/ OnGet(l) \/ OnContent(l)

Next ==
    \/ \E l \in Links : Handle(l) \/ TimedPoll(l) \/ Connect(l) \/ Drop(l) \/ TimeoutCheck(l)
    \/ \E n \in Nodes : TipMoves(n) \/ Restart(n)
    \/ \E a \in Ads : Publish(a)

Spec == Init /\ [][Next]_vars

Behind(n) == \E m \in Nodes : tip[n] < tip[m]

\* Every thread handles its messages, the updater polls every minute, KeepConnected
\* dials, late peers are disconnected, a node learns of the blocks others know; the
\* chain may stop growing at any height.  A node beyond the bounds is restarted, so
\* that the bounds do not stop the others.
Fairness ==
    /\ \A l \in Links : WF_vars(Handle(l)) /\ WF_vars(TimedPoll(l)) /\ WF_vars(Connect(l))
                        /\ WF_vars(TimeoutCheck(l))
    /\ \A n \in Nodes : WF_vars(Behind(n) /\ TipMoves(n)) /\ WF_vars(~WithinBounds(n) /\ Restart(n))
    /\ \A a \in Ads : WF_vars(Publish(a))

FairSpec == Spec /\ Fairness

\* In addition, somebody restarts a node that is isolated or whose updater panicked.
AttendedSpec == FairSpec /\ \A n \in Nodes : WF_vars(Disabled(n) /\ Restart(n))

Messages ==
    [type : {"PollContent"}, tip : 0..MaxTip, sketch : Seq(Int), size : Nat]
      \cup [type : {"ContentIBLT"}, tip : 0..MaxTip, table : [Ads -> Int]]
      \cup [type : {"Get"}, ids : SUBSET Ads]
      \cup [type : {"Content"}, ad : Ads]

\* The type of the updaters' state (struct Updater, the store, the links).
TypeOK ==
    /\ tip \in [Nodes -> 0..MaxTip]
    /\ store \in [Nodes -> [ads : SUBSET Ads, table : [Ads -> Int] \cup {NoTable},
                            sketch : SUBSET Ads, n_keys : Nat]]
    /\ unpublished \subseteq Ads
    /\ side \in [Links -> {"down", "opening", "up", "lost"}]
    /\ earlier \in [Nodes -> SUBSET Nodes]
    /\ \A l \in Links : asked[l] \in Messages \cup {NoPoll}
    /\ expected \in [Links -> [Replies -> Nat]]
    /\ \A l \in Links : net[l] \in Seq(Messages)
    /\ panicked \subseteq Nodes
    /\ faults \in 0..MaxFaults

-----------------------------------------------------------------------------
MessagesOf(l, type) == SelectSeq(net[l], LAMBDA message : message.type = type)

\* Content replies that are on the way to l[1], counting those of a Get that the
\* other end has not seen yet.
Owed(l) ==
    LET gets == MessagesOf(l, "Get")
    IN  Len(MessagesOf(Back(l), "Content"))
          + FoldSeq(LAMBDA get, sum : sum + Cardinality(get.ids), 0, gets)

\* Expected replies match what is under way, however polls of both ends cross.  A
\* node never expects fewer ads than are on the way to it, so it does not take the
\* middle of a delivery for its end (and truncate), and no ad comes that it did not
\* ask for.  An open question is always watched by the timeout: otherwise a peer that
\* never answers would never be left, and the node would take its next question for
\* the answer.
RepliesExpected ==
    \A l \in Links : side[l] = "up" =>
        /\ expected[l]["Content"] >= Owed(l)
        /\ asked[l] # NoPoll => expected[l]["PollContent"] > 0

\* Of the ads its peers have, every node has the heaviest for which it has room.
InSync ==
    \A l \in Links :
        LET ads == store[l[1]].ads \cup store[l[2]].ads
        IN  ads \ Excess(l[1], ads) \subseteq store[l[1]].ads

\* No node is given an ad it already has.
NoDuplicates ==
    \A l \in Links : HasMessage(l, "Content") => Head(Incoming(l)).ad \notin store[l[1]].ads

\* The nodes end up in sync, through lost links, crossing and overlapping polls,
\* inversions that fail, disconnects by the timeout, growth of the chain and ads
\* fetched again because there was no room for them.  Three things this needs are not
\* in the code: a node that is isolated or whose updater panicked is restarted
\* (AttendedSpec), inversions do not fail for ever (MaxFaults), and no node is ever
\* given an ad it has, which would hide the ad in its tables.
Converges == []NoDuplicates => <>[]InSync

\* protocol.md: "The peer receiving the IBLT computes the difference set".  Under the
\* last proviso, the ads the other end has and this one lacks are always among those
\* an inversion of the tables gives when it succeeds, however old a cached table is
\* (OnContentIBLT, get_iblt).
DifferenceComputed ==
    []NoDuplicates =>
        [](\A l \in Links :
              LET ours == store[l[1]]
                  theirs == store[l[2]]
              IN  ours.table # NoTable /\ theirs.table # NoTable =>
                      theirs.ads \ ours.ads \subseteq Inserted(theirs.table, ours.table))

-----------------------------------------------------------------------------
(* What the documents say and the code does not keep. *)

\* README.md: "An ad is replicated to other nodes as long as there is some bitcoin
\* locked to it".
Replicated == <>[]InSync

=============================================================================
