------------------------ MODULE BlockDownloadProofs ------------------------
(***************************************************************************)
(* Proofs about the header thread: its type invariant, the invariant that  *)
(* relates the chain database, its durable part and the round in progress, *)
(* and that start-up can always find the last processed block.             *)
(***************************************************************************)
EXTENDS BlockDownload, ChainProofs, FiniteSetTheorems

\* A set of headers holds the whole branch of each of its members.
Closed(headers) == \A k \in headers, b \in Blocks : OnBranch(b, k) => b \in headers

\* The chain database and the round in progress (lines 236 to 287 of
\* blockdownload.rs).  No known header has more work than the tip, which makes
\* every header that is unwound leave the trunk.  Memory and disk differ only
\* while a round is adding headers, and in a round the tip only grows.
ChainInv ==
    /\ tip \in known /\ disk.tip \in disk.known
    /\ \A k \in known : Work[k] <= Work[tip]
    /\ \A k \in disk.known : Work[k] <= Work[disk.tip]
    /\ Closed(known) /\ Closed(disk.known)
    /\ disk.known \subseteq known
    /\ phase # "adding" => disk.known = known /\ disk.tip = tip
    /\ phase = "adding" =>
          /\ unwind = NoBlock
          /\ OnBranch(disk.tip, tip)
          /\ tip = disk.tip \/ tip \in Elements(conn)
    /\ phase \in {"idle", "down"} => unwind = NoBlock /\ conn = <<>>
    /\ phase = "startup" => conn = <<>>
    /\ unwind # NoBlock => unwind \in known /\ ~OnTrunk(unwind)
    /\ ctx.moved => ctx.last # NoBlock

\* Whatever the thread may still give to the wallet is durable.
DurableInv ==
    /\ Elements(conn) \subseteq known
    /\ Elements(wanted) \subseteq disk.known
    /\ Elements(asked) \subseteq disk.known
    /\ ProcessedIsDurable

-----------------------------------------------------------------------------
(* Sequences. *)

\* A concatenation has the elements of both sequences.
LEMMA ElementsOfConcat ==
    ASSUME NEW S, NEW s \in Seq(S), NEW t \in Seq(S)
    PROVE  s \o t \in Seq(S) /\ Elements(s \o t) = Elements(s) \cup Elements(t)
<1>1. s \o t \in Seq(S) /\ Len(s \o t) = Len(s) + Len(t) /\ Len(s) \in Nat /\ Len(t) \in Nat
  OBVIOUS
<1>2. \A i \in 1..Len(s) : (s \o t)[i] = s[i] /\ i \in 1..Len(s \o t)
  BY <1>1
<1>3. \A i \in 1..Len(t) : (s \o t)[i + Len(s)] = t[i] /\ i + Len(s) \in 1..Len(s \o t)
  BY <1>1
<1>4. ASSUME NEW i \in 1..Len(s \o t) PROVE (s \o t)[i] \in Elements(s) \cup Elements(t)
  <2>1. CASE i \in 1..Len(s)
    BY <2>1, <1>2 DEF Elements
  <2>2. CASE i \notin 1..Len(s)
    <3>1. i - Len(s) \in 1..Len(t) /\ (i - Len(s)) + Len(s) = i
      BY <1>1, <2>2
    <3> QED
      BY <3>1, <1>3 DEF Elements
  <2> QED
    BY <2>1, <2>2
<1>5. Elements(s) \subseteq Elements(s \o t)
  BY <1>2 DEF Elements
<1>6. Elements(t) \subseteq Elements(s \o t)
  BY <1>3 DEF Elements
<1>7. Elements(s \o t) \subseteq Elements(s) \cup Elements(t)
  BY <1>4 DEF Elements
<1> QED
  BY <1>1, <1>5, <1>6, <1>7

\* What is left of a queue after its head is taken was in it.
LEMMA ElementsOfTail ==
    ASSUME NEW S, NEW s \in Seq(S), s # <<>>
    PROVE  /\ Head(s) \in S /\ Tail(s) \in Seq(S)
           /\ Elements(s) = {Head(s)} \cup Elements(Tail(s))
<1>1. /\ Head(s) \in S /\ Tail(s) \in Seq(S) /\ Len(s) \in Nat \ {0} /\ Head(s) = s[1]
      /\ Len(Tail(s)) = Len(s) - 1
  OBVIOUS
<1>2. \A i \in 1..Len(Tail(s)) : Tail(s)[i] = s[i + 1] /\ i + 1 \in 1..Len(s)
  BY <1>1
<1>3. Elements(Tail(s)) \subseteq Elements(s) /\ Head(s) \in Elements(s)
  BY <1>1, <1>2 DEF Elements
<1>4. ASSUME NEW i \in 1..Len(s) PROVE s[i] \in {Head(s)} \cup Elements(Tail(s))
  <2>1. CASE i = 1
    BY <2>1, <1>1
  <2>2. CASE i # 1
    <3>1. i - 1 \in 1..Len(Tail(s)) /\ (i - 1) + 1 = i
      BY <1>1, <2>2
    <3> QED
      BY <3>1, <1>2 DEF Elements
  <2> QED
    BY <2>1, <2>2
<1>5. Elements(s) \subseteq {Head(s)} \cup Elements(Tail(s))
  BY <1>4 DEF Elements
<1> QED
  BY <1>1, <1>3, <1>5

\* A part of a queue holds only elements of the queue.
LEMMA ElementsOfSubSeq ==
    ASSUME NEW S, NEW s \in Seq(S), NEW m \in 1..(Len(s) + 1), NEW n \in 0..Len(s)
    PROVE  SubSeq(s, m, n) \in Seq(S) /\ Elements(SubSeq(s, m, n)) \subseteq Elements(s)
<1>1. Len(s) \in Nat
  OBVIOUS
<1>2. SubSeq(s, m, n) \in Seq(S)
  BY <1>1
<1>3. ASSUME NEW i \in 1..Len(SubSeq(s, m, n))
      PROVE  SubSeq(s, m, n)[i] \in Elements(s)
  <2>1. CASE m <= n
    <3>1. Len(SubSeq(s, m, n)) = n - m + 1
      BY <1>1, <2>1
    <3>2. m + i - 1 \in 1..Len(s) /\ SubSeq(s, m, n)[i] = s[m + i - 1]
      BY <1>1, <2>1, <3>1
    <3> QED
      BY <3>2 DEF Elements
  <2>2. CASE ~(m <= n)
    <3>1. Len(SubSeq(s, m, n)) = 0
      BY <1>1, <2>2
    <3> QED
      BY <3>1
  <2> QED
    BY <2>1, <2>2
<1> QED
  BY <1>2, <1>3 DEF Elements

\* VecDeque::pop_back only removes.
LEMMA ElementsOfPopBack ==
    ASSUME NEW S, NEW s \in Seq(S)
    PROVE  PopBack(s) \in Seq(S) /\ Elements(PopBack(s)) \subseteq Elements(s)
<1>1. CASE s = <<>>
  BY <1>1 DEF PopBack
<1>2. CASE s # <<>>
  <2>1. Len(s) \in Nat \ {0}
    BY <1>2
  <2>2. 1 \in 1..(Len(s) + 1) /\ Len(s) - 1 \in 0..Len(s)
    BY <2>1
  <2> QED
    BY <1>2, <2>2, ElementsOfSubSeq DEF PopBack
<1> QED
  BY <1>1, <1>2

\* The empty queue.
LEMMA ElementsOfEmpty == <<>> \in Seq(Blocks) /\ Elements(<<>>) = {}
BY DEF Elements

-----------------------------------------------------------------------------
(* Parts of the handlers. *)

\* AfterIncoming moves blocks from wanted to asked and makes up none.
LEMMA AfterIncomingType ==
    ASSUME TypeOK, NEW p \in Peers \cup {NoPeer}, NEW a \in Seq(Blocks),
           NEW e \in [Peers -> Nat], AfterIncoming(p, a, e)
    PROVE  /\ wanted' \in Seq(Blocks) /\ Elements(wanted') \subseteq Elements(wanted)
           /\ asked' \in Seq(Blocks)
           /\ Elements(asked') \subseteq Elements(a) \cup Elements(wanted)
           /\ peer' \in Peers \cup {NoPeer}
           /\ expBlocks' \in [Peers -> Nat]
<1> DEFINE n == Least(AskLimit, Len(wanted))
           front == SubSeq(wanted, 1, n)
           rest == SubSeq(wanted, n + 1, Len(wanted))
           more == a \o front
<1>1. wanted \in Seq(Blocks) /\ Len(wanted) \in Nat /\ peer \in Peers \cup {NoPeer}
  BY DEF TypeOK
<1>2. n \in 0..Len(wanted)
  BY <1>1, LimitAssumption DEF Least
<1>3. front \in Seq(Blocks) /\ Elements(front) \subseteq Elements(wanted)
  <2>1. 1 \in 1..(Len(wanted) + 1)
    BY <1>1
  <2> QED
    BY <1>1, <1>2, <2>1, ElementsOfSubSeq
<1>4. rest \in Seq(Blocks) /\ Elements(rest) \subseteq Elements(wanted)
  <2>1. n + 1 \in 1..(Len(wanted) + 1) /\ Len(wanted) \in 0..Len(wanted)
    BY <1>1, <1>2
  <2> HIDE DEF n
  <2> QED
    BY <1>1, <2>1, ElementsOfSubSeq
<1>5. more \in Seq(Blocks) /\ Elements(more) \subseteq Elements(a) \cup Elements(wanted)
  <2> HIDE DEF front
  <2> QED
    BY <1>3, ElementsOfConcat
<1>6. Len(more) \in Nat
  <2> HIDE DEF more
  <2> QED
    BY <1>5
<1>7. peer' \in Peers \cup {NoPeer}
  BY <1>1 DEF AfterIncoming
<1>8. \/ asked' = more /\ wanted' = rest /\ expBlocks' = [e EXCEPT ![p] = Len(more)]
      \/ asked' = a /\ wanted' = wanted /\ expBlocks' = e
  BY DEF AfterIncoming
<1> HIDE DEF more, rest
<1>9. CASE asked' = more /\ wanted' = rest /\ expBlocks' = [e EXCEPT ![p] = Len(more)]
  BY <1>4, <1>5, <1>6, <1>7, <1>9
<1>10. CASE asked' = a /\ wanted' = wanted /\ expBlocks' = e
  BY <1>1, <1>7, <1>10
<1> QED
  BY <1>8, <1>9, <1>10

\* Timeout::expect and received keep the counts natural numbers.
LEMMA CounterType ==
    ASSUME NEW e \in [Peers -> Nat], NEW p
    PROVE  Received(e, p) \in [Peers -> Nat] /\ GetHeaders(e, p) \in [Peers -> Nat]
<1>1. \A q \in Peers : e[q] \in Nat
  OBVIOUS
<1>2. \A q \in Peers : (IF e[q] > 0 THEN e[q] - 1 ELSE 0) \in Nat
  BY <1>1
<1>3. Received(e, p) \in [Peers -> Nat]
  BY <1>1, <1>2 DEF Received
<1>4. GetHeaders(e, p) \in [Peers -> Nat]
  BY <1>1 DEF GetHeaders
<1> QED
  BY <1>3, <1>4

\* The blocks wanted at start-up are blocks of the trunk.
LEMMA AboveCount ==
    ASSUME TypeOK, NEW stop
    PROVE  /\ Cardinality(Above(stop)) \in 0..(Len(Branch[tip]) - 1)
           /\ Len(Branch[tip]) \in Nat
<1>1. tip \in Blocks
  BY DEF TypeOK
<1>2. Len(Branch[tip]) \in Nat /\ Len(Branch[tip]) > 0 /\ Branch[tip][1] = Genesis
  BY <1>1, BranchType
<1>3. Time[Genesis] \in Nat /\ Birth \in Nat /\ Time[Genesis] < Birth
  BY BirthAssumption, TimeAssumption, BranchAssumption
<1>4. 1 \notin Above(stop)
  <2>1. SUFFICES ASSUME 1 \in Above(stop) PROVE FALSE
    OBVIOUS
  <2>2. 1 \in 1..Len(Branch[tip])
    BY <1>2
  <2>3. Time[Branch[tip][1]] >= Birth
    BY <2>1, <2>2 DEF Above
  <2> QED
    BY <1>2, <1>3, <2>3
<1>5. Above(stop) \subseteq 2..Len(Branch[tip])
  <2>1. Above(stop) \subseteq 1..Len(Branch[tip])
    BY DEF Above
  <2>2. \A i \in 1..Len(Branch[tip]) : i = 1 \/ i \in 2..Len(Branch[tip])
    BY <1>2
  <2> QED
    BY <1>4, <2>1, <2>2
<1>6. IsFiniteSet(2..Len(Branch[tip])) /\ Cardinality(2..Len(Branch[tip])) = Len(Branch[tip]) - 1
  <2>1. 2 \in Int /\ Len(Branch[tip]) \in Int
    BY <1>2
  <2>2. /\ IsFiniteSet(2..Len(Branch[tip]))
        /\ Cardinality(2..Len(Branch[tip])) =
              IF 2 > Len(Branch[tip]) THEN 0 ELSE Len(Branch[tip]) - 2 + 1
    BY <2>1, FS_Interval, Zenon
  <2> QED
    BY <1>2, <2>2
<1>7. /\ IsFiniteSet(Above(stop))
      /\ Cardinality(Above(stop)) <= Len(Branch[tip]) - 1
  BY <1>5, <1>6, FS_Subset
<1>8. Cardinality(Above(stop)) \in Nat
  BY <1>7, FS_CardinalityType
<1> QED
  BY <1>2, <1>7, <1>8

\* What start-up queues and the heights it starts from have the type.
LEMMA StartType ==
    ASSUME TypeOK, NEW stop
    PROVE  /\ WantedAtStart(stop) \in Seq(Blocks)
           /\ Elements(WantedAtStart(stop)) \subseteq Elements(Branch[tip])
           /\ BirthBlock \in Elements(Branch[tip])
<1>1. tip \in Blocks /\ Branch[tip] \in Seq(Blocks)
  BY BranchType DEF TypeOK
<1> DEFINE len == Len(Branch[tip])
           n == Cardinality(Above(stop))
           m == Cardinality(Above(NoBlock))
<1>2. n \in 0..(len - 1) /\ m \in 0..(len - 1) /\ len \in Nat
  BY AboveCount
<1>3. len - n + 1 \in 1..(len + 1) /\ len \in 0..len /\ len - m \in 1..len
  <2> HIDE DEF n, m, len
  <2> QED
    BY <1>2
<1>4. /\ SubSeq(Branch[tip], len - n + 1, len) \in Seq(Blocks)
      /\ Elements(SubSeq(Branch[tip], len - n + 1, len)) \subseteq Elements(Branch[tip])
  <2> HIDE DEF n
  <2> QED
    BY <1>1, <1>3, ElementsOfSubSeq
<1>5. WantedAtStart(stop) = SubSeq(Branch[tip], len - n + 1, len) \/ WantedAtStart(stop) = <<>>
  BY DEF WantedAtStart
<1>6. BirthBlock \in Elements(Branch[tip])
  BY <1>3 DEF BirthBlock, Elements
<1> HIDE DEF n, len
<1> QED
  BY <1>4, <1>5, <1>6, ElementsOfEmpty

\* The elements of a branch are the blocks on it.
LEMMA ElementsOfBranch ==
    ASSUME NEW t \in Blocks, NEW b \in Elements(Branch[t])
    PROVE  b \in Blocks /\ OnBranch(b, t)
<1>1. PICK i \in 1..Len(Branch[t]) : Branch[t][i] = b
  BY DEF Elements
<1>2. b \in Blocks
  BY <1>1, BranchElement
<1> QED
  BY <1>1, <1>2, OnBranchIsElement

\* Headers messages are sequences of blocks.
LEMMA MessageType ==
    ASSUME NEW headers \in HeadersMessages
    PROVE  headers \in Seq(Blocks)
<1>1. PICK b \in Blocks : headers \in {SubSeq(Branch[b], i, Height(b) + 1) : i \in 1..(Height(b) + 1)}
  BY DEF HeadersMessages
<1>2. PICK i \in 1..(Height(b) + 1) : headers = SubSeq(Branch[b], i, Height(b) + 1)
  BY <1>1
<1>3. Branch[b] \in Seq(Blocks) /\ Len(Branch[b]) = Height(b) + 1 /\ Height(b) \in Nat
  BY BranchType
<1>4. i \in 1..(Len(Branch[b]) + 1) /\ Height(b) + 1 \in 0..Len(Branch[b])
  BY <1>3
<1> QED
  BY <1>2, <1>3, <1>4, ElementsOfSubSeq

\* A header that is unwound is not the genesis block and has a parent.
LEMMA UnwindHasParent ==
    ASSUME TypeOK, ChainInv, unwind # NoBlock
    PROVE  /\ unwind \in Blocks /\ unwind # Genesis
           /\ Parent(unwind) \in Blocks /\ Parent(unwind) \in known
<1>1. unwind \in Blocks /\ tip \in Blocks /\ ~OnBranch(unwind, tip) /\ unwind \in known
  BY DEF TypeOK, ChainInv, OnTrunk
<1>2. unwind # Genesis
  BY <1>1, GenesisOnBranch
<1>3. Parent(unwind) \in Blocks /\ OnBranch(Parent(unwind), unwind)
  BY <1>1, <1>2, ParentBelow
<1> QED
  BY <1>1, <1>2, <1>3 DEF ChainInv, Closed

-----------------------------------------------------------------------------
(* The type invariant. *)

\* The initial state has the type.
LEMMA TypeInit ==
    Init => TypeOK
<1> SUFFICES ASSUME Init PROVE TypeOK
  OBVIOUS
<1>1. Genesis \in Blocks /\ <<>> \in Seq(Blocks)
  BY BranchAssumption
<1>2. 0 \in 0..MaxCrashes /\ 0 \in Nat
  BY LimitAssumption
<1>3. NoContext \in [from : Peers \cup {NoPeer}, last : Blocks \cup {NoBlock}, moved : BOOLEAN]
  BY DEF NoContext
<1> QED
  BY <1>1, <1>2, <1>3 DEF Init, ChainInit, TypeOK

\* Every step of the header thread keeps the type.
LEMMA TypeStep ==
    TypeOK /\ ChainInv /\ [Next]_vars => TypeOK'
<1> SUFFICES ASSUME TypeOK, ChainInv, [Next]_vars PROVE TypeOK'
  OBVIOUS
<1> USE DEF chainVars, roundVars, queueVars, peerVars, walletVars, historyVars
<1>e. /\ wanted \in Seq(Blocks) /\ asked \in Seq(Blocks) /\ <<>> \in Seq(Blocks)
      /\ expBlocks \in [Peers -> Nat] /\ expHeaders \in [Peers -> Nat]
  BY DEF TypeOK
<1>n. NoContext \in [from : Peers \cup {NoPeer}, last : Blocks \cup {NoBlock}, moved : BOOLEAN]
  BY DEF NoContext
<1>1. ASSUME NEW p \in Peers, Connected(p) PROVE TypeOK'
  BY <1>1, <1>e, CounterType DEF TypeOK, Connected
<1>2. ASSUME NEW p \in Peers, Disconnected(p) PROVE TypeOK'
  <2>1. asked \o wanted \in Seq(Blocks)
    BY <1>e, ElementsOfConcat
  <2> QED
    BY <1>2, <1>e, <2>1 DEF TypeOK, Disconnected, Requeue
<1>3. ASSUME NEW p \in Peers, TimeoutCheck(p) PROVE TypeOK'
  BY <1>3 DEF TypeOK, TimeoutCheck
<1>4. ASSUME NEW p \in Peers, IgnoreHeaders(p) PROVE TypeOK'
  <2>1. AfterIncoming(p, asked, expBlocks) /\ expHeaders' \in [Peers -> Nat]
    BY <1>4, <1>e, CounterType DEF IgnoreHeaders
  <2>2. /\ wanted' \in Seq(Blocks) /\ asked' \in Seq(Blocks)
        /\ peer' \in Peers \cup {NoPeer} /\ expBlocks' \in [Peers -> Nat]
    BY <2>1, <1>e, AfterIncomingType
  <2> QED
    BY <1>4, <2>1, <2>2 DEF TypeOK, IgnoreHeaders
<1>5. ASSUME NEW p \in Peers, NEW b \in Blocks, IncomingInv(p, b) PROVE TypeOK'
  <2>1. AfterIncoming(p, asked, expBlocks) /\ expHeaders' \in [Peers -> Nat]
    BY <1>5, <1>e, CounterType DEF IncomingInv
  <2>2. /\ wanted' \in Seq(Blocks) /\ asked' \in Seq(Blocks)
        /\ peer' \in Peers \cup {NoPeer} /\ expBlocks' \in [Peers -> Nat]
    BY <2>1, <1>e, AfterIncomingType
  <2> QED
    BY <1>5, <2>1, <2>2 DEF TypeOK, IncomingInv
<1>6. ASSUME NEW p \in Peers, NEW b \in Blocks, DropBlock(p, b) PROVE TypeOK'
  <2>1. AfterIncoming(p, asked, expBlocks)
    BY <1>6 DEF DropBlock
  <2>2. /\ wanted' \in Seq(Blocks) /\ asked' \in Seq(Blocks)
        /\ peer' \in Peers \cup {NoPeer} /\ expBlocks' \in [Peers -> Nat]
    BY <2>1, <1>e, AfterIncomingType
  <2> QED
    BY <1>6, <2>2 DEF TypeOK, DropBlock
<1>7. ASSUME NEW p \in Peers, NEW b \in Blocks, AcceptBlock(p, b) PROVE TypeOK'
  <2>1. AfterIncoming(p, Tail(asked), Received(expBlocks, p)) /\ asked # <<>>
    BY <1>7 DEF AcceptBlock
  <2>2. Tail(asked) \in Seq(Blocks) /\ Received(expBlocks, p) \in [Peers -> Nat]
    BY <2>1, <1>e, ElementsOfTail, CounterType
  <2>3. /\ wanted' \in Seq(Blocks) /\ asked' \in Seq(Blocks)
        /\ peer' \in Peers \cup {NoPeer} /\ expBlocks' \in [Peers -> Nat]
    BY <2>1, <2>2, AfterIncomingType
  <2> QED
    BY <1>7, <2>3 DEF TypeOK, AcceptBlock
<1>8. ASSUME NEW p \in Peers, NEW headers \in HeadersMessages, IncomingHeaders(p, headers)
      PROVE  TypeOK'
  <2>1. hq' \in Seq(Blocks)
    BY <1>8, MessageType DEF IncomingHeaders
  <2>2. ctx' \in [from : Peers \cup {NoPeer}, last : Blocks \cup {NoBlock}, moved : BOOLEAN]
    BY <1>8, <1>n DEF IncomingHeaders
  <2>3. expHeaders' \in [Peers -> Nat]
    BY <1>8, <1>e, CounterType DEF IncomingHeaders
  <2> QED
    BY <1>8, <2>1, <2>2, <2>3 DEF TypeOK, IncomingHeaders
<1>9. CASE AddHeader
  <2>1. hq # <<>> /\ hq \in Seq(Blocks) /\ conn \in Seq(Blocks)
    BY <1>9 DEF AddHeader, TypeOK
  <2>2. Head(hq) \in Blocks /\ Tail(hq) \in Seq(Blocks)
    BY <2>1
  <2>3. known' \subseteq Blocks /\ tip' \in Blocks
    BY <1>9, <2>2 DEF AddHeader, ChainAddHeader, TypeOK
  <2>4. disk' \in [known : SUBSET Blocks, tip : Blocks]
    BY <1>9, <2>3 DEF AddHeader, Batch, TypeOK
  <2>5. conn' \in Seq(Blocks)
    <3>1. Reported(Head(hq)) \in Seq(Blocks)
      BY <2>2, <1>e DEF Reported
    <3> QED
      BY <1>9, <2>1, <3>1, ElementsOfConcat DEF AddHeader
  <2>6. ctx' \in [from : Peers \cup {NoPeer}, last : Blocks \cup {NoBlock}, moved : BOOLEAN]
    <3>1. (ctx.moved \/ MovesTip(Head(hq))) \in BOOLEAN
      BY DEF MovesTip, Stores
    <3> QED
      BY <1>9, <2>2, <3>1 DEF AddHeader, TypeOK
  <2>7. unwind' \in Blocks \cup {NoBlock} /\ hq' \in Seq(Blocks)
    BY <1>9, <2>2 DEF AddHeader, TypeOK
  <2>8. phase' \in {"idle", "adding", "downstream", "down", "startup"}
    BY <1>9 DEF AddHeader
  <2>9. skipped' \in BOOLEAN
    BY <1>9 DEF AddHeader
  <2> QED
    BY <1>9, <2>3, <2>4, <2>5, <2>6, <2>7, <2>8, <2>9 DEF AddHeader, TypeOK
<1>10. CASE Disconnect
  <2>1. Parent(unwind) \in Blocks
    BY <1>10, UnwindHasParent DEF Disconnect
  <2>2. PopBack(wanted) \in Seq(Blocks)
    BY <1>e, ElementsOfPopBack
  <2>3. jumped' \in BOOLEAN
    BY <1>10 DEF Disconnect, TypeOK
  <2> QED
    BY <1>10, <2>1, <2>2, <2>3 DEF Disconnect, TypeOK
<1>11. CASE Connect
  <2>1. conn # <<>> /\ conn \in Seq(Blocks)
    BY <1>11 DEF Connect, TypeOK
  <2>2. Head(conn) \in Blocks /\ Tail(conn) \in Seq(Blocks)
    BY <2>1
  <2>3. Append(wanted, Head(conn)) \in Seq(Blocks)
    BY <1>e, <2>2
  <2> QED
    BY <1>11, <2>2, <2>3 DEF Connect, TypeOK
<1>12. CASE NextRound
  BY <1>12 DEF NextRound, TypeOK
<1>13. CASE EndHeaders
  <2>1. ctx.from \in Peers \cup {NoPeer} /\ ctx.last \in Blocks \cup {NoBlock}
    BY DEF TypeOK
  <2>2. expHeaders' \in [Peers -> Nat] /\ AfterIncoming(ctx.from, asked, expBlocks)
    BY <1>13, <1>e, CounterType DEF EndHeaders
  <2>3. /\ wanted' \in Seq(Blocks) /\ asked' \in Seq(Blocks)
        /\ peer' \in Peers \cup {NoPeer} /\ expBlocks' \in [Peers -> Nat]
    BY <2>1, <2>2, <1>e, AfterIncomingType
  <2>4. height' \in Nat
    <3>1. ctx.moved => Height(ctx.last) \in Nat
      BY <2>1, BranchType DEF ChainInv
    <3> QED
      BY <1>13, <3>1 DEF EndHeaders, TypeOK
  <2> QED
    BY <1>13, <1>n, <2>2, <2>3, <2>4 DEF EndHeaders, TypeOK
<1>14. CASE Crash
  <2>1. Height(disk.tip) \in Nat
    BY BranchType DEF TypeOK
  <2>2. crashes' \in 0..MaxCrashes
    BY <1>14, LimitAssumption DEF Crash, TypeOK
  <2> QED
    BY <1>14, <1>e, <1>n, <2>1, <2>2 DEF Crash, TypeOK
<1>15. CASE Rescan
  <2>1. BirthBlock \in Blocks
    BY StartType, ElementsOfBranch DEF TypeOK
  <2> QED
    BY <1>15, <2>1 DEF Rescan, TypeOK
<1>16. CASE Start
  <2>1. WantedAtStart(processed) \in Seq(Blocks)
    BY StartType
  <2> QED
    BY <1>16, <2>1 DEF Start, TypeOK
<1>17. CASE StartDisconnect
  <2>1. Parent(unwind) \in Blocks
    BY <1>17, UnwindHasParent DEF StartDisconnect
  <2> QED
    BY <1>17, <2>1 DEF StartDisconnect, TypeOK
<1>18. CASE StartDone
  BY <1>18 DEF StartDone, TypeOK
<1>19. CASE UNCHANGED vars
  BY <1>19 DEF vars, TypeOK
<1> QED
  BY <1>1, <1>2, <1>3, <1>4, <1>5, <1>6, <1>7, <1>8, <1>9, <1>10, <1>11, <1>12, <1>13,
     <1>14, <1>15, <1>16, <1>17, <1>18, <1>19 DEF Next

-----------------------------------------------------------------------------
(* The chain database and the round in progress. *)

\* The chain invariant holds of a new database.
LEMMA ChainInvInit ==
    Init => ChainInv /\ DurableInv
<1> SUFFICES ASSUME Init PROVE ChainInv /\ DurableInv
  OBVIOUS
<1>1. Genesis \in Blocks /\ Work[Genesis] \in Nat
  BY BranchAssumption, WorkAssumption
<1>2. Closed({Genesis})
  BY GenesisBranch DEF Closed
<1>3. ChainInv
  BY <1>1, <1>2 DEF Init, ChainInit, NoContext, ChainInv
<1>4. DurableInv
  BY ElementsOfEmpty DEF Init, DurableInv, ProcessedIsDurable
<1> QED
  BY <1>3, <1>4

\* A header that is stored extends a known branch.
LEMMA StoredHeader ==
    ASSUME TypeOK, ChainInv, NEW h \in Blocks, Stores(h)
    PROVE  /\ Closed(known \cup {h})
           /\ \A k \in known : OnBranch(k, h) => Work[k] <= Work[Parent(h)]
           /\ Reorganises(h) => ~OnBranch(tip, h)
<1>1. h # Genesis /\ Parent(h) \in known /\ h \notin known /\ Closed(known)
      /\ known \subseteq Blocks /\ tip \in known /\ tip \in Blocks
  BY DEF Stores, TypeOK, ChainInv
<1>2. /\ Parent(h) \in Blocks
      /\ \A a \in Blocks : OnBranch(a, h) /\ a # h => OnBranch(a, Parent(h))
  BY <1>1, ParentBelow
<1>3. Closed(known \cup {h})
  BY <1>1, <1>2 DEF Closed
<1>4. \A b \in Blocks : Work[b] \in Nat
  BY WorkAssumption
<1>5. ASSUME NEW k \in known, OnBranch(k, h) PROVE Work[k] <= Work[Parent(h)]
  <2>1. k \in Blocks /\ k # h /\ OnBranch(k, Parent(h))
    BY <1>1, <1>2, <1>5
  <2>2. CASE k = Parent(h)
    BY <2>2, <1>2, <1>4
  <2>3. CASE k # Parent(h)
    BY <2>1, <2>3, <1>2, <1>4, WorkGrows
  <2> QED
    BY <2>2, <2>3
<1>6. ASSUME Reorganises(h), OnBranch(tip, h) PROVE FALSE
  <2>1. Parent(h) # tip
    BY <1>6 DEF Reorganises
  <2>2. OnBranch(tip, Parent(h))
    BY <1>1, <1>2, <1>6
  <2>3. Work[tip] < Work[Parent(h)]
    BY <1>1, <1>2, <2>1, <2>2, WorkGrows
  <2>4. Work[Parent(h)] <= Work[tip]
    BY <1>1 DEF ChainInv
  <2> QED
    BY <1>1, <1>2, <1>4, <2>3, <2>4
<1> QED
  BY <1>3, <1>5, <1>6

\* AddHeader keeps the invariant: the step in which memory and disk part and meet.
LEMMA ChainAdd ==
    ASSUME TypeOK, ChainInv, DurableInv, AddHeader
    PROVE  ChainInv' /\ DurableInv'
<1> DEFINE h == Head(hq)
<1>1. h \in Blocks
  BY DEF TypeOK, AddHeader
<1>2. phase = "adding" /\ ChainAddHeader(h) /\ conn' = conn \o Reported(h)
  BY DEF AddHeader
<1>3. /\ unwind' = IF Reorganises(h) THEN tip ELSE NoBlock
      /\ ctx' = [ctx EXCEPT !.last = IF Stores(h) THEN h ELSE @,
                           !.moved = @ \/ MovesTip(h)]
      /\ wanted' = wanted /\ asked' = asked /\ processed' = processed
  BY DEF AddHeader, queueVars, walletVars
<1>4. \/ phase' = "downstream" /\ disk' = Batch
      \/ phase' = "adding" /\ disk' = disk /\ ~Reorganises(h)
  BY DEF AddHeader
<1>5. /\ known \subseteq Blocks /\ tip \in Blocks /\ tip \in known
      /\ disk.tip \in disk.known /\ disk.known \subseteq known /\ disk.tip \in Blocks
      /\ OnBranch(disk.tip, tip) /\ Closed(known)
  BY <1>2 DEF TypeOK, ChainInv
<1>6. \A b \in Blocks : Work[b] \in Nat
  BY WorkAssumption
<1> HIDE DEF h
<1>7. known \subseteq known' /\ known' \subseteq known \cup {h} /\ tip' \in known'
  BY <1>2, <1>5 DEF ChainAddHeader, MovesTip
<1>8. Closed(known')
  BY <1>1, <1>2, <1>5, StoredHeader DEF ChainAddHeader
<1>9. \A k \in known' : Work[k] <= Work[tip']
  <2>1. \A k \in known : Work[k] <= Work[tip]
    BY DEF ChainInv
  <2> QED
    BY <1>1, <1>2, <1>5, <1>6, <2>1 DEF ChainAddHeader, MovesTip
<1>10. conn \in Seq(Blocks) /\ Reported(h) \in Seq(Blocks)
       /\ Elements(Reported(h)) = IF Stores(h) THEN {h} ELSE {}
  <2>1. /\ <<h>> \in Seq(Blocks) /\ <<>> \in Seq(Blocks)
        /\ Len(<<h>>) = 1 /\ <<h>>[1] = h
    BY <1>1
  <2>2. 1..1 = {1}
    OBVIOUS
  <2>3. Elements(<<h>>) = {h}
    BY <2>1, <2>2 DEF Elements
  <2> QED
    BY <2>1, <2>3, ElementsOfEmpty DEF TypeOK, Reported
<1>11. Elements(conn') = Elements(conn) \cup (IF Stores(h) THEN {h} ELSE {})
  BY <1>2, <1>10, ElementsOfConcat
<1>12. unwind' # NoBlock => unwind' \in known' /\ ~OnBranch(unwind', tip')
  <2>1. CASE Reorganises(h)
    <3>1. Stores(h) /\ tip' = h
      BY <2>1, <1>2 DEF Reorganises, MovesTip, ChainAddHeader
    <3> QED
      BY <1>1, <1>3, <1>5, <1>7, <2>1, <3>1, StoredHeader
  <2>2. CASE ~Reorganises(h)
    BY <2>2, <1>3
  <2> QED
    BY <2>1, <2>2
<1>13. ctx'.moved => ctx'.last # NoBlock
  <2>1. ctx'.last = (IF Stores(h) THEN h ELSE ctx.last)
        /\ ctx'.moved = (ctx.moved \/ MovesTip(h))
    BY <1>3 DEF TypeOK
  <2> QED
    BY <1>1, <2>1, BranchAssumption DEF ChainInv, MovesTip
<1>14. CASE phase' = "downstream" /\ disk' = Batch
  <2>1. disk'.known = known' /\ disk'.tip = tip'
    BY <1>14 DEF Batch
  <2>2. ChainInv'
    BY <1>7, <1>8, <1>9, <1>12, <1>13, <1>14, <2>1 DEF ChainInv, OnTrunk
  <2>3. DurableInv'
    BY <1>2, <1>3, <1>5, <1>7, <1>11, <2>1 DEF DurableInv, ProcessedIsDurable, ChainAddHeader
  <2> QED
    BY <2>2, <2>3
<1>15. CASE phase' = "adding" /\ disk' = disk /\ ~Reorganises(h)
  <2>1. unwind' = NoBlock
    BY <1>3, <1>15
  <2>2. tip' = tip \/ (tip' = h /\ Stores(h) /\ Parent(h) = tip)
    BY <1>2, <1>15 DEF ChainAddHeader, Reorganises, MovesTip
  <2>3. OnBranch(disk.tip, tip')
    <3>1. CASE tip' = tip
      BY <3>1, <1>5
    <3>2. CASE tip' = h /\ Stores(h) /\ Parent(h) = tip
      <4>1. OnBranch(tip, h)
        BY <3>2, <1>1, ParentBelow DEF Stores
      <4> QED
        BY <4>1, <3>2, <1>1, <1>5, OnBranchTransitive
    <3> QED
      BY <2>2, <3>1, <3>2
  <2>4. tip' = disk.tip \/ tip' \in Elements(conn')
    BY <1>2, <1>11, <2>2 DEF ChainInv
  <2>5. /\ Closed(disk.known)
        /\ \A k \in disk.known : Work[k] <= Work[disk.tip]
    BY DEF ChainInv
  <2>6. ChainInv'
    BY <1>5, <1>7, <1>8, <1>9, <1>13, <1>15, <2>1, <2>3, <2>4, <2>5 DEF ChainInv, OnTrunk
  <2>7. DurableInv'
    BY <1>2, <1>3, <1>7, <1>11, <1>15 DEF DurableInv, ProcessedIsDurable, ChainAddHeader
  <2> QED
    BY <2>6, <2>7
<1> QED
  BY <1>4, <1>14, <1>15

\* Steps that leave the chain and the round alone.
LEMMA ChainQuiet ==
    ASSUME ChainInv, UNCHANGED <<chainVars, phase, roundVars>>
    PROVE  ChainInv'
BY DEF ChainInv, OnTrunk, chainVars, roundVars

\* Steps that only move blocks between the queues keep them durable.
LEMMA QueueQuiet ==
    ASSUME TypeOK, DurableInv, UNCHANGED <<known, disk, conn, processed>>,
           NEW p \in Peers \cup {NoPeer}, AfterIncoming(p, asked, expBlocks)
    PROVE  DurableInv'
<1>1. asked \in Seq(Blocks) /\ expBlocks \in [Peers -> Nat]
  BY DEF TypeOK
<1>2. /\ Elements(wanted') \subseteq Elements(wanted)
      /\ Elements(asked') \subseteq Elements(asked) \cup Elements(wanted)
  BY <1>1, AfterIncomingType
<1> QED
  BY <1>2 DEF DurableInv, ProcessedIsDurable

\* Blocks of the trunk are known.
LEMMA TrunkKnown ==
    ASSUME TypeOK, ChainInv, NEW b \in Elements(Branch[tip])
    PROVE  b \in known
<1>1. tip \in Blocks /\ tip \in known
  BY DEF TypeOK, ChainInv
<1>2. b \in Blocks /\ OnBranch(b, tip)
  BY <1>1, ElementsOfBranch
<1> QED
  BY <1>1, <1>2 DEF ChainInv, Closed

\* Every step of the header thread keeps the chain invariant and what is durable.
LEMMA ChainStep ==
    TypeOK /\ ChainInv /\ DurableInv /\ [Next]_vars => ChainInv' /\ DurableInv'
<1> SUFFICES ASSUME TypeOK, ChainInv, DurableInv, [Next]_vars PROVE ChainInv' /\ DurableInv'
  OBVIOUS
<1>0. wanted \in Seq(Blocks) /\ asked \in Seq(Blocks) /\ conn \in Seq(Blocks)
  BY DEF TypeOK
<1>1. ASSUME NEW p \in Peers, Connected(p) PROVE ChainInv' /\ DurableInv'
  <2>1. UNCHANGED <<chainVars, phase, roundVars, wanted, asked, walletVars>>
    BY <1>1 DEF Connected
  <2>2. ChainInv'
    BY <2>1, ChainQuiet
  <2> QED
    BY <2>1, <2>2 DEF DurableInv, ProcessedIsDurable, chainVars, roundVars, walletVars
<1>2. ASSUME NEW p \in Peers, Disconnected(p) PROVE ChainInv' /\ DurableInv'
  <2>1. UNCHANGED <<chainVars, phase, roundVars, walletVars>>
    BY <1>2 DEF Disconnected
  <2>2. ChainInv'
    BY <2>1, ChainQuiet
  <2>3. \/ wanted' = asked \o wanted /\ asked' = <<>>
        \/ wanted' = wanted /\ asked' = asked
    BY <1>2 DEF Disconnected, Requeue, queueVars
  <2>4. Elements(asked') \cup Elements(wanted') \subseteq Elements(asked) \cup Elements(wanted)
    <3>1. Elements(asked \o wanted) = Elements(asked) \cup Elements(wanted)
      BY <1>0, ElementsOfConcat
    <3> QED
      BY <2>3, <3>1, ElementsOfEmpty
  <2> QED
    BY <2>1, <2>2, <2>4 DEF DurableInv, ProcessedIsDurable, chainVars, roundVars, walletVars
<1>3. ASSUME NEW p \in Peers, TimeoutCheck(p) PROVE ChainInv' /\ DurableInv'
  <2>1. UNCHANGED <<chainVars, phase, roundVars, queueVars, walletVars>>
    BY <1>3 DEF TimeoutCheck
  <2>2. ChainInv'
    BY <2>1, ChainQuiet
  <2> QED
    BY <2>1, <2>2 DEF DurableInv, ProcessedIsDurable, chainVars, roundVars, queueVars, walletVars
<1>4. ASSUME NEW p \in Peers, NEW b \in Blocks,
             IgnoreHeaders(p) \/ IncomingInv(p, b) \/ DropBlock(p, b)
      PROVE  ChainInv' /\ DurableInv'
  <2>1. UNCHANGED <<chainVars, phase, roundVars, walletVars>> /\ AfterIncoming(p, asked, expBlocks)
    BY <1>4 DEF IgnoreHeaders, IncomingInv, DropBlock
  <2>2. ChainInv'
    BY <2>1, ChainQuiet
  <2>3. UNCHANGED <<known, disk, conn, processed>>
    BY <2>1 DEF chainVars, roundVars, walletVars
  <2> QED
    BY <2>1, <2>2, <2>3, QueueQuiet
<1>5. ASSUME NEW p \in Peers, NEW b \in Blocks, AcceptBlock(p, b) PROVE ChainInv' /\ DurableInv'
  <2>1. UNCHANGED <<chainVars, phase, roundVars>> /\ processed' = b
    BY <1>5 DEF AcceptBlock
  <2>2. ChainInv'
    BY <2>1, ChainQuiet
  <2>3. asked # <<>> /\ Head(asked) = b /\ AfterIncoming(p, Tail(asked), Received(expBlocks, p))
    BY <1>5 DEF AcceptBlock
  <2>4. Tail(asked) \in Seq(Blocks) /\ Elements(Tail(asked)) \subseteq Elements(asked)
        /\ b \in Elements(asked)
    BY <1>0, <2>3, ElementsOfTail
  <2>5. Received(expBlocks, p) \in [Peers -> Nat]
    BY CounterType DEF TypeOK
  <2>6. /\ Elements(wanted') \subseteq Elements(wanted)
        /\ Elements(asked') \subseteq Elements(Tail(asked)) \cup Elements(wanted)
    BY <2>3, <2>4, <2>5, AfterIncomingType
  <2>7. UNCHANGED <<known, disk, conn>>
    BY <2>1 DEF chainVars, roundVars
  <2> QED
    BY <2>1, <2>2, <2>4, <2>6, <2>7 DEF DurableInv, ProcessedIsDurable
<1>6. ASSUME NEW p \in Peers, NEW headers \in HeadersMessages, IncomingHeaders(p, headers)
      PROVE  ChainInv' /\ DurableInv'
  <2>1. /\ phase = "idle" /\ phase' = "adding" /\ ctx'.moved = FALSE
        /\ UNCHANGED <<known, tip, disk, unwind, conn, wanted, asked, processed>>
    BY <1>6 DEF IncomingHeaders, NoContext, chainVars, queueVars, walletVars
  <2>2. OnBranch(tip, tip)
    BY OnBranchReflexive DEF TypeOK
  <2>3. ChainInv'
    BY <2>1, <2>2 DEF ChainInv, OnTrunk
  <2> QED
    BY <2>1, <2>3 DEF DurableInv, ProcessedIsDurable
<1>7. CASE AddHeader
  BY <1>7, ChainAdd
<1>8. CASE Disconnect
  <2>1. /\ phase = "downstream" /\ unwind # NoBlock
        /\ unwind' = IF OnTrunk(Parent(unwind)) THEN NoBlock ELSE Parent(unwind)
        /\ UNCHANGED <<known, tip, disk, phase, conn, ctx, asked>>
        /\ \/ wanted' = PopBack(wanted) /\ processed' = Parent(unwind)
           \/ UNCHANGED <<wanted, processed>>
    BY <1>8 DEF Disconnect, chainVars, walletVars
  <2>2. Parent(unwind) \in known /\ disk.known = known
    BY <2>1, UnwindHasParent DEF ChainInv
  <2>3. ChainInv'
    BY <2>1, <2>2 DEF ChainInv, OnTrunk
  <2>4. Elements(wanted') \subseteq Elements(wanted)
    BY <1>0, <2>1, ElementsOfPopBack
  <2> QED
    BY <2>1, <2>2, <2>3, <2>4 DEF DurableInv, ProcessedIsDurable
<1>9. CASE Connect
  <2>1. /\ phase = "downstream" /\ conn # <<>> /\ conn' = Tail(conn)
        /\ UNCHANGED <<known, tip, disk, phase, unwind, ctx, asked, processed>>
        /\ wanted' = Append(wanted, Head(conn)) \/ wanted' = wanted
    BY <1>9 DEF Connect, chainVars, walletVars
  <2>2. ChainInv'
    BY <2>1 DEF ChainInv, OnTrunk
  <2>3. Elements(conn') \subseteq Elements(conn) /\ Head(conn) \in Elements(conn)
        /\ Head(conn) \in Blocks
    BY <1>0, <2>1, ElementsOfTail
  <2>4. Elements(wanted') \subseteq Elements(wanted) \cup {Head(conn)}
    <3> DEFINE h == Head(conn)
    <3>1. Len(Append(wanted, h)) = Len(wanted) + 1 /\ Len(wanted) \in Nat
          /\ Append(wanted, h)[Len(wanted) + 1] = h
          /\ \A i \in 1..Len(wanted) : Append(wanted, h)[i] = wanted[i]
      BY <1>0, <2>3
    <3>2. \A i \in 1..(Len(wanted) + 1) : i \in 1..Len(wanted) \/ i = Len(wanted) + 1
      BY <3>1
    <3> QED
      BY <2>1, <3>1, <3>2 DEF Elements
  <2>5. disk.known = known
    BY <2>1 DEF ChainInv
  <2> QED
    BY <2>1, <2>2, <2>3, <2>4, <2>5 DEF DurableInv, ProcessedIsDurable
<1>10. CASE NextRound
  <2>1. /\ phase = "downstream" /\ unwind = NoBlock /\ phase' = "adding"
        /\ UNCHANGED <<known, tip, disk, unwind, conn, ctx, wanted, asked, processed>>
    BY <1>10 DEF NextRound, chainVars, roundVars, queueVars, walletVars
  <2>2. OnBranch(tip, tip)
    BY OnBranchReflexive DEF TypeOK
  <2>3. ChainInv'
    BY <2>1, <2>2 DEF ChainInv, OnTrunk
  <2> QED
    BY <2>1, <2>3 DEF DurableInv, ProcessedIsDurable
<1>11. CASE EndHeaders
  <2>1. /\ phase = "downstream" /\ unwind = NoBlock /\ conn = <<>> /\ phase' = "idle"
        /\ ctx'.moved = FALSE
        /\ UNCHANGED <<known, tip, disk, unwind, conn, processed>>
        /\ AfterIncoming(ctx.from, asked, expBlocks)
    BY <1>11 DEF EndHeaders, NoContext, chainVars, walletVars
  <2>2. ChainInv'
    BY <2>1 DEF ChainInv, OnTrunk
  <2>3. ctx.from \in Peers \cup {NoPeer}
    BY DEF TypeOK
  <2> QED
    BY <2>1, <2>2, <2>3, QueueQuiet
<1>12. CASE Crash
  <2>1. /\ phase' = "down" /\ known' = disk.known /\ tip' = disk.tip /\ disk' = disk
        /\ unwind' = NoBlock /\ conn' = <<>> /\ wanted' = <<>> /\ asked' = <<>>
        /\ ctx'.moved = FALSE /\ processed' = processed
    BY <1>12 DEF Crash, NoContext, walletVars
  <2>2. ChainInv'
    BY <2>1 DEF ChainInv, OnTrunk
  <2>3. Elements(conn') = {} /\ Elements(wanted') = {} /\ Elements(asked') = {}
    BY <2>1, ElementsOfEmpty
  <2>4. DurableInv'
    BY <2>1, <2>3 DEF DurableInv, ProcessedIsDurable
  <2> QED
    BY <2>2, <2>4
<1>13. CASE Rescan
  <2>1. /\ phase = "down" /\ UNCHANGED <<chainVars, phase, roundVars, queueVars>>
        /\ processed' \in {NoBlock, BirthBlock}
    BY <1>13 DEF Rescan
  <2>2. ChainInv'
    BY <2>1, ChainQuiet
  <2>3. BirthBlock \in disk.known
    <3>1. BirthBlock \in Elements(Branch[tip])
      BY StartType
    <3> QED
      BY <2>1, <3>1, TrunkKnown DEF ChainInv
  <2> QED
    BY <2>1, <2>2, <2>3 DEF DurableInv, ProcessedIsDurable, chainVars, roundVars, queueVars
<1>14. CASE Start
  <2>1. /\ phase = "down" /\ phase' = "startup"
        /\ unwind' = IF processed = NoBlock \/ OnTrunk(processed) THEN NoBlock ELSE processed
        /\ wanted' = WantedAtStart(processed)
        /\ UNCHANGED <<known, tip, disk, conn, ctx, asked, processed>>
    BY <1>14 DEF Start, chainVars, walletVars
  <2>2. disk.known = known
    BY <2>1 DEF ChainInv
  <2>3. processed = NoBlock \/ processed \in known
    BY <2>2 DEF DurableInv, ProcessedIsDurable
  <2>4. ChainInv'
    BY <2>1, <2>2, <2>3 DEF ChainInv, OnTrunk
  <2>5. Elements(wanted') \subseteq known
    BY <2>1, StartType, TrunkKnown
  <2> QED
    BY <2>1, <2>2, <2>4, <2>5 DEF DurableInv, ProcessedIsDurable
<1>15. CASE StartDisconnect
  <2>1. /\ phase = "startup" /\ unwind # NoBlock /\ processed' = Parent(unwind)
        /\ unwind' = IF OnTrunk(Parent(unwind)) THEN NoBlock ELSE Parent(unwind)
        /\ UNCHANGED <<known, tip, disk, phase, conn, ctx, wanted, asked>>
    BY <1>15 DEF StartDisconnect, chainVars, queueVars
  <2>2. Parent(unwind) \in known /\ disk.known = known
    BY <2>1, UnwindHasParent DEF ChainInv
  <2>3. ChainInv'
    BY <2>1, <2>2 DEF ChainInv, OnTrunk
  <2> QED
    BY <2>1, <2>2, <2>3 DEF DurableInv, ProcessedIsDurable
<1>16. CASE StartDone
  <2>1. /\ phase = "startup" /\ unwind = NoBlock /\ phase' = "idle"
        /\ UNCHANGED <<known, tip, disk, unwind, conn, ctx, wanted, asked, processed>>
    BY <1>16 DEF StartDone, chainVars, roundVars, queueVars, walletVars
  <2>2. ChainInv'
    BY <2>1 DEF ChainInv, OnTrunk
  <2> QED
    BY <2>1, <2>2 DEF DurableInv, ProcessedIsDurable
<1>17. CASE UNCHANGED vars
  BY <1>17 DEF vars, chainVars, roundVars, queueVars, walletVars, ChainInv, OnTrunk,
               DurableInv, ProcessedIsDurable
<1>18. ASSUME NEW p \in Peers, IgnoreHeaders(p) PROVE ChainInv' /\ DurableInv'
  BY <1>4, <1>18, BranchAssumption
<1> QED
  BY <1>1, <1>2, <1>3, <1>4, <1>5, <1>6, <1>7, <1>8, <1>9, <1>10, <1>11, <1>12, <1>13,
     <1>14, <1>15, <1>16, <1>17, <1>18 DEF Next

-----------------------------------------------------------------------------
\* The header thread's state has its type for every tree of blocks, every set of
\* peers and every bound: no counter of Timeout goes below zero, and nothing but
\* headers enters the queues.
THEOREM TypeCorrect == Spec => []TypeOK
<1>1. Init => TypeOK /\ ChainInv /\ DurableInv
  BY TypeInit, ChainInvInit
<1>2. TypeOK /\ ChainInv /\ DurableInv /\ [Next]_vars => (TypeOK /\ ChainInv /\ DurableInv)'
  BY TypeStep, ChainStep
<1> QED
  BY <1>1, <1>2, PTL DEF Spec

\* The chain database and the round: what memory and disk have in common, and that
\* what is unwound has left the trunk (blockdownload.rs, headers).
THEOREM ChainCorrect == Spec => []ChainInv
<1>1. Init => TypeOK /\ ChainInv /\ DurableInv
  BY TypeInit, ChainInvInit
<1>2. TypeOK /\ ChainInv /\ DurableInv /\ [Next]_vars => (TypeOK /\ ChainInv /\ DurableInv)'
  BY TypeStep, ChainStep
<1> QED
  BY <1>1, <1>2, PTL DEF Spec

\* Start-up finds the header of the last processed block after any crash
\* (p2p_bitcoin.rs, "can not find header for last processed block").
THEOREM StartupFindsProcessed == Spec => []ProcessedIsDurable
<1>1. Init => TypeOK /\ ChainInv /\ DurableInv
  BY TypeInit, ChainInvInit
<1>2. TypeOK /\ ChainInv /\ DurableInv /\ [Next]_vars => (TypeOK /\ ChainInv /\ DurableInv)'
  BY TypeStep, ChainStep
<1>3. DurableInv => ProcessedIsDurable
  BY DEF DurableInv
<1> QED
  BY <1>1, <1>2, <1>3, PTL DEF Spec

-----------------------------------------------------------------------------
(* The replies that are expected and the blocks that are asked for. *)

\* The sender of a Headers message stays connected while the message is handled:
\* the thread takes the Disconnected message only after it.
AskedInv ==
    /\ AskedIsExpected
    /\ phase \in {"adding", "downstream"} => ctx.from \in up

\* The end of an Incoming message: what is expected is what is asked.
LEMMA AskedAfterIncoming ==
    ASSUME TypeOK, NEW p \in up, NEW a \in Seq(Blocks), NEW e \in [Peers -> Nat],
           a # <<>> => peer \in up,
           \A q \in Peers : e[q] > 0 => q = peer /\ e[q] = Len(a),
           AfterIncoming(p, a, e), up' = up
    PROVE  AskedIsExpected'
<1> DEFINE more == a \o SubSeq(wanted, 1, Least(AskLimit, Len(wanted)))
<1>1. /\ up \subseteq Peers /\ p \in Peers /\ NoPeer \notin Peers
  BY PeerAssumption DEF TypeOK
<1>2. peer' = IF peer = NoPeer THEN p ELSE peer
  BY DEF AfterIncoming
<1>3. \/ peer' = p /\ asked' = more /\ expBlocks' = [e EXCEPT ![p] = Len(more)]
      \/ asked' = a /\ expBlocks' = e
  BY DEF AfterIncoming
<1> HIDE DEF more
<1>4. CASE peer' = p /\ asked' = more /\ expBlocks' = [e EXCEPT ![p] = Len(more)]
  <2>1. ASSUME NEW q \in Peers, expBlocks'[q] > 0 PROVE q = peer' /\ expBlocks'[q] = Len(asked')
    <3>1. CASE q = p
      BY <3>1, <1>1, <1>4
    <3>2. CASE q # p
      <4>1. expBlocks'[q] = e[q]
        BY <3>2, <1>4
      <4>2. q = peer /\ peer # NoPeer
        BY <1>1, <2>1, <4>1
      <4> QED
        BY <1>2, <1>4, <3>2, <4>2
    <3> QED
      BY <3>1, <3>2
  <2> QED
    BY <1>4, <2>1 DEF AskedIsExpected
<1>5. CASE asked' = a /\ expBlocks' = e
  <2>1. a # <<>> => peer' \in up
    BY <1>1, <1>2
  <2>2. \A q \in Peers : e[q] > 0 => q = peer' /\ e[q] = Len(a)
    BY <1>1, <1>2
  <2> QED
    BY <1>5, <2>1, <2>2 DEF AskedIsExpected
<1> QED
  BY <1>3, <1>4, <1>5

\* Every step of the header thread keeps asked blocks and expectations together.
LEMMA AskedStep ==
    TypeOK /\ AskedInv /\ [Next]_vars => AskedInv'
<1> SUFFICES ASSUME TypeOK, AskedInv, [Next]_vars PROVE AskedInv'
  OBVIOUS
<1> USE DEF AskedInv
<1>0. /\ asked \in Seq(Blocks) /\ expBlocks \in [Peers -> Nat]
      /\ up \subseteq Peers /\ NoPeer \notin Peers
      /\ asked # <<>> => peer \in up
      /\ \A q \in Peers : expBlocks[q] > 0 => q = peer /\ expBlocks[q] = Len(asked)
  BY PeerAssumption DEF TypeOK, AskedIsExpected
<1>1. ASSUME NEW p \in Peers, Connected(p) PROVE AskedInv'
  <2>1. /\ up' = up \cup {p} /\ peer' \in {p, peer} /\ (peer # NoPeer => peer' = peer)
        /\ UNCHANGED <<phase, asked, expBlocks, ctx>>
    BY <1>1 DEF Connected, roundVars
  <2> QED
    BY <1>0, <2>1 DEF AskedIsExpected
<1>2. ASSUME NEW p \in Peers, Disconnected(p) PROVE AskedInv'
  <2>1. /\ phase = "idle" /\ phase' = phase
        /\ up' = up \ {p} /\ expBlocks' = [expBlocks EXCEPT ![p] = 0]
        /\ \/ peer = p /\ asked' = <<>>
           \/ peer # p /\ UNCHANGED <<peer, asked>>
    BY <1>2 DEF Disconnected, queueVars
  <2>2. \A q \in Peers : expBlocks'[q] > 0 => q # p /\ expBlocks'[q] = expBlocks[q]
    BY <1>0, <2>1
  <2> QED
    BY <1>0, <2>1, <2>2 DEF AskedIsExpected
<1>3. ASSUME NEW p \in Peers, TimeoutCheck(p) PROVE AskedInv'
  <2>1. /\ expBlocks' = [expBlocks EXCEPT ![p] = 0]
        /\ UNCHANGED <<phase, ctx, up, peer, asked>>
    BY <1>3 DEF TimeoutCheck, queueVars, roundVars
  <2>2. \A q \in Peers : expBlocks'[q] > 0 => expBlocks'[q] = expBlocks[q]
    BY <1>0, <2>1
  <2> QED
    BY <1>0, <2>1, <2>2 DEF AskedIsExpected
<1>4. ASSUME NEW p \in Peers, NEW b \in Blocks,
             IgnoreHeaders(p) \/ IncomingInv(p, b) \/ DropBlock(p, b)
      PROVE  AskedInv'
  <2>1. /\ p \in up /\ UNCHANGED <<phase, ctx, up>> /\ AfterIncoming(p, asked, expBlocks)
    BY <1>4 DEF IgnoreHeaders, IncomingInv, DropBlock, roundVars
  <2>2. AskedIsExpected'
    BY <1>0, <2>1, AskedAfterIncoming
  <2> QED
    BY <2>1, <2>2
<1>5. ASSUME NEW p \in Peers, NEW b \in Blocks, AcceptBlock(p, b) PROVE AskedInv'
  <2>1. /\ p \in up /\ peer = p /\ asked # <<>> /\ UNCHANGED <<phase, ctx, up>>
        /\ AfterIncoming(p, Tail(asked), Received(expBlocks, p))
    BY <1>5 DEF AcceptBlock, roundVars
  <2>2. Tail(asked) \in Seq(Blocks) /\ Received(expBlocks, p) \in [Peers -> Nat]
    BY <1>0, <2>1, ElementsOfTail, CounterType
  <2>3. Len(Tail(asked)) = Len(asked) - 1 /\ Len(asked) \in Nat
    BY <1>0, <2>1
  <2>4. ASSUME NEW q \in Peers, Received(expBlocks, p)[q] > 0
        PROVE  q = peer /\ Received(expBlocks, p)[q] = Len(Tail(asked))
    <3>1. CASE q = p
      <4>1. Received(expBlocks, p)[p] = IF expBlocks[p] > 0 THEN expBlocks[p] - 1 ELSE 0
        BY <1>0 DEF Received
      <4>2. expBlocks[p] > 0 /\ Received(expBlocks, p)[p] = expBlocks[p] - 1
        BY <2>4, <3>1, <4>1
      <4> QED
        BY <1>0, <2>1, <2>3, <3>1, <4>2
    <3>2. CASE q # p
      BY <1>0, <2>1, <2>4, <3>2 DEF Received
    <3> QED
      BY <3>1, <3>2
  <2>5. AskedIsExpected'
    BY <2>1, <2>2, <2>4, AskedAfterIncoming
  <2> QED
    BY <2>1, <2>5
<1>6. ASSUME NEW p \in Peers, NEW headers \in HeadersMessages, IncomingHeaders(p, headers)
      PROVE  AskedInv'
  <2>1. p \in up /\ ctx'.from = p /\ UNCHANGED <<up, peer, asked, expBlocks>>
    BY <1>6 DEF IncomingHeaders, NoContext, queueVars
  <2> QED
    BY <2>1 DEF AskedIsExpected
<1>7. CASE AddHeader
  <2>1. phase = "adding" /\ ctx'.from = ctx.from /\ UNCHANGED <<up, peer, asked, expBlocks>>
    BY <1>7 DEF AddHeader, TypeOK, queueVars, peerVars
  <2> QED
    BY <2>1 DEF AskedIsExpected
<1>8. CASE Disconnect \/ Connect \/ NextRound
  <2>1. phase = "downstream" /\ UNCHANGED <<ctx, up, peer, asked, expBlocks>>
    BY <1>8 DEF Disconnect, Connect, NextRound, roundVars, queueVars, peerVars
  <2> QED
    BY <2>1 DEF AskedIsExpected
<1>9. CASE EndHeaders
  <2>1. /\ phase = "downstream" /\ phase' = "idle" /\ up' = up
        /\ AfterIncoming(ctx.from, asked, expBlocks)
    BY <1>9 DEF EndHeaders
  <2>2. AskedIsExpected'
    BY <1>0, <2>1, AskedAfterIncoming
  <2> QED
    BY <2>1, <2>2
<1>10. CASE Crash
  BY <1>10 DEF Crash, AskedIsExpected
<1>11. CASE Rescan \/ Start \/ StartDisconnect \/ StartDone
  <2>1. phase' \notin {"adding", "downstream"} /\ UNCHANGED <<up, peer, asked, expBlocks>>
    BY <1>11 DEF Rescan, Start, StartDisconnect, StartDone, queueVars, peerVars
  <2> QED
    BY <2>1 DEF AskedIsExpected
<1>12. CASE UNCHANGED vars
  BY <1>12 DEF vars, roundVars, queueVars, peerVars, AskedIsExpected
<1>13. ASSUME NEW p \in Peers, IgnoreHeaders(p) PROVE AskedInv'
  BY <1>4, <1>13, BranchAssumption
<1> QED
  BY <1>1, <1>2, <1>3, <1>4, <1>5, <1>6, <1>7, <1>8, <1>9, <1>10, <1>11, <1>12, <1>13 DEF Next

\* Block replies are expected only from the download peer, as many as blocks are
\* asked from it, for any number of peers and blocks (Timeout::expect and received
\* against blocks_asked in blockdownload.rs).
THEOREM ExpectationsMatch == Spec => []AskedIsExpected
<1>1. Init => AskedInv
  BY DEF Init, AskedInv, AskedIsExpected
<1>2. AskedInv => AskedIsExpected
  BY DEF AskedInv
<1> QED
  BY <1>1, <1>2, AskedStep, TypeCorrect, PTL DEF Spec

=============================================================================
