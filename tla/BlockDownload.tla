--------------------------- MODULE BlockDownload ---------------------------
(***************************************************************************)
(* The thread that follows the Bitcoin chain (blockdownload.rs) and the    *)
(* start-up code that precedes it (p2p_bitcoin.rs, P2PBitcoin::start).     *)
(*                                                                         *)
(* The thread handles one peer message at a time.  A Headers message is    *)
(* handled in rounds: a round adds headers to the chain database under its *)
(* write lock until the queue is empty or a re-organisation happens,       *)
(* makes the additions durable, releases the lock and only then tells the  *)
(* downstream (the content store), one call at a time, what happened.      *)
(* Other threads read the chain database between those calls.              *)
(*                                                                         *)
(* The list of headers to disconnect is always the path from some header   *)
(* down to the trunk; unwind is the first header of what is left of it.    *)
(***************************************************************************)
EXTENDS ChainDB, FiniteSetsExt

CONSTANTS
    Peers,          \* Bitcoin peers; every connection to one gets a fresh PeerId
    Serving,        \* the peers whose version message offers SERVICE_BLOCKS
    NoPeer,
    Birth,          \* birth of the wallet key: older blocks are not interesting
    AskLimit,       \* blocks moved to one GetData (1000 in the code)
    MaxHeaders,     \* bound: headers in one message
    MaxCrashes      \* bound: crashes of the process

ASSUME PeerAssumption == Serving \subseteq Peers /\ NoPeer \notin Peers

ASSUME BirthAssumption == Birth \in Nat /\ Time[Genesis] < Birth

ASSUME LimitAssumption == AskLimit \in Nat \ {0} /\ MaxHeaders \in Nat /\ MaxCrashes \in Nat

VARIABLES
    disk,           \* the part of the chain database that survives a crash
    phase,          \* what the thread is doing
    hq,             \* headers_queue
    unwind,         \* next header to disconnect, NoBlock if there is none
    conn,           \* connected_headers
    ctx,            \* sender of the message, last header stored (some_new), moved_tip
    wanted,         \* blocks_wanted
    asked,          \* blocks_asked
    peer,           \* block_download_peer
    up,             \* connected peers
    expHeaders,     \* Timeout: Headers replies expected from every peer
    expBlocks,      \* Timeout: Block replies expected from every peer
    height,         \* height announced to new peers (P2PControl::Height)
    processed,      \* table processed: the last block given to the wallet
    done,           \* history: blocks the wallet has processed and not unwound
    skipped,        \* history: the trunk moved onto a header of an earlier round
    jumped,         \* history: processed was set to a block the wallet never saw
    crashes         \* crashes so far

chainVars == <<known, tip, disk>>
roundVars == <<hq, unwind, conn, ctx>>
queueVars == <<wanted, asked, peer>>
peerVars == <<up, expHeaders, expBlocks, height>>
walletVars == <<processed, done>>
historyVars == <<skipped, jumped, crashes>>
vars == <<chainVars, phase, roundVars, queueVars, peerVars, walletVars, historyVars>>

\* Downstream is only told about headers younger than the wallet.
Young(b) == Time[b] > Birth

\* Blocks a disconnect is still owed for.
PendingUnwind(b) == unwind # NoBlock /\ OnBranch(b, unwind) /\ ~OnTrunk(b)

\* What a Headers message may contain: consecutive headers of one branch.
HeadersMessages ==
    UNION {{SubSeq(Branch[b], i, Height(b) + 1) : i \in 1..(Height(b) + 1)} : b \in Blocks}

NoContext == [from |-> NoPeer, last |-> NoBlock, moved |-> FALSE]

PopBack(s) == IF s = <<>> THEN s ELSE SubSeq(s, 1, Len(s) - 1)

Elements(s) == {s[i] : i \in 1..Len(s)}

Least(m, n) == IF m < n THEN m ELSE n

RequeueBehind(a, w) == w \o a

\* Blocks asked from a lost peer go back to the front of the wanted ones.
Requeue(a, w) == a \o w

-----------------------------------------------------------------------------
(* Timeout, a library: a counter of expected replies for every peer. *)

ReceivedUnchecked(expected, p) == [expected EXCEPT ![p] = @ - 1]

ReceivedIgnored(expected, p) == expected

\* Timeout::received
Received(expected, p) == [expected EXCEPT ![p] = IF @ > 0 THEN @ - 1 ELSE 0]

\* get_headers: ask unless an answer is still expected.
GetHeaders(expected, p) == [expected EXCEPT ![p] = 1]

-----------------------------------------------------------------------------
(* The end of every Incoming message: a sender without competition becomes  *)
(* the download peer, and the download peer is asked for blocks if nothing  *)
(* is expected from it.  a and e are blocks_asked and the expected Block    *)
(* replies at that point of the handler.                                    *)
AfterIncoming(p, a, e) ==
    LET n == Least(AskLimit, Len(wanted))
        more == a \o SubSeq(wanted, 1, n)
    IN  /\ peer' = IF peer = NoPeer THEN p ELSE peer
        /\ IF peer' = p /\ e[p] = 0
             THEN /\ asked' = more
                  /\ wanted' = SubSeq(wanted, n + 1, Len(wanted))
                  /\ expBlocks' = [e EXCEPT ![p] = Len(more)]
             ELSE asked' = a /\ wanted' = wanted /\ expBlocks' = e

\* PeerMessage::Connected
Connected(p) ==
    /\ phase = "idle"
    /\ p \notin up
    /\ up' = up \cup {p}
    /\ expHeaders' = IF p \in Serving THEN GetHeaders(expHeaders, p) ELSE expHeaders
    /\ peer' = IF p \in Serving /\ peer = NoPeer THEN p ELSE peer
    /\ UNCHANGED <<chainVars, phase, roundVars, wanted, asked, expBlocks, height,
                   walletVars, historyVars>>

\* PeerMessage::Disconnected: blocks asked from the lost peer are wanted again.
\* Nothing is expected from the PeerId of the next connection.
Disconnected(p) ==
    /\ phase = "idle"
    /\ p \in up
    /\ up' = up \ {p}
    /\ expHeaders' = [expHeaders EXCEPT ![p] = 0]
    /\ expBlocks' = [expBlocks EXCEPT ![p] = 0]
    /\ IF peer = p
         THEN peer' = NoPeer /\ wanted' = Requeue(asked, wanted) /\ asked' = <<>>
         ELSE UNCHANGED queueVars
    /\ UNCHANGED <<chainVars, phase, roundVars, height, walletVars, historyVars>>

\* Incoming Inv announcing block b (an announcement of a known block stands for
\* every message the thread has no use for).
IncomingInv(p, b) ==
    /\ phase = "idle"
    /\ p \in up
    /\ expHeaders' = IF p \in Serving /\ b \notin known
                       THEN GetHeaders(expHeaders, p) ELSE expHeaders
    /\ AfterIncoming(p, asked, expBlocks)
    /\ UNCHANGED <<chainVars, phase, roundVars, up, height, walletVars, historyVars>>

\* Incoming Block that is not the next one asked from the download peer: dropped.
DropBlock(p, b) ==
    /\ phase = "idle"
    /\ p \in up
    /\ ~(peer = p /\ asked # <<>> /\ Head(asked) = b)
    /\ AfterIncoming(p, asked, expBlocks)
    /\ UNCHANGED <<chainVars, phase, roundVars, up, expHeaders, height,
                   walletVars, historyVars>>

\* Incoming Block that is the next one asked: block_connected downstream.
AcceptBlock(p, b) ==
    /\ phase = "idle"
    /\ p \in up
    /\ peer = p /\ asked # <<>> /\ Head(asked) = b
    /\ AfterIncoming(p, Tail(asked), Received(expBlocks, p))
    /\ processed' = b
    /\ done' = done \cup {b}
    /\ UNCHANGED <<chainVars, phase, roundVars, up, expHeaders, height, historyVars>>

\* Incoming Headers that offers nothing: an empty message, or any from a peer
\* that does not serve blocks.
IgnoreHeaders(p) ==
    /\ phase = "idle"
    /\ p \in up
    /\ expHeaders' = IF p \in Serving THEN Received(expHeaders, p) ELSE expHeaders
    /\ AfterIncoming(p, asked, expBlocks)
    /\ UNCHANGED <<chainVars, phase, roundVars, up, height, walletVars, historyVars>>

\* Incoming Headers from a peer that serves blocks: the first round starts.
IncomingHeaders(p, headers) ==
    /\ phase = "idle"
    /\ p \in up
    /\ p \in Serving
    /\ Len(headers) \in 1..MaxHeaders
    /\ phase' = "adding"
    /\ hq' = headers
    /\ ctx' = [NoContext EXCEPT !.from = p]
    /\ expHeaders' = Received(expHeaders, p)
    /\ UNCHANGED <<chainVars, unwind, conn, queueVars, up, expBlocks, height,
                   walletVars, historyVars>>

-----------------------------------------------------------------------------
(* One round of headers. *)

ReportedAlways(h) == <<h>>

\* chaindb.add_header answers with the header if it stored it, Ok(None) otherwise.
Reported(h) == IF Stores(h) THEN <<h>> ELSE <<>>

BatchTipOnly == [known |-> disk.known, tip |-> tip']

\* chaindb.batch: what was added becomes durable.
Batch == [known |-> known', tip |-> tip']

\* chaindb.add_header for the first header of the queue, under the write lock;
\* the lock is released, after a batch, when the queue is empty or blocks have
\* to be unwound.
AddHeader ==
    /\ phase = "adding"
    /\ hq # <<>>
    /\ LET h == Head(hq)
           roundEnds == Reorganises(h) \/ Tail(hq) = <<>>
       IN  /\ ChainAddHeader(h)
           /\ hq' = Tail(hq)
           /\ conn' = conn \o Reported(h)
           /\ unwind' = IF Reorganises(h) THEN tip ELSE NoBlock
           /\ ctx' = [ctx EXCEPT !.last = IF Stores(h) THEN h ELSE @,
                                !.moved = @ \/ MovesTip(h)]
           /\ phase' = IF roundEnds THEN "downstream" ELSE "adding"
           /\ disk' = IF roundEnds THEN Batch ELSE disk
           /\ skipped' = (skipped \/ (/\ Reorganises(h)
                                      /\ ~(Elements(Branch[h]) \subseteq
                                             Elements(Branch[tip]) \cup Elements(conn'))))
    /\ UNCHANGED <<queueVars, peerVars, walletVars, jumped, crashes>>

\* block_disconnected downstream: the wallet steps back to the parent.
Disconnect ==
    /\ phase = "downstream"
    /\ unwind # NoBlock
    /\ unwind' = IF OnTrunk(Parent(unwind)) THEN NoBlock ELSE Parent(unwind)
    /\ IF Young(unwind)
         THEN /\ wanted' = PopBack(wanted)
              /\ processed' = Parent(unwind)
              /\ done' = done \ {unwind}
              /\ jumped' = (jumped \/ (Young(processed') /\ processed' \notin done))
         ELSE UNCHANGED <<wanted, walletVars, jumped>>
    /\ UNCHANGED <<chainVars, phase, hq, conn, ctx, asked, peer, peerVars, skipped, crashes>>

\* header_connected downstream: the block of the header becomes wanted.
Connect ==
    /\ phase = "downstream"
    /\ unwind = NoBlock
    /\ conn # <<>>
    /\ conn' = Tail(conn)
    /\ wanted' = IF Young(Head(conn)) THEN Append(wanted, Head(conn)) ELSE wanted
    /\ UNCHANGED <<chainVars, phase, hq, unwind, ctx, asked, peer, peerVars,
                   walletVars, historyVars>>

\* The downstream knows everything: next round.
NextRound ==
    /\ phase = "downstream"
    /\ unwind = NoBlock
    /\ conn = <<>>
    /\ hq # <<>>
    /\ phase' = "adding"
    /\ UNCHANGED <<chainVars, roundVars, queueVars, peerVars, walletVars, historyVars>>

\* ... or the end of the Headers message: ask whether the peer knows even more.
EndHeaders ==
    /\ phase = "downstream"
    /\ unwind = NoBlock
    /\ conn = <<>>
    /\ hq = <<>>
    /\ phase' = "idle"
    /\ ctx' = NoContext
    /\ expHeaders' = IF ctx.last # NoBlock
                       THEN GetHeaders(expHeaders, ctx.from) ELSE expHeaders
    /\ height' = IF ctx.moved THEN Height(ctx.last) ELSE height
    /\ AfterIncoming(ctx.from, asked, expBlocks)
    /\ UNCHANGED <<chainVars, hq, unwind, conn, up, walletVars, historyVars>>

\* Timeout::check, when no message came for a second: the expectations of a peer
\* that is late are dropped and the peer is being disconnected.
TimeoutCheck(p) ==
    /\ phase = "idle"
    /\ p \in up
    /\ expHeaders[p] + expBlocks[p] > 0
    /\ expHeaders' = [expHeaders EXCEPT ![p] = 0]
    /\ expBlocks' = [expBlocks EXCEPT ![p] = 0]
    /\ UNCHANGED <<chainVars, phase, roundVars, queueVars, up, height,
                   walletVars, historyVars>>

-----------------------------------------------------------------------------
(* Crash and start. *)

\* The process stops between any two steps: memory is gone.
Crash ==
    /\ phase # "down"
    /\ crashes < MaxCrashes
    /\ crashes' = crashes + 1
    /\ phase' = "down"
    /\ known' = disk.known /\ tip' = disk.tip
    /\ hq' = <<>> /\ unwind' = NoBlock /\ conn' = <<>> /\ ctx' = NoContext
    /\ wanted' = <<>> /\ asked' = <<>> /\ peer' = NoPeer
    /\ up' = {}
    /\ expHeaders' = [p \in Peers |-> 0]
    /\ expBlocks' = [p \in Peers |-> 0]
    /\ height' = Height(disk.tip)
    /\ UNCHANGED <<disk, walletVars, skipped, jumped>>

\* Positions of the trunk above stop and above all blocks older than the wallet.
Above(stop) ==
    LET trunk == Branch[tip]
    IN  {i \in 1..Len(trunk) :
            \A j \in i..Len(trunk) : trunk[j] # stop /\ Time[trunk[j]] >= Birth}

WantedAtStartLate(stop) ==
    LET trunk == Branch[tip]
    IN  IF Young(tip) THEN SubSeq(trunk, Len(trunk) - Cardinality(Above(stop)) + 2, Len(trunk))
                      ELSE <<>>

\* BlockDownload::new: blocks of the trunk that are not processed, from the tip
\* down to stop, or to the wallet's birth.
WantedAtStart(stop) ==
    LET trunk == Branch[tip]
    IN  IF Young(tip) THEN SubSeq(trunk, Len(trunk) - Cardinality(Above(stop)) + 1, Len(trunk))
                      ELSE <<>>

\* The last block of the trunk that is older than the wallet (rescan in main).
BirthBlock == Branch[tip][Len(Branch[tip]) - Cardinality(Above(NoBlock))]

\* main with --rescan: forget the wallet's blocks, start again at its birth.
Rescan ==
    /\ phase = "down"
    /\ processed' = IF processed = NoBlock THEN NoBlock ELSE BirthBlock
    /\ done' = {}
    /\ UNCHANGED <<chainVars, phase, roundVars, queueVars, peerVars, historyVars>>

\* P2PBitcoin::start looks for the trunk below the last processed block.  The
\* block BlockDownload::new stops at is the one read from the database, not the
\* one the search ends at.
Start ==
    /\ phase = "down"
    /\ phase' = "startup"
    /\ unwind' = IF processed = NoBlock \/ OnTrunk(processed) THEN NoBlock ELSE processed
    /\ wanted' = WantedAtStart(processed)
    /\ UNCHANGED <<chainVars, hq, conn, ctx, asked, peer, peerVars, walletVars, historyVars>>

\* block_disconnected for the blocks re-organised away while the node was down.
StartDisconnect ==
    /\ phase = "startup"
    /\ unwind # NoBlock
    /\ unwind' = IF OnTrunk(Parent(unwind)) THEN NoBlock ELSE Parent(unwind)
    /\ processed' = Parent(unwind)
    /\ done' = done \ {unwind}
    /\ UNCHANGED <<chainVars, phase, hq, conn, ctx, queueVars, peerVars, historyVars>>

\* The thread runs.
StartDone ==
    /\ phase = "startup"
    /\ unwind = NoBlock
    /\ phase' = "idle"
    /\ UNCHANGED <<chainVars, roundVars, queueVars, peerVars, walletVars, historyVars>>

-----------------------------------------------------------------------------
Init ==
    /\ ChainInit
    /\ disk = [known |-> {Genesis}, tip |-> Genesis]
    /\ phase = "idle"
    /\ hq = <<>> /\ unwind = NoBlock /\ conn = <<>> /\ ctx = NoContext
    /\ wanted = <<>> /\ asked = <<>> /\ peer = NoPeer
    /\ up = {}
    /\ expHeaders = [p \in Peers |-> 0]
    /\ expBlocks = [p \in Peers |-> 0]
    /\ height = 0
    /\ processed = NoBlock
    /\ done = {}
    /\ skipped = FALSE /\ jumped = FALSE /\ crashes = 0

Next ==
    \/ \E p \in Peers : Connected(p) \/ Disconnected(p) \/ TimeoutCheck(p) \/ IgnoreHeaders(p)
    \/ \E p \in Peers, b \in Blocks : IncomingInv(p, b) \/ DropBlock(p, b) \/ AcceptBlock(p, b)
    \/ \E p \in Peers, headers \in HeadersMessages : IncomingHeaders(p, headers)
    \/ AddHeader \/ Disconnect \/ Connect \/ NextRound \/ EndHeaders
    \/ Crash \/ Rescan \/ Start \/ StartDisconnect \/ StartDone

Spec == Init /\ [][Next]_vars

\* The thread finishes the message it handles and the process starts up.
Internal ==
    \/ AddHeader \/ Disconnect \/ Connect \/ NextRound \/ EndHeaders
    \/ Start \/ StartDisconnect \/ StartDone

\* A download peer that serves blocks sends the blocks it is asked for, and sends
\* announcements now and then.  The thread takes the messages of one channel in
\* their order, so one that was sent is handled however many came before it.
\* Timeout::check is not needed for the queue to move.
FairSpec ==
    /\ Spec
    /\ WF_vars(Internal)
    /\ \A p \in Serving : /\ SF_vars(\E b \in Blocks : peer = p /\ AcceptBlock(p, b))
                          /\ SF_vars(\E b \in Blocks : peer = p /\ IncomingInv(p, b))

-----------------------------------------------------------------------------
\* The type of the header thread's state (struct BlockDownload, the locals of
\* headers, the tables it drives).
TypeOK ==
    /\ known \subseteq Blocks /\ tip \in Blocks
    /\ disk \in [known : SUBSET Blocks, tip : Blocks]
    /\ phase \in {"idle", "adding", "downstream", "down", "startup"}
    /\ hq \in Seq(Blocks) /\ conn \in Seq(Blocks)
    /\ unwind \in Blocks \cup {NoBlock}
    /\ ctx \in [from : Peers \cup {NoPeer}, last : Blocks \cup {NoBlock}, moved : BOOLEAN]
    /\ wanted \in Seq(Blocks) /\ asked \in Seq(Blocks)
    /\ peer \in Peers \cup {NoPeer}
    /\ up \subseteq Peers
    /\ expHeaders \in [Peers -> Nat] /\ expBlocks \in [Peers -> Nat]
    /\ height \in Nat
    /\ processed \in Blocks \cup {NoBlock}
    /\ done \subseteq Blocks
    /\ skipped \in BOOLEAN /\ jumped \in BOOLEAN
    /\ crashes \in 0..MaxCrashes

-----------------------------------------------------------------------------
TrunkBlocks == Elements(Branch[tip])

\* Blocks the thread still intends to give to the wallet.
Queued == Elements(asked) \cup Elements(wanted) \cup Elements(conn)

\* Block replies are expected only from the download peer, and then exactly as
\* many as blocks are asked from it: the bookkeeping of the timeout and the queue
\* of the thread never drift apart, whatever the order of disconnects, timeouts,
\* dropped blocks and re-organisations.  A drift would leave the peer busy with
\* nothing to answer, and block download would stop.
AskedIsExpected ==
    /\ asked # <<>> => peer \in up
    /\ \A p \in Peers : expBlocks[p] > 0 => p = peer /\ expBlocks[p] = Len(asked)

\* No block is queued twice, so none is given twice to the wallet in one run
\* of the process without being unwound in between.
QueuedOnce ==
    LET queue == asked \o wanted \o conn
    IN  Cardinality(Elements(queue)) = Len(queue)

\* Start-up can always find the header of the last processed block ("can not find
\* header for last processed block" panics): headers are durable before the
\* wallet hears about their blocks, whenever the process crashes.
ProcessedIsDurable == processed = NoBlock \/ processed \in disk.known

\* Every block of the trunk younger than the wallet has been processed or is
\* queued, at every step of a re-organisation and after a crash.  Two cases are
\* excluded because the code does lose blocks in them: a re-organisation onto
\* headers that came in earlier rounds, and a crash after processed was moved up
\* by unwinding blocks that were not processed yet.
TrunkCovered ==
    ~skipped /\ (crashes = 0 \/ ~jumped) /\ phase # "down" =>
        \A b \in TrunkBlocks : Young(b) => b \in done \cup Queued

\* The wallet sees the blocks of the trunk after their parents, in the same
\* circumstances.
ParentsFirst ==
    ~skipped /\ (crashes = 0 \/ ~jumped) =>
        \A b \in done \cap TrunkBlocks : Young(Parent(b)) => Parent(b) \in done

\* If from some time on the download peer is one that serves blocks, the queue is
\* drained: no order of timeouts, re-organisations, dropped blocks and restarts
\* leaves blocks wanted that are never asked for (ask_blocks, is_busy_with), or asked
\* and never accepted because the head of the queue is another one (block).
QueueDrains == <>[](peer \in Serving) => <>[](wanted = <<>> /\ asked = <<>>)

-----------------------------------------------------------------------------
(* What the documents say and the code does not keep. *)

\* Nothing is left to be downloaded.
CaughtUp == phase = "idle" /\ wanted = <<>> /\ asked = <<>>

\* README.md, balance: "The first number is the confirmed balance".  The wallet has
\* processed every block of the trunk since its birth once nothing is left.
TrunkProcessed == CaughtUp => \A b \in TrunkBlocks : Young(b) => b \in done

=============================================================================
