-------------------------------- MODULE Node --------------------------------
(***************************************************************************)
(* A node: the header thread (BlockDownload) driving the content store     *)
(* (ContentStore) through BitcoinDriver, the updater thread adding ads that *)
(* peers send, and the user preparing and funding ads.                      *)
(*                                                                         *)
(* The threads meet at two locks.  The header thread holds the write lock  *)
(* of the chain database during a round (phase "adding"): nobody reads the *)
(* chain then.  It releases it before it calls the store, so that others   *)
(* see a trunk the store has not heard of.  A call of the store holds the  *)
(* write lock of the store: it waits until an add_content in progress ends. *)
(***************************************************************************)
EXTENDS BlockDownload, ContentStore

CONSTANT
    MaxKeys         \* bound: insertions since the last time a summary was computed

ASSUME KeysAssumption == MaxKeys \in Nat

VARIABLES
    stranded,       \* history: blocks a lost call of unwind_tip was about
    lapsed          \* history: the call of add_header for the tip was lost

nodeVars == <<vars, storeVars, stranded, lapsed>>

lossVars == <<stranded, lapsed>>

\* The header thread is not in the middle of block_connected.
HeaderThreadFree == publishing = {}

\* The chain database can be read.
ChainReadable == phase # "adding"

Running == phase \notin {"down", "startup"}

-----------------------------------------------------------------------------
(* The header thread. *)

\* Messages and steps in which the store is not called.  A block with an own
\* funding is mined after the funding was sent.
HeaderThread ==
    /\ HeaderThreadFree
    /\ \/ \E p \in Peers : Connected(p) \/ Disconnected(p) \/ TimeoutCheck(p) \/ IgnoreHeaders(p)
       \/ \E p \in Peers, b \in Blocks : IncomingInv(p, b) \/ DropBlock(p, b)
       \/ \E p \in Peers, headers \in HeadersMessages :
             /\ \A b \in Elements(headers) : \A f \in Mined[b] : sent[f] # "no"
             /\ IncomingHeaders(p, headers)
       \/ AddHeader \/ NextRound \/ EndHeaders \/ StartDone
    /\ UNCHANGED <<storeVars, lossVars>>

\* BitcoinDriver::block_connected
BlockConnected(p, b) ==
    /\ AcceptBlock(p, b)
    /\ StoreBlockConnected(b)
    /\ UNCHANGED lossVars

\* BitcoinDriver::header_connected
HeaderConnected ==
    /\ Connect
    /\ IF Young(Head(conn)) THEN StoreAddHeader(Head(conn)) ELSE UNCHANGED storeVars
    /\ lapsed' = (lapsed /\ ~(Young(Head(conn)) /\ Head(conn) = tip))
    /\ UNCHANGED stranded

\* BitcoinDriver::block_disconnected
BlockDisconnected ==
    /\ Disconnect
    /\ IF Young(unwind) THEN StoreUnwindTip(unwind) ELSE UNCHANGED storeVars
    /\ UNCHANGED lossVars

\* BitcoinDriver::block_disconnected at start-up, whatever the age of the block.
BlockDisconnectedAtStart ==
    /\ StartDisconnect
    /\ StoreUnwindTip(unwind)
    /\ UNCHANGED lossVars

\* The rest of block_connected, still on the header thread.
PublishOwn ==
    /\ \E proof \in publishing : Publish(proof)
    /\ UNCHANGED <<vars, lossVars>>

-----------------------------------------------------------------------------
(* The updater thread. *)

\* Steps of the Content message that read the chain.
UpdaterReads ==
    /\ Running /\ ChainReadable
    /\ \/ \E proof \in Proofs :
             /\ n_keys < MaxKeys
             /\ \A s \in Sizes : iblts[s] # NoTable => iblts[s][proof.ad] < MaxKeys
             /\ LocateContent(proof)
       \/ CheckContent
    /\ UNCHANGED <<vars, lossVars>>

\* Steps that do not, and the ContentIBLT and PollContent messages that make the
\* updater compute a table.
UpdaterWrites ==
    /\ Running
    /\ StoreContent \/ (\E busy \in BOOLEAN : EndContent(busy)) \/ (\E s \in Sizes : GetIblt(s))
    /\ UNCHANGED <<vars, lossVars>>

-----------------------------------------------------------------------------
(* The user prepares and funds ads, in any order. *)

User ==
    /\ phase # "down"
    /\ \E f \in Fundings : Prepare(f.ad) \/ Fund(f)
    /\ UNCHANGED <<vars, lossVars>>

-----------------------------------------------------------------------------
(* The process. *)

\* Blocks that unwind_tip has not been called for and will not be at start-up,
\* because the walk from the last processed block does not meet them.
Strands(b) == PendingUnwind(b) /\ (processed = NoBlock \/ ~OnBranch(b, processed))

ProcessCrash ==
    /\ Crash
    /\ StoreCrash
    /\ stranded' = stranded \cup {b \in Blocks : Strands(b)}
    /\ lapsed' = (lapsed \/ disk.tip \in Elements(conn))

\* Start-up with the option --rescan: the walk will start below the old block.
ProcessRescan ==
    /\ Rescan
    /\ StoreRescan
    /\ stranded' = stranded \cup
          {b \in Blocks : processed # NoBlock /\ OnBranch(b, processed) /\ ~OnTrunk(b)}
    /\ UNCHANGED lapsed

ProcessStart ==
    /\ Start
    /\ StoreStart
    /\ UNCHANGED lossVars

-----------------------------------------------------------------------------
NodeInit ==
    /\ Init
    /\ StoreInit
    /\ stranded = {}
    /\ lapsed = FALSE

NodeNext ==
    \/ HeaderThread
    \/ \E p \in Peers, b \in Blocks : BlockConnected(p, b)
    \/ HeaderConnected \/ BlockDisconnected \/ BlockDisconnectedAtStart \/ PublishOwn
    \/ UpdaterReads \/ UpdaterWrites
    \/ User
    \/ ProcessCrash \/ ProcessRescan \/ ProcessStart

NodeSpec == NodeInit /\ [][NodeNext]_nodeVars

\* The type of the state of a node: header thread, store and lost calls.
NodeTypeOK ==
    /\ TypeOK
    /\ StoreTypeOK
    /\ stranded \subseteq Blocks
    /\ lapsed \in BOOLEAN

-----------------------------------------------------------------------------
\* The node still accounts for block b: it is on the trunk, or unwind_tip will be
\* called for it (now, or at the next start, which walks down from the last
\* processed block).
Accounted(b) ==
    \/ OnTrunk(b)
    \/ PendingUnwind(b)
    \/ phase = "down" /\ processed # NoBlock /\ OnBranch(b, processed)

\* Every stored ad that is funded in a block younger than the wallet (others are not
\* unwound while the node runs) is funded in one of the trunk, or in one that
\* unwind_tip is still to be called for: an add_content that located its block before a
\* re-organisation and stores the ad after it leaves nothing behind, and neither
\* does a crash between two calls, unless the call that is lost is one start-up
\* does not repeat (stranded).
ContentOnTrunk ==
    \A a \in Stored : Young(content[a].block) /\ content[a].block \notin stranded =>
        Accounted(content[a].block)

\* No stored ad is beyond its term, except while add_header for the tip is still
\* to be called, whatever the interleaving of the threads, and the height a
\* re-organisation leads to is never missed.  The tests of add_content (>=) and
\* delete_expired (<=) overlap in the last block of the term: an ad may be deleted
\* there and accepted again, and is stored or not.
ContentUnexpired ==
    Young(tip) /\ tip \notin Elements(conn) /\ ~lapsed =>
        \A a \in Stored : content[a].height + content[a].term >= Height(tip)

\* What the node tells its peers covers what it has: every stored ad is in every
\* cached table, in the sketch and counted by n_keys.  An ad that is missing there
\* would be sent by every peer again and again, and a table from which an ad is
\* deleted that was never inserted could not be inverted.
SummariesCover ==
    /\ \A s \in Sizes : iblts[s] # NoTable =>
          \A a \in Ads : iblts[s][a] >= (IF a \in Stored THEN 1 ELSE 0)
    /\ Stored \subseteq sketch
    /\ n_keys >= Cardinality(Stored)

\* An own ad that was prepared, funded and confirmed in a block of the trunk is in
\* the store as long as its term lasts, or about to be added: block_connected
\* publishes it, and no interleaving of blocks, headers and other calls removes
\* it, not even to make room for the ads of others.  This holds for an ad nobody
\* else funds, that fits beside those of at least its weight, as long as the node
\* neither crashes nor re-organises onto headers of an earlier message.
OwnAdStored ==
    crashes = 0 /\ ~skipped =>
        \A f \in Fundings :
            /\ sent[f] = "ready" /\ f.term <= MAX_TERM
            /\ Size({x.ad : x \in {y \in Proofs \cup Fundings : Weight(y) >= Weight(f)}})
                 <= StorageLimit
            /\ \A p \in Proofs : p.ad # f.ad
            /\ \A g \in Fundings \ {f} : g.ad # f.ad
            /\ \E b \in TrunkBlocks : txout[f] = b /\ Height(b) + f.term > Height(tip)
            => f.ad \in Stored \cup {p.ad : p \in publishing}

-----------------------------------------------------------------------------
(* What the documents say and the code does not keep. *)

\* README.md: an ad is replicated "as long as there is some bitcoin locked to it".
\* Stated for own fundings in blocks of the trunk the wallet has processed, when
\* nothing is left to be downloaded.
FundedAdStored ==
    CaughtUp /\ Unlocked =>
        \A f \in Fundings :
            /\ sent[f] = "ready"
            /\ \E b \in TrunkBlocks \cap done :
                  f \in Mined[b] /\ Height(b) + Least(f.term, MAX_TERM) > Height(tip)
            => f.ad \in Stored

=============================================================================
