# defiads, specified in TLA+

defiads is a node of a peer-to-peer network for advertisements. An ad is kept and
passed on as long as bitcoins are locked to it on the Bitcoin chain: the node follows
the chain as a light client, stores the ads that peers send it with a proof of their
funding, deletes them when the term of the funding ends or a re-organisation undoes
it, and exchanges ads with its peers by means of sketches and invertible Bloom lookup
tables.

This directory holds a model of that program, the TLC configurations that check
it on small instances, and proofs checked by TLAPS.

Contents: [1 The system](#1-the-system) ·
[2 Modules](#2-modules-and-the-code) ·
[3 Runs](#3-runs) · [4 Disagreements](#4-where-code-and-documents-disagree) ·
[5 Proofs](#5-proofs) · [6 Limits](#6-what-is-not-modelled)

## 1 The system

### Parts, their state and their operations

| part | source | state | operations that change it |
|---|---|---|---|
| header chain | murmel (library), `p2p_bitcoin.rs` (`ChainDBTrunk`), `trunk.rs` | headers, tip; batch on disk | add a header, re-organise, write the batch |
| block download | `blockdownload.rs` | queues of wanted and asked blocks, download peer, expected replies | headers, block, inv, connect, disconnect, timeout |
| start of the Bitcoin side | `p2p_bitcoin.rs`, `defiads/main.rs` | last processed block | unwind to the trunk, queue the missing blocks, rescan |
| content store | `store.rs`, `db.rs` | rows of content, cached tables, sketch, `n_keys`, own transactions and publications | `add_content`, `add_header`, `unwind_tip`, `truncate_to_limit`, `block_connected`, `prepare_publication`, `fund`, `get_iblt` |
| content updater | `updater.rs` | open questions, expected replies | PollContent, ContentIBLT, Get, Content, timed poll, timeout |
| table and sketch | `iblt.rs` | buckets; queue of the iterator | insert, delete, substract, next; `min_sketch`, `estimate_diff_size` |
| defiads connections | `p2p_defiads.rs` | addresses dialled earlier | KeepConnected, AddressPoolMaintainer |
| discovery, address table | `discovery.rs`, `db.rs` | slots with addresses, bans | PollAddress, AddressIBLT, `store_address`, `get_an_address` |
| transaction relay | `sendtx.rs` | cache of transactions | announce, serve, re-announce |
| wallet | `wallet.rs`, `db.rs` | coins, accounts | process, unwind, fund, withdraw |
| API, main | `api.rs`, `defiads/main.rs` | none of their own | call the store |
| data types | `ad.rs`, `text.rs`, `content.rs`, `messages.rs`, `error.rs` | none | – |

### How they interact

The *header thread* (`BlockDownload::run`) handles one Bitcoin message at a time. It
adds headers under the write lock of the chain database, makes them durable, releases
the lock, and then calls the store (`BitcoinDriver`): `block_disconnected`,
`header_connected`, and for every block that arrives `block_connected`. The *updater
thread* handles messages of defiads peers and calls `add_content` and `get_iblt`. Both
take the write lock of the store, and `add_content` reads the chain database while it
holds it. The API calls the store from threads of its own. Everything a node keeps is in
one SQLite database and the header database, written in separate transactions.

### What is hard

* The store hears of a re-organisation after other threads can see it, one call per
  block; `add_content` may be between two of its reads of the chain meanwhile.
* Headers are durable before the store is told: a crash in between loses calls, and
  start-up repeats only some of them.
* The queues of block download are corrected by position (`pop_back`) during a
  re-organisation, while blocks move from one queue to the other and back.
* The summaries of the content (tables, sketch, count) are kept up to date
  incrementally, under rules that differ between insertion and deletion.
* A PollContent is a question or an answer, depending on the state of the receiver; both
  ends ask at the same time, and every message registers an expectation whose
  timeout disconnects the peer.
* The iterator of the table works on a queue of buckets that removals make stale.
* Calls that fund or withdraw wait for room in a bounded channel with the database locked,
  and the thread that empties the channel needs the database.
* The coins of the wallet are in memory and in the database, which are changed at different
  moments; a start puts them together from rows that a re-organisation may have made wrong.
* Tables of addresses have a size each end computes by itself; subtracting two of
  different size panics. So does a request for an ad that is gone. A thread that panics
  is gone while the rest of the node goes on.

The hazards, with the line where each bites and the properties that would notice, are
listed in `PROJECT.json`.

### What correct means

1. A stored ad is funded on the trunk and within its term, up to calls that are still
   to be made. 2. What a node tells its peers covers what it stores. 3. The wallet sees
every block of the trunk, parents first. 4. A crash at any step leaves a state the node
can start from. 5. Expected replies and open requests match, so that the timeout hits
peers that are late and only them. 6. The iterator returns a right and maximal part of
the difference, and ends. 7. Nodes that stay in contact end up with the same ads. 8. A
confirmed own ad is stored until its term ends. 9. A transaction whose id was returned is
stored and reaches the network. 10. The wallet spends no coin twice, none that does not
exist, and loses none.

## 2 Modules and the code

```
ChainDB ──┬── BlockDownload ──┐
          └── ContentStore ───┴── Node      Outbox ◄── SendTx      Wallet
IBLT      Sync      AddressBook      Discovery
proofs:     ChainProofs, BlockDownloadProofs, NodeProofs, SendTxProofs, WalletProofs
instances:  MCBlockDownload, MCNode, MCIBLT, MCSync, MCAddressBook, MCDiscovery,
            MCSendTx, MCWallet
```

**ChainDB** is the header database of the library murmel, as the node uses it. A tree of
blocks is a constant (`Branch` gives the path from genesis to every block, `Work` its
work); `known` and `tip` are the variables.

**BlockDownload** is `blockdownload.rs` with the start-up code in `p2p_bitcoin.rs`. One
action per message: `Connected`, `Disconnected`, `IncomingInv`, `AcceptBlock` and
`DropBlock` (fn `block`), `IncomingHeaders` with `AddHeader`, `Disconnect`, `Connect`,
`NextRound`, `EndHeaders` (fn `headers`, split where locks are released), `TimeoutCheck`.
`Start`, `StartDisconnect`, `StartDone` are `P2PBitcoin::start`; `Crash` may happen
at any step and leaves `disk` and `processed`. The list of headers to unwind is
determined by its first element, so `unwind` is one block. `done`, `skipped` and
`jumped` are history variables.

**ContentStore** is `store.rs` with the content and txout tables. A row keeps block,
height, term and weight of an ad, the weight cut to `WeightRange` values (a u32). A table (IBLT) is the function that says how often
every ad was inserted net of deletions, the sketch is the set of ads it was computed
from. The checks of a proof are the flag `genuine`. `add_content` is `LocateContent`,
`CheckContent`, `StoreContent`, `EndContent`, because the chain may move between them;
`block_connected` is `StoreBlockConnected` (the transaction) and one `Publish` per ad.

**Node** composes the two: every callback of the header thread is one joint action with
the operation of the store it calls. `stranded` and `lapsed` record calls a crash has
lost for good.

**IBLT** is the table of `iblt.rs` and its iterator. A bucket is the set of keys that
are in it an odd number of times (which determines key sum and hash sum) and the count.
Where the hash functions place the keys is chosen in the initial state, over all
possibilities. `Substract` includes `IBLTIterator::new`; `Skip`, `Peel`, `Finish` are the
branches of `next`.

**Sync** is the updater of several nodes. `net` holds the messages on the way
over reliable, ordered links (TCP) that may break and lose what is on the way. The store
is reduced to the set of ads, one table, the sketch and `n_keys`; ads have length one,
and all nodes follow the same chain, each at its own pace. `estimate_diff_size` is
computed exactly where the code uses `f32`. `OnContentIBLT` asks for all that is missing, or
for any part of it if the inversion fails; `OnGet` delivers ads up to the first that is not
in the store any more, where `read_content` fails and the thread panics (`panicked`).
`TimedPoll` polls whatever is still open with the peer. `earlier` is the set of addresses
KeepConnected has dialled, which it does not dial again.

**AddressBook** is the address table of one network (`db.rs`) and the threads that use
it; `p2p_bitcoin.rs` and `p2p_defiads.rs` have the same form, so one module stands for
both. `StoreAddress` is `store_address` with its slots: an address has one slot (the hash
of the code is the constant `Slot`), a row is merged with what is noted of the same
address and otherwise makes room only if it is banned or old. `KeepConnected` dials what
`get_an_address` gives or a seed, `Established`, `Refused` and `Disconnected` are what
becomes of it, `PoolMaintains` is the AddressPoolMaintainer taking one event from its
channel `pool`, `DiscoveryBans` and `LearnAddresses` are what Discovery writes. A crash
keeps the table and loses channel and connections. `bannedAt` and `notedAt` are history
variables.

**Discovery** is `discovery.rs` at several nodes, over links like those of Sync. Of the
address table it keeps `listed`, the addresses seen lately and not banned, which sketch and
table are computed from (AddressBook has the rows). A table carries its size, chosen by
`TableSize` from the estimate; `Learned` is what the iterator may return, any part of what
differs, as it may fail at any point; `Stored` is what `store_address` may make of it, as an
address may be refused or take the place of another. `Change` is what the other threads and
the passing of days do to the list. `OnAddressIBLT` contains the assertion of `substract`: a
thread that fails it is in `panicked` and does nothing more until `Restart`. `overlapped`
is a history variable.

**SendTx** is `sendtx.rs` with the threads that meet it. `FundCommit` and `FundSend` are
`fund` and `withdraw` of the store, split where they wait for room in `channel`; in between
`DbFree` is false, and the SendTx thread (`ReadUnconfirmed`, `Reannounce`) and the header
thread (`BlockConnected`) have to wait. `OnGetData`, `OnInv`, `OnTx`, `OnOutgoing`,
`OnOther` are the arms of `run`. A crash leaves the table `txout`. **Outbox** says what this
promises the user: a transaction is stored, then known to the network, then confirmed, in
this order, and its id is returned only once it is stored.

**Wallet** is `wallet.rs` with its callers in `store.rs`, its tables in `db.rs` and its
start in `main.rs` and `P2PBitcoin::start`. `Spend` is `fund` or `withdraw`: the inputs
leave the coins when the transaction is signed, then the database commits or fails.
`BlockConnected` and `UnwindTip` are the calls of the header thread, `Restart` and `Rescan`
rebuild memory from `disk`. Values are unsigned and wrap at `Width`. `seen`, `again`
and `limbo` are history variables. Chain, miners and payers are reduced: a block holds
at most one transaction of the wallet, and a re-organisation replaces the tip by two
blocks; longer ones are in BlockDownload and Node.

The modules are tied to the code definition by definition in the `map` of
`PROJECT.json`. Definitions such as `ReceivedUnchecked`, placed before the definition they
vary (`Received`), are deliberate faults: with one of them in place the property it is
paired with must fail, which shows that the property depends on that code.

## 3 Runs

### Runs that pass

| run | instance | properties |
|---|---|---|
| `block_download` | seven blocks in two branches, two peers of which one serves blocks, messages of up to 3 headers, one crash | `AskedIsExpected`, `QueuedOnce`, `ProcessedIsDurable`, `TrunkCovered`, `ParentsFirst`, `QueueDrains` |
| `node` | four blocks in two branches, an ad of a peer funded on both and a heavier own ad mined on both, room for one, one cached table, one crash | `ContentOnTrunk`, `ContentUnexpired`, `SummariesCover`, `OwnAdStored` |
| `iblt` | three keys inserted up to twice on each side, three buckets, all placements in one or two buckets | `EntriesSound`, `ReturnedOnce`, `QueuedAreSingle`, `StopsAtCore`, `ErrorIffUnbalanced`, `IterationEnds` |
| `sync` | two nodes, one with room for one ad, two ads of which one expires, one fault (link lost, restart, failed inversion, overlapping poll) | `RepliesExpected`, `Converges`, `DifferenceComputed` |
| `address_book` | addresses in two slots of which one is shared, a channel of one event, four points in time, one crash | `PeersRemembered`, `BanHolds`, `EveryAddressTried` |
| `discovery` | two nodes, two addresses, tables of two sizes, two faults (links lost, restarts, overlapping polls), one change of a list | `TablesFit`, `ExchangeTimed`, `ExchangesEnd` |
| `relay` | an own and a foreign transaction, a silent and a talking peer, a channel of two messages, a cache of one, one crash or lost connection | `FundAnsweredOrDeadlocked`, `ImplementsOutbox`, `ReachesNetwork` |
| `wallet` | three transactions, five headers, two keys of each account, one restart, rescan or failed store | `NoDoubleSpend`, `SpendsExisting`, `NothingLost`, `Balanced` |

Each property is stated in words above its definition. Type invariants are checked along.
The runs have between 10^5 and 4 · 10^6 distinct states and take at most about two and a
half minutes each.

### Bounds and why they are enough

*Header thread and store.* `MaxHeaders` 3 (2 in `node`) lets one message re-organise the
chain and go on, and lets a branch arrive in one or several messages. The tree of
`block_download` has a branch that overtakes another one twice (a2, b3, a4), the smallest
in which a queue holds blocks of three generations. `AskLimit` 2 (1000 in the code) makes
the queue of asked blocks fill up. One crash can hit every step, also of the start after a
re-organisation; a second one would find a state of the same kind. In `node` ad x is funded
on both branches, on one of them for its own block only, and y is heavier, so that storing,
refunding, truncation, expiry and unwinding all happen; `MaxKeys` 2 lets an ad be
delivered twice.

*Tables.* Three buckets and three keys of up to two buckets each give all the small cores
that cannot be peeled (two keys in the same buckets, cycles of three); two copies of a key
are what a table holds that a second delivery was inserted in.

*Exchange of ads and addresses.* `MaxFaults` bounds the links that are lost, the restarts,
the inversions that fail and the polls that are sent while an exchange is open, all together;
one fault in Sync and two in Discovery reach panics of both kinds. `MaxKeys` is how
often an ad may be added again before a restart computes the summaries anew; a node of Sync
beyond this bound can always be restarted, so that the bound never makes the system stop.
`MaxChanges` bounds how often the list of a node of Discovery changes by itself, to
any other list. Tables of 1 and 4 entries stand for those of 100 and 400. Nodes of Discovery
that have lost each other, or whose threads have panicked, really stop: deadlock is not checked.

*Addresses.* The clock goes from 3 to 6, with `BAN_TIME` 1 and `OLD_CONNECTION` 2 where the
code has one and five days: a ban and a connection can both become old while the run
lasts, and the ban first. It starts at 3 so that 0, the code's value for "never", is old
from the start. With one event in the channel an event can be handled late or be lost, and
the dispatcher has to wait.

*Relay.* With a cache of one entry a foreign transaction evicts the own one. Peers can
fill the channel of two messages at any time, also while `fund` waits for room.

*Wallet.* Five headers, genesis included, are the least with which a start gives blocks to
the wallet that it has processed before. With a deposit of 7 and a fee of 3, funding 5
gives a change, withdrawing 6 a change that is dust, withdrawing everything none, and
withdrawing a change of 2 is an amount below the fee. Three transactions are a
deposit and two that compete for what it paid, or a chain of spends. `LookAhead` 1 with two
keys per account makes a key lie beyond the look-ahead after a restart.

### Fairness

Weak fairness of what a loop of the code does is written for that loop; strong fairness
appears where other messages may come in between.

* `IBLT!FairSpec`: the caller iterates until there is no entry (a `for` loop).
* `BlockDownload!FairSpec`: the thread finishes the message it handles (weak). A serving download
  peer sends what it is asked for and announces blocks now and then (strong, as other messages and
  crashes may come in between; they are handled in the order of one channel). Nothing is
  assumed of the timeout.
* `Sync!Fairness`: every thread handles what is in its channel, polls every minute, the
  timeout is checked about every second, KeepConnected dials, and a node learns of blocks
  that others know (the chain may stop at any height). A peer is disconnected by the
  timeout only when nothing is on the way between the two; a slower answer is covered by
  `Drop`. `Sync!AttendedSpec` adds what the code does not do: somebody restarts a node that
  has no peer and no address left to dial, or whose updater has panicked. Without this the
  property does not hold, as the run `sync_isolated` shows.
* `Discovery!FairSpec`: every thread that has not panicked handles what is in its channel, and
  the timeout is checked. Nothing is assumed of polls and connections.
* `AddressBook!FairSpec`: KeepConnected runs every ten seconds, the AddressPoolMaintainer
  handles its events, and an attempt to connect ends one way or the other.
* `SendTx!Fairness`: the threads run (weak) and minutes pass. Peers connect, send some
  message now and then (the thread looks at the clock only after a message), and those that
  are not silent ask for what is announced to them. The code draws the peer of an
  announcement at random: strong fairness says that it does not avoid a peer for ever.

## 4 Where code and documents disagree

These runs check what a document or comment says and find that the code does otherwise.
Each has an entry under `findings` with the lines.

| run | the code |
|---|---|
| `trunk_processed` | loses a wanted block of the new trunk when it unwinds a block that was already asked for |
| `republish_after_reorg` | does not publish an own ad again that is mined on the other branch |
| `sync_isolated` | never dials a lost peer again |
| `fund_waits` | does not return from `fund` if the channel to the SendTx thread is full at the wrong moment: that thread waits for the database `fund` has locked |

The properties of section 3 are stated with such cases excluded (`skipped`, `jumped`,
`stranded`, `lapsed`, `again`, `limbo`, `overlapped`, `Deadlocked`, `NoDuplicates`), so that they say what does hold. The
models have more behaviours of this kind, which no run is devoted to.

*Chain and store*

* headers of side branches are reported as new tips and their blocks given to the wallet
  (`Connect`, `AcceptBlock`);
* a crash between the batch and the callbacks leaves an ad of an abandoned block in the
  store if start-up does not unwind that block (`stranded`);
* unwinding a block marks its parent as processed even if it never was, and a start
  goes on above it (`jumped`);
* a crash between confirming an own funding and adding its ad loses the ad, and an own ad
  funded for more than `MAX_TERM` is never stored (the conditions of `OwnAdStored`);
* `n_keys` counts an ad again that is delivered again, and is not counted down by a deletion
  while no table is cached; the sketch is not computed again then either, so that an ad
  that expired still shows in it (`Delete`);
* own publications are not truncated to the storage limit (`Publish`);
* an ad in the last block of its term is deleted when the header of that block comes and
  accepted again when a peer sends it (`Expired`, `Current`);
* the weight is cut to 32 bits: an amount of 2^32 satoshi per byte counts as none (`Weight`).

*Exchange of ads and addresses*

* an ad that is added twice has count 2 in the cached tables, which hides it from a peer that
  lacks it: hence the proviso `NoDuplicates` of `DifferenceComputed` and `Converges`;
* an updater that is asked for an ad that has expired or been truncated meanwhile panics:
  `read_content` fails where its caller handles only "none" (`OnGet`). The node goes on
  without it, and its peers disconnect it after a timeout;
* an iteration ends without error when what is left cancels in the counts
  (`ErrorIffUnbalanced`);
* a node without room for an ad of its peer fetches and drops it again and again (`Converges`
  says that it keeps the heavier ones);
* a poll that is answered and a table that is sent are registered as questions the peer does
  not owe an answer to, so that the timeout disconnects it (`PollContent`, `OnPollReply`,
  `TimeoutCheck`);
* two sets with equal sketches are taken for equal, and a small difference is rounded down to
  none: such nodes never exchange what differs (`EstimateDiffSize`);
* the assertion on the sizes of tables can fail when a node polls a peer again before the last
  exchange is through, which the timer does not look at: the discovery thread is gone then
  (`OnAddressIBLT`, the condition of `TablesFit`);
* an address that was ever banned and shares its slot can be displaced however recent its
  last connection is (the condition of `PeersRemembered`);
* a banned address that shares its slot loses the ban when the other one takes the slot,
  and seeds and peers of the command line are dialled without a look at it (the
  conditions of `BanHolds`);
* Discovery notes the ban of a defiads peer in the table of the Bitcoin network, and does
  not commit what it notes of connections (`DiscoveryBans`, `OnConnected`).

*Wallet*

* an amount below the fee wraps around and gives a transaction that pays more than its
  inputs, which the network does not take while the wallet considers them spent (`Minus`, the
  second case of `Balanced`);
* a coin whose transaction is mined again is spendable again although a stored
  transaction spends it (`again`);
* the inputs of a transaction that could not be stored are gone until the next start
  (`limbo`);
* `deposit_address` and `fund` do not store the account they take a key from: after a restart
  the next key is the first again, and keys beyond the look-ahead are not watched (the last
  condition of `NothingLost`);
* a withdrawal without change is never marked confirmed and announced for ever (`StoreCoins`);
* a start from a processed block off the trunk gives the wallet every block since its birth
  again (`AboveProcessed`).

## 5 Proofs

TLAPS proves the following for every value of the constants: every tree of blocks, set of
peers, ads and transactions, every capacity, limit, amount and number of faults. The
assumptions are the named ones of the modules: the tree is well-formed and work
grows along it, genesis is older than the wallet, lengths are positive, sets of ads are
finite, own and foreign transactions differ, capacities are positive.

**BlockDownloadProofs.** `TypeCorrect` (`[]TypeOK`), `ChainCorrect` (`[]ChainInv`),
`StartupFindsProcessed` (`[]ProcessedIsDurable`), `ExpectationsMatch`
(`[]AskedIsExpected`). `ProcessedIsDurable` is not inductive: `processed` is set to a block
from `asked`, which comes from `wanted`, which comes from `conn` after the batch was
written, or to the parent of an unwound block. `DurableInv` says that all of these are
on disk (or in memory while the round is adding), and `ChainInv` says that memory and disk
agree outside a round, that both are closed under parents and that the tip has the most
work, so that unwinding stays within them. `TypeOK` itself needs `ChainInv`: the parent of
an unwound block exists because it is never genesis.

**NodeProofs.** `StoredOnTrunk` (`[]ContentOnTrunk`), `StoredUnexpired`
(`[]ContentUnexpired`), `StoredCovered` (`[]SummariesCover`) and `NodeTypeCorrect`. The
invariant `NodeInv` adds to those of the header thread: `RowInv`, every row and
the ad of an `add_content` in progress is `Safe`, that is, in a block of the trunk *on disk*
or one still to be unwound; `TermInv`, the same for terms (`Fresh`); `PublishInv`, the thread
that publishes is not in the middle of a message. The trunk on disk rather than the tip is
what makes it inductive: during a round the tip runs ahead, and nobody can read it because
of the write lock. The step from one to the next state splits by action; `SafeKept` and
`FreshKept` treat all steps of the header thread once, `DeleteStep` and `InsertStep` the
operations of the store.

**SendTxProofs.** `RelayImplementsOutbox` (`Spec => ImplementsOutbox`): the relay refines
Outbox, where the status of a transaction is computed from `txout` and `known`. The step
that needs an argument is `PeerGets`, by which the network gets to know a transaction: Outbox
wants it stored. The invariant `Inv` (`HandsOutStored`) says that everything that is in the
channel, the cache, on the wire or known to the network is stored, if it is the node's own;
it holds because `fund` commits before it sends, and because a crash keeps `txout`.

**WalletProofs.** `WalletSpendsOnce` (`[]NoDoubleSpend`). Memory and database are
out of step, so the invariant has a part for each: `MemoryFree`, no stored transaction spends
a coin in memory; `DiskFree`, a coin on disk that a stored transaction spends is spent by an
*unconfirmed* one, so that `read_coins` removes it at the next start. The latter is where
a confirmation matters: `store_coins` marks a transaction confirmed in the same commit
that replaces the coins.

**ChainProofs** has the facts about branches that the first two use.

Only model-checked: `QueuedOnce`, `TrunkCovered`, `ParentsFirst`, `OwnAdStored`,
`SpendsExisting`, `NothingLost`, `Balanced`, and all of IBLT, Sync, AddressBook and Discovery.
Liveness (`QueueDrains`, `IterationEnds`, `Converges`, `EveryAddressTried`, `ExchangesEnd`,
`FundAnsweredOrDeadlocked`, `ReachesNetwork`) is beyond the prover.

## 6 What is not modelled

* Signatures, key derivation, Merkle proofs, the encoding of messages, text of ads: data that
  the properties do not look into. Hashes are assumed not to collide. `ad.rs`, `text.rs`,
  `content.rs`, `messages.rs` and `error.rs` have no state that several steps change.
* The weight of a transaction and the fee computed from it: one `Fee`.
* Connections that peers open, and `last_seen`, which makes some choices of
  `get_an_address` more probable and selects what Discovery tells.
* Panics by I/O errors of the database, except a failed store of `fund` and `withdraw`. Panics
  of the updater on an ad that is gone and of Discovery on tables that differ in size are modelled.
* Two connections between the same two nodes at the same time; tables of different sizes in
  Sync (Node and Discovery have them); re-organisations in Sync (Node has them).
* The time between messages: that a silent download peer is ever left while others talk
  (`blockdownload.rs`, the check runs only after a second without a message).
* Argument parsing, configuration, TLS and the reading calls of the API. Conversions there that
  have no state behind them: the term is cut to 16 bits (`api.rs`), a malformed amount to
  withdraw counts as none, that is, as everything (`api.rs`), and the storage limit is
  multiplied by 10^6 where its help says GB (`main.rs`).
