------------------------------- MODULE Wallet -------------------------------
(***************************************************************************)
(* The wallet of a node: wallet.rs, the calls the content store makes on   *)
(* it (store.rs: deposit_address, fund, withdraw, block_connected,         *)
(* unwind_tip), what the database keeps of it (db.rs: coins, txout,        *)
(* account, processed) and how it is rebuilt when the node starts          *)
(* (main.rs, P2PBitcoin::start).                                           *)
(*                                                                         *)
(* Three actors share it.  A client calls the api; the header thread moves *)
(* the trunk and hands unwound headers and downloaded blocks to the store; *)
(* the outside world pays deposit addresses and mines.  The node may stop  *)
(* at any moment, and only what a database transaction committed is left.  *)
(*                                                                         *)
(* The arithmetic is that of u64, scaled to Width values.                  *)
(***************************************************************************)
EXTENDS Integers, FiniteSets, Sequences, FiniteSetsExt, Functions

CONSTANTS
  Deposits,    \* the values a payment to a deposit address may have
  FundAmounts, WithdrawAmounts,    \* the amounts a client asks for
  Fee,         \* the fee a signed transaction of the wallet comes to
  DUST,        \* the largest output the network would not relay
  Width,       \* the number of values of a u64
  Term,        \* the term of an ad: its coin is locked for so many blocks
  LookAhead,   \* KEY_LOOK_AHEAD: the keys watched beyond the last one used
  MaxTx,       \* bound: transactions that touch the wallet
  MaxBlocks,   \* bound: headers, the genesis block included
  MaxKeys,     \* bound: keys taken from an account
  MaxFaults    \* bound: restarts and failed stores

ASSUME WalletAssumption ==
  /\ Deposits \cup FundAmounts \cup WithdrawAmounts \subseteq 0 .. Width - 1
  /\ {Fee, DUST, Term, MaxTx, MaxBlocks, MaxKeys, MaxFaults} \subseteq Nat
  /\ Width \in Nat \ {0} /\ LookAhead \in Nat \ {0} /\ Fee > 0

VARIABLES
  txs,        \* transactions made so far, by number: deposits and the wallet's own
  blocks,     \* headers by number: the parent and the transaction inside (0: none)
  trunk,      \* the header trunk, genesis first
  undo,       \* a header the chain disconnected and the store is yet to unwind
  wanted,     \* the blocks the header thread will hand to the store, in order
  coins,      \* Coins: the confirmed coins, each with the block of its proof
  next,       \* per account, the key next_key hands out
  watched,    \* per account, how many keys are instantiated
  disk,       \* the database: coins, txout, account, processed
  given,      \* deposit addresses handed out in the node's life
  seen,       \* trunk or stale blocks the wallet has processed
  again,      \* coins found in a block although a stored transaction spends them
  limbo,      \* coins spent by a transaction whose store failed
  faults

vars == <<txs, blocks, trunk, undo, wanted, coins, next, watched, disk, given,
          seen, again, limbo, faults>>

chain == <<blocks, trunk, undo, wanted>>
history == <<given, seen, again, limbo, faults>>

Accounts == {"receive", "change"}

----------------------------------------------------------------------------
(* Transactions, blocks and the trunk.                                      *)

\* A coin is an output that pays the wallet: its transaction, the account and
\* index of its key, its value and the blocks it stays locked (0: not locked).
Coin(t, account, kix, value, csv) ==
  [tx |-> t, account |-> account, kix |-> kix, value |-> value, csv |-> csv]

\* The coins the transaction inside a block spends and those it creates.
Inputs(b) == IF blocks[b].tx = 0 THEN {} ELSE txs[blocks[b].tx].inputs
Outputs(b) == IF blocks[b].tx = 0 THEN {} ELSE txs[blocks[b].tx].outputs

\* Trunk::get_height and Trunk::len: the genesis block has height 0.
OnTrunk(b) == b \in Range(trunk)
Height(b) == (CHOOSE i \in DOMAIN trunk : trunk[i] = b) - 1
Length == Len(trunk) - 1

Value(S) == MapThenSumSet(LAMBDA c : c.value, S)

\* Coins::available_balance and choose_inputs look at the confirmed coins
\* whose block is on the trunk and whose lock, if any, has run out.
Available ==
  {c.coin : c \in {d \in coins : /\ OnTrunk(d.block)
                                 /\ Height(d.block) + d.coin.csv <= Length}}

----------------------------------------------------------------------------
(* Keys.                                                                    *)

\* Account::do_look_ahead: keys are instantiated LookAhead beyond one in use.
Ahead(w, used) ==
  [a \in Accounts |->
     Max({w[a]} \cup {c.kix + LookAhead : c \in {d \in used : d.account = a}})]

NextKeyUnwatched(a) ==
  /\ next[a] < MaxKeys
  /\ next' = [next EXCEPT ![a] = @ + 1]
  /\ UNCHANGED watched

\* Account::next_key
NextKey(a) ==
  /\ next[a] < MaxKeys
  /\ next' = [next EXCEPT ![a] = @ + 1]
  /\ watched' = [watched EXCEPT ![a] = Max({@, next[a] + LookAhead})]

\* An output is the wallet's if its script is that of an instantiated key. The
\* contract account is stored with every funding, so its scripts are known.
Mine(w, S) == {c \in S : c.account = "contract" \/ c.kix < w[c.account]}

\* ContentStore::deposit_address: the account is not stored.
DepositAddress ==
  /\ NextKey("receive")
  /\ given' = Max({given, next["receive"] + 1})
  /\ UNCHANGED <<txs, chain, coins, disk, seen, again, limbo, faults>>

----------------------------------------------------------------------------
(* Wallet::fund and Wallet::withdraw, with what the content store adds.     *)

\* u64 subtraction as the release build does it.
Minus(a, b) == (a - b) % Width

\* The checks of the loop: on its first pass the fee is still 0.
Payable(amount) == amount > DUST /\ Minus(amount, Fee) > DUST

ChangeOfPayment(t, total, amount) ==
  {Coin(t, "change", next["change"], total - Minus(amount, Fee), 0)}

\* The output that comes back to the change account, unless it is dust.
Change(t, total, amount) ==
  IF total > amount /\ total - amount > DUST
  THEN {Coin(t, "change", next["change"], total - amount, 0)}
  ELSE {}

\* The output of a funding is a coin of the contract account, locked for the
\* term; that of a withdrawal belongs to somebody else.
Paid(t, kind, amount) ==
  IF kind = "fund"
  THEN {Coin(t, "contract", 0, Minus(amount, Fee), Term)}
  ELSE {}

Row(t, inputs, kind, amount) ==
  [inputs |-> inputs, own |-> TRUE, amount |-> amount,
   paid |-> Minus(amount, Fee) + Value(Change(t, Value(inputs), amount)),
   outputs |-> Paid(t, kind, amount) \cup Change(t, Value(inputs), amount)]

\* The account the store saves: the contract account when funding, the change
\* account when withdrawing.
StoredKeys(kind) ==
  IF kind = "fund" THEN disk.keys
  ELSE [disk.keys EXCEPT !["change"] = watched'["change"]]

\* The inputs leave the coins as soon as the transaction is signed; the
\* database commits it afterwards, together with the account.
Spend(kind, amount) ==
  LET t == Len(txs) + 1 IN
  /\ t <= MaxTx
  /\ Payable(amount)
  /\ NextKey("change")
  /\ \E inputs \in SUBSET Available :
       /\ inputs # {} /\ amount <= Value(inputs)
       /\ coins' = {c \in coins : c.coin \notin inputs}
       /\ \/ /\ txs' = Append(txs, Row(t, inputs, kind, amount))
             /\ disk' = [disk EXCEPT !.txout = @ \cup {[tx |-> t, confirmed |-> FALSE]},
                                     !.keys = StoredKeys(kind)]
             /\ UNCHANGED <<limbo, faults>>
          \/ /\ faults < MaxFaults
             /\ faults' = faults + 1
             /\ limbo' = limbo \cup inputs
             /\ UNCHANGED <<txs, disk>>
  /\ UNCHANGED <<chain, given, seen, again>>

Fund == \E amount \in FundAmounts : Spend("fund", amount)

\* Without an amount everything available is withdrawn.
Withdraw ==
  \E amount \in WithdrawAmounts \cup {Value(Available)} : Spend("withdraw", amount)

\* Insufficient funds, or an amount that does not pay for the fee: the change
\* key was taken all the same.
SpendFails ==
  /\ \E amount \in FundAmounts \cup WithdrawAmounts :
       amount > Value(Available) \/ ~Payable(amount)
  /\ NextKey("change")
  /\ UNCHANGED <<txs, chain, coins, disk, history>>

----------------------------------------------------------------------------
(* The header thread.                                                       *)

ProcessedKeepsSpent(b) ==
  {c \in coins : c.coin \notin Mine(watched, Outputs(b))}
    \cup {[coin |-> c, block |-> b] : c \in Mine(watched, Outputs(b))}

\* Coins::process of a block: what it spends goes, what pays the wallet stays
\* with a proof of that block.
Processed(b) ==
  LET found == Mine(watched, Outputs(b)) IN
  {c \in coins : c.coin \notin Inputs(b) \cup found}
    \cup {[coin |-> c, block |-> b] : c \in found}

\* Whether a coin was found or removed.
Changes(b) ==
  \/ Mine(watched, Outputs(b)) # {}
  \/ \E c \in coins : c.coin \in Inputs(b)

StoreCoinsMarks(new) ==
  [disk EXCEPT !.txout = {IF \E c \in new : c.coin.tx = r.tx
                          THEN [tx |-> r.tx, confirmed |-> TRUE] ELSE r : r \in @}]

\* DB::store_coins: the coins are replaced, and a transaction of which the
\* wallet holds a proof is marked confirmed.
StoreCoins(new) ==
  [disk EXCEPT !.coins = new,
               !.txout = {IF \E c \in new : c.coin.tx = r.tx
                          THEN [tx |-> r.tx, confirmed |-> TRUE] ELSE r : r \in @}]

\* The coins that transactions in the database spend.
SpentByRows == UNION {txs[r.tx].inputs : r \in disk.txout}

\* ContentStore::block_connected. Coins are stored only if the block changed them.
BlockConnected ==
  /\ undo = 0 /\ wanted # <<>>
  /\ LET b == Head(wanted)
         new == Processed(b)
     IN /\ coins' = new
        /\ disk' = [(IF Changes(b) THEN StoreCoins(new) ELSE disk) EXCEPT !.processed = b]
        /\ watched' = Ahead(watched, Mine(watched, Outputs(b)))
        /\ seen' = seen \cup {b}
        /\ again' = again \cup (Mine(watched, Outputs(b)) \cap SpentByRows)
        /\ wanted' = Tail(wanted)
  /\ UNCHANGED <<txs, blocks, trunk, undo, next, given, limbo, faults>>

\* Coins::unwind_tip: the coins with a proof in the block are confirmed no more.
Unwound(S, b) == {c \in S : c.block # b}

\* ContentStore::unwind_tip: the coins change after the commit, in memory only.
UnwindTip ==
  /\ undo # 0
  /\ disk' = [disk EXCEPT !.processed = blocks[undo].parent]
  /\ coins' = Unwound(coins, undo)
  /\ undo' = 0
  /\ UNCHANGED <<txs, blocks, trunk, wanted, next, watched, history>>

----------------------------------------------------------------------------
(* Start: main, DB::read_account, DB::read_coins, Wallet::from_storage and  *)
(* P2PBitcoin::start.                                                       *)

Pending(d) == {r.tx : r \in {q \in d.txout : ~q.confirmed}}

ReadCoinsOnly(d) == d.coins

\* DB::read_coins: unconfirmed transactions are applied to the stored coins.
ReadCoins(d) ==
  {c \in d.coins : c.coin \notin UNION {txs[t].inputs : t \in Pending(d)}}

\* Accounts are read with next = 0; Wallet::from_storage looks ahead of every
\* coin, those of the unconfirmed transactions included.
ReadKeys(d) ==
  Ahead(d.keys, {c.coin : c \in ReadCoins(d)}
                  \cup UNION {Mine(d.keys, txs[t].outputs) : t \in Pending(d)})

\* The start walks from the last processed block down to the trunk. Here a
\* re-organization replaces one block, so the parent of any block is on it.
Fork(b) == IF OnTrunk(b) THEN b ELSE blocks[b].parent

\* The blocks wanted are those above the processed block that was read, not above
\* the fork: if it is off the trunk they are all since the birth of the wallet.
AboveProcessed(b) == SubSeq(trunk, IF OnTrunk(b) THEN Height(b) + 2 ELSE 2, Len(trunk))

\* The node starts from the database d, after a stop that lost its memory.
StartFrom(d, kept) ==
  LET fork == Fork(d.processed)
      rest == AboveProcessed(d.processed)
  IN /\ faults < MaxFaults
     /\ faults' = faults + 1
     /\ coins' = IF fork = d.processed THEN kept ELSE Unwound(kept, d.processed)
     /\ watched' = ReadKeys(disk)
     /\ next' = [a \in Accounts |-> 0]
     /\ disk' = [d EXCEPT !.processed = fork]
     /\ wanted' = rest
     /\ seen' = seen \ Range(rest)
     /\ undo' = 0
     /\ limbo' = {}
     /\ UNCHANGED <<txs, blocks, trunk, given, again>>

Restart == StartFrom(disk, ReadCoins(disk))

\* --rescan: DB::rescan and Wallet::rescan forget coins and transactions.
Rescan ==
  StartFrom([disk EXCEPT !.coins = {}, !.txout = {}, !.processed = trunk[1]], {})

----------------------------------------------------------------------------
(* The world outside: payments, miners, header download.                    *)

\* Somebody pays to a deposit address that was handed out at any time.
Deposit ==
  LET t == Len(txs) + 1 IN
  /\ t <= MaxTx
  /\ \E value \in Deposits, kix \in 0 .. given - 1 :
       txs' = Append(txs, [inputs |-> {}, own |-> FALSE, amount |-> 0, paid |-> value,
                           outputs |-> {Coin(t, "receive", kix, value, 0)}])
  /\ UNCHANGED <<chain, coins, next, watched, disk, history>>

\* The network mines a transaction once, if its inputs are unspent, unlocked
\* and worth what it pays.
Minable(t, tr) ==
  LET inside == {i \in DOMAIN tr : blocks[tr[i]].tx # 0} IN
  /\ \A i \in inside : blocks[tr[i]].tx # t /\ Inputs(tr[i]) \cap txs[t].inputs = {}
  /\ \A c \in txs[t].inputs :
       \E i \in inside : blocks[tr[i]].tx = c.tx /\ i + c.csv <= Len(tr) + 1
  /\ txs[t].own => txs[t].paid <= Value(txs[t].inputs)

\* A block found on top of the trunk tr holds at most one such transaction.
Contents(tr) == {0} \cup {t \in DOMAIN txs : Minable(t, tr)}

NewBlock ==
  /\ undo = 0
  /\ Len(blocks) < MaxBlocks
  /\ \E t \in Contents(trunk) :
       blocks' = Append(blocks, [parent |-> trunk[Len(trunk)], tx |-> t])
  /\ trunk' = Append(trunk, Len(blocks'))
  /\ wanted' = Append(wanted, Len(blocks'))
  /\ UNCHANGED <<txs, undo, coins, next, watched, disk, history>>

\* A branch of two blocks replaces the tip. If the tip was asked for already
\* its block still arrives and is handed to the store.
Reorg ==
  LET tip == trunk[Len(trunk)]
      base == SubSeq(trunk, 1, Len(trunk) - 1)
      new == Len(blocks) + 1
  IN /\ undo = 0
     /\ Len(trunk) > 1 /\ new < MaxBlocks
     /\ \E t \in Contents(base), u \in Contents(base) :
          /\ t # 0 /\ u # 0 => t # u /\ txs[t].inputs \cap txs[u].inputs = {}
          /\ blocks' = blocks \o <<[parent |-> blocks[tip].parent, tx |-> t],
                                   [parent |-> new, tx |-> u]>>
     /\ trunk' = base \o <<new, new + 1>>
     /\ \E asked \in BOOLEAN :
          wanted' = SelectSeq(wanted, LAMBDA b : asked \/ b # tip) \o <<new, new + 1>>
     /\ undo' = tip
     /\ UNCHANGED <<txs, coins, next, watched, disk, history>>

----------------------------------------------------------------------------
\* A new wallet, stored by main before anything else runs.
Init ==
  /\ txs = <<>>
  /\ blocks = <<[parent |-> 1, tx |-> 0]>>
  /\ trunk = <<1>>
  /\ undo = 0
  /\ wanted = <<>>
  /\ coins = {}
  /\ next = [a \in Accounts |-> 0]
  /\ watched = [a \in Accounts |-> LookAhead]
  /\ disk = [coins |-> {}, txout |-> {}, keys |-> watched, processed |-> 1]
  /\ given = 0
  /\ seen = {1}
  /\ again = {}
  /\ limbo = {}
  /\ faults = 0

Next ==
  \/ DepositAddress \/ Fund \/ Withdraw \/ SpendFails
  \/ BlockConnected \/ UnwindTip
  \/ Restart \/ Rescan
  \/ Deposit \/ NewBlock \/ Reorg

Spec == Init /\ [][Next]_vars

----------------------------------------------------------------------------
(* Properties.                                                              *)

\* Every variable has its shape: rows name transactions made, proofs and the
\* processed marker name headers known, keys were instantiated before use.
TypeOK ==
  /\ \A r \in disk.txout : r.tx \in DOMAIN txs /\ txs[r.tx].own
  /\ \A c \in coins \cup disk.coins : c.block \in DOMAIN blocks /\ c.coin \in Outputs(c.block)
  /\ disk.processed \in DOMAIN blocks
  /\ Range(trunk) \cup Range(wanted) \cup seen \subseteq DOMAIN blocks
  /\ undo \in {0} \cup DOMAIN blocks
  /\ \A a \in Accounts : next[a] <= watched[a] /\ disk.keys[a] <= watched[a]

\* Two transactions the node keeps announcing never spend the same coin, be it
\* across a stop at any point and any re-organization. The one exception is a
\* coin whose own transaction is mined again while its spend is stored: process
\* makes it spendable a second time (ContentStore::fund, DB::read_coins).
NoDoubleSpend ==
  \A q, r \in disk.txout :
    q # r => txs[q.tx].inputs \cap txs[r.tx].inputs \subseteq again

\* A coin that choose_inputs may take exists: a block of the trunk creates it,
\* its lock has run out when the next block is found, and no processed block of
\* the trunk spends it (Wallet::process, DB::store_coins, DB::read_coins).
SpendsExisting ==
  \A c \in Available :
    /\ \E b \in Range(trunk) : c \in Outputs(b) /\ Height(b) + c.csv <= Len(trunk)
    /\ \A b \in seen \cap Range(trunk) : c \notin Inputs(b)

\* What pays the wallet in a processed block of the trunk is among its coins
\* until a block or a stored transaction spends it. Out of sight are only coins
\* taken by a transaction that could not be stored, until the next start, and
\* after a start coins on keys beyond the look-ahead, as neither deposit_address
\* nor fund stores the account it takes a key from.
NothingLost ==
  \A b \in seen \cap Range(trunk) : \A c \in Outputs(b) :
    \/ \E d \in coins : d.coin = c
    \/ \E s \in seen : c \in Inputs(s)
    \/ c \in SpentByRows \cup limbo
    \/ faults > 0 /\ c.account # "contract" /\ c.kix >= LookAhead

\* What the inputs of a stored transaction are worth beyond what it pays is the fee
\* signed for, plus a change only if that is dust, whatever coins were chosen and in
\* whatever state the wallet was started again. This is so for an amount of at least
\* the fee. Below it amount - fee wraps around and passes the test for dust: the
\* transaction pays more than its inputs, which are taken from the coins all the same
\* (Wallet::fund, Wallet::withdraw).
Balanced ==
  \A r \in disk.txout :
    LET tx == txs[r.tx]
        left == Value(tx.inputs) - tx.paid
    IN IF tx.amount >= Fee
       THEN \/ left = Fee
            \/ left \in Fee + 1 .. Fee + DUST /\ tx.paid = tx.amount - Fee
       ELSE left < 0
============================================================================
