---------------------------- MODULE WalletProofs ----------------------------
(***************************************************************************)
(* The wallet never spends a coin twice, for every value of the constants: *)
(* any number of transactions, blocks, keys, stops and failed stores.      *)
(***************************************************************************)
EXTENDS Wallet, TLAPS

----------------------------------------------------------------------------
(* The inductive invariant.                                                 *)

\* The shape of the database and of its rows, which name transactions made.
Shape ==
  /\ disk = [coins |-> disk.coins, txout |-> disk.txout,
             keys |-> disk.keys, processed |-> disk.processed]
  /\ \A r \in disk.txout : /\ r = [tx |-> r.tx, confirmed |-> r.confirmed]
                           /\ r.tx \in DOMAIN txs
  /\ \E S : txs \in Seq(S)

\* A transaction of the database spends c.
SpentBy(c, r) == c \in txs[r.tx].inputs

\* The coins in memory are free: no stored transaction spends one, up to the
\* coins found again.
MemoryFree ==
  \A c \in coins : \A r \in disk.txout : SpentBy(c.coin, r) => c.coin \in again

\* The coins on disk lag behind: a stored transaction may spend one, but then an
\* unconfirmed one does, and the next start applies it.
DiskFree ==
  \A c \in disk.coins :
    (\E r \in disk.txout : SpentBy(c.coin, r)) /\ c.coin \notin again
      => \E r \in disk.txout : ~r.confirmed /\ SpentBy(c.coin, r)

\* NoDoubleSpend, coin by coin.
Disjoint ==
  \A q, r \in disk.txout : \A c : q # r /\ SpentBy(c, q) /\ SpentBy(c, r) => c \in again

Inv == Shape /\ MemoryFree /\ DiskFree /\ Disjoint

----------------------------------------------------------------------------
\* Init establishes the invariant: nothing is stored yet.
LEMMA InitInv == Init => Inv
<1> SUFFICES ASSUME Init PROVE Inv
  OBVIOUS
<1>1. disk.coins = {} /\ disk.txout = {} /\ coins = {}
  BY DEF Init
<1>2. Shape
  <2>1. txs \in Seq({})
    BY DEF Init
  <2> QED
    BY <1>1, <2>1 DEF Init, Shape
<1> QED
  BY <1>1, <1>2 DEF Inv, MemoryFree, DiskFree, Disjoint

\* A transaction appended to the list leaves the earlier ones where they are.
LEMMA AppendTx ==
  ASSUME NEW s, NEW S, s \in Seq(S), NEW e
  PROVE  /\ Append(s, e) \in Seq(S \cup {e})
         /\ \A i \in DOMAIN s : i \in DOMAIN Append(s, e) /\ Append(s, e)[i] = s[i]
         /\ Len(s) + 1 \in DOMAIN Append(s, e)
         /\ Append(s, e)[Len(s) + 1] = e
<1>1. s \in Seq(S \cup {e})
  OBVIOUS
<1> QED
  BY <1>1

\* The coins stored transactions spend, as a set.
LEMMA SpentRows ==
  \A c : c \in SpentByRows <=> \E r \in disk.txout : SpentBy(c, r)
BY DEF SpentByRows, SpentBy

\* A step keeps the invariant that leaves the stored rows alone, takes coins
\* away at most, forgets no transaction and no coin found again.
LEMMA QuietKeeps ==
  ASSUME Inv, Shape', disk'.txout = disk.txout, disk'.coins = disk.coins,
         coins' \subseteq coins, again \subseteq again',
         \A t \in DOMAIN txs : txs'[t] = txs[t]
  PROVE  Inv'
<1>1. \A c : \A r \in disk.txout : SpentBy(c, r)' <=> SpentBy(c, r)
  BY DEF Inv, Shape, SpentBy
<1>2. MemoryFree'
  BY <1>1 DEF Inv, MemoryFree, SpentBy
<1>3. DiskFree'
  BY <1>1 DEF Inv, DiskFree, SpentBy
<1>4. Disjoint'
  BY <1>1 DEF Inv, Disjoint, SpentBy
<1> QED
  BY <1>2, <1>3, <1>4 DEF Inv

\* Fund and Withdraw keep the invariant. Stored, the new row spends coins of the
\* memory only, which were free; not stored, coins merely leave the memory.
LEMMA SpendKeeps ==
  ASSUME Inv, NEW kind, NEW amount, Spend(kind, amount)
  PROVE  Inv'
<1>0. PICK t : t = Len(txs) + 1
  OBVIOUS
<1>1. PICK inputs \in SUBSET Available :
        /\ coins' = {c \in coins : c.coin \notin inputs}
        /\ \/ /\ txs' = Append(txs, Row(t, inputs, kind, amount))
              /\ disk' = [disk EXCEPT !.txout = @ \cup {[tx |-> t, confirmed |-> FALSE]},
                                      !.keys = StoredKeys(kind)]
           \/ UNCHANGED <<txs, disk>>
  BY <1>0 DEF Spend
<1>2. again' = again
  BY DEF Spend
<1>3. \A c \in inputs : \E d \in coins : d.coin = c
  BY DEF Available
<1>4. CASE UNCHANGED <<txs, disk>>
  <2>1. Shape'
    BY <1>4 DEF Inv, Shape
  <2> QED
    BY <1>1, <1>2, <1>4, <2>1, QuietKeeps
<1>5. CASE /\ txs' = Append(txs, Row(t, inputs, kind, amount))
           /\ disk' = [disk EXCEPT !.txout = @ \cup {[tx |-> t, confirmed |-> FALSE]},
                                   !.keys = StoredKeys(kind)]
  <2> DEFINE new == [tx |-> t, confirmed |-> FALSE]
  <2>0. PICK row : row = Row(t, inputs, kind, amount)
    OBVIOUS
  <2>1. PICK S : txs \in Seq(S)
    BY DEF Inv, Shape
  <2>2. /\ txs' \in Seq(S \cup {row})
        /\ \A i \in DOMAIN txs : i \in DOMAIN txs' /\ txs'[i] = txs[i]
        /\ t \in DOMAIN txs' /\ txs'[t] = row
    BY <1>0, <1>5, <2>0, <2>1, AppendTx
  <2>3. /\ disk'.coins = disk.coins
        /\ disk'.txout = disk.txout \cup {new}
        /\ disk' = [coins |-> disk.coins, txout |-> disk.txout \cup {new},
                    keys |-> StoredKeys(kind), processed |-> disk.processed]
    BY <1>5 DEF Inv, Shape
  <2>4. Shape'
    BY <2>2, <2>3 DEF Inv, Shape
  <2>5. \A c : \A r \in disk.txout : SpentBy(c, r)' <=> SpentBy(c, r)
    BY <2>2 DEF Inv, Shape, SpentBy
  <2>6. \A c : SpentBy(c, new)' <=> c \in inputs
    BY <2>0, <2>2 DEF SpentBy, Row
  <2>7. \A c \in inputs : \A r \in disk.txout : SpentBy(c, r) => c \in again
    BY <1>3 DEF Inv, MemoryFree
  <2>8. MemoryFree'
    <3> SUFFICES ASSUME NEW c \in coins', NEW r \in disk'.txout, SpentBy(c.coin, r)'
                 PROVE  c.coin \in again'
      BY DEF MemoryFree, SpentBy
    <3>1. c \in coins /\ c.coin \notin inputs
      BY <1>1
    <3>2. r \in disk.txout
      BY <2>3, <2>6, <3>1
    <3> QED
      BY <1>2, <2>5, <3>1, <3>2 DEF Inv, MemoryFree
  <2>9. DiskFree'
    <3> SUFFICES ASSUME NEW c \in disk.coins, NEW r \in disk'.txout, SpentBy(c.coin, r)',
                        c.coin \notin again
                 PROVE  \E q \in disk'.txout : ~q.confirmed /\ SpentBy(c.coin, q)'
      BY <1>2, <2>3 DEF DiskFree, SpentBy
    <3>1. CASE r = new
      BY <2>3, <3>1
    <3>2. CASE r \in disk.txout
      BY <2>3, <2>5, <3>2 DEF Inv, DiskFree
    <3> QED
      BY <2>3, <3>1, <3>2
  <2>10. Disjoint'
    <3> SUFFICES ASSUME NEW q \in disk'.txout, NEW r \in disk'.txout, NEW c, q # r,
                        SpentBy(c, q)', SpentBy(c, r)'
                 PROVE  c \in again
      BY <1>2 DEF Disjoint, SpentBy
    <3>1. CASE q \in disk.txout /\ r \in disk.txout
      BY <2>5, <3>1 DEF Inv, Disjoint
    <3>2. CASE q = new /\ r \in disk.txout
      BY <2>5, <2>6, <2>7, <3>2
    <3>3. CASE r = new /\ q \in disk.txout
      BY <2>5, <2>6, <2>7, <3>3
    <3> QED
      BY <2>3, <3>1, <3>2, <3>3
  <2> QED
    BY <2>4, <2>8, <2>9, <2>10 DEF Inv
<1> QED
  BY <1>1, <1>4, <1>5

\* A block keeps it: a coin found that a stored transaction spends is recorded
\* in again, and the rows only change their mark, together with the coins.
LEMMA BlockKeeps ==
  ASSUME Inv, BlockConnected
  PROVE  Inv'
<1> DEFINE b == Head(wanted)
           new == Processed(b)
           found == Mine(watched, Outputs(b))
           marked(r) == IF \E c \in new : c.coin.tx = r.tx
                        THEN [tx |-> r.tx, confirmed |-> TRUE] ELSE r
<1>1. /\ coins' = new /\ txs' = txs
      /\ again' = again \cup (found \cap SpentByRows)
      /\ disk' = [(IF Changes(b) THEN StoreCoins(new) ELSE disk) EXCEPT !.processed = b]
  BY DEF BlockConnected
<1>2. \A c : \A r : SpentBy(c, r)' <=> SpentBy(c, r)
  BY <1>1 DEF SpentBy
<1>3. \A c \in new : \A r \in disk.txout : SpentBy(c.coin, r) => c.coin \in again'
  <2> SUFFICES ASSUME NEW c \in new, NEW r \in disk.txout, SpentBy(c.coin, r)
               PROVE  c.coin \in again'
    OBVIOUS
  <2>1. c \in coins \/ c.coin \in found
    BY DEF Processed
  <2>2. c.coin \in SpentByRows
    BY SpentRows
  <2> QED
    BY <1>1, <2>1, <2>2 DEF Inv, MemoryFree
<1>4. CASE ~Changes(b)
  <2>1. /\ disk'.coins = disk.coins /\ disk'.txout = disk.txout
        /\ disk' = [coins |-> disk.coins, txout |-> disk.txout,
                    keys |-> disk.keys, processed |-> b]
    BY <1>1, <1>4 DEF Inv, Shape
  <2>2. Shape'
    BY <1>1, <2>1 DEF Inv, Shape
  <2>3. MemoryFree'
    BY <1>1, <1>2, <1>3, <2>1 DEF MemoryFree, SpentBy
  <2>4. DiskFree'
    BY <1>1, <1>2, <2>1 DEF Inv, DiskFree, SpentBy
  <2>5. Disjoint'
    BY <1>1, <1>2, <2>1 DEF Inv, Disjoint, SpentBy
  <2> QED
    BY <2>2, <2>3, <2>4, <2>5 DEF Inv
<1>5. CASE Changes(b)
  <2>1. /\ disk'.coins = new /\ disk'.txout = {marked(r) : r \in disk.txout}
        /\ disk' = [coins |-> new, txout |-> {marked(r) : r \in disk.txout},
                    keys |-> disk.keys, processed |-> b]
    BY <1>1, <1>5 DEF Inv, Shape, StoreCoins
  <2>2. \A r \in disk.txout : /\ marked(r) = [tx |-> r.tx, confirmed |-> marked(r).confirmed]
                              /\ marked(r).tx = r.tx
    BY DEF Inv, Shape
  <2>3. Shape'
    BY <1>1, <2>1, <2>2 DEF Inv, Shape
  <2>4. \A c : \A r \in disk.txout : SpentBy(c, marked(r)) <=> SpentBy(c, r)
    BY <2>2 DEF SpentBy
  <2>5. MemoryFree'
    BY <1>1, <1>2, <1>3, <2>1, <2>4 DEF MemoryFree, SpentBy
  <2>6. DiskFree'
    BY <1>1, <1>2, <1>3, <2>1, <2>4 DEF DiskFree, SpentBy
  <2>7. Disjoint'
    <3> SUFFICES ASSUME NEW q1 \in disk'.txout, NEW r1 \in disk'.txout, NEW c, q1 # r1,
                        SpentBy(c, q1)', SpentBy(c, r1)'
                 PROVE  c \in again'
      BY DEF Disjoint, SpentBy
    <3>1. PICK q \in disk.txout : q1 = marked(q)
      BY <2>1
    <3>2. PICK r \in disk.txout : r1 = marked(r)
      BY <2>1
    <3>3. q # r
      BY <3>1, <3>2
    <3>4. SpentBy(c, q) /\ SpentBy(c, r)
      BY <1>2, <2>4, <3>1, <3>2
    <3> QED
      BY <1>1, <3>3, <3>4 DEF Inv, Disjoint
  <2> QED
    BY <2>3, <2>5, <2>6, <2>7 DEF Inv
<1> QED
  BY <1>4, <1>5

\* A start keeps it: the unconfirmed transactions are taken off the stored coins,
\* and whoever spends a stored coin is unconfirmed.
LEMMA RestartKeeps ==
  ASSUME Inv, Restart
  PROVE  Inv'
<1>1. /\ coins' \subseteq ReadCoins(disk)
      /\ txs' = txs /\ again' = again
      /\ disk' = [disk EXCEPT !.processed = Fork(disk.processed)]
  BY DEF Restart, StartFrom, Unwound
<1>2. /\ disk'.coins = disk.coins /\ disk'.txout = disk.txout
      /\ disk' = [coins |-> disk.coins, txout |-> disk.txout,
                  keys |-> disk.keys, processed |-> Fork(disk.processed)]
  BY <1>1 DEF Inv, Shape
<1>3. Shape'
  BY <1>1, <1>2 DEF Inv, Shape
<1>4. MemoryFree'
  <2> SUFFICES ASSUME NEW c \in ReadCoins(disk), NEW r \in disk.txout, SpentBy(c.coin, r)
               PROVE  c.coin \in again
    BY <1>1, <1>2 DEF MemoryFree, SpentBy
  <2>1. c \in disk.coins /\ \A q \in disk.txout : ~q.confirmed => ~SpentBy(c.coin, q)
    BY DEF ReadCoins, Pending, SpentBy
  <2> QED
    BY <2>1 DEF Inv, DiskFree
<1>5. DiskFree' /\ Disjoint'
  BY <1>1, <1>2 DEF Inv, DiskFree, Disjoint, SpentBy
<1> QED
  BY <1>3, <1>4, <1>5 DEF Inv

\* A rescan keeps it: coins and rows are gone.
LEMMA RescanKeeps ==
  ASSUME Inv, Rescan
  PROVE  Inv'
<1> DEFINE d == [disk EXCEPT !.coins = {}, !.txout = {}, !.processed = trunk[1]]
<1>1. /\ coins' = {}
      /\ txs' = txs
      /\ disk' = [d EXCEPT !.processed = Fork(d.processed)]
  BY DEF Rescan, StartFrom, Unwound
<1>2. /\ disk'.coins = {} /\ disk'.txout = {}
      /\ disk' = [coins |-> {}, txout |-> {},
                  keys |-> disk.keys, processed |-> Fork(d.processed)]
  BY <1>1 DEF Inv, Shape
<1>3. Shape'
  BY <1>1, <1>2 DEF Inv, Shape
<1> QED
  BY <1>1, <1>2, <1>3 DEF Inv, MemoryFree, DiskFree, Disjoint

\* Every step of the wallet keeps the invariant.
LEMMA NextInv == Inv /\ [Next]_vars => Inv'
<1> SUFFICES ASSUME Inv, [Next]_vars PROVE Inv'
  OBVIOUS
<1>1. CASE \/ UNCHANGED vars \/ DepositAddress \/ SpendFails \/ NewBlock \/ Reorg
  <2>1. UNCHANGED <<txs, coins, disk, again>>
    BY <1>1 DEF vars, history, DepositAddress, SpendFails, NewBlock, Reorg
  <2>2. Shape'
    BY <2>1 DEF Inv, Shape
  <2> QED
    BY <2>1, <2>2, QuietKeeps
<1>2. CASE Deposit
  <2>1. PICK e : txs' = Append(txs, e)
    BY <1>2 DEF Deposit
  <2>2. UNCHANGED <<coins, disk, again>>
    BY <1>2 DEF Deposit, history
  <2>3. PICK S : txs \in Seq(S)
    BY DEF Inv, Shape
  <2>4. /\ txs' \in Seq(S \cup {e})
        /\ \A i \in DOMAIN txs : i \in DOMAIN txs' /\ txs'[i] = txs[i]
    BY <2>1, <2>3, AppendTx
  <2>5. Shape'
    BY <2>2, <2>4 DEF Inv, Shape
  <2> QED
    BY <2>2, <2>4, <2>5, QuietKeeps
<1>3. CASE UnwindTip
  <2>1. /\ txs' = txs /\ again' = again /\ coins' \subseteq coins
        /\ disk' = [disk EXCEPT !.processed = blocks[undo].parent]
    BY <1>3 DEF UnwindTip, Unwound, history
  <2>2. /\ disk'.coins = disk.coins /\ disk'.txout = disk.txout
        /\ disk' = [coins |-> disk.coins, txout |-> disk.txout,
                    keys |-> disk.keys, processed |-> blocks[undo].parent]
    BY <2>1 DEF Inv, Shape
  <2>3. Shape'
    BY <2>1, <2>2 DEF Inv, Shape
  <2> QED
    BY <2>1, <2>2, <2>3, QuietKeeps
<1>4. CASE Fund \/ Withdraw
  BY <1>4, SpendKeeps DEF Fund, Withdraw
<1>5. CASE BlockConnected
  BY <1>5, BlockKeeps
<1>6. CASE Restart
  BY <1>6, RestartKeeps
<1>7. CASE Rescan
  BY <1>7, RescanKeeps
<1> QED
  BY <1>1, <1>2, <1>3, <1>4, <1>5, <1>6, <1>7 DEF Next

\* The transactions a node stores and announces never spend the same coin, for
\* any instance; only a coin mined again while its spend is stored may be taken
\* a second time (ContentStore::fund, withdraw, block_connected, DB::read_coins).
THEOREM WalletSpendsOnce == Spec => []NoDoubleSpend
<1>1. Inv => NoDoubleSpend
  BY DEF Inv, Disjoint, NoDoubleSpend, SpentBy
<1> QED
  BY InitInv, NextInv, <1>1, PTL DEF Spec
============================================================================
