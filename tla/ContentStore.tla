---------------------------- MODULE ContentStore ----------------------------
(***************************************************************************)
(* The content store (store.rs, the content and txout tables of db.rs):    *)
(* the ads a node holds, the summaries of that set it sends to its peers   *)
(* and the node's own funding transactions.                                *)
(*                                                                         *)
(* Every operation runs under the write lock of the store.  add_content    *)
(* reads the chain database several times while it holds that lock, and    *)
(* the chain may move between the reads, so it is several steps: offer is  *)
(* the ad being added.  block_connected commits before it publishes, so    *)
(* it is several steps too: publishing holds the ads still to be added.    *)
(***************************************************************************)
EXTENDS ChainDB, FiniteSetsExt

CONSTANTS
    Ads,            \* ads, identified by their digest
    Length,         \* [Ads -> Nat \ {0}]: length of the serialised ad
    Proofs,         \* proofs of funding that peers send along with ads
    Fundings,       \* funding transactions this node can make
    Mined,          \* [Blocks -> SUBSET Fundings]: own fundings a block confirms
    MAX_TERM,       \* longest term a wallet locks a coin for
    WeightRange,    \* number of values of a weight, a u32
    StorageLimit,   \* limit of the sum of lengths
    Sizes,          \* sizes of invertible Bloom lookup tables peers ask for
    NoRow, NoTable, NoOffer

\* A proof locks an amount to an ad for a term with a transaction in a block; it
\* is genuine if the Merkle proof, the version of the transaction and the
\* commitment of its output to ad and term check out.
ASSUME ProofAssumption ==
    Proofs \subseteq [ad : Ads, block : Blocks, term : Nat, amount : Nat, genuine : BOOLEAN]

ASSUME FundingAssumption ==
    /\ Fundings \subseteq [ad : Ads, term : Nat, amount : Nat]
    /\ Mined \in [Blocks -> SUBSET Fundings]

ASSUME StoreAssumption ==
    /\ IsFiniteSet(Ads)
    /\ Length \in [Ads -> Nat \ {0}]
    /\ MAX_TERM \in Nat /\ StorageLimit \in Nat
    /\ WeightRange \in Nat \ {0}

VARIABLES
    content,        \* table content: the row of every ad, or NoRow
    iblts,          \* cached tables: how often every ad was inserted, net of deletions
    sketch,         \* min_sketch: the ads it was computed from
    n_keys,
    offer,          \* add_content in progress
    publication,    \* table publication: prepared ads
    txout,          \* table txout: absent, unconfirmed or the confirming block
    publishing,     \* block_connected in progress: proofs to be added
    sent            \* history: own fundings given to the network, before ("early")
                    \* or after ("ready") their ad was prepared

tableVars == <<content, iblts, sketch, n_keys>>
txoutVars == <<publication, txout, publishing, sent>>
storeVars == <<tableVars, offer, txoutVars>>

Rows == [block : Blocks, height : Nat, term : Nat, weight : Nat]

Stored == {a \in Ads : content[a] # NoRow}

\* The write lock of the store is free.
Unlocked == offer = NoOffer /\ publishing = {}

-----------------------------------------------------------------------------
(* Summaries of the content. *)

\* get_iblt: computed from the table when the size is asked for the first time.
GetIblt(s) ==
    /\ Unlocked
    /\ iblts[s] = NoTable
    /\ iblts' = [iblts EXCEPT ![s] = [a \in Ads |-> IF a \in Stored THEN 1 ELSE 0]]
    /\ UNCHANGED <<content, sketch, n_keys, offer, txoutVars>>

\* IBLT::delete for each of the ads
TableWithout(table, ads) == [a \in Ads |-> IF a \in ads THEN table[a] - 1 ELSE table[a]]

\* The end of add_header, unwind_tip and truncate_to_limit for the deleted ads:
\* sketch and n_keys are computed again if there was a table to delete from.
Delete(ads) ==
    /\ content' = [a \in Ads |-> IF a \in ads THEN NoRow ELSE content[a]]
    /\ iblts' = [s \in Sizes |->
                    IF iblts[s] = NoTable THEN NoTable
                    ELSE TableWithout(iblts[s], ads)]
    /\ IF ads # {} /\ \E s \in Sizes : iblts[s] # NoTable
         THEN /\ sketch' = Stored \ ads
              /\ n_keys' = Cardinality(Stored \ ads)
         ELSE UNCHANGED <<sketch, n_keys>>

TableWithNothing(table, a) == table

\* IBLT::insert
TableWith(table, a) == [table EXCEPT ![a] = @ + 1]

\* store_content: the amount per byte, cut to a u32.
Weight(funding) == (funding.amount \div Length[funding.ad]) % WeightRange

\* The end of add_content, whether or not the ad is already stored.
Insert(proof, height) ==
    /\ content' = [content EXCEPT ![proof.ad] =
                      [block |-> proof.block, height |-> height, term |-> proof.term,
                       weight |-> Weight(proof)]]
    /\ iblts' = [s \in Sizes |->
                    IF iblts[s] = NoTable THEN NoTable
                    ELSE TableWith(iblts[s], proof.ad)]
    /\ sketch' = sketch \cup {proof.ad}
    /\ n_keys' = n_keys + 1

-----------------------------------------------------------------------------
(* The chain moves. *)

ExpiredEarly(height) == {a \in Stored : content[a].height + content[a].term <= height + 1}

\* delete_expired, and then the rest of add_header.
Expired(height) == {a \in Stored : content[a].height + content[a].term <= height}

StoreAddHeader(h) ==
    /\ Unlocked
    /\ Delete(Expired(Height(h)))
    /\ UNCHANGED <<offer, txoutVars>>

ConfirmedAbove(b) == {a \in Stored : content[a].height > Height(b)}

\* delete_confirmed, and then the rest of unwind_tip.
Confirmed(b) == {a \in Stored : content[a].block = b}

StoreUnwindTip(b) ==
    /\ Unlocked
    /\ Delete(Confirmed(b))
    /\ UNCHANGED <<offer, txoutVars>>

-----------------------------------------------------------------------------
(* truncate_to_limit. *)

Size(ads) == MapThenSumSet(LAMBDA a : Length[a], ads)

\* The ads are read in the order of descending weight, in any order among equals,
\* and kept until the sum of the lengths exceeds the limit.
Kept(rows, keep) ==
    LET ads == {a \in Ads : rows[a] # NoRow}
    IN  /\ keep \subseteq ads
        /\ Size(keep) <= StorageLimit
        /\ \A k \in keep, d \in ads \ keep : rows[k].weight >= rows[d].weight
        /\ keep = ads \/ \E d \in ads \ keep :
              /\ \A e \in ads \ keep : rows[d].weight >= rows[e].weight
              /\ Size(keep \cup {d}) > StorageLimit

TruncateToLimit ==
    \E keep \in SUBSET Stored : Kept(content, keep) /\ Delete(Stored \ keep)

-----------------------------------------------------------------------------
(* add_content for an ad a peer sends (the Content message of updater.rs).  *)

CurrentOneMore(height, term) == height + term + 1 >= Height(tip)

\* The term has not ended at the tip.
Current(height, term) == height + term >= Height(tip)

\* The block the proof refers to is on the trunk ...
LocateContent(proof) ==
    /\ Unlocked
    /\ offer' = [proof |-> proof, height |-> Height(proof.block),
                 stage |-> IF OnTrunk(proof.block) THEN "located" ELSE "ended"]
    /\ UNCHANGED <<tableVars, txoutVars>>

\* ... the term has not ended and the proof is genuine ...
CheckContent ==
    /\ offer # NoOffer
    /\ offer.stage = "located"
    /\ offer' = [offer EXCEPT !.stage =
                    IF Current(offer.height, offer.proof.term) /\ offer.proof.genuine
                      THEN "checked" ELSE "ended"]
    /\ UNCHANGED <<tableVars, txoutVars>>

\* ... and the ad is stored.
StoreContent ==
    /\ offer # NoOffer
    /\ offer.stage = "checked"
    /\ Insert(offer.proof, offer.height)
    /\ offer' = [offer EXCEPT !.stage = "ended"]
    /\ UNCHANGED txoutVars

\* The Content message ends; the store is truncated if the peer owes no more.
EndContent(busy) ==
    /\ offer # NoOffer
    /\ offer.stage = "ended"
    /\ IF busy THEN UNCHANGED tableVars ELSE TruncateToLimit
    /\ offer' = NoOffer
    /\ UNCHANGED txoutVars

-----------------------------------------------------------------------------
(* Own publications. *)

\* prepare_publication
Prepare(a) ==
    /\ Unlocked
    /\ publication' = publication \cup {a}
    /\ UNCHANGED <<tableVars, offer, txout, publishing, sent>>

\* fund: the transaction is stored and sent to the network.
Fund(f) ==
    /\ Unlocked
    /\ sent[f] = "no"
    /\ sent' = [sent EXCEPT ![f] = IF f.ad \in publication THEN "ready" ELSE "early"]
    /\ txout' = [txout EXCEPT ![f] = "unconfirmed"]
    /\ UNCHANGED <<tableVars, offer, publication, publishing>>

\* The proof of an own funding in block b.  wallet.fund locks the coin for at most
\* MAX_TERM while txout keeps the term asked for, and add_content then looks for an
\* output that commits to the latter.
OwnProof(f, b) ==
    [ad |-> f.ad, block |-> b, term |-> f.term, amount |-> f.amount,
     genuine |-> f.term <= MAX_TERM]

\* read_unconfirmed, and of these what block b has.
Unconfirmed(b) == {f \in Mined[b] : txout[f] = "unconfirmed"}

\* store_coins: a transaction the wallet has a proof of is confirmed.
TxoutWith(b) == [f \in Fundings |-> IF f \in Unconfirmed(b) THEN b ELSE txout[f]]

\* block_connected: the transaction that confirms own fundings and moves processed.
StoreBlockConnected(b) ==
    /\ Unlocked
    /\ txout' = TxoutWith(b)
    /\ publishing' = {OwnProof(f, b) : f \in {g \in Unconfirmed(b) : g.ad \in publication}}
    /\ UNCHANGED <<tableVars, offer, publication, sent>>

\* ... and after it add_content for each of them.  The calling thread is the one
\* that moves the chain, so this is one step.
Publish(proof) ==
    /\ proof \in publishing
    /\ publishing' = publishing \ {proof}
    /\ IF /\ OnTrunk(proof.block)
          /\ Current(Height(proof.block), proof.term)
          /\ proof.genuine
         THEN Insert(proof, Height(proof.block))
         ELSE UNCHANGED tableVars
    /\ UNCHANGED <<offer, publication, txout, sent>>

\* rescan
StoreRescan ==
    /\ txout' = [f \in Fundings |-> "absent"]
    /\ UNCHANGED <<tableVars, offer, publication, publishing, sent>>

-----------------------------------------------------------------------------
(* Crash and start. *)

StoreCrash ==
    /\ offer' = NoOffer
    /\ publishing' = {}
    /\ UNCHANGED <<tableVars, publication, txout, sent>>

\* ContentStore::new
StoreStart ==
    /\ iblts' = [s \in Sizes |-> NoTable]
    /\ sketch' = Stored
    /\ n_keys' = Cardinality(Stored)
    /\ UNCHANGED <<content, offer, txoutVars>>

StoreInit ==
    /\ content = [a \in Ads |-> NoRow]
    /\ iblts = [s \in Sizes |-> NoTable]
    /\ sketch = {} /\ n_keys = 0
    /\ offer = NoOffer
    /\ publication = {}
    /\ txout = [f \in Fundings |-> "absent"]
    /\ publishing = {}
    /\ sent = [f \in Fundings |-> "no"]

\* The type of the store's state (ContentStore and its tables): n_keys counts
\* down only by being computed again, so it stays a natural number, while the
\* counts of the tables are only known to be integers here.
StoreTypeOK ==
    /\ content \in [Ads -> Rows \cup {NoRow}]
    /\ iblts \in [Sizes -> [Ads -> Int] \cup {NoTable}]
    /\ sketch \subseteq Ads
    /\ n_keys \in Nat
    /\ offer \in {NoOffer} \cup
          [proof : Proofs, height : Nat, stage : {"located", "checked", "ended"}]
    /\ publication \subseteq Ads
    /\ txout \in [Fundings -> {"absent", "unconfirmed"} \cup Blocks]
    /\ publishing \subseteq {OwnProof(f, b) : f \in Fundings, b \in Blocks}
    /\ sent \in [Fundings -> {"no", "early", "ready"}]

=============================================================================
