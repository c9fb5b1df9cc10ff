----------------------------- MODULE NodeProofs -----------------------------
(***************************************************************************)
(* Proofs about a node: what header thread, updater, user and crashes do   *)
(* to the content store, in any interleaving.                              *)
(***************************************************************************)
EXTENDS Node, BlockDownloadProofs

\* Block b is on the trunk the disk has, or unwind_tip will be called for it, or the
\* call was lost, or b is too old for a call.  The trunk on disk, not the one in
\* memory: while a round adds headers the latter is ahead of what the store is
\* going to be told.
Safe(b) ==
    \/ ~Young(b)
    \/ b \in stranded
    \/ OnBranch(b, disk.tip)
    \/ PendingUnwind(b)
    \/ phase = "down" /\ processed # NoBlock /\ OnBranch(b, processed)

\* A term that ends at height n has not ended at the trunk on disk, or add_header is
\* still to be called for its last header, or the call was lost.
Fresh(n) ==
    \/ n >= Height(disk.tip)
    \/ ~Young(disk.tip)
    \/ disk.tip \in Elements(conn)
    \/ lapsed

\* The stages of add_content in which it has seen the block on the trunk.
Located == offer # NoOffer /\ offer.stage \in {"located", "checked"}

\* The stage in which it has compared the term with the height of the tip.
Checked == offer # NoOffer /\ offer.stage = "checked"

\* Rows are safe, and so is the ad add_content is about to store: the strengthening
\* of ContentOnTrunk.
RowInv ==
    /\ \A a \in Stored : Safe(content[a].block)
    /\ Located => Safe(offer.proof.block)

\* The same for the terms: the strengthening of ContentUnexpired.
TermInv ==
    /\ \A a \in Stored : Fresh(content[a].height + content[a].term)
    /\ Checked => Fresh(offer.height + offer.proof.term)

\* block_connected runs on the header thread, between two messages.
PublishInv == publishing # {} => phase = "idle"

-----------------------------------------------------------------------------
(* Steps of a node are steps of its header thread. *)

\* A step of a node is a step of its header thread, or leaves the thread alone.
LEMMA NodeStepIsStep ==
    NodeNext => [Next]_vars
BY DEF NodeNext, HeaderThread, BlockConnected, HeaderConnected, BlockDisconnected,
       BlockDisconnectedAtStart, PublishOwn, UpdaterReads, UpdaterWrites, User,
       ProcessCrash, ProcessRescan, ProcessStart, Next

-----------------------------------------------------------------------------
(* The tables. *)

\* Deleting stored ads removes their rows and no others, and keeps types and cover.
LEMMA DeleteKeeps ==
    ASSUME StoreTypeOK, NEW ads \in SUBSET Stored, Delete(ads)
    PROVE  /\ content' \in [Ads -> Rows \cup {NoRow}]
           /\ iblts' \in [Sizes -> [Ads -> Int] \cup {NoTable}]
           /\ sketch' \subseteq Ads
           /\ n_keys' \in Nat
           /\ Stored' \subseteq Stored \ ads
           /\ \A a \in Stored' : content'[a] = content[a]
           /\ SummariesCover => SummariesCover'
<1>1. /\ content \in [Ads -> Rows \cup {NoRow}] /\ sketch \subseteq Ads /\ n_keys \in Nat
      /\ iblts \in [Sizes -> [Ads -> Int] \cup {NoTable}]
  BY DEF StoreTypeOK
<1>2. content' = [a \in Ads |-> IF a \in ads THEN NoRow ELSE content[a]]
  BY DEF Delete
<1>3. iblts' = [s \in Sizes |-> IF iblts[s] = NoTable THEN NoTable
                                ELSE TableWithout(iblts[s], ads)]
  BY DEF Delete
<1>4. \/ sketch' = Stored \ ads /\ n_keys' = Cardinality(Stored \ ads)
      \/ sketch' = sketch /\ n_keys' = n_keys
  BY DEF Delete
<1>5. content' \in [Ads -> Rows \cup {NoRow}]
  BY <1>1, <1>2
<1>6. Stored' = Stored \ ads /\ \A a \in Stored' : content'[a] = content[a]
  BY <1>2 DEF Stored
<1>7. \A t \in [Ads -> Int] : TableWithout(t, ads) \in [Ads -> Int]
  BY DEF TableWithout
<1>8. iblts' \in [Sizes -> [Ads -> Int] \cup {NoTable}]
  BY <1>1, <1>3, <1>7
<1>9. /\ IsFiniteSet(Stored) /\ IsFiniteSet(Stored \ ads)
      /\ Cardinality(Stored \ ads) \in Nat /\ Cardinality(Stored) \in Nat
      /\ Cardinality(Stored \ ads) <= Cardinality(Stored)
  <2>1. IsFiniteSet(Stored)
    BY StoreAssumption, FS_Subset DEF Stored
  <2>2. Stored \ ads \subseteq Stored
    OBVIOUS
  <2> QED
    BY <2>1, <2>2, FS_Subset, FS_CardinalityType
<1>10. sketch' \subseteq Ads /\ n_keys' \in Nat
  BY <1>1, <1>4, <1>9 DEF Stored
<1>11. ASSUME SummariesCover PROVE SummariesCover'
  <2>1. ASSUME NEW s \in Sizes, iblts'[s] # NoTable, NEW a \in Ads
        PROVE  iblts'[s][a] >= (IF a \in Stored' THEN 1 ELSE 0)
    <3>1. iblts[s] # NoTable /\ iblts'[s] = TableWithout(iblts[s], ads)
      BY <1>3, <2>1
    <3>2. iblts[s][a] \in Int
      BY <1>1, <3>1
    <3>3. iblts[s][a] >= (IF a \in Stored THEN 1 ELSE 0)
      BY <1>11, <3>1 DEF SummariesCover
    <3>4. iblts'[s][a] = IF a \in ads THEN iblts[s][a] - 1 ELSE iblts[s][a]
      BY <3>1 DEF TableWithout
    <3>5. CASE a \in ads
      BY <1>6, <3>2, <3>3, <3>4, <3>5
    <3>6. CASE a \notin ads
      BY <1>6, <3>2, <3>3, <3>4, <3>6
    <3> QED
      BY <3>5, <3>6
  <2>2. Stored' \subseteq sketch'
    BY <1>4, <1>6, <1>11 DEF SummariesCover
  <2>3. n_keys' >= Cardinality(Stored')
    BY <1>1, <1>4, <1>6, <1>9, <1>11 DEF SummariesCover
  <2> QED
    BY <2>1, <2>2, <2>3 DEF SummariesCover
<1> QED
  BY <1>5, <1>6, <1>8, <1>10, <1>11

\* What a proof says about its funding.
ProofRecords == [ad : Ads, block : Blocks, term : Nat, amount : Nat, genuine : BOOLEAN]

\* Inserting an ad writes its row and no other, and keeps types and cover.
LEMMA InsertKeeps ==
    ASSUME StoreTypeOK, NEW proof \in ProofRecords, NEW h \in Nat, Insert(proof, h)
    PROVE  /\ content' \in [Ads -> Rows \cup {NoRow}]
           /\ iblts' \in [Sizes -> [Ads -> Int] \cup {NoTable}]
           /\ sketch' \subseteq Ads
           /\ n_keys' \in Nat
           /\ \A a \in Stored' :
                 \/ a \in Stored /\ content'[a] = content[a]
                 \/ /\ content'[a].block = proof.block
                    /\ content'[a].height = h /\ content'[a].term = proof.term
           /\ SummariesCover => SummariesCover'
<1> DEFINE ad == proof.ad
           row == [block |-> proof.block, height |-> h, term |-> proof.term,
                   weight |-> Weight(proof)]
<1>1. /\ content \in [Ads -> Rows \cup {NoRow}] /\ sketch \subseteq Ads /\ n_keys \in Nat
      /\ iblts \in [Sizes -> [Ads -> Int] \cup {NoTable}]
      /\ ad \in Ads /\ Length[ad] \in Nat \ {0}
  BY StoreAssumption DEF StoreTypeOK, ProofRecords
<1>2. row \in Rows
  <2>1. \A m \in Nat, n, k \in Nat \ {0} : (m \div n) % k \in Nat
    OBVIOUS
  <2>2. Weight(proof) \in Nat
    BY <1>1, <2>1, StoreAssumption DEF ProofRecords, Weight
  <2> QED
    BY <2>2 DEF Rows, ProofRecords
<1>3. content' = [content EXCEPT ![ad] = row]
  BY DEF Insert
<1>4. /\ iblts' = [s \in Sizes |-> IF iblts[s] = NoTable THEN NoTable
                                   ELSE TableWith(iblts[s], ad)]
      /\ sketch' = sketch \cup {ad} /\ n_keys' = n_keys + 1
  BY DEF Insert
<1>r. row.block = proof.block /\ row.height = h /\ row.term = proof.term
  OBVIOUS
<1> HIDE DEF row
<1>5. content' \in [Ads -> Rows \cup {NoRow}]
  BY <1>1, <1>2, <1>3
<1>6. /\ Stored' \subseteq Stored \cup {ad}
      /\ \A a \in Ads : content'[a] = IF a = ad THEN row ELSE content[a]
  BY <1>1, <1>3 DEF Stored
<1>7. \A t \in [Ads -> Int] : TableWith(t, ad) \in [Ads -> Int]
  BY <1>1 DEF TableWith
<1>8. iblts' \in [Sizes -> [Ads -> Int] \cup {NoTable}]
  BY <1>1, <1>4, <1>7
<1>9. ASSUME NEW a \in Stored'
      PROVE  \/ a \in Stored /\ content'[a] = content[a]
             \/ /\ content'[a].block = proof.block
                /\ content'[a].height = h /\ content'[a].term = proof.term
  <2>1. a \in Ads
    BY DEF Stored
  <2> QED
    BY <1>6, <1>r, <2>1
<1>10. ASSUME SummariesCover PROVE SummariesCover'
  <2>1. ASSUME NEW s \in Sizes, iblts'[s] # NoTable, NEW a \in Ads
        PROVE  iblts'[s][a] >= (IF a \in Stored' THEN 1 ELSE 0)
    <3>1. iblts[s] # NoTable /\ iblts'[s] = TableWith(iblts[s], ad)
      BY <1>4, <2>1
    <3>2. iblts[s] \in [Ads -> Int] /\ iblts[s][a] \in Int
      BY <1>1, <3>1
    <3>3. iblts[s][a] >= (IF a \in Stored THEN 1 ELSE 0)
      BY <1>10, <3>1 DEF SummariesCover
    <3>4. iblts'[s][a] = IF a = ad THEN iblts[s][a] + 1 ELSE iblts[s][a]
      BY <1>1, <3>1, <3>2 DEF TableWith
    <3>5. CASE a = ad
      BY <3>2, <3>3, <3>4, <3>5
    <3>6. CASE a # ad
      BY <1>6, <3>2, <3>3, <3>4, <3>6
    <3> QED
      BY <3>5, <3>6
  <2>2. Stored' \subseteq sketch'
    BY <1>4, <1>6, <1>10 DEF SummariesCover
  <2>3. IsFiniteSet(Stored) /\ Cardinality(Stored) \in Nat
    BY StoreAssumption, FS_Subset, FS_CardinalityType DEF Stored
  <2>4. /\ IsFiniteSet(Stored \cup {ad})
        /\ Cardinality(Stored \cup {ad}) \in {Cardinality(Stored), Cardinality(Stored) + 1}
    BY <2>3, FS_AddElement
  <2>5. Cardinality(Stored') <= Cardinality(Stored \cup {ad}) /\ IsFiniteSet(Stored')
    BY <1>6, <2>4, FS_Subset
  <2>6. Cardinality(Stored') \in Nat /\ n_keys >= Cardinality(Stored)
    BY <2>5, <1>10, FS_CardinalityType DEF SummariesCover
  <2>7. n_keys' >= Cardinality(Stored')
    BY <1>1, <1>4, <2>3, <2>4, <2>5, <2>6
  <2> QED
    BY <2>1, <2>2, <2>7 DEF SummariesCover
<1> QED
  BY <1>1, <1>4, <1>5, <1>8, <1>9, <1>10

-----------------------------------------------------------------------------
(* The chain moves. *)

\* Stepping down from unwind loses no block but unwind itself.
LEMMA UnwindKeeps ==
    ASSUME TypeOK, ChainInv, NEW b \in Blocks, unwind # NoBlock, b # unwind, PendingUnwind(b),
           unwind' = IF OnTrunk(Parent(unwind)) THEN NoBlock ELSE Parent(unwind), tip' = tip
    PROVE  PendingUnwind(b)'
<1>1. unwind \in Blocks /\ unwind # Genesis /\ Parent(unwind) \in Blocks /\ tip \in Blocks
  BY UnwindHasParent DEF TypeOK
<1>2. OnBranch(b, unwind) /\ ~OnBranch(b, tip)
  BY DEF PendingUnwind, OnTrunk
<1>3. OnBranch(b, Parent(unwind))
  BY <1>1, <1>2, ParentBelow
<1>4. ~OnBranch(Parent(unwind), tip)
  BY <1>1, <1>2, <1>3, OnBranchTransitive
<1>5. unwind' = Parent(unwind) /\ unwind' # NoBlock
  BY <1>1, <1>4, BranchAssumption DEF OnTrunk
<1> QED
  BY <1>2, <1>3, <1>5 DEF PendingUnwind, OnTrunk

\* A block that is safe stays safe, except for the one unwind_tip is called for.
LEMMA SafeKept ==
    ASSUME NodeTypeOK, ChainInv, NodeNext, NEW b \in Blocks, Safe(b)
    PROVE  \/ Safe(b)'
           \/ BlockDisconnected /\ Young(unwind) /\ b = unwind
           \/ BlockDisconnectedAtStart /\ b = unwind
<1>t. TypeOK /\ tip \in Blocks /\ disk.tip \in Blocks
  BY DEF NodeTypeOK, TypeOK
<1> USE DEF Safe, PendingUnwind, OnTrunk
<1>1. ASSUME UNCHANGED <<tip, disk, phase, unwind, stranded>>, phase # "down" PROVE Safe(b)'
  BY <1>1
<1>2. CASE HeaderThread
  <2>1. stranded' = stranded
    BY <1>2 DEF HeaderThread, lossVars
  <2>2. CASE AddHeader
    <3>1. phase = "adding" /\ tip' \in {tip, Head(hq)}
      BY <2>2 DEF AddHeader, ChainAddHeader
    <3>2. unwind = NoBlock /\ OnBranch(disk.tip, tip)
      BY <3>1 DEF ChainInv
    <3>3. CASE OnBranch(b, disk.tip)
      <4>1. OnBranch(b, tip)
        BY <1>t, <3>2, <3>3, OnBranchTransitive
      <4>2. \/ phase' = "downstream" /\ disk' = Batch
            \/ disk' = disk
        BY <2>2 DEF AddHeader
      <4>3. CASE disk' = disk
        BY <4>3, <3>3
      <4>4. CASE disk' = Batch
        <5>1. disk'.tip = tip'
          BY <4>4 DEF Batch
        <5>2. CASE Reorganises(Head(hq))
          <6>1. unwind' = tip /\ tip # NoBlock
            BY <1>t, <2>2, <5>2, BranchAssumption DEF AddHeader
          <6> QED
            BY <4>1, <5>1, <6>1
        <5>3. CASE ~Reorganises(Head(hq))
          <6>0. Head(hq) \in Blocks
            BY <1>t, <2>2 DEF TypeOK, AddHeader
          <6>1. tip' = tip \/ (tip' = Head(hq) /\ Stores(Head(hq)) /\ Parent(Head(hq)) = tip)
            BY <2>2, <5>3 DEF AddHeader, ChainAddHeader, Reorganises, MovesTip
          <6>2. CASE tip' = tip
            BY <4>1, <5>1, <6>2
          <6>3. CASE tip' = Head(hq) /\ Stores(Head(hq)) /\ Parent(Head(hq)) = tip
            <7>1. OnBranch(tip, Head(hq))
              BY <6>0, <6>3, ParentBelow DEF Stores
            <7>2. OnBranch(b, Head(hq))
              BY <1>t, <4>1, <6>0, <7>1, OnBranchTransitive
            <7> QED
              BY <5>1, <6>3, <7>2
          <6> QED
            BY <6>1, <6>2, <6>3
        <5> QED
          BY <5>2, <5>3
      <4> QED
        BY <4>2, <4>3, <4>4
    <3> QED
      BY <2>1, <3>1, <3>2, <3>3
  <2>3. CASE ~AddHeader
    <3>1. /\ UNCHANGED <<tip, disk, unwind>> /\ phase # "down"
      BY <1>2, <2>3 DEF HeaderThread, Connected, Disconnected, TimeoutCheck, IgnoreHeaders,
         IncomingInv, DropBlock, IncomingHeaders, NextRound, EndHeaders, StartDone,
         chainVars, roundVars
    <3> QED
      BY <2>1, <3>1
  <2> QED
    BY <2>2, <2>3
<1>3. CASE \E p \in Peers, c \in Blocks : BlockConnected(p, c)
  BY <1>1, <1>3 DEF BlockConnected, AcceptBlock, chainVars, roundVars, lossVars
<1>4. CASE HeaderConnected
  BY <1>1, <1>4 DEF HeaderConnected, Connect, chainVars
<1>5. CASE BlockDisconnected
  <2>1. /\ phase = "downstream" /\ unwind # NoBlock /\ phase' = phase
        /\ unwind' = IF OnTrunk(Parent(unwind)) THEN NoBlock ELSE Parent(unwind)
        /\ UNCHANGED <<tip, disk, stranded>>
    BY <1>5 DEF BlockDisconnected, Disconnect, chainVars, lossVars
  <2>2. CASE b # unwind
    BY <1>t, <2>1, <2>2, UnwindKeeps
  <2>3. CASE b = unwind
    BY <1>5, <2>3
  <2> QED
    BY <2>2, <2>3
<1>6. CASE BlockDisconnectedAtStart
  <2>1. /\ phase = "startup" /\ unwind # NoBlock /\ phase' = phase
        /\ unwind' = IF OnTrunk(Parent(unwind)) THEN NoBlock ELSE Parent(unwind)
        /\ UNCHANGED <<tip, disk, stranded>>
    BY <1>6 DEF BlockDisconnectedAtStart, StartDisconnect, chainVars, lossVars
  <2>2. CASE b # unwind
    BY <1>t, <2>1, <2>2, UnwindKeeps
  <2>3. CASE b = unwind
    BY <1>6, <2>3
  <2> QED
    BY <2>2, <2>3
<1>7. CASE PublishOwn \/ UpdaterReads \/ UpdaterWrites \/ User
  <2>1. UNCHANGED <<tip, disk, phase, unwind, stranded, processed>>
    BY <1>7 DEF PublishOwn, UpdaterReads, UpdaterWrites, User, vars, lossVars, chainVars,
                roundVars, walletVars
  <2> QED
    BY <2>1
<1>8. CASE ProcessCrash
  <2>1. /\ phase # "down" /\ phase' = "down" /\ disk' = disk /\ processed' = processed
        /\ stranded' = stranded \cup {c \in Blocks : Strands(c)}
    BY <1>8 DEF ProcessCrash, Crash, walletVars
  <2> QED
    BY <2>1 DEF Strands
<1>9. CASE ProcessRescan
  <2>1. /\ phase = "down" /\ phase' = "down" /\ UNCHANGED <<tip, disk, unwind>>
        /\ stranded' = stranded \cup
              {c \in Blocks : processed # NoBlock /\ OnBranch(c, processed) /\ ~OnTrunk(c)}
    BY <1>9 DEF ProcessRescan, Rescan, chainVars, roundVars
  <2>2. disk.tip = tip
    BY <2>1 DEF ChainInv
  <2> QED
    BY <2>1, <2>2
<1>10. CASE ProcessStart
  <2>1. /\ phase = "down" /\ UNCHANGED <<tip, disk, stranded>>
        /\ unwind' = IF processed = NoBlock \/ OnTrunk(processed) THEN NoBlock ELSE processed
    BY <1>10 DEF ProcessStart, Start, chainVars, lossVars
  <2>2. disk.tip = tip /\ unwind = NoBlock
    BY <2>1 DEF ChainInv
  <2>3. CASE processed # NoBlock /\ OnBranch(b, processed) /\ ~OnBranch(b, tip)
    <3>1. processed \in Blocks
      BY <1>t, <2>3 DEF TypeOK
    <3>2. ~OnBranch(processed, tip)
      BY <1>t, <2>3, <3>1, OnBranchTransitive
    <3> QED
      BY <2>1, <2>3, <3>2
  <2> QED
    BY <2>1, <2>2, <2>3
<1> QED
  BY <1>2, <1>3, <1>4, <1>5, <1>6, <1>7, <1>8, <1>9, <1>10 DEF NodeNext

\* A term that is fresh stays fresh, except when add_header is called for the tip.
LEMMA FreshKept ==
    ASSUME NodeTypeOK, ChainInv, NodeNext, NEW n \in Int, Fresh(n)
    PROVE  \/ Fresh(n)'
           \/ HeaderConnected /\ Young(Head(conn)) /\ Head(conn) = tip
<1>t. TypeOK /\ conn \in Seq(Blocks)
  BY DEF NodeTypeOK, TypeOK
<1> USE DEF Fresh
<1>1. CASE HeaderThread
  <2>1. lapsed' = lapsed
    BY <1>1 DEF HeaderThread, lossVars
  <2>2. CASE AddHeader
    <3> DEFINE h == Head(hq)
    <3>1. /\ phase = "adding" /\ ChainAddHeader(h) /\ conn' = conn \o Reported(h)
          /\ disk' = Batch \/ disk' = disk
      BY <2>2 DEF AddHeader
    <3>2. h \in Blocks
      BY <1>t, <2>2 DEF TypeOK, AddHeader
    <3> HIDE DEF h
    <3>3. Reported(h) \in Seq(Blocks)
      BY <3>2, ElementsOfEmpty DEF Reported
    <3>4. Elements(conn') = Elements(conn) \cup Elements(Reported(h))
      BY <1>t, <3>1, <3>3, ElementsOfConcat
    <3>5. tip' # tip => tip' \in Elements(conn')
      <4>1. CASE MovesTip(h)
        <5>1. Reported(h) = <<h>> /\ tip' = h
          BY <3>1, <4>1 DEF Reported, MovesTip, ChainAddHeader
        <5>2. Len(<<h>>) = 1 /\ <<h>>[1] = h /\ 1 \in 1..1
          OBVIOUS
        <5>3. h \in Elements(Reported(h))
          BY <5>1, <5>2 DEF Elements
        <5> QED
          BY <3>4, <5>1, <5>3
      <4>2. CASE ~MovesTip(h)
        BY <3>1, <4>2 DEF ChainAddHeader
      <4> QED
        BY <4>1, <4>2
    <3>6. tip = disk.tip \/ tip \in Elements(conn)
      BY <3>1 DEF ChainInv
    <3>7. CASE disk' = disk
      BY <2>1, <3>4, <3>7
    <3>8. CASE disk' = Batch
      <4>1. disk'.tip = tip'
        BY <3>8 DEF Batch
      <4> QED
        BY <2>1, <3>4, <3>5, <3>6, <4>1
    <3> QED
      BY <3>1, <3>7, <3>8
  <2>3. CASE ~AddHeader
    <3>1. UNCHANGED <<disk, conn>>
      BY <1>1, <2>3 DEF HeaderThread, Connected, Disconnected, TimeoutCheck, IgnoreHeaders,
         IncomingInv, DropBlock, IncomingHeaders, NextRound, EndHeaders, StartDone,
         chainVars, roundVars
    <3> QED
      BY <2>1, <3>1
  <2> QED
    BY <2>2, <2>3
<1>2. CASE \E p \in Peers, c \in Blocks : BlockConnected(p, c)
  BY <1>2 DEF BlockConnected, AcceptBlock, chainVars, roundVars, lossVars
<1>3. CASE HeaderConnected
  <2>1. /\ phase = "downstream" /\ conn # <<>> /\ conn' = Tail(conn) /\ disk' = disk
        /\ lapsed' = (lapsed /\ ~(Young(Head(conn)) /\ Head(conn) = tip))
    BY <1>3 DEF HeaderConnected, Connect, chainVars
  <2>2. disk.tip = tip
    BY <2>1 DEF ChainInv
  <2>3. Elements(conn) = {Head(conn)} \cup Elements(Tail(conn))
    BY <1>t, <2>1, ElementsOfTail
  <2> QED
    BY <1>3, <2>1, <2>2, <2>3
<1>4. CASE BlockDisconnected \/ BlockDisconnectedAtStart \/ ProcessRescan \/ ProcessStart
  <2>1. UNCHANGED <<disk, conn, lapsed>>
    BY <1>4 DEF BlockDisconnected, BlockDisconnectedAtStart, ProcessRescan, ProcessStart,
       Disconnect, StartDisconnect, Rescan, Start, chainVars, roundVars, lossVars
  <2> QED
    BY <2>1
<1>5. CASE PublishOwn \/ UpdaterReads \/ UpdaterWrites \/ User
  <2>1. UNCHANGED <<disk, conn, lapsed>>
    BY <1>5 DEF PublishOwn, UpdaterReads, UpdaterWrites, User, vars, lossVars, chainVars,
                roundVars
  <2> QED
    BY <2>1
<1>6. CASE ProcessCrash
  BY <1>6 DEF ProcessCrash, Crash
<1> QED
  BY <1>1, <1>2, <1>3, <1>4, <1>5, <1>6 DEF NodeNext

-----------------------------------------------------------------------------
(* The invariant of the node. *)

NodeInv ==
    /\ NodeTypeOK /\ ChainInv /\ DurableInv
    /\ PublishInv /\ RowInv /\ TermInv
    /\ SummariesCover

\* The invariant holds of a new node.
LEMMA NodeInvInit ==
    NodeInit => NodeInv
<1> SUFFICES ASSUME NodeInit PROVE NodeInv
  OBVIOUS
<1>1. TypeOK /\ ChainInv /\ DurableInv
  BY TypeInit, ChainInvInit DEF NodeInit
<1>2. Stored = {} /\ offer = NoOffer /\ publishing = {}
  BY DEF NodeInit, StoreInit, Stored
<1>3. StoreTypeOK
  BY DEF NodeInit, StoreInit, StoreTypeOK
<1>4. NodeTypeOK
  BY <1>1, <1>3 DEF NodeInit, NodeTypeOK
<1>5. SummariesCover
  <2>1. Cardinality(Stored) = 0
    BY <1>2, FS_EmptySet
  <2>2. \A s \in Sizes : iblts[s] = NoTable
    BY DEF NodeInit, StoreInit
  <2> QED
    BY <1>2, <2>1, <2>2 DEF NodeInit, StoreInit, SummariesCover
<1> QED
  BY <1>1, <1>2, <1>4, <1>5 DEF NodeInv, PublishInv, RowInv, TermInv, Located, Checked

\* The part of the invariant that is about the store, after a step that leaves the
\* tables and the offer alone.
LEMMA StoreQuiet ==
    ASSUME NodeInv, NodeNext, UNCHANGED <<tableVars, offer>>,
           ~BlockDisconnected \/ ~Young(unwind), ~BlockDisconnectedAtStart,
           ~HeaderConnected \/ ~Young(Head(conn))
    PROVE  RowInv' /\ TermInv' /\ SummariesCover'
<1>1. UNCHANGED <<content, iblts, sketch, n_keys, offer>>
  BY DEF tableVars
<1>2. Stored' = Stored
  BY <1>1 DEF Stored
<1>3. SummariesCover'
  BY <1>1, <1>2 DEF NodeInv, SummariesCover
<1>4. ASSUME NEW b \in Blocks, Safe(b) PROVE Safe(b)'
  BY <1>4, SafeKept DEF NodeInv
<1>5. ASSUME NEW n \in Int, Fresh(n) PROVE Fresh(n)'
  BY <1>5, FreshKept DEF NodeInv
<1>6. /\ \A a \in Stored : /\ content[a].block \in Blocks
                           /\ content[a].height + content[a].term \in Int
      /\ Located => offer.proof.block \in Blocks
      /\ Checked => offer.height + offer.proof.term \in Int
  BY ProofAssumption DEF NodeInv, NodeTypeOK, StoreTypeOK, Stored, Rows, Located, Checked
<1>7. RowInv'
  BY <1>1, <1>2, <1>4, <1>6 DEF NodeInv, RowInv, Located
<1>8. TermInv'
  BY <1>1, <1>2, <1>5, <1>6 DEF NodeInv, TermInv, Checked
<1> QED
  BY <1>3, <1>7, <1>8

\* What holds of the own fundings whatever the step does to the rest of the store.
FundingTypeOK ==
    /\ publication \subseteq Ads
    /\ txout \in [Fundings -> {"absent", "unconfirmed"} \cup Blocks]
    /\ publishing \subseteq {OwnProof(f, b) : f \in Fundings, b \in Blocks}
    /\ sent \in [Fundings -> {"no", "early", "ready"}]

TableTypeOK ==
    /\ content \in [Ads -> Rows \cup {NoRow}]
    /\ iblts \in [Sizes -> [Ads -> Int] \cup {NoTable}]
    /\ sketch \subseteq Ads
    /\ n_keys \in Nat

OfferTypeOK ==
    offer \in {NoOffer} \cup
        [proof : Proofs, height : Nat, stage : {"located", "checked", "ended"}]

\* The type of the store, in the parts that operations change together.
LEMMA StoreTypeParts ==
    /\ StoreTypeOK <=> TableTypeOK /\ OfferTypeOK /\ FundingTypeOK
    /\ StoreTypeOK' <=> TableTypeOK' /\ OfferTypeOK' /\ FundingTypeOK'
BY DEF StoreTypeOK, TableTypeOK, OfferTypeOK, FundingTypeOK

\* What the invariant says of one stored ad.
LEMMA StoredRow ==
    ASSUME NodeInv, NEW a \in Stored
    PROVE  /\ content[a].block \in Blocks /\ Safe(content[a].block)
           /\ content[a].height \in Nat /\ content[a].term \in Nat
           /\ Fresh(content[a].height + content[a].term)
<1>1. content \in [Ads -> Rows \cup {NoRow}]
  BY DEF NodeInv, NodeTypeOK, StoreTypeOK
<1>2. content[a] \in Rows
  BY <1>1 DEF Stored
<1>3. Safe(content[a].block)
  BY DEF NodeInv, RowInv
<1>4. Fresh(content[a].height + content[a].term)
  BY DEF NodeInv, TermInv
<1> QED
  BY <1>2, <1>3, <1>4 DEF Rows

\* A step that deletes stored ads while no add_content is in progress.
LEMMA DeleteStep ==
    ASSUME NodeInv, NodeNext, NEW ads \in SUBSET Stored, Delete(ads), offer' = NoOffer,
           (BlockDisconnected /\ Young(unwind)) \/ BlockDisconnectedAtStart =>
              \A a \in Stored \ ads : content[a].block # unwind,
           HeaderConnected /\ Young(Head(conn)) /\ Head(conn) = tip =>
              \A a \in Stored \ ads : content[a].height + content[a].term > Height(tip)
    PROVE  TableTypeOK' /\ RowInv' /\ TermInv' /\ SummariesCover'
<1>1. /\ TableTypeOK' /\ SummariesCover'
      /\ Stored' \subseteq Stored \ ads
      /\ \A a \in Stored' : content'[a] = content[a]
  BY DeleteKeeps DEF NodeInv, NodeTypeOK, TableTypeOK
<1>2. ~Located' /\ ~Checked'
  BY DEF Located, Checked
<1>3. ASSUME NEW a \in Stored' PROVE Safe(content[a].block)'
  <2>1. a \in Stored \ ads /\ content'[a] = content[a] /\ content[a].block \in Blocks
        /\ Safe(content[a].block)
    BY <1>1, StoredRow
  <2> DEFINE b == content[a].block
  <2>2. b' = b
    BY <2>1
  <2>3. \/ Safe(content[a].block)'
        \/ BlockDisconnected /\ Young(unwind) /\ b = unwind
        \/ BlockDisconnectedAtStart /\ b = unwind
    <3> SUFFICES ASSUME NEW c \in Blocks, c = b
                 PROVE  \/ Safe(c)'
                        \/ BlockDisconnected /\ Young(unwind) /\ c = unwind
                        \/ BlockDisconnectedAtStart /\ c = unwind
      BY <2>1, <2>2 DEF Safe, PendingUnwind, OnTrunk, Young
    <3> QED
      BY <2>1, SafeKept DEF NodeInv
  <2> QED
    BY <2>1, <2>3
<1>4. ASSUME NEW a \in Stored' PROVE Fresh(content[a].height + content[a].term)'
  <2> DEFINE n == content[a].height + content[a].term
  <2>1. a \in Stored \ ads /\ content'[a] = content[a] /\ n \in Int /\ Fresh(n)
    <3>1. a \in Stored \ ads /\ content'[a] = content[a]
      BY <1>1
    <3>2. content[a].height \in Nat /\ content[a].term \in Nat /\ Fresh(n)
      BY <3>1, StoredRow
    <3> QED
      BY <3>1, <3>2
  <2>2. n' = n
    BY <2>1
  <2>3. CASE HeaderConnected /\ Young(Head(conn)) /\ Head(conn) = tip
    <3>1. n > Height(tip)
      BY <2>1, <2>3
    <3>2. phase = "downstream" /\ disk' = disk
      BY <2>3 DEF HeaderConnected, Connect, chainVars
    <3>3. disk'.tip = tip /\ Height(tip) \in Nat
      BY <3>2, BranchType DEF ChainInv, NodeInv, NodeTypeOK, TypeOK
    <3> QED
      BY <2>1, <2>2, <3>1, <3>3 DEF Fresh
  <2>4. CASE ~(HeaderConnected /\ Young(Head(conn)) /\ Head(conn) = tip)
    <3> SUFFICES ASSUME NEW m \in Int, m = n PROVE Fresh(m)'
      BY <2>1, <2>2 DEF Fresh
    <3> QED
      BY <2>1, <2>4, FreshKept DEF NodeInv
  <2> QED
    BY <2>3, <2>4
<1> QED
  BY <1>1, <1>2, <1>3, <1>4 DEF RowInv, TermInv

\* A step that inserts an ad known to be safe and fresh, and moves nothing else.
LEMMA InsertStep ==
    ASSUME NodeInv, UNCHANGED <<vars, lossVars>>,
           NEW proof \in ProofRecords, NEW h \in Nat, Insert(proof, h),
           Safe(proof.block), Fresh(h + proof.term)
    PROVE  /\ TableTypeOK' /\ SummariesCover'
           /\ \A a \in Stored' : Safe(content[a].block)'
           /\ \A a \in Stored' : Fresh(content[a].height + content[a].term)'
<1>1. /\ TableTypeOK' /\ SummariesCover'
      /\ \A a \in Stored' :
            \/ a \in Stored /\ content'[a] = content[a]
            \/ /\ content'[a].block = proof.block
               /\ content'[a].height = h /\ content'[a].term = proof.term
  BY InsertKeeps DEF NodeInv, NodeTypeOK, TableTypeOK
<1>2. UNCHANGED <<tip, disk, unwind, conn, phase, processed, stranded, lapsed>>
  BY DEF vars, chainVars, roundVars, walletVars, lossVars
<1>3. /\ \A a \in Stored : Safe(content[a].block)
      /\ \A a \in Stored : Fresh(content[a].height + content[a].term)
  BY DEF NodeInv, RowInv, TermInv
<1>4. ASSUME NEW a \in Stored' PROVE Safe(content[a].block)'
  BY <1>1, <1>2, <1>3 DEF Safe, PendingUnwind, OnTrunk
<1>5. ASSUME NEW a \in Stored' PROVE Fresh(content[a].height + content[a].term)'
  BY <1>1, <1>2, <1>3 DEF Fresh
<1> QED
  BY <1>1, <1>4, <1>5

\* While the chain can be read, a block seen on the trunk is safe and a term seen to
\* be current is fresh.
LEMMA SeenOnTrunk ==
    ASSUME NodeInv, phase # "adding"
    PROVE  /\ \A b \in Blocks : OnTrunk(b) => Safe(b)
           /\ \A h \in Nat, t \in Nat : Current(h, t) => Fresh(h + t)
<1>1. disk.tip = tip
  BY DEF NodeInv, ChainInv
<1> QED
  BY <1>1 DEF OnTrunk, Safe, Current, Fresh

\* Every step of a node keeps the invariant.
LEMMA NodeStep ==
    NodeInv /\ [NodeNext]_nodeVars => NodeInv'
<1> SUFFICES ASSUME NodeInv, [NodeNext]_nodeVars PROVE NodeInv'
  OBVIOUS
<1>0. CASE UNCHANGED nodeVars
  <2>1. /\ UNCHANGED <<known, tip, disk, phase, hq, unwind, conn, ctx, wanted, asked, peer>>
        /\ UNCHANGED <<up, expHeaders, expBlocks, height, processed, done, skipped, jumped, crashes>>
        /\ UNCHANGED <<content, iblts, sketch, n_keys, offer, publication, txout, publishing, sent>>
        /\ UNCHANGED <<stranded, lapsed>>
    BY <1>0 DEF nodeVars, vars, chainVars, roundVars, queueVars, peerVars, walletVars,
                historyVars, storeVars, tableVars, txoutVars
  <2>2. NodeTypeOK' /\ ChainInv' /\ DurableInv'
    <3>1. UNCHANGED vars
      BY <1>0 DEF nodeVars
    <3>2. TypeOK' /\ ChainInv' /\ DurableInv'
      BY <3>1, TypeStep, ChainStep DEF NodeInv, NodeTypeOK
    <3>3. StoreTypeOK'
      BY <2>1 DEF NodeInv, NodeTypeOK, StoreTypeOK
    <3> QED
      BY <2>1, <3>2, <3>3 DEF NodeInv, NodeTypeOK
  <2>3. PublishInv' /\ RowInv' /\ TermInv'
    BY <2>1 DEF NodeInv, PublishInv, RowInv, TermInv, Located, Checked, Stored, Safe,
                PendingUnwind, OnTrunk, Fresh
  <2>4. SummariesCover'
    BY <2>1 DEF NodeInv, SummariesCover, Stored
  <2> QED
    BY <2>2, <2>3, <2>4 DEF NodeInv
<1> SUFFICES ASSUME NodeNext PROVE NodeInv'
  BY <1>0
<1>t. /\ TypeOK /\ StoreTypeOK /\ TableTypeOK /\ OfferTypeOK /\ FundingTypeOK
      /\ stranded \subseteq Blocks /\ lapsed \in BOOLEAN
  BY StoreTypeParts DEF NodeInv, NodeTypeOK
<1>1. TypeOK' /\ ChainInv' /\ DurableInv'
  BY <1>t, NodeStepIsStep, TypeStep, ChainStep DEF NodeInv
<1>2. SUFFICES /\ TableTypeOK' /\ OfferTypeOK' /\ FundingTypeOK'
               /\ stranded' \subseteq Blocks /\ lapsed' \in BOOLEAN
               /\ PublishInv' /\ RowInv' /\ TermInv' /\ SummariesCover'
  BY <1>1, StoreTypeParts DEF NodeInv, NodeTypeOK
<1>3. ASSUME UNCHANGED storeVars
      PROVE  TableTypeOK' /\ OfferTypeOK' /\ FundingTypeOK' /\ UNCHANGED <<tableVars, offer>>
             /\ publishing' = publishing
  BY <1>t, <1>3 DEF storeVars, tableVars, txoutVars, TableTypeOK, OfferTypeOK, FundingTypeOK
<1>4. ASSUME UNCHANGED txoutVars PROVE FundingTypeOK' /\ publishing' = publishing
  BY <1>t, <1>4 DEF txoutVars, FundingTypeOK
<1>5. ASSUME UNCHANGED lossVars PROVE stranded' \subseteq Blocks /\ lapsed' \in BOOLEAN
  BY <1>t, <1>5 DEF lossVars
<1>6. ASSUME UNCHANGED vars PROVE phase' = phase
  BY <1>6 DEF vars
<1>7. CASE HeaderThread
  <2>1. publishing = {} /\ UNCHANGED storeVars /\ UNCHANGED lossVars
    BY <1>7 DEF HeaderThread, HeaderThreadFree
  <2>2. /\ ~BlockDisconnected /\ ~BlockDisconnectedAtStart /\ ~HeaderConnected
    <3>1. CASE AddHeader \/ NextRound \/ EndHeaders \/ StartDone
      BY <3>1 DEF AddHeader, NextRound, EndHeaders, StartDone, BlockDisconnected,
         BlockDisconnectedAtStart, HeaderConnected, Disconnect, StartDisconnect, Connect
    <3>2. CASE phase = "idle"
      BY <3>2 DEF BlockDisconnected, BlockDisconnectedAtStart, HeaderConnected,
         Disconnect, StartDisconnect, Connect
    <3> QED
      BY <1>7, <3>1, <3>2 DEF HeaderThread, Connected, Disconnected, TimeoutCheck,
         IgnoreHeaders, IncomingInv, DropBlock, IncomingHeaders
  <2>3. RowInv' /\ TermInv' /\ SummariesCover'
    BY <2>1, <2>2, <1>3, StoreQuiet
  <2> QED
    BY <2>1, <2>3, <1>3, <1>5 DEF PublishInv
<1>8. ASSUME NEW p \in Peers, NEW b \in Blocks, BlockConnected(p, b)
      PROVE  /\ TableTypeOK' /\ OfferTypeOK' /\ FundingTypeOK'
             /\ stranded' \subseteq Blocks /\ lapsed' \in BOOLEAN
             /\ PublishInv' /\ RowInv' /\ TermInv' /\ SummariesCover'
  <2>1. AcceptBlock(p, b) /\ StoreBlockConnected(b) /\ UNCHANGED lossVars
    BY <1>8 DEF BlockConnected
  <2>2. phase = "idle" /\ phase' = "idle"
    BY <2>1 DEF AcceptBlock
  <2>3. UNCHANGED <<tableVars, offer>>
    BY <2>1 DEF StoreBlockConnected
  <2>4. TableTypeOK' /\ OfferTypeOK'
    BY <1>t, <2>3 DEF tableVars, TableTypeOK, OfferTypeOK
  <2>5. FundingTypeOK'
    <3> DEFINE newly == Unconfirmed(b)
    <3>1. newly \subseteq Fundings
      BY FundingAssumption DEF Unconfirmed
    <3>2. /\ txout' = [f \in Fundings |-> IF f \in newly THEN b ELSE txout[f]]
          /\ publishing' = {OwnProof(f, b) : f \in {g \in newly : g.ad \in publication}}
          /\ UNCHANGED <<publication, sent>>
      BY <2>1 DEF StoreBlockConnected, TxoutWith
    <3> HIDE DEF newly
    <3>3. txout' \in [Fundings -> {"absent", "unconfirmed"} \cup Blocks]
      BY <1>t, <3>2 DEF FundingTypeOK
    <3>4. publishing' \subseteq {OwnProof(f, c) : f \in Fundings, c \in Blocks}
      BY <3>1, <3>2
    <3> QED
      BY <1>t, <3>2, <3>3, <3>4 DEF FundingTypeOK
  <2>6. RowInv' /\ TermInv' /\ SummariesCover'
    <3>1. ~BlockDisconnected /\ ~BlockDisconnectedAtStart /\ ~HeaderConnected
      BY <2>2 DEF BlockDisconnected, BlockDisconnectedAtStart, HeaderConnected,
         Disconnect, StartDisconnect, Connect
    <3> QED
      BY <2>3, <3>1, StoreQuiet
  <2> QED
    BY <2>1, <2>2, <2>4, <2>5, <2>6, <1>5 DEF PublishInv
<1>9. CASE HeaderConnected
  <2>1. /\ phase = "downstream" /\ phase' = phase /\ stranded' = stranded
        /\ lapsed' = (lapsed /\ ~(Young(Head(conn)) /\ Head(conn) = tip))
        /\ disk' = disk
    BY <1>9 DEF HeaderConnected, Connect, chainVars
  <2>2. publishing = {} /\ stranded' \subseteq Blocks /\ lapsed' \in BOOLEAN
    BY <1>t, <2>1 DEF NodeInv, PublishInv
  <2>3. ~BlockDisconnected /\ ~BlockDisconnectedAtStart
    BY <1>9, <2>1 DEF HeaderConnected, Connect, BlockDisconnected, BlockDisconnectedAtStart,
       Disconnect, StartDisconnect
  <2>4. CASE Young(Head(conn))
    <3>1. StoreAddHeader(Head(conn))
      BY <1>9, <2>4 DEF HeaderConnected
    <3> DEFINE ads == Expired(Height(Head(conn)))
    <3>2. /\ Delete(ads) /\ offer = NoOffer /\ offer' = NoOffer /\ UNCHANGED txoutVars
          /\ ads \in SUBSET Stored
      BY <3>1 DEF StoreAddHeader, Unlocked, Expired
    <3>3. Head(conn) = tip =>
             \A a \in Stored \ ads : content[a].height + content[a].term > Height(tip)
      <4>1. \A a \in Stored : content[a].height + content[a].term \in Int
        BY <1>t DEF StoreTypeOK, Stored, Rows
      <4>2. Height(tip) \in Int
        BY <1>t, BranchType DEF TypeOK
      <4> QED
        BY <4>1, <4>2 DEF Expired
    <3> HIDE DEF ads
    <3>4. TableTypeOK' /\ RowInv' /\ TermInv' /\ SummariesCover'
      BY <2>3, <3>2, <3>3, DeleteStep
    <3> QED
      BY <1>4, <2>1, <2>2, <3>2, <3>4 DEF PublishInv, OfferTypeOK
  <2>5. CASE ~Young(Head(conn))
    <3>1. UNCHANGED storeVars
      BY <1>9, <2>5 DEF HeaderConnected
    <3>2. RowInv' /\ TermInv' /\ SummariesCover'
      BY <1>3, <2>3, <2>5, <3>1, StoreQuiet
    <3> QED
      BY <1>3, <2>2, <3>1, <3>2 DEF PublishInv
  <2> QED
    BY <2>4, <2>5
<1>10. CASE BlockDisconnected
  <2>1. phase = "downstream" /\ phase' = phase /\ UNCHANGED lossVars /\ publishing = {}
    BY <1>10 DEF BlockDisconnected, Disconnect, NodeInv, PublishInv
  <2>2. ~HeaderConnected /\ ~BlockDisconnectedAtStart
    BY <1>10, <2>1 DEF HeaderConnected, Connect, BlockDisconnected, BlockDisconnectedAtStart,
       Disconnect, StartDisconnect
  <2>3. CASE Young(unwind)
    <3>1. StoreUnwindTip(unwind)
      BY <1>10, <2>3 DEF BlockDisconnected
    <3>2. /\ Delete(Confirmed(unwind)) /\ offer' = NoOffer /\ UNCHANGED txoutVars
          /\ Confirmed(unwind) \in SUBSET Stored
          /\ \A a \in Stored \ Confirmed(unwind) : content[a].block # unwind
      BY <3>1 DEF StoreUnwindTip, Unlocked, Confirmed
    <3>3. TableTypeOK' /\ RowInv' /\ TermInv' /\ SummariesCover'
      BY <2>2, <3>2, DeleteStep
    <3> QED
      BY <1>4, <1>5, <2>1, <3>2, <3>3 DEF PublishInv, OfferTypeOK
  <2>4. CASE ~Young(unwind)
    <3>1. UNCHANGED storeVars
      BY <1>10, <2>4 DEF BlockDisconnected
    <3>2. RowInv' /\ TermInv' /\ SummariesCover'
      BY <1>3, <2>2, <2>4, <3>1, StoreQuiet
    <3> QED
      BY <1>3, <1>5, <2>1, <3>1, <3>2 DEF PublishInv
  <2> QED
    BY <2>3, <2>4
<1>11. CASE BlockDisconnectedAtStart
  <2>1. phase = "startup" /\ phase' = phase /\ UNCHANGED lossVars /\ publishing = {}
    BY <1>11 DEF BlockDisconnectedAtStart, StartDisconnect, NodeInv, PublishInv
  <2>2. ~HeaderConnected /\ ~BlockDisconnected
    BY <2>1 DEF HeaderConnected, Connect, BlockDisconnected, Disconnect
  <2>3. StoreUnwindTip(unwind)
    BY <1>11 DEF BlockDisconnectedAtStart
  <2>4. /\ Delete(Confirmed(unwind)) /\ offer' = NoOffer /\ UNCHANGED txoutVars
        /\ Confirmed(unwind) \in SUBSET Stored
        /\ \A a \in Stored \ Confirmed(unwind) : content[a].block # unwind
    BY <2>3 DEF StoreUnwindTip, Unlocked, Confirmed
  <2>5. TableTypeOK' /\ RowInv' /\ TermInv' /\ SummariesCover'
    BY <2>2, <2>4, DeleteStep
  <2> QED
    BY <1>4, <1>5, <2>1, <2>4, <2>5 DEF PublishInv, OfferTypeOK
<1>12. ASSUME UNCHANGED <<vars, lossVars>>
       PROVE  /\ ~BlockDisconnected /\ ~BlockDisconnectedAtStart /\ ~HeaderConnected
              /\ UNCHANGED vars /\ UNCHANGED lossVars /\ phase' = phase
              /\ UNCHANGED <<tip, disk, unwind, conn, phase, processed, stranded, lapsed>>
  <2>1. UNCHANGED <<tip, disk, unwind, conn, phase, processed, stranded, lapsed>>
    BY <1>12 DEF vars, chainVars, roundVars, walletVars, lossVars
  <2>2. ~HeaderConnected
    <3>1. SUFFICES ASSUME HeaderConnected PROVE FALSE
      OBVIOUS
    <3>2. conn # <<>> /\ conn \in Seq(Blocks)
      BY <1>t, <3>1 DEF HeaderConnected, Connect, TypeOK
    <3>3. Len(Tail(conn)) = Len(conn) - 1 /\ Len(conn) \in Nat
      BY <3>2
    <3>4. Tail(conn) = conn
      BY <2>1, <3>1 DEF HeaderConnected, Connect
    <3> QED
      BY <3>3, <3>4
  <2>3. ~BlockDisconnected /\ ~BlockDisconnectedAtStart
    <3>1. SUFFICES ASSUME BlockDisconnected \/ BlockDisconnectedAtStart PROVE FALSE
      OBVIOUS
    <3>2. unwind # NoBlock /\ unwind = Parent(unwind)
      BY <2>1, <3>1 DEF BlockDisconnected, BlockDisconnectedAtStart, Disconnect, StartDisconnect
    <3>3. unwind \in Blocks /\ unwind # Genesis
      BY <1>t, <3>2, UnwindHasParent DEF NodeInv
    <3>4. Height(Parent(unwind)) = Height(unwind) - 1 /\ Height(unwind) \in Nat
      BY <3>3, ParentBelow, BranchType
    <3> QED
      BY <3>2, <3>4
  <2> QED
    BY <1>12, <2>1, <2>2, <2>3
<1>13. CASE PublishOwn
  <2>1. PICK proof \in publishing : Publish(proof)
    BY <1>13 DEF PublishOwn
  <2>2. UNCHANGED <<vars, lossVars>> /\ phase = "idle" /\ phase' = phase
    BY <1>13, <1>12, <2>1 DEF PublishOwn, NodeInv, PublishInv
  <2>3. /\ publishing' = publishing \ {proof} /\ UNCHANGED <<offer, publication, txout, sent>>
        /\ OfferTypeOK' /\ FundingTypeOK'
    BY <1>t, <2>1 DEF Publish, OfferTypeOK, FundingTypeOK
  <2>4. proof \in ProofRecords
    <3>1. PICK f \in Fundings, b \in Blocks : proof = OwnProof(f, b)
      BY <1>t, <2>1 DEF FundingTypeOK
    <3>2. f.ad \in Ads /\ f.term \in Nat /\ f.amount \in Nat
      BY FundingAssumption
    <3>3. (f.term <= MAX_TERM) \in BOOLEAN
      BY <3>2, StoreAssumption
    <3> QED
      BY <3>1, <3>2, <3>3 DEF OwnProof, ProofRecords
  <2>5. CASE UNCHANGED tableVars
    <3>1. RowInv' /\ TermInv' /\ SummariesCover'
      BY <1>12, <2>2, <2>3, <2>5, StoreQuiet
    <3> QED
      BY <1>t, <1>5, <1>12, <2>2, <2>3, <2>5, <3>1 DEF PublishInv, TableTypeOK, tableVars
  <2>6. CASE /\ OnTrunk(proof.block) /\ Current(Height(proof.block), proof.term)
             /\ Insert(proof, Height(proof.block))
    <3>1. proof.block \in Blocks /\ Height(proof.block) \in Nat /\ proof.term \in Nat
      BY <2>4, BranchType DEF ProofRecords
    <3>2. Safe(proof.block) /\ Fresh(Height(proof.block) + proof.term)
      BY <2>2, <2>6, <3>1, SeenOnTrunk
    <3>3. /\ TableTypeOK' /\ SummariesCover'
          /\ \A a \in Stored' : Safe(content[a].block)'
          /\ \A a \in Stored' : Fresh(content[a].height + content[a].term)'
      BY <2>2, <2>4, <2>6, <3>1, <3>2, InsertStep
    <3>4. Located => Safe(offer.proof.block)'
      BY <1>12, <2>2, <2>3 DEF NodeInv, RowInv, Safe, PendingUnwind, OnTrunk
    <3>5. Checked => Fresh(offer.height + offer.proof.term)'
      BY <1>12, <2>2, <2>3 DEF NodeInv, TermInv, Fresh
    <3>6. RowInv' /\ TermInv'
      BY <2>3, <3>3, <3>4, <3>5 DEF RowInv, TermInv, Located, Checked
    <3> QED
      BY <1>5, <1>12, <2>2, <2>3, <3>3, <3>6 DEF PublishInv
  <2> QED
    BY <2>1, <2>5, <2>6 DEF Publish
<1>14. CASE UpdaterReads
  <2>1. /\ UNCHANGED <<vars, lossVars>> /\ phase # "adding"
        /\ (\E proof \in Proofs : LocateContent(proof)) \/ CheckContent
    BY <1>14 DEF UpdaterReads, ChainReadable
  <2>2. UNCHANGED <<tableVars, txoutVars>>
    BY <2>1 DEF LocateContent, CheckContent
  <2>3. /\ TableTypeOK' /\ FundingTypeOK' /\ publishing' = publishing
        /\ Stored' = Stored /\ content' = content
    BY <1>t, <1>4, <2>2 DEF tableVars, TableTypeOK, Stored
  <2>4. SummariesCover'
    BY <2>2, <2>3 DEF NodeInv, SummariesCover, tableVars
  <2>5. /\ \A a \in Stored' : Safe(content[a].block)'
        /\ \A a \in Stored' : Fresh(content[a].height + content[a].term)'
    BY <1>12, <2>1, <2>3 DEF NodeInv, RowInv, TermInv, Safe, PendingUnwind, OnTrunk, Fresh
  <2>6. OfferTypeOK' /\ (Located' => Safe(offer.proof.block)')
        /\ (Checked' => Fresh(offer.height + offer.proof.term)')
    <3>1. ASSUME NEW proof \in Proofs, LocateContent(proof)
          PROVE  OfferTypeOK' /\ (Located' => Safe(offer.proof.block)') /\ ~Checked'
      <4>1. /\ offer' = [proof |-> proof, height |-> Height(proof.block),
                         stage |-> IF OnTrunk(proof.block) THEN "located" ELSE "ended"]
        BY <3>1 DEF LocateContent
      <4>2. proof.block \in Blocks /\ Height(proof.block) \in Nat
        BY ProofAssumption, BranchType
      <4>3. OfferTypeOK' /\ ~Checked'
        BY <4>1, <4>2 DEF OfferTypeOK, Checked
      <4>4. Located' => OnTrunk(proof.block) /\ offer'.proof = proof
        BY <4>1 DEF Located
      <4>5. OnTrunk(proof.block) => Safe(proof.block)
        BY <2>1, <4>2, SeenOnTrunk
      <4> QED
        BY <1>12, <2>1, <4>3, <4>4, <4>5 DEF Safe, PendingUnwind, OnTrunk
    <3>2. ASSUME CheckContent
          PROVE  OfferTypeOK' /\ (Located' => Safe(offer.proof.block)')
                 /\ (Checked' => Fresh(offer.height + offer.proof.term)')
      <4>1. /\ offer # NoOffer /\ offer.stage = "located"
            /\ offer' = [offer EXCEPT !.stage =
                            IF Current(offer.height, offer.proof.term) /\ offer.proof.genuine
                              THEN "checked" ELSE "ended"]
        BY <3>2 DEF CheckContent
      <4>2. offer \in [proof : Proofs, height : Nat, stage : {"located", "checked", "ended"}]
        BY <1>t, <4>1 DEF OfferTypeOK
      <4>3. /\ offer'.proof = offer.proof /\ offer'.height = offer.height
            /\ offer'.stage = "checked" => Current(offer.height, offer.proof.term)
            /\ OfferTypeOK'
        BY <4>1, <4>2 DEF OfferTypeOK
      <4>4. Safe(offer.proof.block)
        BY <4>1 DEF NodeInv, RowInv, Located
      <4>5. offer.height \in Nat /\ offer.proof.term \in Nat
        BY <4>2, ProofAssumption
      <4>6. Current(offer.height, offer.proof.term) => Fresh(offer.height + offer.proof.term)
        BY <2>1, <4>5, SeenOnTrunk
      <4>7. Safe(offer.proof.block)'
        BY <1>12, <2>1, <4>3, <4>4 DEF Safe, PendingUnwind, OnTrunk
      <4>8. Checked' => Fresh(offer.height + offer.proof.term)'
        <5>1. Checked' => Fresh(offer.height + offer.proof.term)
          BY <4>3, <4>6 DEF Checked
        <5>2. UNCHANGED <<disk, conn, lapsed>>
          BY <1>12, <2>1
        <5>3. offer'.height + offer'.proof.term = offer.height + offer.proof.term
          BY <4>3
        <5> QED
          BY <5>1, <5>2, <5>3 DEF Fresh
      <4> QED
        BY <4>3, <4>7, <4>8
    <3> QED
      BY <2>1, <3>1, <3>2
  <2> QED
    BY <1>5, <1>12, <2>1, <2>3, <2>4, <2>5, <2>6 DEF RowInv, TermInv, PublishInv, NodeInv
<1>15. CASE UpdaterWrites
  <2>1. UNCHANGED <<vars, lossVars>>
    BY <1>15 DEF UpdaterWrites
  <2>2. CASE StoreContent
    <3>1. /\ offer # NoOffer /\ offer.stage = "checked" /\ Insert(offer.proof, offer.height)
          /\ offer' = [offer EXCEPT !.stage = "ended"] /\ UNCHANGED txoutVars
      BY <2>2 DEF StoreContent
    <3>2. offer \in [proof : Proofs, height : Nat, stage : {"located", "checked", "ended"}]
      BY <1>t, <3>1 DEF OfferTypeOK
    <3>3. OfferTypeOK' /\ ~Located' /\ ~Checked'
      BY <3>1, <3>2 DEF OfferTypeOK, Located, Checked
    <3>4. offer.proof \in ProofRecords /\ offer.height \in Nat
      BY <3>2, ProofAssumption DEF ProofRecords
    <3>5. Safe(offer.proof.block) /\ Fresh(offer.height + offer.proof.term)
      BY <3>1 DEF NodeInv, RowInv, TermInv, Located, Checked
    <3>6. /\ TableTypeOK' /\ SummariesCover'
          /\ \A a \in Stored' : Safe(content[a].block)'
          /\ \A a \in Stored' : Fresh(content[a].height + content[a].term)'
      BY <2>1, <3>1, <3>4, <3>5, InsertStep
    <3> QED
      BY <1>4, <1>5, <1>12, <2>1, <3>1, <3>3, <3>6 DEF RowInv, TermInv, PublishInv, NodeInv
  <2>3. CASE \E busy \in BOOLEAN : EndContent(busy)
    <3>1. /\ offer' = NoOffer /\ UNCHANGED txoutVars
          /\ UNCHANGED tableVars \/ TruncateToLimit
      BY <2>3 DEF EndContent
    <3>2. PICK ads \in SUBSET Stored : UNCHANGED tableVars \/ Delete(ads)
      BY <3>1 DEF TruncateToLimit
    <3>3. CASE Delete(ads)
      <4>1. TableTypeOK' /\ RowInv' /\ TermInv' /\ SummariesCover'
        BY <1>12, <2>1, <3>1, <3>3, DeleteStep
      <4> QED
        BY <1>4, <1>5, <1>12, <2>1, <3>1, <4>1 DEF PublishInv, NodeInv, OfferTypeOK
    <3>4. CASE UNCHANGED tableVars
      <4>1. TableTypeOK' /\ Stored' = Stored /\ content' = content
        BY <1>t, <3>4 DEF tableVars, TableTypeOK, Stored
      <4>2. SummariesCover'
        BY <3>4, <4>1 DEF NodeInv, SummariesCover, tableVars
      <4>3. RowInv' /\ TermInv'
        BY <1>12, <2>1, <3>1, <4>1 DEF NodeInv, RowInv, TermInv, Located, Checked, Safe,
                                       PendingUnwind, OnTrunk, Fresh
      <4> QED
        BY <1>4, <1>5, <1>12, <2>1, <3>1, <4>1, <4>2, <4>3 DEF PublishInv, NodeInv, OfferTypeOK
    <3> QED
      BY <3>2, <3>3, <3>4
  <2>4. CASE \E s \in Sizes : GetIblt(s)
    <3>1. PICK s \in Sizes : GetIblt(s)
      BY <2>4
    <3> DEFINE table == [a \in Ads |-> IF a \in Stored THEN 1 ELSE 0]
    <3>2. /\ iblts' = [iblts EXCEPT ![s] = table]
          /\ UNCHANGED <<content, sketch, n_keys, offer, txoutVars>>
      BY <3>1 DEF GetIblt
    <3>3. table \in [Ads -> Int] /\ \A a \in Ads : table[a] = IF a \in Stored THEN 1 ELSE 0
      OBVIOUS
    <3> HIDE DEF table
    <3>4. TableTypeOK' /\ OfferTypeOK' /\ Stored' = Stored
      BY <1>t, <3>2, <3>3 DEF TableTypeOK, OfferTypeOK, Stored
    <3>5. SummariesCover'
      <4>1. ASSUME NEW r \in Sizes, iblts'[r] # NoTable, NEW a \in Ads
            PROVE  iblts'[r][a] >= (IF a \in Stored' THEN 1 ELSE 0)
        <5>1. CASE r = s
          <6>1. iblts'[r] = table
            BY <1>t, <3>2, <5>1 DEF TableTypeOK
          <6> QED
            BY <3>3, <3>4, <6>1
        <5>2. CASE r # s
          BY <1>t, <3>2, <3>4, <4>1, <5>2 DEF TableTypeOK, NodeInv, SummariesCover
        <5> QED
          BY <5>1, <5>2
      <4> QED
        BY <3>2, <3>4, <4>1 DEF NodeInv, SummariesCover
    <3>6. RowInv' /\ TermInv'
      BY <1>12, <2>1, <3>2, <3>4 DEF NodeInv, RowInv, TermInv, Located, Checked, Safe,
                                     PendingUnwind, OnTrunk, Fresh
    <3> QED
      BY <1>4, <1>5, <1>12, <2>1, <3>2, <3>4, <3>5, <3>6 DEF PublishInv, NodeInv
  <2> QED
    BY <1>15, <2>2, <2>3, <2>4 DEF UpdaterWrites
<1>16. CASE User
  <2>1. UNCHANGED <<vars, lossVars>>
    BY <1>16 DEF User
  <2>2. PICK f \in Fundings : Prepare(f.ad) \/ Fund(f)
    BY <1>16 DEF User
  <2>3. /\ UNCHANGED <<tableVars, offer, publishing>> /\ f.ad \in Ads
    BY <2>2, FundingAssumption DEF Prepare, Fund
  <2>4. FundingTypeOK'
    BY <1>t, <2>2, <2>3 DEF FundingTypeOK, Prepare, Fund
  <2>5. TableTypeOK' /\ OfferTypeOK'
    BY <1>t, <2>3 DEF tableVars, TableTypeOK, OfferTypeOK
  <2>6. RowInv' /\ TermInv' /\ SummariesCover'
    BY <1>12, <2>1, <2>3, StoreQuiet
  <2> QED
    BY <1>5, <1>12, <2>1, <2>3, <2>4, <2>5, <2>6 DEF PublishInv, NodeInv
<1>17. CASE ProcessCrash \/ ProcessRescan \/ ProcessStart
  <2>1. ~BlockDisconnected /\ ~BlockDisconnectedAtStart /\ ~HeaderConnected
    <3>1. phase' # phase \/ phase = "down"
      BY <1>17 DEF ProcessCrash, ProcessRescan, ProcessStart, Crash, Rescan, Start
    <3> QED
      BY <3>1 DEF BlockDisconnected, BlockDisconnectedAtStart, HeaderConnected,
         Disconnect, StartDisconnect, Connect
  <2>2. /\ \/ UNCHANGED tableVars
           \/ /\ iblts' = [s \in Sizes |-> NoTable] /\ sketch' = Stored
              /\ n_keys' = Cardinality(Stored) /\ content' = content
        /\ offer' \in {offer, NoOffer}
        /\ publishing' = {}
    BY <1>17 DEF ProcessCrash, ProcessRescan, ProcessStart, StoreCrash, StoreRescan, StoreStart,
       Rescan, Start, txoutVars, NodeInv, PublishInv
  <2>3. FundingTypeOK'
    <3>1. {} \subseteq {OwnProof(f, b) : f \in Fundings, b \in Blocks}
      OBVIOUS
    <3>2. UNCHANGED <<publication, sent>> /\ txout' \in {txout, [f \in Fundings |-> "absent"]}
      BY <1>17 DEF ProcessCrash, ProcessRescan, ProcessStart, StoreCrash, StoreRescan,
         StoreStart, txoutVars
    <3>3. [f \in Fundings |-> "absent"] \in [Fundings -> {"absent", "unconfirmed"} \cup Blocks]
      OBVIOUS
    <3> QED
      BY <1>t, <2>2, <3>1, <3>2, <3>3 DEF FundingTypeOK
  <2>4. stranded' \subseteq Blocks /\ lapsed' \in BOOLEAN
    BY <1>17, <1>t DEF ProcessCrash, ProcessRescan, ProcessStart, lossVars
  <2>5. content' = content /\ Stored' = Stored
    BY <2>2 DEF tableVars, Stored
  <2>6. TableTypeOK' /\ SummariesCover'
    <3>1. Cardinality(Stored) \in Nat /\ Stored \subseteq Ads
      BY StoreAssumption, FS_Subset, FS_CardinalityType DEF Stored
    <3>2. CASE UNCHANGED tableVars
      BY <1>t, <2>5, <3>2 DEF tableVars, TableTypeOK, NodeInv, SummariesCover
    <3>3. CASE /\ iblts' = [s \in Sizes |-> NoTable] /\ sketch' = Stored
               /\ n_keys' = Cardinality(Stored)
      BY <1>t, <2>5, <3>1, <3>3 DEF TableTypeOK, SummariesCover
    <3> QED
      BY <2>2, <3>2, <3>3
  <2>7. OfferTypeOK' /\ (Located' => Located) /\ (Checked' => Checked)
        /\ (Located' => offer' = offer) /\ (Checked' => offer' = offer)
    BY <1>t, <2>2 DEF OfferTypeOK, Located, Checked
  <2>8. ASSUME NEW b \in Blocks, Safe(b) PROVE Safe(b)'
    BY <2>1, <2>8, SafeKept DEF NodeInv
  <2>9. ASSUME NEW n \in Int, Fresh(n) PROVE Fresh(n)'
    BY <2>1, <2>9, FreshKept DEF NodeInv
  <2>10. /\ \A a \in Stored : /\ content[a].block \in Blocks
                              /\ content[a].height + content[a].term \in Int
         /\ Located => offer.proof.block \in Blocks
         /\ Checked => offer.height + offer.proof.term \in Int
    BY ProofAssumption DEF NodeInv, NodeTypeOK, StoreTypeOK, Stored, Rows, Located, Checked
  <2>11. RowInv'
    BY <2>5, <2>7, <2>8, <2>10 DEF NodeInv, RowInv
  <2>12. TermInv'
    BY <2>5, <2>7, <2>9, <2>10 DEF NodeInv, TermInv
  <2> QED
    BY <2>2, <2>3, <2>4, <2>6, <2>7, <2>11, <2>12 DEF PublishInv
<1> QED
  BY <1>7, <1>8, <1>9, <1>10, <1>11, <1>13, <1>14, <1>15, <1>16, <1>17 DEF NodeNext

-----------------------------------------------------------------------------
\* The state of a node has its type: store, header thread and lost calls.
THEOREM NodeTypeCorrect == NodeSpec => []NodeTypeOK
<1>1. NodeInv => NodeTypeOK
  BY DEF NodeInv
<1> QED
  BY <1>1, NodeInvInit, NodeStep, PTL DEF NodeSpec

\* Every stored ad is funded in a block of the trunk, or unwind_tip is still to be
\* called for that block, whatever threads and crashes interleave: add_content
\* (store.rs) reads the chain without its lock between the reads, and nothing it
\* stores is left behind by a re-organisation.
THEOREM StoredOnTrunk == NodeSpec => []ContentOnTrunk
<1>1. NodeInv => ContentOnTrunk
  <2> SUFFICES ASSUME NodeInv, NEW a \in Stored, Young(content[a].block),
                      content[a].block \notin stranded
               PROVE  Accounted(content[a].block)
    BY DEF ContentOnTrunk
  <2>1. Safe(content[a].block) /\ content[a].block \in Blocks
    BY DEF NodeInv, RowInv, NodeTypeOK, StoreTypeOK, Stored, Rows
  <2>2. OnBranch(content[a].block, disk.tip) => OnTrunk(content[a].block)
    <3>1. disk.tip \in Blocks /\ tip \in Blocks
      BY DEF NodeInv, NodeTypeOK, TypeOK
    <3>2. OnBranch(disk.tip, tip)
      BY <3>1, OnBranchReflexive DEF NodeInv, ChainInv
    <3> QED
      BY <2>1, <3>1, <3>2, OnBranchTransitive DEF OnTrunk
  <2> QED
    BY <2>1, <2>2 DEF Safe, Accounted
<1> QED
  BY <1>1, NodeInvInit, NodeStep, PTL DEF NodeSpec

\* No stored ad is beyond its term, except while add_header for the tip is still to
\* be called or was lost in a crash (the tests of add_content and delete_expired).
THEOREM StoredUnexpired == NodeSpec => []ContentUnexpired
<1>1. NodeInv => ContentUnexpired
  <2> SUFFICES ASSUME NodeInv, Young(tip), tip \notin Elements(conn), ~lapsed, NEW a \in Stored
               PROVE  content[a].height + content[a].term >= Height(tip)
    BY DEF ContentUnexpired
  <2>1. Fresh(content[a].height + content[a].term)
    BY DEF NodeInv, TermInv
  <2>2. disk.tip = tip
    BY DEF NodeInv, ChainInv
  <2> QED
    BY <2>1, <2>2 DEF Fresh
<1> QED
  BY <1>1, NodeInvInit, NodeStep, PTL DEF NodeSpec

\* Tables, sketch and n_keys cover the stored ads, for any number of ads and any
\* sizes of tables (add_content, the deletions and get_iblt of store.rs).
THEOREM StoredCovered == NodeSpec => []SummariesCover
<1>1. NodeInv => SummariesCover
  BY DEF NodeInv
<1> QED
  BY <1>1, NodeInvInit, NodeStep, PTL DEF NodeSpec

=============================================================================
