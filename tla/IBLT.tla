-------------------------------- MODULE IBLT --------------------------------
(***************************************************************************)
(* The invertible Bloom lookup table (iblt.rs): two nodes build the tables *)
(* of their keys, one is subtracted from the other, and an iterator        *)
(* enumerates the difference.                                              *)
(*                                                                         *)
(* A bucket holds the exclusive or of its keys, the exclusive or of their  *)
(* hashes and a count.  Both sums are determined by the set of the keys    *)
(* that were added an odd number of times, and they match exactly if that  *)
(* set has one member, unless 64 bit hashes collide.                       *)
(***************************************************************************)
EXTENDS Integers, FiniteSets, SequencesExt

CONSTANTS
    Keys,
    Buckets,        \* positions of the buckets
    Hashings,       \* what the hash functions may do: [Keys -> SUBSET Buckets]
    MaxCopies       \* bound: times one key is inserted in one table

ASSUME BucketAssumption ==
    /\ IsFiniteSet(Buckets) /\ Buckets \subseteq Nat
    /\ Hashings \subseteq [Keys -> (SUBSET Buckets) \ {{}}]

ASSUME CopiesAssumption == MaxCopies \in Nat

Sides == {"theirs", "ours"}

VARIABLES
    at,             \* the buckets of every key; never changes
    table,          \* the tables of both sides
    copies,         \* history: how often every key is in the table of every side
    queue,          \* the iterator: buckets with a single key
    status,         \* "building", "iterating", "ended" or "incomplete"
    entries         \* history: what the iterator returned

vars == <<at, table, copies, queue, status, entries>>

SymmetricDifference(s, t) == (s \ t) \cup (t \ s)

\* Adds key k with count c to its buckets, each of them once: BucketIterator skips
\* a bucket that two hash functions choose.
Add(tbl, k, c) ==
    [b \in Buckets |->
        IF b \in at[k]
          THEN [keys |-> SymmetricDifference(tbl[b].keys, {k}), count |-> tbl[b].count + c]
          ELSE tbl[b]]

\* IBLT::insert
Insert(s, k) ==
    /\ status = "building"
    /\ copies[s][k] < MaxCopies
    /\ copies' = [copies EXCEPT ![s][k] = @ + 1]
    /\ table' = [table EXCEPT ![s] = Add(@, k, 1)]
    /\ UNCHANGED <<at, queue, status, entries>>

\* IBLT::delete of a key that was inserted
Delete(s, k) ==
    /\ status = "building"
    /\ copies[s][k] > 0
    /\ copies' = [copies EXCEPT ![s][k] = @ - 1]
    /\ table' = [table EXCEPT ![s] = Add(@, k, -1)]
    /\ UNCHANGED <<at, queue, status, entries>>

-----------------------------------------------------------------------------
(* The iterator. *)

CountsOne(bucket) == bucket.count \in {-1, 1}

SingleInserted(bucket) == bucket.count = 1 /\ Cardinality(bucket.keys) = 1

\* The hash of the keys' sum is the sum of their hashes.
Single(bucket) == bucket.count \in {-1, 1} /\ Cardinality(bucket.keys) = 1

AscendingFromOne(buckets) == SetToSortSeq({b + 1 : b \in buckets}, <)

Ascending(buckets) == SetToSortSeq(buckets, <)

\* substract and IBLTIterator::new.  The table of the difference takes the place
\* of theirs.
Substract ==
    /\ status = "building"
    /\ status' = "iterating"
    /\ LET difference ==
               [b \in Buckets |->
                   [keys |-> SymmetricDifference(table["theirs"][b].keys, table["ours"][b].keys),
                    count |-> table["theirs"][b].count - table["ours"][b].count]]
       IN  /\ table' = [table EXCEPT !["theirs"] = difference]
           /\ queue' = Ascending({b \in Buckets : Single(difference[b])})
    /\ UNCHANGED <<at, copies, entries>>

SkipPeeks ==
    /\ status = "iterating"
    /\ queue # <<>>
    /\ ~CountsOne(table["theirs"][Head(queue)])
    /\ UNCHANGED vars

\* IBLTIterator::next takes a bucket from the queue that is no longer single ...
Skip ==
    /\ status = "iterating"
    /\ queue # <<>>
    /\ ~CountsOne(table["theirs"][Head(queue)])
    /\ queue' = Tail(queue)
    /\ UNCHANGED <<at, table, copies, status, entries>>

EntrySwapped(k, c) == [kind |-> IF c = 1 THEN "Deleted" ELSE "Inserted", key |-> k]

Entry(k, c) == [kind |-> IF c = 1 THEN "Inserted" ELSE "Deleted", key |-> k]

TakeOutOfFirst(tbl, k, c) ==
    [tbl EXCEPT ![Min(at[k])] = [keys |-> @.keys \ {k}, count |-> @.count - c]]

TakeOut(tbl, k, c) == Add(tbl, k, -c)

\* ... or one with count 1 or -1: its key, which is not hashed again, is removed
\* from all its buckets and returned.
Peel ==
    /\ status = "iterating"
    /\ queue # <<>>
    /\ CountsOne(table["theirs"][Head(queue)])
    /\ LET bucket == table["theirs"][Head(queue)]
       IN  \E k \in bucket.keys :
              LET rest == TakeOut(table["theirs"], k, bucket.count)
              IN  /\ table' = [table EXCEPT !["theirs"] = rest]
                  /\ queue' = Tail(queue) \o Ascending({b \in at[k] : Single(rest[b])})
                  /\ entries' = Append(entries, Entry(k, bucket.count))
    /\ UNCHANGED <<at, copies, status>>

LeftoverPositive(bucket) == bucket.count > 0

Leftover(bucket) == bucket.count # 0

\* The queue is empty: an error if a bucket has a count, the end otherwise.
Finish ==
    /\ status = "iterating"
    /\ queue = <<>>
    /\ status' = IF \E b \in Buckets : Leftover(table["theirs"][b])
                   THEN "incomplete" ELSE "ended"
    /\ UNCHANGED <<at, table, copies, queue, entries>>

-----------------------------------------------------------------------------
Init ==
    /\ at \in Hashings
    /\ table = [s \in Sides |-> [b \in Buckets |-> [keys |-> {}, count |-> 0]]]
    /\ copies = [s \in Sides |-> [k \in Keys |-> 0]]
    /\ queue = <<>>
    /\ status = "building"
    /\ entries = <<>>

Iterate == Skip \/ Peel \/ Finish

Next ==
    \/ \E s \in Sides, k \in Keys : Insert(s, k) \/ Delete(s, k)
    \/ Substract
    \/ Iterate

Spec == Init /\ [][Next]_vars

\* The caller of the iterator takes entries until there is none.
FairSpec == Spec /\ WF_vars(Iterate)

TableTypeOK(tbl) == tbl \in [Buckets -> [keys : SUBSET Keys, count : Int]]

\* The type of tables and iterator (struct IBLT, Bucket and IBLTIterator).
TypeOK ==
    /\ at \in Hashings
    /\ \A s \in Sides : TableTypeOK(table[s])
    /\ copies \in [Sides -> [Keys -> 0..MaxCopies]]
    /\ queue \in Seq(Buckets)
    /\ status \in {"building", "iterating", "ended", "incomplete"}
    /\ entries \in Seq([kind : {"Inserted", "Deleted"}, key : Keys])

-----------------------------------------------------------------------------
\* Both tables hold sets: no key was inserted twice.
NoDuplicates == \A s \in Sides, k \in Keys : copies[s][k] <= 1

Difference == {k \in Keys : copies["theirs"][k] # copies["ours"][k]}

Returned == {entries[i].key : i \in 1..Len(entries)}

\* Every entry is right, as long as no key was inserted twice in one table: an
\* Inserted key is one of theirs that we lack, a Deleted one the reverse.  The
\* updater asks for exactly the Inserted ones.
EntriesSound ==
    NoDuplicates => \A i \in 1..Len(entries) :
        copies["theirs"][entries[i].key] - copies["ours"][entries[i].key] =
            IF entries[i].kind = "Inserted" THEN 1 ELSE -1

\* No key is returned twice, whatever was inserted how often: next() never gets
\* into a loop of removing a key and adding it again.
ReturnedOnce == Cardinality(Returned) = Len(entries)

\* A bucket in the queue that still has count 1 or -1 still has a single key: next()
\* tests the count only and relies on this when it removes the key of a bucket
\* that was queued before other keys were removed.
QueuedAreSingle ==
    \A i \in 1..Len(queue) :
        table["theirs"][queue[i]].count \in {-1, 1} =>
            Cardinality(table["theirs"][queue[i]].keys) = 1

\* Keys no order of removing single keys can reach: the largest set of which every
\* bucket has none or several.
Core ==
    UNION {s \in SUBSET Difference :
              \A b \in Buckets : Cardinality({k \in s : b \in at[k]}) # 1}

\* When the iteration stops, the keys it did not return are the core of the
\* difference, so the order in which buckets are queued does not matter.
StopsAtCore ==
    NoDuplicates /\ status \in {"ended", "incomplete"} => Returned = Difference \ Core

\* Of the keys in the bucket that were not returned, how many more are theirs.
Balance(b) ==
    LET in(s) == {k \in Difference \ Returned : b \in at[k] /\ copies[s][k] = 1}
    IN  Cardinality(in("theirs")) - Cardinality(in("ours"))

\* An error is reported if and only if the keys that are left do not cancel out, in
\* some bucket more of one side than of the other: never for a difference that was
\* returned in full, and for one that was not unless the counts hide it, as next()
\* looks at the counts and not at the sums of the keys.
ErrorIffUnbalanced ==
    NoDuplicates /\ status \in {"ended", "incomplete"} =>
        (status = "incomplete" <=> \E b \in Buckets : Balance(b) # 0)

\* The iteration ends, even for tables in which keys were inserted repeatedly.
IterationEnds == (status = "iterating") ~> (status \in {"ended", "incomplete"})

=============================================================================
