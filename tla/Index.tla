------------------------------- MODULE Index -------------------------------
(***************************************************************************)
(* The batch index of a bucket (index/index.go): which runs of items of    *)
(* the value log a consumer has still to read.                             *)
(*                                                                         *)
(* The code keeps a b-tree from the first key of a batch to the list of    *)
(* the locations of the batches that begin with this key.  Iterating over  *)
(* it (index.Iter) yields the locations by ascending key and, under one    *)
(* key, in the order they were Set.  That sequence determines the tree, so *)
(* it is the representation chosen here.                                   *)
(*                                                                         *)
(* An item of the value log is its key and an identity that stands for the *)
(* blob; an offset is the number of items before it, not of bytes.         *)
(***************************************************************************)
EXTENDS Integers, Sequences, FiniteSets

CONSTANTS Keys   \* the priority keys in use

\* item.Key is an int64.  Negative keys are left out: FromVlog starts its
\* first run by comparing with the key 0.
ASSUME KeysAssumption == Keys \subseteq Nat

Item == [key : Keys, id : Nat]

\* item.Location: a run of len items from offset off, the first of which has
\* the key key.  On disk, len = 0 marks the batch of that key as consumed.
Location == [key : Keys, off : Nat, len : Nat]

DeadLoc(k) == [key |-> k, off |-> 0, len |-> 0]

-----------------------------------------------------------------------------

IndexKeys(idx) == {idx[i].key : i \in DOMAIN idx}

\* Index.Set: the location goes behind those of its own key.
IndexSet(idx, loc) ==
    [j \in 1 .. Len(idx) + 1 |->
        IF j <= Len(idx) /\ idx[j].key <= loc.key THEN idx[j]
        ELSE IF j > 1 /\ idx[j - 1].key > loc.key THEN idx[j - 1]
        ELSE loc]

\* Index.Delete: drops the oldest location of the key, whichever it is.
IndexDelete(idx, k) ==
    IF k \in IndexKeys(idx)
    THEN [j \in 1 .. Len(idx) - 1 |->
             IF \E i \in 1 .. j : idx[i].key = k THEN idx[j + 1] ELSE idx[j]]
    ELSE idx

\* One record of the index log applied to the index, as index.Load does it.
\* Push, popSync and Delete use the same two calls on the index in memory.
IndexApply(idx, loc) ==
    IF loc.len = 0 THEN IndexDelete(idx, loc.key) ELSE IndexSet(idx, loc)

\* Whether applying loc adds to NEntries: Set always does (len > 0), Delete
\* does when it finds the key.
Counts(idx, loc) == loc.len > 0 \/ loc.key \in IndexKeys(idx)

\* Len() = 0
IndexEmpty(idx) == \A i \in DOMAIN idx : idx[i].len = 0

\* The locations of an index come by ascending first key.
IndexSorted(idx) ==
    \A i, j \in DOMAIN idx : i < j => idx[i].key <= idx[j].key

\* The slots of the value log that an index refers to.
LocSlots(loc) == (loc.off + 1) .. (loc.off + loc.len)

Slots(idx) == UNION {LocSlots(idx[i]) : i \in DOMAIN idx}

\* No slot is reachable through two locations.
NoSlotTwice(idx) ==
    \A i, j \in DOMAIN idx :
        i # j => LocSlots(idx[i]) \cap LocSlots(idx[j]) = {}

-----------------------------------------------------------------------------

\* FromVlog goes over the whole log and cuts it into ascending runs: a run
\* ends where the next key is smaller.
RunStart(log, p) == p = 1 \/ log[p - 1].key > log[p].key

RunAt(log, p) ==
    [key |-> log[p].key,
     off |-> p - 1,
     len |-> Cardinality({q \in p .. Len(log) :
                             \A r \in (p + 1) .. q : ~RunStart(log, r)})]
=============================================================================
