------------------------------ MODULE PeekLoop ------------------------------
(***************************************************************************)
(* bucket.peek on its own, started on any value log and any index that     *)
(* fits it: what it delivers, whatever way the batches overlap.            *)
(***************************************************************************)
EXTENDS Peek

CONSTANTS Logs,      \* the value logs peek is started on
          Indexes,   \* the indexes it is started on, those that fit the log
          Ns         \* the values of its argument n

ASSUME LoopAssumption == /\ Logs \subseteq Seq(Item)
                         /\ Indexes \subseteq Seq(Location)
                         /\ Ns \subseteq Nat

VARIABLES log, idx, n,     \* the input; never changed
          pc,              \* "first", "loop" or "done"
          iters, pos, out  \* batchIters, idxIter, dst

vars == <<log, idx, n, pc, iters, pos, out>>
input == <<log, idx, n>>

-----------------------------------------------------------------------------

IndexFits(g, i) ==
    /\ \A j \in DOMAIN i : BatchFits(g, i[j])
    /\ IndexSorted(i)
    /\ NoSlotTwice(i)

Init ==
    /\ idx \in Indexes /\ log \in Logs /\ IndexFits(log, idx)
    /\ n \in Ns
    /\ pc = "first" /\ iters = <<>> /\ pos = 1 /\ out = <<>>

First ==
    /\ pc = "first"
    /\ \E r \in PeekFirst(log, idx) : iters' = r[1] /\ pos' = r[2]
    /\ pc' = "loop"
    /\ UNCHANGED <<input, out>>

Take ==
    /\ pc = "loop" /\ PeekMore(iters, Len(out), n)
    /\ out' = Append(out, log[iters[1].off + 1])
    /\ \E r \in PeekNext(log, idx, iters, pos) : iters' = r[1] /\ pos' = r[2]
    /\ UNCHANGED <<input, pc>>

\* Variant of Done: the loop only ends with n items.
Done_Full ==
    /\ pc = "loop" /\ Len(out) = n
    /\ pc' = "done"
    /\ UNCHANGED <<input, iters, pos, out>>

Done ==
    /\ pc = "loop" /\ ~PeekMore(iters, Len(out), n)
    /\ pc' = "done"
    /\ UNCHANGED <<input, iters, pos, out>>

Next == First \/ Take \/ Done

Spec == Init /\ [][Next]_vars /\ WF_vars(Next)

-----------------------------------------------------------------------------

TypeOK ==
    /\ log \in Seq(Item) /\ idx \in Seq(Location) /\ n \in Nat
    /\ pc \in {"first", "loop", "done"}
    /\ iters \in Seq(Iter) /\ pos \in 1 .. Len(idx) + 1 /\ out \in Seq(Item)

\* The slots of the log that peek may still deliver: what the iterators have
\* left and the batches not looked at yet.
Pending ==
    UNION ({LocSlots(CurrentLocation(iters[k])) :
               k \in {j \in DOMAIN iters : ~iters[j].exh}}
           \cup {LocSlots(idx[i]) : i \in pos .. Len(idx)})

\* peek delivers by priority: nothing still to come has a smaller key than
\* anything already in dst, although at most one batch is added to the heap
\* per iteration (bucket.go, "index batch entries might be overlapping").
MinFirst ==
    \A i \in DOMAIN out : \A s \in Pending : out[i].key <= log[s].key

\* dst is sorted by key.
Ascending ==
    \A i, j \in DOMAIN out : i < j => out[i].key <= out[j].key

\* peek returns fewer than n items only when there are no more: the loop ends
\* at an exhausted first iterator, which must mean that every iterator is
\* exhausted and every batch was added.
ShortOnlyWhenDrained ==
    pc = "done" /\ Len(out) < n => Pending = {}

\* dst and what is left to read are together exactly what the index refers
\* to: nothing is delivered twice, skipped or invented.
Conserved ==
    /\ {log[s] : s \in Pending} \cup {out[i] : i \in DOMAIN out}
          = {log[s] : s \in Slots(idx)}
    /\ Len(out) + Cardinality(Pending) = Cardinality(Slots(idx))

\* peek returns.
Terminates == <>(pc = "done")

-----------------------------------------------------------------------------
(* Why it is so: the parts of the inductive invariant.                     *)

\* As long as batches are left in the index, the iterator at the top of the
\* heap has an item, and none of these batches begins below it.
TopBeforeNext ==
    pc # "first" /\ pos <= Len(idx) =>
        /\ iters # <<>>
        /\ ~iters[1].exh
        /\ iters[1].key <= idx[pos].key

\* Nothing delivered is above the first item of a batch still to be read.
OutBelowRest ==
    \A i \in DOMAIN out :
        /\ \A k \in DOMAIN iters : ~iters[k].exh => out[i].key <= iters[k].key
        /\ \A j \in pos .. Len(idx) : out[i].key <= idx[j].key

\* The merge invariant of peek: the iterators form a heap by current key, its
\* top is at or below every batch that was not added yet, and everything
\* delivered is at or below all of these.
LoopInv ==
    /\ TypeOK
    /\ IndexFits(log, idx)
    /\ \A k \in DOMAIN iters : IterFits(log, iters[k])
    /\ HeapOrder(iters)
    /\ pc = "first" => iters = <<>> /\ out = <<>> /\ pos = 1
    /\ TopBeforeNext
    /\ OutBelowRest
    /\ Ascending
    /\ pc = "done" => ~PeekMore(iters, Len(out), n)
=============================================================================
