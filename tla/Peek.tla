-------------------------------- MODULE Peek --------------------------------
(***************************************************************************)
(* The steps of bucket.peek (bucket.go): the merge of the batches that an  *)
(* index refers to.  idxIter is the position p of its current value in the *)
(* index; indexExhausted is p > Len(idx).  Each operator returns the set   *)
(* of the possible pairs <<batchIters, p>>, which has one element.         *)
(***************************************************************************)
EXTENDS Iters

\* addIter: a batch without a readable item adds no iterator, and then the
\* position does not move either.
AddIter(log, idx, h, p) ==
    IF Readable(log, idx[p])
    THEN {<<g, p + 1>> : g \in Pushed(h, IterAt(log, idx[p]))}
    ELSE {<<h, p>>}

\* Up to the loop: the first batch of the index, if there is one.
PeekFirst(log, idx) ==
    IF idx = <<>> THEN {<<<<>>, 1>>} ELSE AddIter(log, idx, <<>>, 1)

\* The condition of the loop.
PeekMore(h, got, n) == h # <<>> /\ got < n /\ ~h[1].exh

\* Variant of MustAdd: the end of an iterator adds no batch.
MustAdd_KeyOnly(idx, p, it) == p <= Len(idx) /\ idx[p].key <= it.key

\* Whether the next batch of the index has to take part from now on, it being
\* the iterator from which an item was just taken.
MustAdd(idx, p, it) ==
    p <= Len(idx) /\ (it.exh \/ idx[p].key <= it.key)

\* One iteration of the loop, after the item log[h[1].off + 1] was appended.
PeekNext(log, idx, h, p) ==
    LET it == IterNext(log, h[1])
    IN  UNION {IF MustAdd(idx, p, it) THEN AddIter(log, idx, g, p) ELSE {<<g, p>>} :
                  g \in Fixed([h EXCEPT ![1] = it])}

-----------------------------------------------------------------------------

\* A batch as bucket.Push wrote it, or the rest of one that popSync or Delete
\* left: non-empty, inside the log, ascending, filed under its first key.
BatchFits(g, loc) ==
    /\ loc.len > 0 /\ loc.off + loc.len <= Len(g)
    /\ g[loc.off + 1].key = loc.key
    /\ \A a, b \in LocSlots(loc) : a <= b => g[a].key <= g[b].key

\* An iterator that is not exhausted stands inside its batch.
IterFits(g, it) == ~it.exh => BatchFits(g, CurrentLocation(it))
=============================================================================
