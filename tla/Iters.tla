------------------------------- MODULE Iters -------------------------------
(***************************************************************************)
(* Iterators over batches of the value log (vlog/iter.go) and the heap     *)
(* that orders them by their current key (vlog/heap.go).                   *)
(*                                                                         *)
(* Iter.currOff and currLen are always one item past prevOff and prevLen   *)
(* once Next was called, so an iterator keeps off = prevOff and            *)
(* len = prevLen only; key is the key of its current item, log[off + 1].   *)
(* Slots of the heap count from 1, so the parent of slot c is c \div 2.    *)
(***************************************************************************)
EXTENDS Index

Iter == [first : Keys, key : Keys, off : Nat, len : Nat, exh : BOOLEAN]

\* Whether the first Next() on log.At(loc) finds an item.
Readable(log, loc) == loc.len > 0 /\ loc.off < Len(log)

\* log.At(loc) after that first Next().
IterAt(log, loc) ==
    [first |-> loc.key, key |-> log[loc.off + 1].key,
     off |-> loc.off, len |-> loc.len, exh |-> FALSE]

\* Variant of IterNext: the last item of a batch is left out.
IterNext_Early(log, it) ==
    IF it.len <= 2 \/ it.off + 1 >= Len(log)
    THEN [it EXCEPT !.exh = TRUE]
    ELSE [it EXCEPT !.key = log[it.off + 2].key, !.off = @ + 1, !.len = @ - 1]

\* Iter.Next: past the last item, of the batch or of the log, the iterator
\* becomes exhausted and keeps its last item.
IterNext(log, it) ==
    IF it.len <= 1 \/ it.off + 1 >= Len(log)
    THEN [it EXCEPT !.exh = TRUE]
    ELSE [it EXCEPT !.key = log[it.off + 2].key, !.off = @ + 1, !.len = @ - 1]

\* Variant of CurrentLocation: one item back.
CurrentLocation_Before(it) == [key |-> it.key, off |-> it.off - 1, len |-> it.len]

\* Iter.CurrentLocation: the current item and all after it.
CurrentLocation(it) == [key |-> it.key, off |-> it.off, len |-> it.len]

-----------------------------------------------------------------------------

\* Variant of Less: exhausted iterators are compared like others.
Less_KeyOnly(a, b) == a.key < b.key

\* Iters.less: exhausted iterators go to the back.
Less(a, b) ==
    IF a.exh <=> b.exh THEN a.key < b.key ELSE ~a.exh

\* down prefers the right child only if it is less than the left one.
Preferred(h, c) ==
    IF c % 2 = 0
    THEN c + 1 \in DOMAIN h => ~Less(h[c + 1], h[c])
    ELSE Less(h[c], h[c - 1])

\* The slots that the iterator of slot 1 visits while down(0) swaps it with
\* its preferred child for as long as that child is less.
DownPath(h, P) ==
    /\ P \subseteq DOMAIN h
    /\ \A c \in DOMAIN h :
          c \in P <=> \/ c = 1
                      \/ c \div 2 \in P /\ Preferred(h, c) /\ Less(h[c], h[1])

\* The heap after those swaps: each slot of the path holds the iterator of
\* the path's next slot, and the last one the iterator that was moved down.
ShiftUp(h, P) ==
    [k \in DOMAIN h |->
        IF k \notin P THEN h[k]
        ELSE IF 2 * k \in P THEN h[2 * k]
        ELSE IF 2 * k + 1 \in P THEN h[2 * k + 1]
        ELSE h[1]]

\* Variant of Fixed: the order is not repaired.
Fixed_Not(h) == {h}

\* Iters.Fix(0).  (When down(0) moves nothing, up(0) does nothing either.)
\* The set of results, of which there is exactly one.
Fixed(h) == {ShiftUp(h, P) : P \in {Q \in SUBSET DOMAIN h : DownPath(h, Q)}}

\* The slots that the iterator of the last slot visits while up swaps it
\* with its parent for as long as it is less than the parent.
UpPath(h, P) ==
    /\ P \subseteq DOMAIN h
    /\ \A c \in DOMAIN h :
          c \in P <=> \/ c = Len(h)
                      \/ /\ 2 * c \in P \/ 2 * c + 1 \in P
                         /\ Less(h[Len(h)], h[c])

\* The heap after those swaps.
ShiftDown(h, P) ==
    [k \in DOMAIN h |->
        IF k \notin P THEN h[k]
        ELSE IF k > 1 /\ k \div 2 \in P THEN h[k \div 2]
        ELSE h[Len(h)]]

\* Variant of Pushed: the new iterator stays at the end.
Pushed_NotUp(h, it) == {Append(h, it)}

\* Iters.Push: append, then up.
Pushed(h, it) ==
    LET g == Append(h, it)
    IN  {ShiftDown(g, P) : P \in {Q \in SUBSET DOMAIN g : UpPath(g, Q)}}

HeapOrder(h) == \A k \in DOMAIN h : k > 1 => ~Less(h[k], h[k \div 2])
=============================================================================
