------------------------------- MODULE Slices -------------------------------
(***************************************************************************)
(* The lists of locations in the b-trees of two indexes, of which one was  *)
(* forked from the other (index/index.go).  For one key the tree has a Go  *)
(* slice, and Index.Copy copies the slice, not the array behind it.        *)
(*                                                                         *)
(* Every batch here begins with the same key, and its items all have that  *)
(* key, so what is left of a batch is filed under the same key again.      *)
(***************************************************************************)
EXTENDS SequencesExt, Naturals

CONSTANTS Main, Fork,   \* the consumers
          MaxBatches    \* bound on the number of batches pushed

Consumers == {Main, Fork}

VARIABLES
    arrays,   \* the arrays in memory; an array has a fixed length
    slice,    \* the slice of a consumer: elements from .. to of an array
    forked,   \* whether the fork exists
    pushed,   \* how many batches were pushed
    want      \* what the list of a consumer has to be

vars == <<arrays, slice, forked, pushed, want>>

\* A location is the batch, and how many of its two items are left.
Unused == [batch |-> 0, len |-> 0]

-----------------------------------------------------------------------------

Init ==
    /\ arrays = << <<>> >>   \* the array of a slice that is nil
    /\ slice = [c \in Consumers |-> [array |-> 1, from |-> 1, to |-> 0]]
    /\ forked = FALSE /\ pushed = 0
    /\ want = [c \in Consumers |-> <<>>]

\* The list that a slice stands for.
List(mem, s) == SubSeq(mem[s.array], s.from, s.to)

\* The memory and the slice after append(s, loc): the next element of the
\* array is overwritten if there is one, else the list moves to an array with
\* room for twice as many elements as the slice had.
AppendTo(mem, s, loc) ==
    IF s.to < Len(mem[s.array])
    THEN [mem |-> [mem EXCEPT ![s.array][s.to + 1] = loc], s |-> [s EXCEPT !.to = @ + 1]]
    ELSE LET old == List(mem, s)
             room == IF s.to < s.from THEN 1 ELSE 2 * Len(old)
             new == [i \in 1 .. room |-> IF i <= Len(old) THEN old[i]
                                         ELSE IF i = Len(old) + 1 THEN loc ELSE Unused]
         IN  [mem |-> Append(mem, new),
              s |-> [array |-> Len(mem) + 1, from |-> 1, to |-> Len(old) + 1]]

\* Index.Delete: the oldest location goes; with the last one, the list does.
Shorter(s) ==
    IF s.from < s.to THEN [s EXCEPT !.from = @ + 1] ELSE [array |-> 1, from |-> 1, to |-> 0]

\* bucket.Push: Index.Set of every index, in the order of a Go map.
Push ==
    /\ pushed < MaxBatches /\ pushed' = pushed + 1
    /\ LET loc == [batch |-> pushed + 1, len |-> 2]
       IN  /\ want' = [c \in Consumers |->
                          IF c = Main \/ forked THEN Append(want[c], loc) ELSE want[c]]
           /\ \/ /\ ~forked
                 /\ LET r == AppendTo(arrays, slice[Main], loc)
                    IN  arrays' = r.mem /\ slice' = [slice EXCEPT ![Main] = r.s]
              \/ /\ forked
                 /\ \E c \in Consumers : \E d \in Consumers \ {c} :
                       LET r1 == AppendTo(arrays, slice[c], loc)
                           r2 == AppendTo(r1.mem, slice[d], loc)
                       IN  arrays' = r2.mem /\ slice' = [slice EXCEPT ![c] = r1.s, ![d] = r2.s]
    /\ UNCHANGED forked

\* popSync for one iterator: what is left of its batch is Set, then the oldest
\* location is deleted.
PopLoc(r, rest) ==
    LET a == IF rest.len > 0 THEN AppendTo(r.mem, r.s, rest) ELSE r
    IN  [a EXCEPT !.s = Shorter(@)]

WantPopLoc(list, rest) == Tail(IF rest.len > 0 THEN Append(list, rest) ELSE list)

\* Read with n = 1, and ReadOpPop.  It takes an item of the oldest batch; by
\* then peek has an iterator for the next batch too, as that has the same key.
\* In the heap it is behind the first one, unless that is exhausted.
Pop ==
    /\ \E c \in Consumers :
          LET list == List(arrays, slice[c])
              read == [list[1] EXCEPT !.len = @ - 1]
              here == [mem |-> arrays, s |-> slice[c]]
              heap == IF Len(list) = 1 THEN <<read>>
                      ELSE IF read.len = 0 THEN <<list[2], read>>
                      ELSE <<read, list[2]>>
              r == FoldLeft(PopLoc, here, heap)
          IN  /\ list # <<>>
              /\ arrays' = r.mem /\ slice' = [slice EXCEPT ![c] = r.s]
              /\ want' = [want EXCEPT ![c] = FoldLeft(WantPopLoc, @, heap)]
    /\ UNCHANGED <<forked, pushed>>

\* bucket.Fork with Index.Copy.
ForkIndex ==
    /\ ~forked /\ forked' = TRUE
    /\ slice' = [slice EXCEPT ![Fork] = slice[Main]]
    /\ want' = [want EXCEPT ![Fork] = want[Main]]
    /\ UNCHANGED <<arrays, pushed>>

Next == Push \/ Pop \/ ForkIndex

Spec == Init /\ [][Next]_vars

-----------------------------------------------------------------------------

\* What a consumer reads and pops does not affect the others (api.go,
\* Queue.Fork): the list of each is what its own operations make of it.
OthersUnaffected == \A c \in Consumers : List(arrays, slice[c]) = want[c]
=============================================================================
