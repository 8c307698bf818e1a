-------------------------- MODULE PeekLoop_proofs --------------------------
(***************************************************************************)
(* bucket.peek delivers by priority and stops early only when drained, for *)
(* every value log, every index that fits it and every n.                  *)
(***************************************************************************)
EXTENDS PeekLoop, Iters_proofs

\* addIter on an index that fits the log: always one iterator more.
LEMMA AddIterFits ==
  ASSUME NEW L \in Seq(Item), NEW X \in Seq(Location), IndexFits(L, X),
         NEW h \in Seq(Iter), HeapOrder(h), NEW p \in 1 .. Len(X),
         NEW r \in AddIter(L, X, h, p)
  PROVE  /\ r[2] = p + 1
         /\ r[1] \in Seq(Iter) /\ HeapOrder(r[1]) /\ r[1] # <<>>
         /\ \A k \in DOMAIN r[1] : \/ r[1][k] = IterAt(L, X[p])
                                   \/ \E j \in DOMAIN h : r[1][k] = h[j]
         /\ ~r[1][1].exh /\ r[1][1].key <= X[p].key
<1> DEFINE i == IterAt(L, X[p])
<1>1. X[p] \in Location /\ BatchFits(L, X[p])
  BY DEF IndexFits
<1>2. Readable(L, X[p]) /\ i \in Iter /\ ~i.exh /\ i.key = X[p].key
  BY <1>1, IterAtFits
<1>3. PICK g \in Pushed(h, i) : r = <<g, p + 1>>
  BY <1>2 DEF AddIter
<1> HIDE DEF i
<1>4. /\ g \in Seq(Iter) /\ Len(g) = Len(h) + 1 /\ HeapOrder(g)
      /\ \A k \in DOMAIN g : g[k] = i \/ \E j \in DOMAIN h : g[k] = h[j]
      /\ ~Less(i, g[1])
  BY <1>2, <1>3, PushedIsHeap
<1>5. r[1] = g /\ r[2] = p + 1
  BY <1>3
<1>6. g # <<>> /\ g[1] \in Iter
  BY <1>4
<1>7. ~g[1].exh /\ g[1].key <= X[p].key
  <2>1. g[1].key \in Nat /\ i.key \in Nat
    BY <1>2, <1>6, IterFields
  <2> QED BY <1>2, <1>4, <2>1 DEF Less
<1> QED BY <1>4, <1>5, <1>6, <1>7 DEF i

-----------------------------------------------------------------------------

LEMMA InitInv == Init => LoopInv
<1> SUFFICES ASSUME Init PROVE LoopInv
  OBVIOUS
<1>1. TypeOK
  BY LoopAssumption DEF Init, TypeOK
<1>2. DOMAIN iters = {} /\ DOMAIN out = {}
  BY DEF Init
<1> QED BY <1>1, <1>2 DEF Init, LoopInv, HeapOrder, TopBeforeNext, OutBelowRest, Ascending

LEMMA FirstInv == LoopInv /\ First => LoopInv'
<1> SUFFICES ASSUME LoopInv, First PROVE LoopInv'
  OBVIOUS
<1> USE DEF First, LoopInv, input
<1>1. /\ log' = log /\ idx' = idx /\ n' = n /\ out' = out /\ out = <<>> /\ pc' = "loop"
      /\ log \in Seq(Item) /\ idx \in Seq(Location) /\ n \in Nat
  BY DEF TypeOK
<1>2. PICK r \in PeekFirst(log, idx) : iters' = r[1] /\ pos' = r[2]
  OBVIOUS
<1>3. DOMAIN out' = {}
  BY <1>1
<1>4. OutBelowRest' /\ Ascending'
  BY <1>3 DEF OutBelowRest, Ascending
<1>5. CASE idx = <<>>
  <2>1. r = <<<<>>, 1>>
    BY <1>2, <1>5 DEF PeekFirst
  <2>2. iters' = <<>> /\ pos' = 1 /\ Len(idx) = 0 /\ DOMAIN iters' = {}
    BY <1>2, <1>5, <2>1
  <2>3. TypeOK'
    BY <1>1, <2>2 DEF TypeOK
  <2> QED BY <1>1, <1>4, <2>2, <2>3 DEF HeapOrder, TopBeforeNext
<1>6. CASE idx # <<>>
  <2> DEFINE e == <<>>
  <2>1. r \in AddIter(log, idx, e, 1) /\ 1 \in 1 .. Len(idx)
    BY <1>1, <1>2, <1>6 DEF PeekFirst
  <2>2. e \in Seq(Iter) /\ HeapOrder(e) /\ DOMAIN e = {}
    BY DEF HeapOrder
  <2>3. /\ r[2] = 2 /\ r[1] \in Seq(Iter) /\ HeapOrder(r[1]) /\ r[1] # <<>>
        /\ \A k \in DOMAIN r[1] : r[1][k] = IterAt(log, idx[1])
        /\ ~r[1][1].exh /\ r[1][1].key <= idx[1].key
    <3> HIDE DEF e
    <3>1. /\ log \in Seq(Item) /\ idx \in Seq(Location) /\ IndexFits(log, idx)
          /\ e \in Seq(Iter) /\ HeapOrder(e) /\ 1 \in 1 .. Len(idx)
          /\ r \in AddIter(log, idx, e, 1)
      BY <1>1, <2>1, <2>2
    <3> HIDE DEF First, LoopInv, input
    <3>2. /\ r[2] = 1 + 1 /\ r[1] \in Seq(Iter) /\ HeapOrder(r[1]) /\ r[1] # <<>>
          /\ \A k \in DOMAIN r[1] : \/ r[1][k] = IterAt(log, idx[1])
                                    \/ \E j \in DOMAIN e : r[1][k] = e[j]
          /\ ~r[1][1].exh /\ r[1][1].key <= idx[1].key
      BY <3>1, AddIterFits
    <3> QED BY <2>2, <3>2
  <2>4. TypeOK'
    BY <1>1, <1>2, <2>1, <2>3 DEF TypeOK
  <2>5. idx[1] \in Location /\ BatchFits(log, idx[1])
    BY <1>1, <2>1 DEF IndexFits
  <2>6. \A k \in DOMAIN iters' : IterFits(log', iters'[k])
    BY <1>1, <1>2, <2>3, <2>5, IterAtFits
  <2>7. TopBeforeNext'
    <3> SUFFICES ASSUME 2 <= Len(idx)
                 PROVE  iters' # <<>> /\ ~iters'[1].exh /\ iters'[1].key <= idx[2].key
      BY <1>1, <1>2, <2>3 DEF TopBeforeNext
    <3>1. idx[1].key <= idx[2].key
      BY <1>1 DEF IndexFits, IndexSorted
    <3>2. idx[1].key \in Nat /\ idx[2].key \in Nat /\ r[1][1].key \in Nat
      BY <1>1, <2>3, LocFields, IterFields
    <3> QED BY <1>2, <2>3, <3>1, <3>2
  <2> QED BY <1>1, <1>2, <1>4, <2>3, <2>4, <2>6, <2>7
<1> QED BY <1>5, <1>6

LEMMA DoneInv == LoopInv /\ Done => LoopInv'
<1> SUFFICES ASSUME LoopInv, Done PROVE LoopInv'
  OBVIOUS
<1>1. /\ log' = log /\ idx' = idx /\ n' = n /\ out' = out /\ iters' = iters /\ pos' = pos
      /\ pc = "loop" /\ pc' = "done" /\ ~PeekMore(iters, Len(out), n)
  BY DEF Done, input
<1>2. TypeOK' /\ TopBeforeNext' /\ OutBelowRest' /\ Ascending'
  BY <1>1 DEF LoopInv, TypeOK, TopBeforeNext, OutBelowRest, Ascending
<1> QED BY <1>1, <1>2 DEF LoopInv

\* The step that matters: an item is taken from the top, the heap repaired
\* and at most one batch added.
LEMMA TakeInv == LoopInv /\ Take => LoopInv'
<1> SUFFICES ASSUME LoopInv, Take PROVE LoopInv'
  OBVIOUS
<1>1. /\ log' = log /\ idx' = idx /\ n' = n /\ pc' = pc /\ pc = "loop"
      /\ iters # <<>> /\ ~iters[1].exh
      /\ out' = Append(out, log[iters[1].off + 1])
  BY DEF Take, input, PeekMore
<1>2. /\ log \in Seq(Item) /\ idx \in Seq(Location) /\ n \in Nat /\ iters \in Seq(Iter)
      /\ pos \in 1 .. Len(idx) + 1 /\ out \in Seq(Item)
      /\ IndexFits(log, idx) /\ HeapOrder(iters)
      /\ \A k \in DOMAIN iters : IterFits(log, iters[k])
      /\ TopBeforeNext /\ OutBelowRest /\ Ascending
  BY DEF LoopInv, TypeOK
<1> DEFINE top == iters[1]
           it == IterNext(log, top)
           h == [iters EXCEPT ![1] = it]
<1>3. 1 \in DOMAIN iters /\ top \in Iter /\ top.key \in Nat
  BY <1>1, <1>2, IterFields
<1>4. /\ it \in Iter /\ IterFits(log, it) /\ (~it.exh => top.key <= it.key)
      /\ top.key = log[top.off + 1].key /\ top.off + 1 \in 1 .. Len(log)
  BY <1>1, <1>2, <1>3, IterNextFits
<1>5. PICK r \in PeekNext(log, idx, iters, pos) : iters' = r[1] /\ pos' = r[2]
  BY DEF Take
<1>6. PICK g \in Fixed(h) :
          r \in (IF MustAdd(idx, pos, it) THEN AddIter(log, idx, g, pos) ELSE {<<g, pos>>})
  BY <1>5 DEF PeekNext
<1> HIDE DEF it
<1>7. /\ h \in Seq(Iter) /\ Len(h) = Len(iters) /\ DOMAIN h = DOMAIN iters /\ h # <<>>
      /\ h[1] = it /\ \A k \in DOMAIN h : k # 1 => h[k] = iters[k]
  BY <1>2, <1>3, <1>4
<1> HIDE DEF h
<1>8. \A k \in DOMAIN h : k \div 2 > 1 => ~Less(h[k], h[k \div 2])
  <2> SUFFICES ASSUME NEW k \in DOMAIN h, k \div 2 > 1 PROVE ~Less(h[k], h[k \div 2])
    OBVIOUS
  <2>1. k \in Nat /\ k > 1 /\ k <= Len(iters) /\ DOMAIN h = 1 .. Len(iters) /\ Len(iters) \in Nat
    BY <1>2, <1>7
  <2>2. k \div 2 \in Nat /\ k \div 2 < k
    BY <2>1, Parent
  <2>3. k \div 2 \in DOMAIN h
    BY <2>1, <2>2
  <2>4. ~Less(iters[k], iters[k \div 2])
    BY <1>2, <1>7, <2>1 DEF HeapOrder
  <2> QED BY <1>7, <2>1, <2>3, <2>4
<1>9. /\ g \in Seq(Iter) /\ Len(g) = Len(h) /\ HeapOrder(g)
      /\ \A k \in DOMAIN g : \E j \in DOMAIN h : g[k] = h[j]
      /\ ~Less(it, g[1])
  BY <1>6, <1>7, <1>8, FixedIsHeap
\* No iterator that has an item left is below the item taken.
<1>10. \A k \in DOMAIN g : IterFits(log, g[k]) /\ (~g[k].exh => top.key <= g[k].key)
  <2> SUFFICES ASSUME NEW k \in DOMAIN g
               PROVE  IterFits(log, g[k]) /\ (~g[k].exh => top.key <= g[k].key)
    OBVIOUS
  <2>1. PICK j \in DOMAIN h : g[k] = h[j]
    BY <1>9
  <2>2. CASE j = 1
    BY <1>4, <1>7, <2>1, <2>2
  <2>3. CASE j # 1
    <3>1. g[k] = iters[j] /\ j \in DOMAIN iters
      BY <1>7, <2>1, <2>3
    <3>2. ~Less(iters[j], top)
      BY <1>2, <3>1, TopIsLeast
    <3>3. iters[j].key \in Nat
      BY <1>2, <3>1, IterFields
    <3> QED BY <1>1, <1>2, <1>3, <3>1, <3>2, <3>3 DEF Less
  <2> QED BY <2>2, <2>3
\* Nor is a batch that was not added yet.
<1>11. \A j \in pos .. Len(idx) : top.key <= idx[j].key
  <2> SUFFICES ASSUME NEW j \in pos .. Len(idx) PROVE top.key <= idx[j].key
    OBVIOUS
  <2>1. /\ pos \in DOMAIN idx /\ j \in DOMAIN idx /\ pos <= j /\ pos \in Nat /\ j \in Nat
        /\ pos <= Len(idx)
    BY <1>2
  <2>2. top.key <= idx[pos].key
    BY <1>1, <2>1, <1>2 DEF TopBeforeNext
  <2>3. idx[pos].key <= idx[j].key
    <3>1. CASE pos = j
      BY <1>2, <2>1, <3>1, LocFields
    <3>2. CASE pos # j
      BY <1>2, <2>1, <3>2 DEF IndexFits, IndexSorted
    <3> QED BY <3>1, <3>2
  <2>4. idx[pos].key \in Nat /\ idx[j].key \in Nat
    BY <1>2, <2>1, LocFields
  <2> QED BY <1>3, <2>2, <2>3, <2>4
<1> DEFINE Low(k) == IterFits(log, r[1][k]) /\ (~r[1][k].exh => top.key <= r[1][k].key)
           Ahead == r[2] <= Len(idx) =>
                       r[1] # <<>> /\ ~r[1][1].exh /\ r[1][1].key <= idx[r[2]].key
<1>12. /\ r[1] \in Seq(Iter) /\ HeapOrder(r[1])
       /\ r[2] \in pos .. Len(idx) + 1
       /\ \A k \in DOMAIN r[1] : Low(k)
       /\ Ahead
  <2>1. CASE MustAdd(idx, pos, it)
    <3>1. r \in AddIter(log, idx, g, pos) /\ pos \in 1 .. Len(idx) /\ pos \in Nat
      BY <1>2, <1>6, <2>1 DEF MustAdd
    <3>2. /\ r[2] = pos + 1
          /\ r[1] \in Seq(Iter) /\ HeapOrder(r[1]) /\ r[1] # <<>>
          /\ \A k \in DOMAIN r[1] : \/ r[1][k] = IterAt(log, idx[pos])
                                    \/ \E j \in DOMAIN g : r[1][k] = g[j]
          /\ ~r[1][1].exh /\ r[1][1].key <= idx[pos].key
      BY <1>2, <1>9, <3>1, AddIterFits
    <3>3. idx[pos] \in Location /\ BatchFits(log, idx[pos]) /\ top.key <= idx[pos].key
      BY <1>2, <1>11, <3>1 DEF IndexFits
    <3>4. \A k \in DOMAIN r[1] : Low(k)
      BY <1>2, <1>10, <3>2, <3>3, IterAtFits
    <3>5. r[2] \in pos .. Len(idx) + 1
      BY <3>1, <3>2
    <3>6. Ahead
      <4> SUFFICES ASSUME pos + 1 <= Len(idx)
                   PROVE  r[1][1].key <= idx[pos + 1].key
        BY <3>2
      <4>1. idx[pos].key <= idx[pos + 1].key
        BY <1>2, <3>1 DEF IndexFits, IndexSorted
      <4>2. idx[pos].key \in Nat /\ idx[pos + 1].key \in Nat /\ r[1][1].key \in Nat
        BY <1>2, <3>1, <3>2, LocFields, IterFields
      <4> QED BY <3>2, <4>1, <4>2
    <3> HIDE DEF Low, Ahead
    <3> QED BY <3>2, <3>4, <3>5, <3>6
  <2>2. CASE ~MustAdd(idx, pos, it)
    <3>1. r[1] = g /\ r[2] = pos
      BY <1>6, <2>2
    <3>2. \A k \in DOMAIN r[1] : Low(k)
      BY <1>10, <3>1
    <3>3. Ahead
      <4> SUFFICES ASSUME pos <= Len(idx)
                   PROVE  g # <<>> /\ ~g[1].exh /\ g[1].key <= idx[pos].key
        BY <3>1
      <4>1. g # <<>> /\ g[1] \in Iter
        BY <1>7, <1>9
      <4>2. ~it.exh /\ ~(idx[pos].key <= it.key)
        BY <2>2 DEF MustAdd
      <4>3. g[1].key \in Nat /\ it.key \in Nat /\ idx[pos].key \in Nat
        BY <1>2, <1>4, <4>1, LocFields, IterFields
      <4>4. ~g[1].exh /\ g[1].key <= it.key
        BY <1>9, <4>2, <4>3 DEF Less
      <4> QED BY <4>1, <4>2, <4>3, <4>4
    <3>4. r[2] \in pos .. Len(idx) + 1
      BY <1>2, <3>1
    <3> HIDE DEF Low, Ahead
    <3> QED BY <1>9, <3>1, <3>2, <3>3, <3>4
  <2> QED BY <2>1, <2>2
<1>13. TypeOK'
  <2>1. out' \in Seq(Item)
    BY <1>1, <1>2, <1>4, ItemKey
  <2>2. pos' \in 1 .. Len(idx) + 1
    BY <1>2, <1>5, <1>12
  <2> QED BY <1>1, <1>2, <1>5, <1>12, <2>1, <2>2 DEF TypeOK
<1>14. TopBeforeNext'
  BY <1>1, <1>5, <1>12 DEF TopBeforeNext
\* Everything delivered is at or below the item taken now.
<1>15. \A i \in DOMAIN out' : out'[i].key <= top.key /\ out'[i].key \in Nat
  <2> SUFFICES ASSUME NEW i \in DOMAIN out' PROVE out'[i].key <= top.key /\ out'[i].key \in Nat
    OBVIOUS
  <2>1. log[top.off + 1] \in Item
    BY <1>2, <1>4, ItemKey
  <2>2. i \in 1 .. Len(out) \/ out'[i] = log[top.off + 1]
    BY <1>1, <1>2, <2>1
  <2>3. CASE i \in 1 .. Len(out)
    <3>1. out'[i] = out[i] /\ i \in DOMAIN out
      BY <1>1, <1>2, <2>1, <2>3
    <3>2. out[i].key <= top.key
      BY <1>1, <1>2, <1>3, <3>1 DEF OutBelowRest
    <3>3. out[i].key \in Nat
      BY <1>2, <3>1, ItemKey
    <3> QED BY <3>1, <3>2, <3>3
  <2>4. CASE out'[i] = log[top.off + 1]
    BY <1>3, <1>4, <2>4
  <2> QED BY <2>2, <2>3, <2>4
<1>16. OutBelowRest'
  <2> SUFFICES ASSUME NEW i \in DOMAIN out'
               PROVE  /\ \A k \in DOMAIN iters' : ~iters'[k].exh => out'[i].key <= iters'[k].key
                      /\ \A j \in pos' .. Len(idx) : out'[i].key <= idx[j].key
    BY <1>1 DEF OutBelowRest
  <2>1. out'[i].key <= top.key /\ out'[i].key \in Nat
    BY <1>15
  <2>2. ASSUME NEW k \in DOMAIN iters', ~iters'[k].exh PROVE out'[i].key <= iters'[k].key
    <3>1. top.key <= iters'[k].key
      BY <1>5, <1>12, <2>2
    <3>2. iters'[k].key \in Nat
      BY <1>5, <1>12, IterFields
    <3> QED BY <1>3, <2>1, <3>1, <3>2
  <2>3. ASSUME NEW j \in pos' .. Len(idx) PROVE out'[i].key <= idx[j].key
    <3>1. j \in pos .. Len(idx) /\ j \in DOMAIN idx
      BY <1>2, <1>5, <1>12
    <3>2. top.key <= idx[j].key /\ idx[j].key \in Nat
      BY <1>2, <1>11, <3>1, LocFields
    <3> QED BY <1>3, <2>1, <3>2
  <2> QED BY <2>2, <2>3
<1>17. Ascending'
  <2> SUFFICES ASSUME NEW i \in DOMAIN out', NEW j \in DOMAIN out', i < j
               PROVE  out'[i].key <= out'[j].key
    BY DEF Ascending
  <2>1. log[top.off + 1] \in Item /\ Len(out) \in Nat
    BY <1>2, <1>4, ItemKey
  <2>2. /\ i \in 1 .. Len(out) + 1 /\ j \in 1 .. Len(out) + 1
        /\ \A k \in 1 .. Len(out) : out'[k] = out[k]
        /\ out'[Len(out) + 1] = log[top.off + 1]
    BY <1>1, <1>2, <2>1
  <2>3. CASE j = Len(out) + 1
    <3>1. out'[j].key = top.key
      BY <1>4, <2>2, <2>3
    <3> QED BY <1>15, <3>1
  <2>4. CASE j # Len(out) + 1
    <3>1. i \in DOMAIN out /\ j \in DOMAIN out
      BY <1>2, <2>1, <2>2, <2>4
    <3>2. out[i].key <= out[j].key
      BY <1>2, <3>1 DEF Ascending
    <3>3. out'[i] = out[i] /\ out'[j] = out[j]
      BY <1>2, <2>2, <3>1
    <3> QED BY <3>2, <3>3
  <2> QED BY <2>3, <2>4
<1>18. \A k \in DOMAIN iters' : IterFits(log', iters'[k])
  BY <1>1, <1>5, <1>12
<1> QED BY <1>1, <1>2, <1>5, <1>12, <1>13, <1>14, <1>16, <1>17, <1>18 DEF LoopInv

-----------------------------------------------------------------------------

\* The merge invariant of bucket.peek holds throughout, for heaps of any size.
THEOREM LoopInvariant == Spec => []LoopInv
<1>1. LoopInv /\ UNCHANGED vars => LoopInv'
  BY DEF LoopInv, vars, TypeOK, TopBeforeNext, OutBelowRest, Ascending
<1>2. LoopInv /\ [Next]_vars => LoopInv'
  BY <1>1, FirstInv, TakeInv, DoneInv DEF Next
<1> QED BY InitInv, <1>2, PTL DEF Spec

\* What bucket.peek appends to dst is sorted by key.
THEOREM PeekAscends == Spec => []Ascending
<1>1. LoopInv => Ascending
  BY DEF LoopInv
<1> QED BY <1>1, LoopInvariant, PTL

\* Nothing that bucket.peek could still deliver has a smaller key than what it
\* has appended to dst, although it adds at most one batch of the index to the
\* heap per iteration.
THEOREM PeekDeliversByPriority == Spec => []MinFirst
<1>1. LoopInv => MinFirst
  <2> SUFFICES ASSUME LoopInv, NEW i \in DOMAIN out, NEW s \in Pending
               PROVE  out[i].key <= log[s].key
    BY DEF MinFirst
  <2>1. /\ log \in Seq(Item) /\ idx \in Seq(Location) /\ iters \in Seq(Iter)
        /\ pos \in 1 .. Len(idx) + 1 /\ out \in Seq(Item)
        /\ OutBelowRest /\ IndexFits(log, idx)
        /\ \A k \in DOMAIN iters : IterFits(log, iters[k])
    BY DEF LoopInv, TypeOK
  <2>2. out[i].key \in Nat
    BY <2>1, ItemKey
  \* Both kinds of pending batches fit the log and begin at or above out[i].
  <2>3. PICK loc \in Location : /\ s \in LocSlots(loc) /\ BatchFits(log, loc)
                                /\ out[i].key <= loc.key
    <3>1. CASE \E k \in DOMAIN iters : ~iters[k].exh /\ s \in LocSlots(CurrentLocation(iters[k]))
      <4>1. PICK k \in DOMAIN iters : ~iters[k].exh /\ s \in LocSlots(CurrentLocation(iters[k]))
        BY <3>1
      <4> DEFINE loc == CurrentLocation(iters[k])
      <4>2. iters[k].key \in Keys /\ iters[k].off \in Nat /\ iters[k].len \in Nat
        BY <2>1, IterFields
      <4>3. loc \in Location /\ loc.key = iters[k].key
        BY <4>2 DEF CurrentLocation, Location
      <4>4. BatchFits(log, loc) /\ out[i].key <= iters[k].key
        BY <2>1, <4>1 DEF IterFits, OutBelowRest
      <4> HIDE DEF loc
      <4> QED BY <4>1, <4>3, <4>4 DEF loc
    <3>2. CASE \E j \in pos .. Len(idx) : s \in LocSlots(idx[j])
      <4>1. PICK j \in pos .. Len(idx) : s \in LocSlots(idx[j])
        BY <3>2
      <4>2. j \in DOMAIN idx /\ idx[j] \in Location
        BY <2>1
      <4> QED BY <2>1, <4>1, <4>2 DEF IndexFits, OutBelowRest
    <3> QED BY <3>1, <3>2 DEF Pending
  <2>4. loc.key \in Nat /\ loc.off \in Nat /\ loc.len \in Nat
    BY LocFields
  <2>5. /\ s \in (loc.off + 1) .. (loc.off + loc.len) /\ s \in 1 .. Len(log)
        /\ loc.off + 1 \in (loc.off + 1) .. (loc.off + loc.len) /\ loc.off + 1 <= s
    <3>1. /\ s \in (loc.off + 1) .. (loc.off + loc.len)
          /\ loc.len > 0 /\ loc.off + loc.len <= Len(log) /\ Len(log) \in Nat
      BY <2>1, <2>3 DEF BatchFits, LocSlots
    <3>2. s \in Nat /\ s >= loc.off + 1 /\ s <= loc.off + loc.len
      BY <2>4, <3>1
    <3>3. s >= 1 /\ s <= Len(log)
      BY <2>4, <3>1, <3>2
    <3>4. loc.off + 1 \in (loc.off + 1) .. (loc.off + loc.len)
      BY <2>4, <3>1
    <3> QED BY <3>1, <3>2, <3>3, <3>4
  <2>6. log[loc.off + 1].key <= log[s].key /\ log[loc.off + 1].key = loc.key
    BY <2>3, <2>5 DEF BatchFits, LocSlots
  <2>7. log[s].key \in Nat
    BY <2>1, <2>5, ItemKey
  <2> QED BY <2>2, <2>3, <2>4, <2>6, <2>7
<1> QED BY <1>1, LoopInvariant, PTL

\* bucket.peek gives fewer than n items only when it delivered everything the
\* index refers to: an exhausted iterator at the top of the heap means that
\* all are, and that no batch was left out.
THEOREM PeekShortOnlyWhenDrained == Spec => []ShortOnlyWhenDrained
<1>1. LoopInv => ShortOnlyWhenDrained
  <2> SUFFICES ASSUME LoopInv, pc = "done", Len(out) < n PROVE Pending = {}
    BY DEF ShortOnlyWhenDrained
  <2>1. /\ idx \in Seq(Location) /\ iters \in Seq(Iter) /\ pos \in 1 .. Len(idx) + 1
        /\ HeapOrder(iters) /\ TopBeforeNext /\ ~PeekMore(iters, Len(out), n)
    BY DEF LoopInv, TypeOK
  <2>2. iters = <<>> \/ iters[1].exh
    BY <2>1 DEF PeekMore
  <2>3. pos .. Len(idx) = {}
    <3>1. ~(pos <= Len(idx))
      BY <2>1, <2>2 DEF TopBeforeNext
    <3> QED BY <2>1, <3>1
  <2>4. ASSUME NEW k \in DOMAIN iters PROVE iters[k].exh
    <3>1. ~Less(iters[k], iters[1]) /\ iters[1].exh
      BY <2>1, <2>2, <2>4, TopIsLeast
    <3> QED BY <3>1 DEF Less
  <2> QED BY <2>3, <2>4 DEF Pending
<1> QED BY <1>1, LoopInvariant, PTL

-----------------------------------------------------------------------------
(* Nothing is lost or delivered twice.                                     *)

\* The slots that an iterator, a heap of iterators, and the batches of an
\* index from a position on have left.
Rest(it) == IF it.exh THEN {} ELSE LocSlots(CurrentLocation(it))
LeftIn(h) == UNION {Rest(h[k]) : k \in DOMAIN h}
Later(X, p) == UNION {LocSlots(X[i]) : i \in p .. Len(X)}

\* No two iterators have a slot left in common.
Apart(h) == \A k, l \in DOMAIN h : k # l => Rest(h[k]) \cap Rest(h[l]) = {}

\* Every slot that is left is left in one place.
Once == Apart(iters) /\ LeftIn(iters) \cap Later(idx, pos) = {}

ConservedInv == LoopInv /\ Once /\ Conserved

\* What is pending is what the heap and the index have left.
LEMMA PendingIs ==
  /\ Pending = LeftIn(iters) \cup Later(idx, pos)
  /\ Pending' = LeftIn(iters') \cup Later(idx', pos')
<1>1. Pending = LeftIn(iters) \cup Later(idx, pos)
  BY DEF Pending, LeftIn, Later, Rest
<1>2. Pending' = LeftIn(iters') \cup Later(idx', pos')
  BY DEF Pending, LeftIn, Later, Rest
<1> QED BY <1>1, <1>2

\* The order of a heap does not matter.
LEMMA PermutedLeft ==
  ASSUME NEW h, NEW r, NEW f, Permutes(f, h, r)
  PROVE  LeftIn(r) = LeftIn(h) /\ (Apart(h) => Apart(r))
<1>1. /\ \A k \in DOMAIN r : f[k] \in DOMAIN h /\ r[k] = h[f[k]]
      /\ \A j \in DOMAIN h : \E k \in DOMAIN r : f[k] = j
      /\ \A k, l \in DOMAIN r : k # l => f[k] # f[l]
  BY DEF Permutes
<1>2. \A x : x \in LeftIn(r) <=> \E k \in DOMAIN r : x \in Rest(r[k])
  BY DEF LeftIn
<1>3. \A x : x \in LeftIn(h) <=> \E k \in DOMAIN h : x \in Rest(h[k])
  BY DEF LeftIn
<1>4. \A x : x \in LeftIn(r) => x \in LeftIn(h)
  BY <1>1, <1>2, <1>3
<1>5. ASSUME NEW x \in LeftIn(h) PROVE x \in LeftIn(r)
  <2>1. PICK j \in DOMAIN h : x \in Rest(h[j])
    BY <1>3
  <2>2. PICK k \in DOMAIN r : f[k] = j
    BY <1>1
  <2>3. r[k] = h[j]
    BY <1>1, <2>2
  <2> QED BY <1>2, <2>1, <2>3
<1>6. Apart(h) => Apart(r)
  <2> SUFFICES ASSUME Apart(h), NEW k \in DOMAIN r, NEW l \in DOMAIN r, k # l
               PROVE  Rest(r[k]) \cap Rest(r[l]) = {}
    BY DEF Apart
  <2>1. f[k] \in DOMAIN h /\ f[l] \in DOMAIN h /\ f[k] # f[l] /\ r[k] = h[f[k]] /\ r[l] = h[f[l]]
    BY <1>1
  <2>2. Rest(h[f[k]]) \cap Rest(h[f[l]]) = {}
    BY <2>1 DEF Apart
  <2> QED BY <2>1, <2>2
<1> QED BY <1>4, <1>5, <1>6

\* An iterator is added whose slots no other has.
LEMMA AppendedLeft ==
  ASSUME NEW h \in Seq(Iter), NEW it \in Iter
  PROVE  /\ LeftIn(Append(h, it)) = LeftIn(h) \cup Rest(it)
         /\ Apart(h) /\ LeftIn(h) \cap Rest(it) = {} => Apart(Append(h, it))
<1>1. PICK g, m : g = Append(h, it) /\ m = Len(h) + 1
  OBVIOUS
<1>2. /\ DOMAIN g = DOMAIN h \cup {m} /\ m \notin DOMAIN h
      /\ g[m] = it /\ \A k \in DOMAIN h : g[k] = h[k]
  BY <1>1
<1>3. \A x : x \in LeftIn(g) <=> \E k \in DOMAIN g : x \in Rest(g[k])
  BY DEF LeftIn
<1>4. \A x : x \in LeftIn(h) <=> \E k \in DOMAIN h : x \in Rest(h[k])
  BY DEF LeftIn
<1>5. LeftIn(g) = LeftIn(h) \cup Rest(it)
  <2>1. \A x : x \in LeftIn(g) <=> x \in LeftIn(h) \/ x \in Rest(it)
    BY <1>2, <1>3, <1>4
  <2> QED BY <2>1
<1>6. Apart(h) /\ LeftIn(h) \cap Rest(it) = {} => Apart(g)
  <2> SUFFICES ASSUME Apart(h), LeftIn(h) \cap Rest(it) = {},
                      NEW k \in DOMAIN g, NEW l \in DOMAIN g, k # l, NEW x \in Rest(g[k]), x \in Rest(g[l])
               PROVE  FALSE
    BY DEF Apart
  <2>1. CASE k \in DOMAIN h /\ l \in DOMAIN h
    BY <1>2, <2>1 DEF Apart
  <2>2. CASE k = m /\ l \in DOMAIN h
    BY <1>2, <1>4, <2>2
  <2>3. CASE k \in DOMAIN h /\ l = m
    BY <1>2, <1>4, <2>3
  <2> QED BY <1>2, <2>1, <2>2, <2>3
<1> QED BY <1>1, <1>5, <1>6

\* The next batch of an index.
LEMMA LaterNext ==
  ASSUME NEW X \in Seq(Location), NoSlotTwice(X), NEW p \in 1 .. Len(X)
  PROVE  /\ Later(X, p) = LocSlots(X[p]) \cup Later(X, p + 1)
         /\ LocSlots(X[p]) \cap Later(X, p + 1) = {}
<1>1. /\ p .. Len(X) = {p} \cup ((p + 1) .. Len(X)) /\ p \in DOMAIN X
      /\ \A i \in (p + 1) .. Len(X) : i \in DOMAIN X /\ i # p
  OBVIOUS
<1>2. \A x : x \in Later(X, p) <=> \E i \in p .. Len(X) : x \in LocSlots(X[i])
  BY DEF Later
<1>3. \A x : x \in Later(X, p + 1) <=> \E i \in (p + 1) .. Len(X) : x \in LocSlots(X[i])
  BY DEF Later
<1>4. \A x : x \in Later(X, p) <=> x \in LocSlots(X[p]) \/ x \in Later(X, p + 1)
  BY <1>1, <1>2, <1>3
<1>5. \A x \in LocSlots(X[p]) : x \notin Later(X, p + 1)
  BY <1>1, <1>3 DEF NoSlotTwice
<1> QED BY <1>4, <1>5

\* An iterator that is at the beginning of a batch has the batch left.
LEMMA RestAt ==
  ASSUME NEW L \in Seq(Item), NEW loc \in Location, BatchFits(L, loc)
  PROVE  IterAt(L, loc) \in Iter /\ Rest(IterAt(L, loc)) = LocSlots(loc)
<1>1. PICK i : i = IterAt(L, loc)
  OBVIOUS
<1>2. i \in Iter /\ ~i.exh /\ i.off = loc.off /\ i.len = loc.len
  BY <1>1, IterAtFits DEF IterAt
<1> QED BY <1>1, <1>2 DEF Rest, LocSlots, CurrentLocation

\* Next passes over the current item only.
LEMMA RestNext ==
  ASSUME NEW L \in Seq(Item), NEW it \in Iter, ~it.exh, IterFits(L, it)
  PROVE  it.off + 1 \in Rest(it) /\ Rest(IterNext(L, it)) = Rest(it) \ {it.off + 1}
<1>1. it.off \in Nat /\ it.len \in Nat /\ it.len > 0 /\ it.off + it.len <= Len(L) /\ Len(L) \in Nat
  BY IterFields DEF IterFits, BatchFits, CurrentLocation
<1>2. Rest(it) = (it.off + 1) .. (it.off + it.len)
  BY DEF Rest, LocSlots, CurrentLocation
<1>3. it.off + 1 \in Rest(it)
  BY <1>1, <1>2
<1>4. PICK i : i = IterNext(L, it)
  OBVIOUS
<1>5. CASE it.len <= 1 \/ it.off + 1 >= Len(L)
  <2>1. i = [it EXCEPT !.exh = TRUE]
    BY <1>4, <1>5 DEF IterNext
  <2>2. i.exh
    BY <2>1, Zenon DEF Iter
  <2>3. Rest(i) = {}
    BY <2>2 DEF Rest
  <2>4. it.len = 1
    BY <1>1, <1>5
  <2>5. Rest(it) = {it.off + 1}
    BY <1>1, <1>2, <2>4
  <2> QED BY <1>3, <1>4, <2>3, <2>5
<1>6. CASE ~(it.len <= 1 \/ it.off + 1 >= Len(L))
  <2>1. i = [it EXCEPT !.key = L[it.off + 2].key, !.off = it.off + 1, !.len = it.len - 1]
    BY <1>4, <1>6 DEF IterNext
  <2>2. i.off = it.off + 1 /\ i.len = it.len - 1 /\ i.exh = it.exh
    BY <2>1 DEF Iter
  <2>3. Rest(i) = (i.off + 1) .. (i.off + i.len)
    BY <2>2 DEF Rest, LocSlots, CurrentLocation
  <2>4. i.off + 1 = it.off + 2 /\ i.off + i.len = it.off + it.len
    <3>1. (it.off + 1) + 1 = it.off + 2 /\ (it.off + 1) + (it.len - 1) = it.off + it.len
      BY <1>1
    <3> QED BY <2>2, <3>1
  <2>5. (it.off + 2) .. (it.off + it.len) = ((it.off + 1) .. (it.off + it.len)) \ {it.off + 1}
    BY <1>1
  <2> QED BY <1>2, <1>3, <1>4, <2>3, <2>4, <2>5
<1> QED BY <1>5, <1>6

\* Taking an item from the top of the heap leaves all other slots.
LEMMA TopTaken ==
  ASSUME NEW L \in Seq(Item), NEW h \in Seq(Iter), h # <<>>, ~h[1].exh, IterFits(L, h[1]), Apart(h),
         NEW g, g = [h EXCEPT ![1] = IterNext(L, h[1])]
  PROVE  /\ h[1].off + 1 \in LeftIn(h) /\ LeftIn(g) = LeftIn(h) \ {h[1].off + 1} /\ Apart(g)
         /\ g \in Seq(Iter) /\ g # <<>>
<1>1. 1 \in DOMAIN h /\ h[1] \in Iter
  OBVIOUS
<1>2. PICK s, i : s = h[1].off + 1 /\ i = IterNext(L, h[1])
  OBVIOUS
<1>3. s \in Rest(h[1]) /\ Rest(i) = Rest(h[1]) \ {s} /\ i \in Iter
  BY <1>1, <1>2, RestNext, IterNextFits
<1>4. /\ DOMAIN g = DOMAIN h /\ g[1] = i /\ g \in Seq(Iter) /\ g # <<>>
      /\ \A k \in DOMAIN h : k # 1 => g[k] = h[k]
  BY <1>1, <1>2, <1>3
<1>5. \A k \in DOMAIN h : k # 1 => s \notin Rest(h[k])
  BY <1>1, <1>3 DEF Apart
<1>6. \A k \in DOMAIN h : Rest(g[k]) = Rest(h[k]) \ {s}
  BY <1>3, <1>4, <1>5
<1>7. \A x : x \in LeftIn(g) <=> \E k \in DOMAIN g : x \in Rest(g[k])
  BY DEF LeftIn
<1>8. \A x : x \in LeftIn(h) <=> \E k \in DOMAIN h : x \in Rest(h[k])
  BY DEF LeftIn
<1>9. s \in LeftIn(h)
  BY <1>1, <1>3, <1>8
<1>10. \A x : x \in LeftIn(g) <=> x \in LeftIn(h) /\ x # s
  <2>1. \A x : x \in LeftIn(g) <=> \E k \in DOMAIN h : x \in Rest(g[k])
    BY <1>4, <1>7
  <2>2. \A k \in DOMAIN h : \A x : x \in Rest(g[k]) <=> x \in Rest(h[k]) /\ x # s
    BY <1>6
  <2> QED BY <1>8, <2>1, <2>2
<1>11. Apart(g)
  BY <1>4, <1>6 DEF Apart
<1> QED BY <1>2, <1>4, <1>9, <1>10, <1>11

\* addIter moves a batch from the index to the heap.
LEMMA AddedLeft ==
  ASSUME NEW L \in Seq(Item), NEW X \in Seq(Location), IndexFits(L, X),
         NEW h \in Seq(Iter), NEW p \in 1 .. Len(X), NEW r \in AddIter(L, X, h, p),
         Apart(h), LeftIn(h) \cap Later(X, p) = {}
  PROVE  /\ LeftIn(r[1]) \cup Later(X, r[2]) = LeftIn(h) \cup Later(X, p)
         /\ Apart(r[1]) /\ LeftIn(r[1]) \cap Later(X, r[2]) = {}
<1>1. X[p] \in Location /\ BatchFits(L, X[p]) /\ NoSlotTwice(X)
  BY DEF IndexFits
<1>2. PICK i, S : i = IterAt(L, X[p]) /\ S = LocSlots(X[p])
  OBVIOUS
<1>3. Readable(L, X[p]) /\ i \in Iter /\ Rest(i) = S
  BY <1>1, <1>2, IterAtFits, RestAt
<1>4. PICK g \in Pushed(h, i) : r = <<g, p + 1>>
  BY <1>2, <1>3 DEF AddIter
<1>5. r[1] = g /\ r[2] = p + 1
  BY <1>4
<1>6. PICK f : Permutes(f, Append(h, i), g)
  BY <1>3, <1>4, PushedPermutes
<1>7. /\ Later(X, p) = S \cup Later(X, p + 1) /\ S \cap Later(X, p + 1) = {}
  BY <1>1, <1>2, LaterNext
<1>8. /\ LeftIn(Append(h, i)) = LeftIn(h) \cup S
      /\ Apart(h) /\ LeftIn(h) \cap S = {} => Apart(Append(h, i))
  BY <1>3, AppendedLeft
<1>9. LeftIn(h) \cap S = {}
  BY <1>7
<1>10. LeftIn(g) = LeftIn(h) \cup S /\ Apart(g)
  BY <1>6, <1>8, <1>9, PermutedLeft
<1> QED BY <1>5, <1>7, <1>10

\* The slots at stake are finitely many.
LEMMA FewSlots ==
  ASSUME LoopInv
  PROVE  /\ Pending \subseteq 1 .. Len(log) /\ IsFiniteSet(Pending) /\ Cardinality(Pending) \in Nat
<1>1. log \in Seq(Item) /\ iters \in Seq(Iter) /\ idx \in Seq(Location) /\ pos \in 1 .. Len(idx) + 1
  BY DEF LoopInv, TypeOK
<1>2. ASSUME NEW loc, loc.off \in Nat, loc.len \in Nat, BatchFits(log, loc) PROVE LocSlots(loc) \subseteq 1 .. Len(log)
  BY <1>1, <1>2 DEF BatchFits, LocSlots
<1>3. ASSUME NEW s \in Pending PROVE s \in 1 .. Len(log)
  <2>1. CASE \E k \in DOMAIN iters : ~iters[k].exh /\ s \in LocSlots(CurrentLocation(iters[k]))
    <3>1. PICK k \in DOMAIN iters : ~iters[k].exh /\ s \in LocSlots(CurrentLocation(iters[k]))
      BY <2>1
    <3>2. BatchFits(log, CurrentLocation(iters[k]))
      BY <3>1 DEF LoopInv, IterFits
    <3>3. CurrentLocation(iters[k]).off \in Nat /\ CurrentLocation(iters[k]).len \in Nat
      BY <1>1, IterFields DEF CurrentLocation
    <3> QED BY <1>2, <3>1, <3>2, <3>3
  <2>2. CASE \E i \in pos .. Len(idx) : s \in LocSlots(idx[i])
    <3>1. PICK i \in pos .. Len(idx) : s \in LocSlots(idx[i])
      BY <2>2
    <3>2. i \in DOMAIN idx /\ idx[i] \in Location
      BY <1>1
    <3>3. BatchFits(log, idx[i]) /\ idx[i].off \in Nat /\ idx[i].len \in Nat
      BY <3>2, LocFields DEF LoopInv, IndexFits
    <3> QED BY <1>2, <3>1, <3>3
  <2> QED BY <2>1, <2>2 DEF Pending
<1>4. IsFiniteSet(1 .. Len(log))
  BY <1>1, FS_Interval
<1>5. IsFiniteSet(Pending)
  BY <1>3, <1>4, FS_Subset
<1> QED BY <1>3, <1>5, FS_CardinalityType

\* At the beginning all is left, in the index.
LEMMA InitConserved == Init => ConservedInv
<1> SUFFICES ASSUME Init PROVE ConservedInv
  OBVIOUS
<1>1. LoopInv /\ iters = <<>> /\ pos = 1 /\ out = <<>> /\ idx \in Seq(Location)
  BY InitInv, LoopAssumption DEF Init
<1>2. LeftIn(iters) = {} /\ Apart(iters)
  BY <1>1 DEF LeftIn, Apart
<1>3. Later(idx, pos) = Slots(idx)
  <2>1. 1 .. Len(idx) = DOMAIN idx
    BY <1>1
  <2> QED BY <1>1, <2>1 DEF Later, Slots
<1>4. Pending = Slots(idx)
  BY <1>2, <1>3, PendingIs
<1>5. Cardinality(Pending) \in Nat
  BY <1>1, FewSlots
<1>6. Len(out) = 0 /\ {out[i] : i \in DOMAIN out} = {}
  BY <1>1
<1>7. Conserved
  BY <1>4, <1>5, <1>6 DEF Conserved
<1>8. Once
  BY <1>2 DEF Once
<1> QED BY <1>1, <1>7, <1>8 DEF ConservedInv

\* The first batch goes from the index to the heap.
LEMMA FirstConserves == ConservedInv /\ First => Once' /\ Conserved'
<1> SUFFICES ASSUME ConservedInv, First PROVE Once' /\ Conserved'
  OBVIOUS
<1>1. /\ log' = log /\ idx' = idx /\ out' = out /\ iters = <<>> /\ pos = 1
      /\ log \in Seq(Item) /\ idx \in Seq(Location) /\ IndexFits(log, idx) /\ Once
  BY DEF ConservedInv, First, LoopInv, TypeOK, input
<1>2. PICK r \in PeekFirst(log, idx) : iters' = r[1] /\ pos' = r[2]
  BY DEF First
<1>3. /\ LeftIn(iters') \cup Later(idx, pos') = LeftIn(iters) \cup Later(idx, pos)
      /\ Apart(iters') /\ LeftIn(iters') \cap Later(idx, pos') = {}
  <2>1. CASE idx = <<>>
    <3>1. r = <<<<>>, 1>>
      BY <1>2, <2>1 DEF PeekFirst
    <3>2. iters' = iters /\ pos' = pos
      BY <1>1, <1>2, <3>1
    <3> QED BY <1>1, <3>2 DEF Once
  <2>2. CASE idx # <<>>
    <3>1. r \in AddIter(log, idx, iters, pos) /\ pos \in 1 .. Len(idx) /\ iters \in Seq(Iter)
      BY <1>1, <1>2, <2>2 DEF PeekFirst
    <3>2. Apart(iters) /\ LeftIn(iters) \cap Later(idx, pos) = {}
      BY <1>1 DEF Once
    <3> QED BY <1>1, <1>2, <3>1, <3>2, AddedLeft
  <2> QED BY <2>1, <2>2
<1>4. Pending' = Pending
  BY <1>1, <1>3, PendingIs
<1>5. Conserved'
  BY <1>1, <1>4 DEF ConservedInv, Conserved
<1> QED BY <1>1, <1>3, <1>5 DEF Once

\* An item goes from what is left to dst.
LEMMA TakeConserves == ConservedInv /\ Take => Once' /\ Conserved'
<1> SUFFICES ASSUME ConservedInv, Take PROVE Once' /\ Conserved'
  OBVIOUS
<1>1. /\ log' = log /\ idx' = idx /\ iters # <<>> /\ ~iters[1].exh
      /\ out' = Append(out, log[iters[1].off + 1])
  BY DEF Take, input, PeekMore
<1>2. /\ log \in Seq(Item) /\ idx \in Seq(Location) /\ iters \in Seq(Iter) /\ out \in Seq(Item)
      /\ pos \in 1 .. Len(idx) + 1 /\ IndexFits(log, idx) /\ LoopInv
      /\ IterFits(log, iters[1]) /\ Apart(iters) /\ LeftIn(iters) \cap Later(idx, pos) = {}
  <2>1. 1 \in DOMAIN iters
    BY <1>1 DEF ConservedInv, LoopInv, TypeOK
  <2> QED BY <2>1 DEF ConservedInv, LoopInv, TypeOK, Once
<1>3. PICK s, it, h : s = iters[1].off + 1 /\ it = IterNext(log, iters[1]) /\ h = [iters EXCEPT ![1] = it]
  OBVIOUS
<1>4. PICK r \in PeekNext(log, idx, iters, pos) : iters' = r[1] /\ pos' = r[2]
  BY DEF Take
<1>5. PICK g \in Fixed(h) :
          r \in (IF MustAdd(idx, pos, it) THEN AddIter(log, idx, g, pos) ELSE {<<g, pos>>})
  BY <1>3, <1>4 DEF PeekNext
<1>6. s \in LeftIn(iters) /\ LeftIn(h) = LeftIn(iters) \ {s} /\ Apart(h) /\ h \in Seq(Iter) /\ h # <<>>
  BY <1>1, <1>2, <1>3, TopTaken
<1>7. PICK f : Permutes(f, h, g)
  BY <1>5, <1>6, FixedPermutes
<1>8. LeftIn(g) = LeftIn(h) /\ Apart(g)
  BY <1>6, <1>7, PermutedLeft
<1>9. /\ LeftIn(iters') \cup Later(idx, pos') = LeftIn(g) \cup Later(idx, pos)
      /\ Apart(iters') /\ LeftIn(iters') \cap Later(idx, pos') = {}
  <2>1. LeftIn(g) \cap Later(idx, pos) = {}
    BY <1>2, <1>6, <1>8
  <2>2. CASE MustAdd(idx, pos, it)
    <3>1. r \in AddIter(log, idx, g, pos) /\ pos \in 1 .. Len(idx)
      BY <1>2, <1>5, <2>2 DEF MustAdd
    <3>2. g \in Seq(Iter)
      <4>1. \A k \in DOMAIN g : g[k] \in Iter
        BY <1>6, <1>7 DEF Permutes
      <4>2. PICK P : g = ShiftUp(h, P)
        BY <1>5 DEF Fixed
      <4>3. DOMAIN g = DOMAIN h /\ g = [k \in DOMAIN h |-> g[k]]
        BY <4>2 DEF ShiftUp
      <4>4. DOMAIN h = 1 .. Len(h) /\ Len(h) \in Nat
        BY <1>6
      <4> QED BY <4>1, <4>3, <4>4
    <3>3. log \in Seq(Item) /\ idx \in Seq(Location) /\ IndexFits(log, idx) /\ Apart(g)
      BY <1>2, <1>8
    <3>4. /\ LeftIn(r[1]) \cup Later(idx, r[2]) = LeftIn(g) \cup Later(idx, pos)
          /\ Apart(r[1]) /\ LeftIn(r[1]) \cap Later(idx, r[2]) = {}
      BY <2>1, <3>1, <3>2, <3>3, AddedLeft
    <3> QED BY <1>4, <3>4
  <2>3. CASE ~MustAdd(idx, pos, it)
    <3>1. iters' = g /\ pos' = pos
      BY <1>4, <1>5, <2>3
    <3> QED BY <1>8, <2>1, <3>1
  <2> QED BY <2>2, <2>3
<1>10. Once'
  BY <1>1, <1>9 DEF Once
<1>11. PICK P, Q : P = Pending /\ Q = Pending'
  OBVIOUS
<1>12. s \in P /\ Q = P \ {s}
  <2>1. P = LeftIn(iters) \cup Later(idx, pos) /\ Q = LeftIn(g) \cup Later(idx, pos)
    BY <1>1, <1>9, <1>11, PendingIs
  <2> QED BY <1>2, <1>6, <1>8, <2>1
<1>13. IsFiniteSet(P) /\ Cardinality(P) \in Nat /\ s \in 1 .. Len(log)
  BY <1>2, <1>11, <1>12, FewSlots
<1>14. log[s] \in Item
  BY <1>2, <1>13, ItemKey
<1>15. PICK m \in Nat : m = Len(out)
  BY <1>2
<1>16. /\ Len(out') = m + 1 /\ DOMAIN out' = DOMAIN out \cup {m + 1} /\ m + 1 \notin DOMAIN out
       /\ out'[m + 1] = log[s] /\ \A i \in DOMAIN out : out'[i] = out[i]
  BY <1>1, <1>2, <1>3, <1>14, <1>15
<1>17. Cardinality(Q) = Cardinality(P) - 1
  BY <1>12, <1>13, FS_RemoveElement
<1>18. Len(out') + Cardinality(Q) = Cardinality(Slots(idx))
  <2>1. m + Cardinality(P) = Cardinality(Slots(idx))
    BY <1>11, <1>15 DEF ConservedInv, Conserved
  <2>2. (m + 1) + (Cardinality(P) - 1) = m + Cardinality(P)
    BY <1>13
  <2> QED BY <1>16, <1>17, <2>1, <2>2
<1>19. {log[t] : t \in Q} \cup {out'[i] : i \in DOMAIN out'} = {log[t] : t \in Slots(idx)}
  <2>1. {log[t] : t \in P} \cup {out[i] : i \in DOMAIN out} = {log[t] : t \in Slots(idx)}
    BY <1>11 DEF ConservedInv, Conserved
  <2>2. {log[t] : t \in P} = {log[t] : t \in Q} \cup {log[s]}
    BY <1>12
  <2>3. {out'[i] : i \in DOMAIN out'} = {out[i] : i \in DOMAIN out} \cup {log[s]}
    BY <1>16
  <2> QED BY <2>1, <2>2, <2>3
<1> QED BY <1>1, <1>10, <1>11, <1>18, <1>19 DEF Conserved

\* What bucket.peek has appended to dst and what is left for it make up what
\* the index refers to, each item once: however the batches overlap, and
\* whichever way the heap orders them, nothing is skipped, delivered twice or
\* made up.
THEOREM PeekConserves == Spec => []Conserved
<1>1. ConservedInv /\ UNCHANGED vars => ConservedInv'
  <2> SUFFICES ASSUME ConservedInv, UNCHANGED vars PROVE ConservedInv'
    OBVIOUS
  <2>1. LoopInv'
    BY DEF ConservedInv, LoopInv, vars, TypeOK, TopBeforeNext, OutBelowRest, Ascending
  <2>2. Once' /\ Pending' = Pending
    BY DEF ConservedInv, Once, Pending, vars
  <2>3. Conserved'
    BY <2>2 DEF ConservedInv, Conserved, vars
  <2> QED BY <2>1, <2>2, <2>3 DEF ConservedInv
<1>2. ConservedInv /\ Done => ConservedInv'
  <2> SUFFICES ASSUME ConservedInv, Done PROVE ConservedInv'
    OBVIOUS
  <2>1. LoopInv' /\ UNCHANGED <<log, idx, iters, pos, out>>
    BY DoneInv DEF ConservedInv, Done, input
  <2>2. Once' /\ Pending' = Pending
    BY <2>1 DEF ConservedInv, Once, Pending
  <2>3. Conserved'
    BY <2>1, <2>2 DEF ConservedInv, Conserved
  <2> QED BY <2>1, <2>2, <2>3 DEF ConservedInv
<1>3. ConservedInv /\ (First \/ Take) => ConservedInv'
  BY FirstConserves, TakeConserves, FirstInv, TakeInv DEF ConservedInv
<1>4. ConservedInv /\ [Next]_vars => ConservedInv'
  BY <1>1, <1>2, <1>3 DEF Next
<1>5. ConservedInv => Conserved
  BY DEF ConservedInv
<1> QED BY InitConserved, <1>4, <1>5, PTL DEF Spec
=============================================================================
