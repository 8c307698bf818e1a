---------------------------- MODULE Iters_proofs ----------------------------
(***************************************************************************)
(* The heap of batch iterators: what Fix and Push return for heaps of any  *)
(* size, and that the top of a heap is a least iterator.                   *)
(***************************************************************************)
EXTENDS Peek, Numbers_proofs

\* The children of slot m have m as their parent; the left one is even.
LEMMA Halves ==
  ASSUME NEW m \in Nat
  PROVE  /\ (2 * m) \div 2 = m /\ (2 * m + 1) \div 2 = m
         /\ (2 * m) % 2 = 0 /\ (2 * m + 1) % 2 = 1
OBVIOUS

\* Every slot but the first has a parent before it.
LEMMA Parent ==
  ASSUME NEW k \in Nat, k > 1
  PROVE  /\ k \div 2 \in Nat /\ k \div 2 >= 1 /\ k \div 2 < k
         /\ k = 2 * (k \div 2) \/ k = 2 * (k \div 2) + 1
OBVIOUS

\* Which of the children of slot m down prefers.
LEMMA PreferredChild ==
  ASSUME NEW h, NEW m \in Nat
  PROVE  /\ Preferred(h, 2 * m) <=> (2 * m + 1 \in DOMAIN h => ~Less(h[2 * m + 1], h[2 * m]))
         /\ Preferred(h, 2 * m + 1) <=> Less(h[2 * m + 1], h[2 * m])
<1> DEFINE l == 2 * m
<1>1. l \in Nat /\ l % 2 = 0 /\ (l + 1) % 2 # 0 /\ l + 1 - 1 = l
  BY Halves
<1> HIDE DEF l
<1>2. Preferred(h, l) <=> (l + 1 \in DOMAIN h => ~Less(h[l + 1], h[l]))
  BY <1>1 DEF Preferred
<1>3. Preferred(h, l + 1) <=> Less(h[l + 1], h[l])
  BY <1>1 DEF Preferred
<1> QED BY <1>2, <1>3 DEF l

\* less is a strict weak order.
LEMMA LessOrder ==
  ASSUME NEW a \in Iter, NEW b \in Iter, NEW c \in Iter
  PROVE  /\ ~Less(a, a)
         /\ Less(a, b) => ~Less(b, a)
         /\ ~Less(a, b) /\ ~Less(b, c) => ~Less(a, c)
         /\ Less(a, b) /\ ~Less(c, b) => ~Less(c, a)
         /\ ~Less(b, a) /\ Less(b, c) => ~Less(c, a)
<1>1. a.key \in Keys /\ b.key \in Keys /\ c.key \in Keys
  BY DEF Iter
<1>2. a.key \in Nat /\ b.key \in Nat /\ c.key \in Nat
  BY <1>1, KeysAssumption
<1> QED BY <1>2 DEF Less

\* No iterator of a heap is less than the one at its top, the one peek reads.
LEMMA TopIsLeast ==
  ASSUME NEW h \in Seq(Iter), HeapOrder(h), NEW k \in DOMAIN h
  PROVE  ~Less(h[k], h[1])
<1> DEFINE T == {j \in DOMAIN h : Less(h[j], h[1])}
<1> SUFFICES ASSUME T # {} PROVE FALSE
  OBVIOUS
<1>1. T \subseteq Nat /\ T \subseteq 1 .. Len(h)
  OBVIOUS
<1> HIDE DEF T
<1>2. PICK m \in T : \A j \in T : m <= j
  BY <1>1, LeastNat
<1>3. m \in 1 .. Len(h) /\ DOMAIN h = 1 .. Len(h) /\ Less(h[m], h[1])
  BY <1>1 DEF T
<1>4. 1 \in DOMAIN h /\ h[1] \in Iter /\ h[m] \in Iter
  BY <1>3
<1>5. m # 1
  BY <1>3, <1>4, LessOrder
<1>6. m \div 2 \in 1 .. Len(h) /\ m \div 2 < m
  BY <1>3, <1>5
<1>7. m \div 2 \notin T
  BY <1>1, <1>2, <1>6
<1>8. ~Less(h[m \div 2], h[1])
  BY <1>3, <1>6, <1>7 DEF T
<1>9. ~Less(h[m], h[m \div 2])
  <2>1. m \in DOMAIN h /\ m > 1
    BY <1>3, <1>5
  <2> QED BY <2>1 DEF HeapOrder
<1>10. h[m \div 2] \in Iter
  BY <1>6
<1> QED BY <1>3, <1>4, <1>8, <1>9, <1>10, LessOrder

-----------------------------------------------------------------------------

\* Iters.Fix(0): if only the iterator at the top is out of order, the result
\* is a heap of the same iterators, whose top is not above the moved one.
LEMMA FixedIsHeap ==
  ASSUME NEW h \in Seq(Iter), h # <<>>,
         \A k \in DOMAIN h : k \div 2 > 1 => ~Less(h[k], h[k \div 2]),
         NEW r \in Fixed(h)
  PROVE  /\ r \in Seq(Iter) /\ Len(r) = Len(h)
         /\ HeapOrder(r)
         /\ \A k \in DOMAIN r : \E j \in DOMAIN h : r[k] = h[j]
         /\ ~Less(h[1], r[1])
<1>1. PICK P \in SUBSET DOMAIN h : DownPath(h, P) /\ r = ShiftUp(h, P)
  BY DEF Fixed
<1>2. DOMAIN h = 1 .. Len(h) /\ Len(h) \in Nat /\ 1 \in DOMAIN h
  OBVIOUS
<1>3. 1 \in P
  BY <1>1, <1>2 DEF DownPath
<1>4. \A c \in DOMAIN h : c \in P /\ c # 1 =>
          c \div 2 \in P /\ Preferred(h, c) /\ Less(h[c], h[1])
  BY <1>1 DEF DownPath
<1>5. \A c \in DOMAIN h : c \div 2 \in P /\ Preferred(h, c) /\ Less(h[c], h[1]) => c \in P
  BY <1>1 DEF DownPath
<1>6. \A k \in DOMAIN h : h[k] \in Iter
  BY <1>2
<1>7. /\ DOMAIN r = DOMAIN h
      /\ \A k \in DOMAIN h :
            r[k] = IF k \notin P THEN h[k]
                   ELSE IF 2 * k \in P THEN h[2 * k]
                   ELSE IF 2 * k + 1 \in P THEN h[2 * k + 1]
                   ELSE h[1]
  BY <1>1 DEF ShiftUp
<1>8. \A k \in DOMAIN r : \E j \in DOMAIN h : r[k] = h[j]
  BY <1>1, <1>2, <1>7
<1>9. r \in Seq(Iter) /\ Len(r) = Len(h)
  <2>1. \A k \in 1 .. Len(h) : r[k] \in Iter
    BY <1>2, <1>6, <1>7, <1>8
  <2>2. r = [k \in 1 .. Len(h) |-> r[k]]
    BY <1>1, <1>2, <1>7 DEF ShiftUp
  <2> QED BY <1>2, <2>1, <2>2
\* Of two siblings at most one is on the path.
<1>10. \A k \in DOMAIN h : ~(2 * k \in P /\ 2 * k + 1 \in P)
  <2> SUFFICES ASSUME NEW k \in DOMAIN h, 2 * k \in P, 2 * k + 1 \in P PROVE FALSE
    OBVIOUS
  <2>1. 2 * k \in DOMAIN h /\ 2 * k + 1 \in DOMAIN h /\ k \in Nat /\ k > 0
    BY <1>1, <1>2
  <2>2. Preferred(h, 2 * k) /\ Preferred(h, 2 * k + 1)
    BY <1>4, <2>1
  <2> QED BY <2>1, <2>2, PreferredChild
<1>11. ~Less(h[1], r[1])
  <2>1. CASE r[1] = h[1]
    BY <2>1, <1>2, <1>6, LessOrder
  <2>2. CASE r[1] # h[1]
    <3>1. PICK c \in DOMAIN h : c \in P /\ c # 1 /\ r[1] = h[c]
      BY <2>2, <1>1, <1>2, <1>3, <1>7
    <3> QED BY <3>1, <1>2, <1>4, <1>6, LessOrder
  <2> QED BY <2>1, <2>2
<1>12. ASSUME NEW k \in DOMAIN h, k > 1 PROVE ~Less(r[k], r[k \div 2])
  <2> DEFINE p == k \div 2
  <2>1. p \in DOMAIN h /\ p \in Nat /\ p = k \div 2 /\ k \in Nat /\ p < k /\ (k = 2 * p \/ k = 2 * p + 1)
    BY <1>2, <1>12
  <2> SUFFICES ~Less(r[k], r[p])
    OBVIOUS
  <2> HIDE DEF p
  <2>2. h[k] \in Iter /\ h[p] \in Iter /\ h[1] \in Iter
    BY <2>1, <1>2, <1>6
  <2>3. CASE p \notin P
    <3>1. k \notin P
      BY <2>1, <2>3, <1>4, <1>12
    <3>2. p > 1
      BY <2>1, <2>3, <1>2, <1>3
    <3>3. r[k] = h[k] /\ r[p] = h[p]
      BY <2>1, <2>3, <3>1, <1>7
    <3> QED BY <2>1, <3>2, <3>3
  <2>4. CASE p \in P /\ k \in P
    <3>1. r[p] = h[k]
      BY <2>1, <2>4, <1>7, <1>10
    <3>2. CASE r[k] = h[1]
      <4>1. Less(h[k], h[1])
        BY <2>4, <1>4, <1>12
      <4> QED BY <2>2, <3>1, <3>2, <4>1, LessOrder
    <3>3. CASE r[k] # h[1]
      <4>1. PICK c \in DOMAIN h : r[k] = h[c] /\ (c = 2 * k \/ c = 2 * k + 1)
        BY <2>4, <3>3, <1>1, <1>7
      <4>2. c \div 2 = k
        BY <2>1, <4>1, Halves
      <4>3. ~Less(h[c], h[k])
        BY <4>1, <4>2, <1>12
      <4> QED BY <3>1, <4>1, <4>3
    <3> QED BY <3>2, <3>3
  <2>5. CASE p \in P /\ k \notin P
    <3> DEFINE s == IF k = 2 * p THEN 2 * p + 1 ELSE 2 * p
    <3>1. r[k] = h[k]
      BY <2>5, <1>7
    <3>2. CASE s \in P
      <4>1. r[p] = h[s]
        BY <2>1, <2>5, <3>2, <1>7
      <4>2. s \in DOMAIN h /\ s # 1 /\ h[s] \in Iter
        BY <2>1, <3>2, <1>1, <1>2, <1>6
      <4>3. Preferred(h, s)
        BY <4>2, <3>2, <1>4
      <4>4. ~Less(h[k], h[s])
        <5>1. CASE k = 2 * p
          <6>1. Less(h[s], h[k])
            BY <2>1, <4>3, <5>1, PreferredChild
          <6> QED BY <2>2, <4>2, <6>1, LessOrder
        <5>2. CASE k # 2 * p
          BY <2>1, <4>3, <5>2, PreferredChild
        <5> QED BY <5>1, <5>2
      <4> QED BY <3>1, <4>1, <4>4
    <3>3. CASE s \notin P
      <4>1. r[p] = h[1]
        BY <2>1, <2>5, <3>3, <1>7
      <4>2. CASE Preferred(h, k)
        <5>1. ~Less(h[k], h[1])
          BY <2>1, <2>5, <4>2, <1>5
        <5> QED BY <3>1, <4>1, <5>1
      <4>3. CASE ~Preferred(h, k)
        <5>1. s \in DOMAIN h /\ s \div 2 = p /\ ~Less(h[k], h[s]) /\ Preferred(h, s)
          <6>1. CASE k = 2 * p
            <7>1. s = 2 * p + 1 /\ s \div 2 = p
              BY <2>1, <6>1, Halves
            <7>2. s \in DOMAIN h /\ Less(h[s], h[k]) /\ Preferred(h, s)
              BY <2>1, <4>3, <6>1, <7>1, PreferredChild
            <7>3. h[s] \in Iter
              BY <7>2, <1>6
            <7> QED BY <2>2, <7>1, <7>2, <7>3, LessOrder
          <6>2. CASE k # 2 * p
            <7>1. s = 2 * p /\ k = 2 * p + 1 /\ s \div 2 = p
              BY <2>1, <6>2, Halves
            <7>4. s \in DOMAIN h
              <8>1. k \in Nat /\ k <= Len(h) /\ p \in Nat /\ p >= 1
                BY <2>1, <1>2
              <8>2. 2 * p \in 1 .. Len(h)
                BY <7>1, <8>1
              <8> QED BY <7>1, <8>2, <1>2
            <7>2. ~Less(h[k], h[s])
              BY <2>1, <4>3, <7>1, PreferredChild
            <7>3. Preferred(h, s)
              BY <2>1, <7>1, <7>2, PreferredChild
            <7> QED BY <7>1, <7>2, <7>3, <7>4
          <6> QED BY <6>1, <6>2
        <5>2. ~Less(h[s], h[1])
          BY <2>5, <3>3, <5>1, <1>5
        <5>3. h[s] \in Iter
          BY <5>1, <1>6
        <5>4. ~Less(h[k], h[1])
          BY <2>2, <5>1, <5>2, <5>3, LessOrder
        <5> QED BY <3>1, <4>1, <5>4
      <4> QED BY <4>2, <4>3
    <3> QED BY <3>2, <3>3
  <2> QED BY <2>1, <2>3, <2>4, <2>5
<1>13. HeapOrder(r)
  BY <1>7, <1>12 DEF HeapOrder
<1> QED BY <1>8, <1>9, <1>11, <1>13

\* Iters.Push: pushing to a heap gives a heap of the old iterators and the new
\* one, whose top is not above the new one.
LEMMA PushedIsHeap ==
  ASSUME NEW h \in Seq(Iter), HeapOrder(h), NEW it \in Iter, NEW r \in Pushed(h, it)
  PROVE  /\ r \in Seq(Iter) /\ Len(r) = Len(h) + 1
         /\ HeapOrder(r)
         /\ \A k \in DOMAIN r : r[k] = it \/ \E j \in DOMAIN h : r[k] = h[j]
         /\ ~Less(it, r[1])
<1> DEFINE g == Append(h, it)
           m == Len(h) + 1
<1>1. /\ g \in Seq(Iter) /\ Len(g) = m /\ DOMAIN g = 1 .. m /\ m \in Nat
      /\ g[m] = it /\ \A k \in 1 .. Len(h) : g[k] = h[k]
  OBVIOUS
<1>2. PICK P \in SUBSET DOMAIN g : UpPath(g, P) /\ r = ShiftDown(g, P)
  BY DEF Pushed
<1> HIDE DEF g
<1>3. m \in P /\ m \in DOMAIN g /\ 1 \in DOMAIN g
  BY <1>1, <1>2 DEF UpPath
<1>4. \A c \in DOMAIN g : c \in P /\ c # m => Less(g[m], g[c])
  BY <1>1, <1>2 DEF UpPath
<1>5. \A c \in DOMAIN g : (2 * c \in P \/ 2 * c + 1 \in P) /\ Less(g[m], g[c]) => c \in P
  BY <1>1, <1>2 DEF UpPath
<1>6. \A k \in DOMAIN g : g[k] \in Iter
  BY <1>1
<1>7. /\ DOMAIN r = DOMAIN g
      /\ \A k \in DOMAIN g :
            r[k] = IF k \notin P THEN g[k]
                   ELSE IF k > 1 /\ k \div 2 \in P THEN g[k \div 2]
                   ELSE g[m]
  BY <1>1, <1>2 DEF ShiftDown
<1>8. \A k \in DOMAIN r : \E j \in DOMAIN g : r[k] = g[j]
  BY <1>1, <1>2, <1>3, <1>7
<1>9. \A k \in DOMAIN r : r[k] = it \/ \E j \in DOMAIN h : r[k] = h[j]
  <2> SUFFICES ASSUME NEW k \in DOMAIN r
               PROVE  r[k] = it \/ \E j \in DOMAIN h : r[k] = h[j]
    OBVIOUS
  <2>1. PICK j \in DOMAIN g : r[k] = g[j]
    BY <1>8
  <2>2. CASE j = m
    BY <2>1, <2>2, <1>1
  <2>3. CASE j # m
    <3>1. j \in 1 .. Len(h) /\ DOMAIN h = 1 .. Len(h)
      BY <2>3, <1>1
    <3> QED BY <2>1, <3>1, <1>1
  <2> QED BY <2>2, <2>3
<1>10. r \in Seq(Iter) /\ Len(r) = m
  <2>1. \A k \in 1 .. m : r[k] \in Iter
    BY <1>1, <1>6, <1>7, <1>8
  <2>2. r = [k \in 1 .. m |-> r[k]]
    BY <1>1, <1>2, <1>7 DEF ShiftDown
  <2> HIDE DEF m
  <2> QED BY <1>1, <2>1, <2>2
\* The old iterators are in order in g.
<1>11. \A k \in DOMAIN g : k > 1 /\ k # m => ~Less(g[k], g[k \div 2])
  <2> SUFFICES ASSUME NEW k \in DOMAIN g, k > 1, k # m PROVE ~Less(g[k], g[k \div 2])
    OBVIOUS
  <2>1. k \in 1 .. Len(h) /\ k \div 2 \in 1 .. Len(h) /\ DOMAIN h = 1 .. Len(h)
    BY <1>1
  <2>2. ~Less(h[k], h[k \div 2])
    BY <2>1 DEF HeapOrder
  <2> QED BY <2>1, <2>2, <1>1
<1>12. ASSUME NEW k \in DOMAIN g, k > 1 PROVE ~Less(r[k], r[k \div 2])
  <2> DEFINE p == k \div 2
  <2>1. /\ p \in DOMAIN g /\ p \in Nat /\ p = k \div 2 /\ p < k
        /\ p # m /\ (k = 2 * p \/ k = 2 * p + 1)
    <3>1. k \in Nat /\ k > 1 /\ k <= m /\ m \in Nat
      BY <1>1, <1>12
    <3>2. p \in Nat /\ p >= 1 /\ p < k /\ (k = 2 * p \/ k = 2 * p + 1)
      BY <3>1, Parent
    <3> HIDE DEF m
    <3>3. p \in 1 .. m /\ p # m
      BY <3>1, <3>2
    <3> QED BY <3>2, <3>3, <1>1
  <2> SUFFICES ~Less(r[k], r[p])
    OBVIOUS
  <2> HIDE DEF p
  <2>2. g[k] \in Iter /\ g[p] \in Iter /\ g[m] \in Iter
    BY <2>1, <1>3, <1>6
  <2>3. CASE k \notin P /\ p \notin P
    <3>1. r[k] = g[k] /\ r[p] = g[p] /\ k # m
      BY <2>1, <2>3, <1>3, <1>7
    <3> QED BY <2>1, <3>1, <1>11, <1>12
  <2>4. CASE k \in P /\ p \notin P
    <3>1. r[k] = g[m] /\ r[p] = g[p]
      BY <2>1, <2>4, <1>7
    <3>2. ~Less(g[m], g[p])
      BY <2>1, <2>4, <1>5
    <3> QED BY <3>1, <3>2
  <2>5. CASE p \in P
    <3>1. Less(g[m], g[p])
      BY <2>1, <2>5, <1>4
    <3>2. ~Less(g[p], r[p]) /\ r[p] \in Iter
      <4>1. CASE p > 1 /\ p \div 2 \in P
        <5>1. r[p] = g[p \div 2] /\ p \div 2 \in DOMAIN g
          BY <2>1, <2>5, <4>1, <1>2, <1>7
        <5>2. ~Less(g[p], g[p \div 2])
          BY <2>1, <4>1, <1>11
        <5> QED BY <5>1, <5>2, <1>6
      <4>2. CASE ~(p > 1 /\ p \div 2 \in P)
        <5>1. r[p] = g[m]
          BY <2>1, <2>5, <4>2, <1>7
        <5> QED BY <2>2, <3>1, <5>1, LessOrder
      <4> QED BY <4>1, <4>2
    <3>3. CASE k \in P
      <4>1. r[k] = g[p]
        BY <2>1, <2>5, <3>3, <1>7, <1>12
      <4> QED BY <3>2, <4>1
    <3>4. CASE k \notin P
      <4>1. r[k] = g[k] /\ k # m
        BY <3>4, <1>3, <1>7
      <4>2. ~Less(g[k], g[p])
        BY <2>1, <4>1, <1>11, <1>12
      <4> QED BY <2>2, <3>2, <4>1, <4>2, LessOrder
    <3> QED BY <3>3, <3>4
  <2> QED BY <2>3, <2>4, <2>5
<1>13. HeapOrder(r)
  BY <1>7, <1>12 DEF HeapOrder
\* The new iterator ends up in the least slot of its path.
<1>14. ~Less(it, r[1])
  <2>1. P \subseteq Nat /\ P # {}
    BY <1>1, <1>2, <1>3
  <2>2. PICK c \in P : \A j \in P : c <= j
    BY <2>1, LeastNat
  <2>3. c \in DOMAIN g /\ c \in Nat /\ c > 0
    BY <1>1, <1>2
  <2>4. ~(c > 1 /\ c \div 2 \in P)
    <3> SUFFICES ASSUME c > 1, c \div 2 \in P PROVE FALSE
      OBVIOUS
    <3>1. c \div 2 < c
      BY <2>3
    <3>2. c <= c \div 2
      BY <2>2
    <3> QED BY <2>3, <3>1, <3>2
  <2>5. r[c] = it
    BY <2>3, <2>4, <1>1, <1>7
  <2> QED BY <2>3, <2>5, <1>7, <1>10, <1>13, TopIsLeast
<1> QED BY <1>9, <1>10, <1>13, <1>14

-----------------------------------------------------------------------------
(* Fix and Push only change the places of iterators.                       *)

\* r has what h has, each at one place.
Permutes(f, h, r) ==
    /\ f \in [DOMAIN r -> DOMAIN h] /\ \A k \in DOMAIN r : r[k] = h[f[k]]
    /\ \A j \in DOMAIN h : \E k \in DOMAIN r : f[k] = j
    /\ \A k, l \in DOMAIN r : k # l => f[k] # f[l]

\* A function from finitely many places onto as many comes to each once.
LEMMA OntoPermutes ==
  ASSUME NEW n \in Nat, NEW h, DOMAIN h = 1 .. n, NEW r, DOMAIN r = 1 .. n,
         NEW f \in [1 .. n -> 1 .. n], \A k \in 1 .. n : r[k] = h[f[k]],
         \A j \in 1 .. n : \E k \in 1 .. n : f[k] = j
  PROVE  Permutes(f, h, r)
<1>1. PICK D : D = 1 .. n
  OBVIOUS
<1>2. f \in Surjection(D, D)
  BY <1>1 DEF Surjection
<1>3. IsFiniteSet(D)
  BY <1>1, FS_Interval
<1>4. f \in Injection(D, D)
  BY <1>2, <1>3, FS_SurjSameCardinalityImpliesInj
<1>5. \A k, l \in D : k # l => f[k] # f[l]
  BY <1>4 DEF Injection, IsInjective
<1> QED BY <1>1, <1>5 DEF Permutes

\* Every non-empty set of slots has a last one.
LEMMA LastSlot ==
  ASSUME NEW n \in Nat, NEW P \in SUBSET (1 .. n), P # {}
  PROVE  \E m \in P : \A k \in P : k <= m
<1>1. PICK T : T = {n - k : k \in P}
  OBVIOUS
<1>2. T \subseteq Nat /\ T # {}
  <2>1. \A k \in P : n - k \in Nat
    OBVIOUS
  <2>2. T \subseteq Nat
    BY <1>1, <2>1
  <2>3. T # {}
    BY <1>1
  <2> QED BY <2>2, <2>3
<1>3. PICK t \in T : \A u \in T : t <= u
  BY <1>2, LeastNat
<1>4. PICK m \in P : t = n - m
  BY <1>1, <1>3
<1>5. ASSUME NEW k \in P PROVE k <= m
  <2>1. n - m <= n - k
    BY <1>1, <1>3, <1>4
  <2>2. k \in Nat /\ m \in Nat
    OBVIOUS
  <2> QED BY <2>1, <2>2
<1> QED BY <1>5

\* Iters.Fix(0)
LEMMA FixedPermutes ==
  ASSUME NEW h \in Seq(Iter), h # <<>>, NEW r \in Fixed(h)
  PROVE  \E f : Permutes(f, h, r)
<1>1. PICK P \in SUBSET DOMAIN h : DownPath(h, P) /\ r = ShiftUp(h, P)
  BY DEF Fixed
<1>2. PICK n \in Nat : n = Len(h) /\ DOMAIN h = 1 .. n /\ 1 \in 1 .. n
  OBVIOUS
<1>3. 1 \in P /\ P \in SUBSET (1 .. n)
  BY <1>1, <1>2 DEF DownPath
<1>4. \A c \in 1 .. n : c \in P /\ c # 1 => c \div 2 \in P /\ Preferred(h, c)
  BY <1>1, <1>2 DEF DownPath
<1> DEFINE f == [k \in 1 .. n |-> IF k \notin P THEN k
                                  ELSE IF 2 * k \in P THEN 2 * k
                                  ELSE IF 2 * k + 1 \in P THEN 2 * k + 1 ELSE 1]
<1>5. f \in [1 .. n -> 1 .. n]
  BY <1>2, <1>3
<1>6. DOMAIN r = 1 .. n /\ \A k \in 1 .. n : r[k] = h[f[k]]
  BY <1>1, <1>2 DEF ShiftUp
<1>7. \A k \in 1 .. n : f[k] = IF k \notin P THEN k
                               ELSE IF 2 * k \in P THEN 2 * k
                               ELSE IF 2 * k + 1 \in P THEN 2 * k + 1 ELSE 1
  OBVIOUS
<1> HIDE DEF f
<1>8. ASSUME NEW j \in 1 .. n PROVE \E k \in 1 .. n : f[k] = j
  <2>1. CASE j \notin P
    BY <1>7, <2>1
  <2>2. CASE j = 1
    <3>1. PICK m \in P : \A k \in P : k <= m
      BY <1>3, LastSlot
    <3>2. m \in 1 .. n /\ ~(2 * m <= m) /\ ~(2 * m + 1 <= m)
      BY <1>3
    <3>3. 2 * m \notin P /\ 2 * m + 1 \notin P
      BY <3>1, <3>2
    <3> QED BY <1>7, <2>2, <3>2, <3>3
  <2>3. CASE j \in P /\ j # 1
    <3>1. PICK q : q = j \div 2
      OBVIOUS
    <3>2. j \in Nat /\ j > 1
      BY <2>3
    <3>3. q \in Nat /\ (j = 2 * q \/ j = 2 * q + 1)
      BY <3>1, <3>2, Parent
    <3>4. q \in P /\ q \in 1 .. n /\ Preferred(h, j)
      BY <1>3, <1>4, <2>3, <3>1
    <3>5. CASE j = 2 * q
      BY <1>7, <2>3, <3>4, <3>5
    <3>6. CASE j = 2 * q + 1
      <4>1. 2 * q \in 1 .. n /\ 2 * q # 1 /\ (2 * q) % 2 = 0 /\ j % 2 = 1
        BY <3>3, <3>4, <3>6, Halves
      <4>2. 2 * q \notin P
        <5> SUFFICES ASSUME 2 * q \in P PROVE FALSE
          OBVIOUS
        <5>1. Preferred(h, 2 * q)
          BY <1>4, <4>1
        <5>2. 2 * q + 1 \in DOMAIN h => ~Less(h[2 * q + 1], h[2 * q])
          BY <4>1, <5>1 DEF Preferred
        <5>3. Less(h[j], h[j - 1]) /\ j - 1 = 2 * q
          BY <3>3, <3>4, <3>6, <4>1 DEF Preferred
        <5> QED BY <1>2, <3>6, <5>2, <5>3
      <4> QED BY <1>7, <2>3, <3>4, <3>6, <4>2
    <3> QED BY <3>3, <3>5, <3>6
  <2> QED BY <2>1, <2>2, <2>3
<1>9. Permutes(f, h, r)
  BY <1>2, <1>5, <1>6, <1>8, OntoPermutes
<1> QED BY <1>9

\* Iters.Push
LEMMA PushedPermutes ==
  ASSUME NEW h \in Seq(Iter), NEW it \in Iter, NEW r \in Pushed(h, it)
  PROVE  \E f : Permutes(f, Append(h, it), r)
<1>1. PICK g : g = Append(h, it)
  OBVIOUS
<1>2. PICK n \in Nat : n = Len(g) /\ DOMAIN g = 1 .. n /\ n \in 1 .. n
  BY <1>1
<1>3. PICK P \in SUBSET DOMAIN g : UpPath(g, P) /\ r = ShiftDown(g, P)
  BY <1>1 DEF Pushed
<1>4. n \in P /\ P \in SUBSET (1 .. n) /\ P \subseteq Nat /\ P # {}
  BY <1>2, <1>3 DEF UpPath
<1>5. \A c \in 1 .. n : c \in P /\ c # n => 2 * c \in P \/ 2 * c + 1 \in P
  BY <1>2, <1>3 DEF UpPath
<1> DEFINE f == [k \in 1 .. n |-> IF k \notin P THEN k
                                  ELSE IF k > 1 /\ k \div 2 \in P THEN k \div 2 ELSE n]
<1>6. f \in [1 .. n -> 1 .. n]
  BY <1>2, <1>4
<1>7. DOMAIN r = 1 .. n /\ \A k \in 1 .. n : r[k] = g[f[k]]
  BY <1>2, <1>3 DEF ShiftDown
<1>8. \A k \in 1 .. n : f[k] = IF k \notin P THEN k
                               ELSE IF k > 1 /\ k \div 2 \in P THEN k \div 2 ELSE n
  OBVIOUS
<1> HIDE DEF f
<1>9. ASSUME NEW j \in 1 .. n PROVE \E k \in 1 .. n : f[k] = j
  <2>1. CASE j \notin P
    BY <1>8, <2>1
  <2>2. CASE j = n
    <3>1. PICK m \in P : \A k \in P : m <= k
      BY <1>4, LeastNat
    <3>2. m \in 1 .. n /\ m \in Nat
      BY <1>4
    <3>3. m > 1 => m \div 2 \notin P
      <4> SUFFICES ASSUME m > 1, m \div 2 \in P PROVE FALSE
        OBVIOUS
      <4>1. m \div 2 < m /\ m \div 2 \in Nat
        BY <3>2, Parent
      <4> QED BY <3>1, <3>2, <4>1
    <3> QED BY <1>8, <2>2, <3>2, <3>3
  <2>3. CASE j \in P /\ j # n
    <3>1. PICK c \in P : c = 2 * j \/ c = 2 * j + 1
      BY <1>5, <2>3
    <3>2. c \div 2 = j /\ c > 1 /\ c \in 1 .. n
      BY <1>4, <3>1, Halves
    <3> QED BY <1>8, <2>3, <3>2
  <2> QED BY <2>1, <2>2, <2>3
<1>10. Permutes(f, g, r)
  BY <1>2, <1>6, <1>7, <1>9, OntoPermutes
<1> QED BY <1>1, <1>10

-----------------------------------------------------------------------------
(* Iterators over batches that fit the log.                                *)

\* The types of the fields, which the provers do not find on their own.
LEMMA ItemKey ==
  ASSUME NEW L \in Seq(Item), NEW p \in 1 .. Len(L)
  PROVE  L[p] \in Item /\ L[p].key \in Keys /\ L[p].key \in Nat
<1>1. L[p] \in Item
  OBVIOUS
<1>2. L[p].key \in Keys
  BY <1>1 DEF Item
<1> QED BY <1>1, <1>2, KeysAssumption

LEMMA LocFields ==
  ASSUME NEW loc \in Location
  PROVE  loc.key \in Keys /\ loc.key \in Nat /\ loc.off \in Nat /\ loc.len \in Nat
<1>1. loc.key \in Keys /\ loc.off \in Nat /\ loc.len \in Nat
  BY DEF Location
<1> QED BY <1>1, KeysAssumption

LEMMA IterFields ==
  ASSUME NEW it \in Iter
  PROVE  /\ it.first \in Keys /\ it.key \in Keys /\ it.key \in Nat
         /\ it.off \in Nat /\ it.len \in Nat
<1>1. it.first \in Keys /\ it.key \in Keys /\ it.off \in Nat /\ it.len \in Nat
  BY DEF Iter
<1> QED BY <1>1, KeysAssumption

\* An iterator at the first item of a batch that fits the log.
LEMMA IterAtFits ==
  ASSUME NEW L \in Seq(Item), NEW loc \in Location, BatchFits(L, loc)
  PROVE  /\ Readable(L, loc)
         /\ IterAt(L, loc) \in Iter
         /\ IterFits(L, IterAt(L, loc))
         /\ ~IterAt(L, loc).exh
         /\ IterAt(L, loc).key = loc.key
<1>1. /\ loc.len > 0 /\ loc.off + loc.len <= Len(L) /\ L[loc.off + 1].key = loc.key
      /\ loc.key \in Keys /\ loc.off \in Nat /\ loc.len \in Nat
  BY LocFields DEF BatchFits
<1>2. Readable(L, loc)
  BY <1>1 DEF Readable
<1> DEFINE i == IterAt(L, loc)
<1>3. i = [first |-> loc.key, key |-> loc.key, off |-> loc.off, len |-> loc.len, exh |-> FALSE]
  BY <1>1 DEF IterAt
<1>4. i \in Iter
  <2>1. FALSE \in BOOLEAN
    OBVIOUS
  <2> HIDE DEF i
  <2> QED BY <1>1, <1>3, <2>1 DEF Iter
<1>5. ~i.exh /\ i.key = loc.key /\ i.off = loc.off /\ i.len = loc.len
  BY <1>3
<1>6. IterFits(L, i)
  BY <1>5 DEF IterFits, CurrentLocation, BatchFits, LocSlots
<1> QED BY <1>2, <1>4, <1>5, <1>6

\* The next position of an iterator: further up in its batch, or exhausted.
LEMMA IterNextFits ==
  ASSUME NEW L \in Seq(Item), NEW it \in Iter, ~it.exh, IterFits(L, it)
  PROVE  /\ IterNext(L, it) \in Iter
         /\ IterFits(L, IterNext(L, it))
         /\ ~IterNext(L, it).exh => it.key <= IterNext(L, it).key
         /\ it.key = L[it.off + 1].key
         /\ it.off + 1 \in 1 .. Len(L)
<1> DEFINE i == IterNext(L, it)
<1>1. /\ it.first \in Keys /\ it.key \in Keys /\ it.key \in Nat
      /\ it.off \in Nat /\ it.len \in Nat
  BY IterFields
<1>2. /\ it.len > 0 /\ it.off + it.len <= Len(L) /\ L[it.off + 1].key = it.key
      /\ \A a, b \in (it.off + 1) .. (it.off + it.len) : a <= b => L[a].key <= L[b].key
  BY DEF IterFits, BatchFits, CurrentLocation, LocSlots
<1>3. it.off + 1 \in 1 .. Len(L)
  BY <1>1, <1>2
<1>4. CASE it.len <= 1 \/ it.off + 1 >= Len(L)
  <2>1. i = [it EXCEPT !.exh = TRUE]
    BY <1>4 DEF IterNext
  <2>2. i \in Iter
    BY <2>1, Zenon DEF Iter
  <2>3. i.exh
    BY <2>1, Zenon DEF Iter
  <2> QED BY <1>2, <1>3, <2>2, <2>3 DEF IterFits
<1>5. CASE ~(it.len <= 1 \/ it.off + 1 >= Len(L))
  <2>1. i = [it EXCEPT !.key = L[it.off + 2].key, !.off = it.off + 1, !.len = it.len - 1]
    BY <1>5 DEF IterNext
  <2>2. it.off + 2 \in 1 .. Len(L) /\ it.off + 1 \in Nat /\ it.len - 1 \in Nat
    BY <1>1, <1>5
  <2>3. L[it.off + 2].key \in Keys
    BY <2>2, ItemKey
  <2>4. i \in Iter
    BY <2>1, <2>2, <2>3, Zenon DEF Iter
  <2>5. i.key = L[it.off + 2].key /\ i.off = it.off + 1 /\ i.len = it.len - 1
    BY <2>1 DEF Iter
  <2> HIDE DEF i
  <2>6. it.key <= i.key
    <3>1. /\ it.off + 1 \in (it.off + 1) .. (it.off + it.len)
          /\ it.off + 2 \in (it.off + 1) .. (it.off + it.len)
          /\ it.off + 1 <= it.off + 2
      BY <1>1, <1>2, <1>5
    <3>2. L[it.off + 1].key <= L[it.off + 2].key
      BY <1>2, <3>1
    <3> QED BY <1>2, <2>5, <3>2
  <2>7. BatchFits(L, CurrentLocation(i))
    <3>1. i.off + 1 = it.off + 2 /\ i.off + i.len = it.off + it.len /\ i.len > 0
      <4>1. it.off \in Nat /\ it.len \in Nat /\ it.len > 1
        BY <1>1, <1>5
      <4>2. /\ (it.off + 1) + 1 = it.off + 2
            /\ (it.off + 1) + (it.len - 1) = it.off + it.len
            /\ it.len - 1 > 0
        BY <4>1
      <4> QED BY <2>5, <4>2
    <3>2. i.off + i.len <= Len(L) /\ L[i.off + 1].key = i.key
      BY <1>2, <2>5, <3>1
    <3>3. \A a \in (it.off + 2) .. (it.off + it.len) : a \in (it.off + 1) .. (it.off + it.len)
      BY <1>1
    <3>4. \A a, b \in (i.off + 1) .. (i.off + i.len) : a <= b => L[a].key <= L[b].key
      BY <1>2, <3>1, <3>3
    <3> QED BY <3>1, <3>2, <3>4 DEF BatchFits, CurrentLocation, LocSlots
  <2> QED BY <1>2, <1>3, <2>4, <2>6, <2>7 DEF IterFits, i
<1> QED BY <1>4, <1>5
=============================================================================
