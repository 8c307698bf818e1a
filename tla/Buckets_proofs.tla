--------------------------- MODULE Buckets_proofs ---------------------------
(***************************************************************************)
(* The tree of buckets, for every set of keys, forks, batches and options: *)
(* type correctness, the limit on open buckets, what a Read may take,      *)
(* every item in its place, the length from the trailers, and that the     *)
(* tree implements the abstract queue, if the application is careful (see  *)
(* MayPush), no comparison of keys overflows, and the split function       *)
(* rounds down.                                                            *)
(***************************************************************************)
EXTENDS Buckets, SequenceTheorems, Numbers_proofs

-----------------------------------------------------------------------------
(* How a batch is cut up: sorting, the split functions and binsplit.       *)

\* A non-empty set of numbers up to n has a maximum.
LEMMA MaxUpTo ==
  ASSUME NEW n \in Nat, NEW S, S \subseteq 0 .. n, S # {}
  PROVE  Max(S) \in S /\ \A y \in S : y <= Max(S)
<1> DEFINE T == {i \in 0 .. n : n - i \in S}
<1>1. PICK s \in S : TRUE
  OBVIOUS
<1>2. n - s \in T
  BY <1>1
<1>3. PICK m \in T : \A k \in T : m <= k
  <2>1. T \subseteq Nat /\ T # {}
    BY <1>2
  <2> HIDE DEF T
  <2> QED BY <2>1, LeastNat
<1>4. n - m \in S /\ \A y \in S : n - m >= y
  <2>1. n - m \in S /\ m \in 0 .. n
    BY <1>3
  <2>2. ASSUME NEW y \in S PROVE n - m >= y
    <3>1. y \in 0 .. n /\ n - y \in 0 .. n /\ n - (n - y) = y
      OBVIOUS
    <3>2. n - y \in T
      BY <3>1
    <3> QED BY <2>1, <3>1, <3>2, <1>3
  <2> QED BY <2>1, <2>2
<1>5. Max(S) \in S /\ \A y \in S : Max(S) >= y
  <2> HIDE DEF T
  <2> QED BY <1>4 DEF Max
<1>6. \A y \in S : y \in Int
  OBVIOUS
<1> QED BY <1>5, <1>6

\* A finite non-empty set of integers has a minimum.
LEMMA MinOfFinite ==
  ASSUME NEW S, S \subseteq Int, IsFiniteSet(S), S # {}
  PROVE  Min(S) \in S /\ \A y \in S : Min(S) <= y
<1>1. \E x \in S : \A y \in S : x <= y
  BY LeastOfFinite
<1> QED BY <1>1 DEF Min

-----------------------------------------------------------------------------
(* The split functions                                                     *)

\* Rounding down to multiples of n respects the order and changes nothing the
\* second time.
LEMMA RoundDown ==
  ASSUME NEW n \in Nat \ {0}, NEW k \in Int
  PROVE  /\ (k \div n) * n \in Int
         /\ (k \div n) * n <= k
         /\ k >= 0 => (k \div n) * n >= 0
         /\ (((k \div n) * n) \div n) * n = (k \div n) * n
         /\ \A l \in Int : k <= l => (k \div n) * n <= (l \div n) * n
<1>1. n > 0 /\ k \div n \in Int
  OBVIOUS
<1>2. (k \div n) * n \in Int /\ (k \div n) * n <= k
  OBVIOUS
<1>3. k >= 0 => (k \div n) * n >= 0
  OBVIOUS
<1>4. (((k \div n) * n) \div n) * n = (k \div n) * n
  OBVIOUS
<1>5. \A l \in Int : k <= l => (k \div n) * n <= (l \div n) * n
  OBVIOUS
<1> QED BY <1>2, <1>3, <1>4, <1>5

\* FixedSizeBucketSplit treats a size of zero as one.
SizeOf == IF SplitConf.kind = "shift" THEN 2 ^ SplitConf.size
          ELSE IF SplitConf.size = 0 THEN 1 ELSE SplitConf.size

\* Both split functions are a rounding: down, or towards zero.
LEMMA SplitRounds ==
  /\ SizeOf \in Nat \ {0}
  /\ \A k \in Int : SplitFunc(k) =
        IF SplitConf.kind = "shift" \/ k >= 0 THEN (k \div SizeOf) * SizeOf
        ELSE -(((-k) \div SizeOf) * SizeOf)
<1>1. SizeOf \in Nat \ {0}
  BY SplitAssumption DEF SizeOf
<1>2. ASSUME NEW k \in Int PROVE SplitFunc(k) =
        IF SplitConf.kind = "shift" \/ k >= 0 THEN (k \div SizeOf) * SizeOf
        ELSE -(((-k) \div SizeOf) * SizeOf)
  <2>1. CASE SplitConf.kind = "shift"
    BY <2>1 DEF SplitFunc, ShiftBucketSplit, SizeOf
  <2>2. CASE SplitConf.kind # "shift"
    BY <2>2 DEF SplitFunc, FixedSizeBucketSplit, SizeOf
  <2> QED BY <2>1, <2>2
<1> QED BY <1>1, <1>2

\* The key of a bucket is a key.
LEMMA SplitType ==
  ASSUME NEW k \in Int
  PROVE  SplitFunc(k) \in Int
<1> DEFINE n == SizeOf
<1>1. n \in Nat \ {0} /\ -k \in Int
  BY SplitRounds
<1>2. (k \div n) * n \in Int /\ ((-k) \div n) * n \in Int
  <2> HIDE DEF n
  <2> QED BY <1>1, RoundDown
<1> QED BY <1>2, SplitRounds

\* A larger key never goes to a smaller bucket.
LEMMA SplitMonotone ==
  ASSUME NEW k \in Int, NEW l \in Int, k <= l
  PROVE  SplitFunc(k) <= SplitFunc(l)
<1> DEFINE n == SizeOf
<1>1. n \in Nat \ {0} /\ -k \in Int /\ -l \in Int
  BY SplitRounds
<1> DEFINE D(m) == (m \div n) * n
<1>2. \A m \in Int : D(m) \in Int /\ (m >= 0 => D(m) >= 0)
  <2> HIDE DEF n
  <2> QED BY <1>1, RoundDown
<1>3. \A a, b \in Int : a <= b => D(a) <= D(b)
  <2> HIDE DEF n
  <2> QED BY <1>1, RoundDown
<1>4. \A m \in Int : SplitFunc(m) =
        IF SplitConf.kind = "shift" \/ m >= 0 THEN D(m) ELSE -D(-m)
  BY SplitRounds
<1> HIDE DEF n, D
<1>5. CASE SplitConf.kind = "shift"
  BY <1>3, <1>4, <1>5
<1>6. CASE SplitConf.kind # "shift" /\ k >= 0
  BY <1>3, <1>4, <1>6
<1>7. CASE SplitConf.kind # "shift" /\ k < 0 /\ l >= 0
  BY <1>1, <1>2, <1>4, <1>7
<1>8. CASE SplitConf.kind # "shift" /\ l < 0
  <2>1. -l <= -k /\ D(-l) <= D(-k)
    BY <1>1, <1>3
  <2> QED BY <1>1, <1>2, <1>4, <1>8, <2>1
<1> QED BY <1>5, <1>6, <1>7, <1>8

\* The key of a bucket belongs to that bucket.
LEMMA SplitIdempotent ==
  ASSUME NEW k \in Int
  PROVE  SplitFunc(SplitFunc(k)) = SplitFunc(k)
<1> DEFINE n == SizeOf
<1>1. n \in Nat \ {0} /\ -k \in Int
  BY SplitRounds
<1> DEFINE D(m) == (m \div n) * n
<1>2. \A m \in Int : D(m) \in Int /\ (m >= 0 => D(m) >= 0) /\ D(D(m)) = D(m)
  <2> HIDE DEF n
  <2> QED BY <1>1, RoundDown
<1>3. \A m \in Int : SplitFunc(m) =
        IF SplitConf.kind = "shift" \/ m >= 0 THEN D(m) ELSE -D(-m)
  BY SplitRounds
<1>4. D(0) = 0
  BY <1>1
<1> HIDE DEF n, D
<1>5. CASE SplitConf.kind = "shift" \/ k >= 0
  BY <1>2, <1>3, <1>5
<1>6. CASE ~(SplitConf.kind = "shift" \/ k >= 0)
  <2>1. D(-k) \in Int /\ D(-k) >= 0 /\ D(D(-k)) = D(-k) /\ SplitFunc(k) = -D(-k)
    BY <1>1, <1>2, <1>3, <1>6
  <2>2. CASE D(-k) = 0
    <3>1. SplitFunc(k) = 0 /\ SplitFunc(0) = D(0)
      BY <2>1, <2>2, <1>3
    <3> QED BY <3>1, <1>4
  <2>3. CASE D(-k) > 0
    <3>1. SplitFunc(-D(-k)) = -D(-(-D(-k))) /\ -(-D(-k)) = D(-k)
      BY <2>1, <2>3, <1>3, <1>6
    <3> QED BY <2>1, <3>1
  <2> QED BY <2>1, <2>2, <2>3
<1> QED BY <1>5, <1>6

\* A bucket has the least key of its items, except for negative keys under
\* FixedSizeBucketSplit, which rounds them up.
LEMMA SplitDown ==
  ASSUME NEW k \in Int, SplitConf.kind = "shift" \/ k >= 0
  PROVE  SplitFunc(k) <= k
<1> DEFINE n == SizeOf
<1>1. n \in Nat \ {0}
  BY SplitRounds
<1>2. (k \div n) * n <= k
  <2> HIDE DEF n
  <2> QED BY <1>1, RoundDown
<1> QED BY <1>2, SplitRounds
-----------------------------------------------------------------------------
(* Sorting                                                                 *)

\* What inserting an item into a sequence gives.
LEMMA InsertedAt ==
  ASSUME NEW S, NEW q \in Seq(S), NEW x \in S, NEW p, p \in 0 .. Len(q),
         NEW r, r = InsertAt(q, p + 1, x)
  PROVE  /\ r \in Seq(S) /\ Len(r) = Len(q) + 1
         /\ \A i \in 1 .. Len(q) + 1 :
               r[i] = IF i <= p THEN q[i] ELSE IF i = p + 1 THEN x ELSE q[i - 1]
<1>0. Len(q) \in Nat /\ p \in Nat
  OBVIOUS
<1>1. PICK a : a = SubSeq(q, 1, p)
  OBVIOUS
<1>2. PICK c : c = SubSeq(q, p + 1, Len(q))
  OBVIOUS
<1>3. PICK ax : ax = a \o <<x>>
  OBVIOUS
<1>4. /\ a \in Seq(S) /\ Len(a) = p
      /\ \A i \in 1 .. p : a[i] = q[i]
  BY <1>1
<1>5. /\ c \in Seq(S) /\ Len(c) = Len(q) - p
      /\ \A i \in 1 .. Len(q) - p : c[i] = q[p + i]
  BY <1>2
<1>6. /\ ax \in Seq(S) /\ Len(ax) = p + 1
      /\ \A i \in 1 .. p + 1 : ax[i] = IF i <= p THEN q[i] ELSE x
  BY <1>3, <1>4
<1>7. r = ax \o c
  <2>1. (p + 1) - 1 = p
    OBVIOUS
  <2>2. InsertAt(q, p + 1, x) = (SubSeq(q, 1, (p + 1) - 1) \o <<x>>) \o c
    BY <1>2 DEF InsertAt
  <2> QED BY <1>1, <1>3, <2>1, <2>2
<1>8. /\ r \in Seq(S) /\ Len(r) = Len(ax) + Len(c)
      /\ \A i \in 1 .. Len(ax) + Len(c) :
            r[i] = IF i <= Len(ax) THEN ax[i] ELSE c[i - Len(ax)]
  <2>1. ax \in Seq(S) /\ c \in Seq(S)
    BY <1>5, <1>6
  <2>2. r \in Seq(S) /\ Len(r) = Len(ax) + Len(c)
    <3>1. ax \o c \in Seq(S)
      BY <2>1
    <3>2. Len(ax \o c) = Len(ax) + Len(c)
      BY <2>1
    <3> QED BY <1>7, <3>1, <3>2
  <2>3. ASSUME NEW i \in 1 .. Len(ax) + Len(c), i <= Len(ax) PROVE r[i] = ax[i]
    BY <1>7, <2>1, <2>3
  <2>4. ASSUME NEW i \in 1 .. Len(ax) + Len(c), ~(i <= Len(ax)) PROVE r[i] = c[i - Len(ax)]
    BY <1>7, <2>1, <2>4
  <2> QED BY <2>2, <2>3, <2>4
<1>9. Len(ax) + Len(c) = Len(q) + 1
  BY <1>0, <1>5, <1>6
<1>10. ASSUME NEW i \in 1 .. Len(q) + 1
       PROVE  r[i] = IF i <= p THEN q[i] ELSE IF i = p + 1 THEN x ELSE q[i - 1]
  <2>1. CASE i <= p + 1
    <3>1. r[i] = ax[i] /\ i \in 1 .. p + 1
      BY <2>1, <1>0, <1>6, <1>8, <1>9
    <3> QED BY <3>1, <1>0, <1>6
  <2>2. CASE i > p + 1
    <3>1. i - (p + 1) \in 1 .. Len(q) - p /\ p + (i - (p + 1)) = i - 1
      BY <1>0, <2>2
    <3>2. r[i] = c[i - (p + 1)]
      BY <1>0, <2>2, <1>6, <1>8, <1>9
    <3>3. r[i] = q[i - 1]
      BY <3>1, <3>2, <1>5
    <3> QED BY <1>0, <2>2, <3>3
  <2> QED BY <1>0, <2>1, <2>2
<1> QED BY <1>8, <1>9, <1>10

\* The items of a sequence.
ItemsOf(q) == {q[i] : i \in DOMAIN q}

\* No item is in the sequence twice.
Distinct(q) == \A i, j \in DOMAIN q : q[i] = q[j] => i = j

\* The sequence ascends by key.
Ascends(q) == \A i, j \in DOMAIN q : i <= j => q[i].key <= q[j].key

\* The keys of the items in S are near enough to one another for the
\* difference of two of them not to overflow in the comparison of Push.
Near(S) == \A x, y \in S : x.key \in Int /\ Wrap(x.key - y.key) = x.key - y.key

\* Inserting adds the item to those in the sequence, and keeps their order.
LEMMA InsertedLemma ==
  ASSUME NEW S, NEW q \in Seq(S), NEW x \in S
  PROVE  /\ Inserted(q, x) \in Seq(S)
         /\ Len(Inserted(q, x)) = Len(q) + 1
         /\ ItemsOf(Inserted(q, x)) = ItemsOf(q) \cup {x}
         /\ Distinct(q) /\ x \notin ItemsOf(q) => Distinct(Inserted(q, x))
         /\ Near(S) /\ Ascends(q) => Ascends(Inserted(q, x))
<1> DEFINE T == {0} \cup {i \in DOMAIN q : Compare(x, q[i]) >= 0}
<1>p. PICK p : p = Max(T)
  OBVIOUS
<1>r. PICK r : r = Inserted(q, x)
  OBVIOUS
<1>1. T \subseteq 0 .. Len(q) /\ 0 \in T /\ Len(q) \in Nat
  OBVIOUS
<1>2. p \in T /\ \A y \in T : y <= p
  <2> HIDE DEF T
  <2> QED BY <1>p, <1>1, MaxUpTo
<1>3. p \in 0 .. Len(q)
  BY <1>1, <1>2
<1>4. r = InsertAt(q, p + 1, x)
  BY <1>p, <1>r DEF Inserted
<1>5. /\ r \in Seq(S) /\ Len(r) = Len(q) + 1
      /\ \A i \in 1 .. Len(q) + 1 :
            r[i] = IF i <= p THEN q[i] ELSE IF i = p + 1 THEN x ELSE q[i - 1]
  <2> HIDE DEF T
  <2> QED BY <1>3, <1>4, InsertedAt
<1>6. DOMAIN r = 1 .. Len(q) + 1 /\ DOMAIN q = 1 .. Len(q)
  BY <1>5
<1>7. ItemsOf(r) = ItemsOf(q) \cup {x}
  <2>1. ASSUME NEW i \in DOMAIN r PROVE r[i] \in ItemsOf(q) \cup {x}
    <3>1. CASE i <= p
      <4>1. i \in DOMAIN q /\ r[i] = q[i]
        BY <1>3, <1>5, <1>6, <3>1
      <4> QED BY <4>1 DEF ItemsOf
    <3>2. CASE i = p + 1
      BY <1>3, <1>5, <1>6, <3>2
    <3>3. CASE i > p + 1
      <4>1. i - 1 \in DOMAIN q /\ r[i] = q[i - 1]
        BY <1>3, <1>5, <1>6, <3>3
      <4> QED BY <4>1 DEF ItemsOf
    <3> QED BY <1>3, <1>6, <3>1, <3>2, <3>3
  <2>2. x \in ItemsOf(r)
    <3>1. p + 1 \in DOMAIN r /\ r[p + 1] = x
      BY <1>3, <1>5, <1>6
    <3> QED BY <3>1 DEF ItemsOf
  <2>3. ASSUME NEW i \in DOMAIN q PROVE q[i] \in ItemsOf(r)
    <3>1. CASE i <= p
      <4>1. i \in DOMAIN r /\ r[i] = q[i]
        BY <1>5, <1>6, <3>1
      <4> QED BY <4>1 DEF ItemsOf
    <3>2. CASE i > p
      <4>1. i + 1 \in DOMAIN r /\ r[i + 1] = q[i]
        BY <1>3, <1>5, <1>6, <3>2
      <4> QED BY <4>1 DEF ItemsOf
    <3> QED BY <1>3, <1>6, <3>1, <3>2
  <2> QED BY <2>1, <2>2, <2>3 DEF ItemsOf
<1>8. ASSUME Distinct(q), x \notin ItemsOf(q) PROVE Distinct(r)
  <2> SUFFICES ASSUME NEW i \in DOMAIN r, NEW j \in DOMAIN r, r[i] = r[j] PROVE i = j
    BY DEF Distinct
  <2>1. \A h \in DOMAIN q : q[h] # x
    BY <1>8 DEF ItemsOf
  <2>2. \A g, h \in DOMAIN q : q[g] = q[h] => g = h
    BY <1>8 DEF Distinct
  <2>3. CASE i <= p /\ j <= p
    BY <1>1, <1>3, <1>5, <1>6, <2>2, <2>3
  <2>4. CASE i <= p /\ j = p + 1
    BY <1>1, <1>3, <1>5, <1>6, <2>1, <2>4
  <2>5. CASE i <= p /\ j > p + 1
    <3>1. i \in DOMAIN q /\ j - 1 \in DOMAIN q /\ r[i] = q[i] /\ r[j] = q[j - 1]
      BY <1>1, <1>3, <1>5, <1>6, <2>5
    <3>2. q[i] = q[j - 1] => i = j - 1
      BY <2>2, <3>1
    <3>3. i \in Int /\ j \in Int
      BY <1>1, <1>6
    <3>4. r[i] = r[j]
      OBVIOUS
    <3> QED BY <1>1, <1>3, <2>5, <3>1, <3>2, <3>3, <3>4
  <2>6. CASE i = p + 1 /\ j <= p
    BY <1>1, <1>3, <1>5, <1>6, <2>1, <2>6
  <2>7. CASE i = p + 1 /\ j = p + 1
    BY <2>7
  <2>8. CASE i = p + 1 /\ j > p + 1
    <3>1. j - 1 \in DOMAIN q /\ r[i] = x /\ r[j] = q[j - 1]
      BY <1>1, <1>3, <1>5, <1>6, <2>8
    <3> QED BY <2>1, <3>1
  <2>9. CASE i > p + 1 /\ j <= p
    <3>1. j \in DOMAIN q /\ i - 1 \in DOMAIN q /\ r[j] = q[j] /\ r[i] = q[i - 1]
      BY <1>1, <1>3, <1>5, <1>6, <2>9
    <3>2. q[j] = q[i - 1] => j = i - 1
      BY <2>2, <3>1
    <3>3. i \in Int /\ j \in Int
      BY <1>1, <1>6
    <3> QED BY <1>1, <1>3, <2>9, <3>1, <3>2, <3>3
  <2>10. CASE i > p + 1 /\ j = p + 1
    <3>1. i - 1 \in DOMAIN q /\ r[j] = x /\ r[i] = q[i - 1]
      BY <1>1, <1>3, <1>5, <1>6, <2>10
    <3> QED BY <2>1, <3>1
  <2>11. CASE i > p + 1 /\ j > p + 1
    <3>1. i - 1 \in DOMAIN q /\ j - 1 \in DOMAIN q /\ r[i] = q[i - 1] /\ r[j] = q[j - 1]
      BY <1>1, <1>3, <1>5, <1>6, <2>11
    <3>2. q[i - 1] = q[j - 1] => i - 1 = j - 1
      BY <2>2, <3>1
    <3>3. i \in Int /\ j \in Int
      BY <1>1, <1>6
    <3>4. r[i] = r[j]
      OBVIOUS
    <3> QED BY <1>1, <1>3, <3>1, <3>2, <3>3, <3>4
  <2> QED BY <1>1, <1>3, <1>6, <2>3, <2>4, <2>5, <2>6, <2>7, <2>8, <2>9, <2>10, <2>11
<1>9. ASSUME Near(S), Ascends(q) PROVE Ascends(r)
  <2>1. \A i \in DOMAIN q : q[i] \in S /\ q[i].key \in Int
    BY <1>9 DEF Near
  <2>2. x.key \in Int
    BY <1>9 DEF Near
  <2>3. \A i \in DOMAIN q : Compare(x, q[i]) >= 0 <=> q[i].key <= x.key
    BY <1>9, <2>1, <2>2 DEF Near, Compare
  <2>4. ASSUME NEW i \in DOMAIN q, i > p PROVE x.key <= q[i].key
    <3>1. i \notin T
      <4> HIDE DEF T
      <4> QED BY <1>2, <1>3, <1>6, <2>4
    <3>2. ~(Compare(x, q[i]) >= 0)
      BY <3>1
    <3> QED BY <2>1, <2>2, <2>3, <3>2
  <2>5. ASSUME NEW i \in DOMAIN q, i <= p PROVE q[i].key <= x.key
    <3>1. p \in DOMAIN q
      BY <1>3, <1>6, <2>5
    <3>2. Compare(x, q[p]) >= 0
      <4>1. p # 0
        BY <1>3, <1>6, <2>5
      <4> QED BY <1>2, <4>1
    <3>3. q[p].key <= x.key
      BY <2>3, <3>1, <3>2
    <3>4. q[i].key <= q[p].key
      BY <1>9, <2>5, <3>1 DEF Ascends
    <3> QED BY <2>1, <2>2, <3>1, <3>3, <3>4
  <2>6. \A i, j \in DOMAIN q : i <= j => q[i].key <= q[j].key
    BY <1>9 DEF Ascends
  <2> SUFFICES ASSUME NEW i \in DOMAIN r, NEW j \in DOMAIN r, i <= j
               PROVE  r[i].key <= r[j].key
    BY DEF Ascends
  <2>7. CASE i <= p /\ j <= p
    BY <2>7, <1>3, <1>5, <1>6, <2>6
  <2>8. CASE i <= p /\ j = p + 1
    BY <2>8, <1>3, <1>5, <1>6, <2>5
  <2>9. CASE i <= p /\ j > p + 1
    <3>1. j - 1 \in DOMAIN q /\ i \in DOMAIN q /\ i <= j - 1 /\ r[j] = q[j - 1] /\ r[i] = q[i]
      BY <2>9, <1>3, <1>5, <1>6
    <3> QED BY <3>1, <2>6
  <2>10. CASE i = p + 1 /\ j = p + 1
    BY <2>10, <1>3, <1>5, <1>6, <2>2
  <2>11. CASE i = p + 1 /\ j > p + 1
    <3>1. j - 1 \in DOMAIN q /\ j - 1 > p /\ r[j] = q[j - 1] /\ r[i] = x
      BY <2>11, <1>3, <1>5, <1>6
    <3> QED BY <3>1, <2>4
  <2>12. CASE i > p + 1
    <3>1. /\ j - 1 \in DOMAIN q /\ i - 1 \in DOMAIN q /\ i - 1 <= j - 1
          /\ r[j] = q[j - 1] /\ r[i] = q[i - 1]
      BY <2>12, <1>3, <1>5, <1>6
    <3> QED BY <3>1, <2>6
  <2> QED BY <1>3, <1>6, <2>7, <2>8, <2>9, <2>10, <2>11, <2>12
<1> QED BY <1>r, <1>5, <1>7, <1>8, <1>9
\* slices.SortFunc returns the items it was given; in order, if no comparison
\* overflows.
LEMMA SortLemma ==
  ASSUME NEW S, NEW items \in Seq(S)
  PROVE  /\ SortItems(items) \in Seq(S)
         /\ Len(SortItems(items)) = Len(items)
         /\ ItemsOf(SortItems(items)) = ItemsOf(items)
         /\ Distinct(items) => Distinct(SortItems(items))
         /\ Near(S) => Ascends(SortItems(items))
<1> DEFINE N == Len(items)
           Body(f, i) == IF i = 0 THEN <<>> ELSE Inserted(f[i - 1], items[i])
           Step(f, i) == f[i] = Body(f, i)
           UpTo(m) == \E f : \A i \in 0 .. N : i <= m => Step(f, i)
           Bad == {m \in Nat : ~UpTo(m)}
<1>1. N \in Nat /\ DOMAIN items = 1 .. N
  OBVIOUS
<1>2. UpTo(0)
  <2> DEFINE f == [i \in 0 .. N |-> <<>>]
  <2>1. \A i \in 0 .. N : i <= 0 => Step(f, i)
    OBVIOUS
  <2> QED BY <2>1
<1>3. ASSUME NEW m \in Nat, UpTo(m) PROVE UpTo(m + 1)
  <2>1. PICK f : \A i \in 0 .. N : i <= m => Step(f, i)
    BY <1>3
  <2> DEFINE g == [i \in 0 .. N |-> IF i = m + 1 THEN Inserted(f[m], items[m + 1]) ELSE f[i]]
  <2>2. ASSUME NEW i \in 0 .. N, i <= m + 1 PROVE Step(g, i)
    <3>1. CASE i = m + 1
      <4>1. g[i] = Inserted(f[m], items[m + 1]) /\ i # 0 /\ i - 1 = m
        BY <3>1
      <4>2. m \in 0 .. N /\ m # m + 1
        BY <1>1, <3>1
      <4>3. g[m] = f[m]
        BY <4>2
      <4> QED BY <3>1, <4>1, <4>3
    <3>2. CASE i # m + 1 /\ i = 0
      <4>1. g[i] = f[i] /\ Step(f, i)
        BY <2>1, <3>2
      <4> QED BY <3>2, <4>1
    <3>3. CASE i # m + 1 /\ i # 0
      <4>1. i <= m /\ i - 1 \in 0 .. N /\ i - 1 # m + 1
        BY <1>1, <2>2, <3>3
      <4>2. g[i] = f[i] /\ g[i - 1] = f[i - 1] /\ Step(f, i)
        BY <2>1, <3>3, <4>1
      <4> QED BY <3>3, <4>2
    <3> QED BY <3>1, <3>2, <3>3
  <2> QED BY <2>2
<1>4. Bad = {}
  <2> SUFFICES ASSUME Bad # {} PROVE FALSE
    OBVIOUS
  <2>1. PICK m \in Bad : \A k \in Bad : m <= k
    <3>1. Bad \subseteq Nat
      OBVIOUS
    <3> HIDE DEF Bad
    <3> QED BY <3>1, LeastNat
  <2>2. m \in Nat /\ ~UpTo(m)
    OBVIOUS
  <2> HIDE DEF UpTo
  <2>3. m # 0
    BY <1>2, <2>2
  <2>4. m - 1 \in Nat /\ (m - 1) + 1 = m /\ ~(m <= m - 1)
    BY <2>2, <2>3
  <2>5. m - 1 \notin Bad
    BY <2>1, <2>4
  <2>6. UpTo(m - 1)
    BY <2>4, <2>5
  <2> QED BY <1>3, <2>2, <2>4, <2>6
<1>5. \E f : f = [i \in 0 .. N |-> Body(f, i)]
  <2>1. UpTo(N)
    <3> HIDE DEF UpTo
    <3> QED BY <1>1, <1>4
  <2>2. PICK f : \A i \in 0 .. N : i <= N => Step(f, i)
    BY <2>1
  <2>3. \A i \in 0 .. N : i <= N
    BY <1>1
  <2> DEFINE g == [i \in 0 .. N |-> f[i]]
  <2>4. ASSUME NEW i \in 0 .. N PROVE f[i] = Body(g, i)
    <3>1. f[i] = Body(f, i)
      BY <2>2, <2>3
    <3>2. CASE i = 0
      BY <3>1, <3>2
    <3>3. CASE i # 0
      <4>1. i - 1 \in 0 .. N
        BY <1>1, <3>3
      <4>2. g[i - 1] = f[i - 1]
        BY <4>1
      <4> QED BY <3>1, <3>3, <4>2
    <3> QED BY <3>2, <3>3
  <2>5. g = [i \in 0 .. N |-> Body(g, i)]
    <3> HIDE DEF Body
    <3> QED BY <2>4
  <2> HIDE DEF g, Body
  <2> QED BY <2>5
<1> DEFINE sorted == CHOOSE f : f = [i \in 0 .. N |-> Body(f, i)]
<1>6. SortItems(items) = sorted[N]
  BY DEF SortItems
<1>7. sorted = [i \in 0 .. N |-> Body(sorted, i)]
  <2> HIDE DEF Body
  <2> QED BY <1>5
<1> HIDE DEF sorted
<1>8. sorted[0] = <<>>
  BY <1>1, <1>7
<1>9. ASSUME NEW i \in 1 .. N PROVE sorted[i] = Inserted(sorted[i - 1], items[i])
  BY <1>1, <1>7
<1> DEFINE Taken(i) == {items[j] : j \in 1 .. i}
           Good(i) == /\ sorted[i] \in Seq(S) /\ Len(sorted[i]) = i
                      /\ ItemsOf(sorted[i]) = Taken(i)
                      /\ Distinct(items) => Distinct(sorted[i])
                      /\ Near(S) => Ascends(sorted[i])
<1>10. Good(0)
  <2>1. <<>> \in Seq(S) /\ Len(<<>>) = 0 /\ DOMAIN <<>> = {}
    OBVIOUS
  <2>2. ItemsOf(<<>>) = {} /\ Distinct(<<>>) /\ Ascends(<<>>)
    BY <2>1 DEF ItemsOf, Distinct, Ascends
  <2>3. Taken(0) = {}
    OBVIOUS
  <2> HIDE DEF Consumed
  <2> QED BY <1>8, <2>1, <2>2, <2>3
<1>11. ASSUME NEW i \in 1 .. N, Good(i - 1) PROVE Good(i)
  <2>1. PICK q : q = sorted[i - 1]
    OBVIOUS
  <2>2. PICK x : x = items[i]
    OBVIOUS
  <2>3. i \in Int /\ i >= 1 /\ x \in S
    BY <1>1, <2>2
  <2>4. /\ q \in Seq(S) /\ Len(q) = i - 1 /\ ItemsOf(q) = Taken(i - 1)
        /\ Distinct(items) => Distinct(q)
        /\ Near(S) => Ascends(q)
    BY <1>11, <2>1
  <2>5. sorted[i] = Inserted(q, x)
    BY <1>9, <2>1, <2>2
  <2>6. Taken(i) = Taken(i - 1) \cup {x}
    <3>1. 1 .. i = (1 .. i - 1) \cup {i}
      BY <2>3
    <3> QED BY <2>2, <3>1
  <2>7. Distinct(items) => x \notin Taken(i - 1)
    <3> SUFFICES ASSUME Distinct(items), x \in Taken(i - 1) PROVE FALSE
      OBVIOUS
    <3>1. PICK j \in 1 .. i - 1 : items[j] = x
      OBVIOUS
    <3>2. j \in DOMAIN items /\ i \in DOMAIN items /\ j # i
      BY <1>1, <2>3
    <3> QED BY <2>2, <3>1, <3>2 DEF Distinct
  <2>8. /\ Inserted(q, x) \in Seq(S) /\ Len(Inserted(q, x)) = Len(q) + 1
        /\ ItemsOf(Inserted(q, x)) = ItemsOf(q) \cup {x}
        /\ Distinct(q) /\ x \notin ItemsOf(q) => Distinct(Inserted(q, x))
        /\ Near(S) /\ Ascends(q) => Ascends(Inserted(q, x))
    <3>1. q \in Seq(S) /\ x \in S
      BY <2>3, <2>4
    <3> QED BY <3>1, InsertedLemma
  <2>9. Len(q) + 1 = i
    BY <2>3, <2>4
  <2> HIDE DEF Consumed
  <2> QED BY <2>4, <2>5, <2>6, <2>7, <2>8, <2>9
<1> HIDE DEF Good
<1>12. Good(N)
  <2> DEFINE Wrong == {i \in 0 .. N : ~Good(i)}
  <2> SUFFICES ASSUME Wrong # {} PROVE FALSE
    BY <1>1
  <2>1. PICK i \in Wrong : \A j \in Wrong : i <= j
    <3>1. Wrong \subseteq Nat
      OBVIOUS
    <3> HIDE DEF Wrong
    <3> QED BY <3>1, LeastNat
  <2>2. i # 0
    BY <1>10
  <2>3. i \in 1 .. N /\ i - 1 \in 0 .. N /\ ~(i <= i - 1)
    BY <1>1, <2>2
  <2>4. Good(i - 1)
    BY <2>1, <2>3
  <2> QED BY <1>11, <2>3, <2>4
<1>13. Taken(N) = ItemsOf(items)
  BY <1>1 DEF ItemsOf
<1> HIDE DEF Consumed
<1> QED BY <1>6, <1>12, <1>13 DEF Good
-----------------------------------------------------------------------------
(* binsplit                                                                *)

\* binsplit returns how many items from the front belong to bucket comp.  It
\* always returns some, which is why pushSorted comes to an end.
LEMMA BinsplitLemma ==
  ASSUME NEW S, NEW items \in Seq(S), items # <<>>, NEW comp
  PROVE  LET r == Binsplit(items, comp)
             Goes(i) == SplitFunc(items[i].key) = comp
         IN  /\ r \in 1 .. Len(items)
             /\ /\ Goes(1)
                /\ \A i, j \in 1 .. Len(items) : i <= j /\ Goes(j) => Goes(i)
                => \A i \in 1 .. Len(items) : Goes(i) <=> i <= r
<1> DEFINE N == Len(items)
           W == (0 .. N) \X (0 .. N)
           Goes(i) == SplitFunc(items[i].key) = comp
           Mid(w) == w[1] + (w[2] - w[1]) \div 2
           Body(f, w) == IF w[2] - w[1] <= 1 THEN w[2]
                         ELSE IF SplitFunc(items[Mid(w) + 1].key) # comp THEN f[<<w[1], Mid(w)>>]
                         ELSE f[<<Mid(w), w[2]>>]
           UpTo(m) == \E f : \A w \in W : w[2] - w[1] <= m => f[w] = Body(f, w)
           Bad == {m \in Nat : ~UpTo(m)}
<1>1. N \in Nat \ {0}
  OBVIOUS
<1>2. \A w \in W : w[1] \in 0 .. N /\ w[2] \in 0 .. N
  OBVIOUS
<1>3. ASSUME NEW w \in W, ~(w[2] - w[1] <= 1)
      PROVE  /\ Mid(w) \in 0 .. N /\ w[1] < Mid(w) /\ Mid(w) < w[2]
             /\ <<w[1], Mid(w)>> \in W /\ <<Mid(w), w[2]>> \in W
             /\ Mid(w) - w[1] < w[2] - w[1] /\ w[2] - Mid(w) < w[2] - w[1]
  <2>1. PICK a \in 0 .. N, b \in 0 .. N : a = w[1] /\ b = w[2]
    BY <1>2
  <2>2. b - a > 1
    BY <1>3, <2>1, <1>1
  <2>3. PICK m : m = a + (b - a) \div 2
    OBVIOUS
  <2>4. m \in 0 .. N /\ a < m /\ m < b /\ m - a < b - a /\ b - m < b - a
    BY <1>1, <2>2, <2>3
  <2>5. Mid(w) = m
    BY <2>1, <2>3
  <2> QED BY <2>1, <2>4, <2>5
<1>4. UpTo(0)
  <2> DEFINE f == [w \in W |-> w[2]]
  <2>1. ASSUME NEW w \in W, w[2] - w[1] <= 0 PROVE f[w] = Body(f, w)
    <3>1. w[2] - w[1] <= 1
      BY <1>1, <1>2, <2>1
    <3> QED BY <3>1
  <2> HIDE DEF f, Body, W
  <2> QED BY <2>1
<1>5. ASSUME NEW m \in Nat, UpTo(m) PROVE UpTo(m + 1)
  <2>1. PICK f : \A w \in W : w[2] - w[1] <= m => f[w] = Body(f, w)
    BY <1>5
  <2> DEFINE g == [w \in W |-> IF w[2] - w[1] <= m THEN f[w] ELSE Body(f, w)]
  <2>2. ASSUME NEW w \in W, w[2] - w[1] <= m + 1 PROVE g[w] = Body(g, w)
    <3>1. g[w] = Body(f, w)
      <4> HIDE DEF Body, W
      <4> QED BY <2>1
    <3>2. CASE w[2] - w[1] <= 1
      BY <3>1, <3>2
    <3>3. CASE ~(w[2] - w[1] <= 1)
      <4>1. PICK mid : mid = Mid(w)
        OBVIOUS
      <4>2. /\ <<w[1], mid>> \in W /\ <<mid, w[2]>> \in W
            /\ mid - w[1] < w[2] - w[1] /\ w[2] - mid < w[2] - w[1]
            /\ mid \in 0 .. N
        BY <1>3, <3>3, <4>1
      <4>3. mid - w[1] <= m /\ w[2] - mid <= m
        BY <1>1, <1>2, <2>2, <4>2
      <4>4. g[<<w[1], mid>>] = f[<<w[1], mid>>] /\ g[<<mid, w[2]>>] = f[<<mid, w[2]>>]
        <5>1. \A v \in W : v[2] - v[1] <= m => g[v] = f[v]
          <6> HIDE DEF W, Body
          <6> QED OBVIOUS
        <5>2. <<w[1], mid>>[2] - <<w[1], mid>>[1] <= m /\ <<mid, w[2]>>[2] - <<mid, w[2]>>[1] <= m
          BY <4>3
        <5> HIDE DEF W, g
        <5> QED BY <4>2, <5>1, <5>2
      <4> HIDE DEF g, Mid, W
      <4> QED BY <3>1, <3>3, <4>1, <4>4
    <3> QED BY <3>2, <3>3
  <2> HIDE DEF g, Body, W
  <2> QED BY <2>2
<1>6. Bad = {}
  <2> SUFFICES ASSUME Bad # {} PROVE FALSE
    OBVIOUS
  <2>1. PICK m \in Bad : \A k \in Bad : m <= k
    <3>1. Bad \subseteq Nat
      OBVIOUS
    <3> HIDE DEF Bad
    <3> QED BY <3>1, LeastNat
  <2> HIDE DEF UpTo
  <2>2. m \in Nat /\ ~UpTo(m)
    OBVIOUS
  <2>3. m # 0
    BY <1>4, <2>2
  <2>4. m - 1 \in Nat /\ (m - 1) + 1 = m /\ ~(m <= m - 1)
    BY <2>2, <2>3
  <2>5. m - 1 \notin Bad
    BY <2>1, <2>4
  <2>6. UpTo(m - 1)
    BY <2>4, <2>5
  <2> QED BY <1>5, <2>2, <2>4, <2>6
<1>7. \E f : f = [w \in W |-> Body(f, w)]
  <2>1. UpTo(N)
    <3> HIDE DEF UpTo
    <3> QED BY <1>1, <1>6
  <2>2. PICK f : \A w \in W : w[2] - w[1] <= N => f[w] = Body(f, w)
    BY <2>1
  <2>3. \A w \in W : w[2] - w[1] <= N
    <3> HIDE DEF W
    <3> QED BY <1>1, <1>2
  <2> DEFINE g == [w \in W |-> f[w]]
  <2>4. ASSUME NEW w \in W PROVE f[w] = Body(g, w)
    <3>1. f[w] = Body(f, w)
      <4> HIDE DEF Body, W
      <4> QED BY <2>2, <2>3
    <3>2. CASE w[2] - w[1] <= 1
      BY <3>1, <3>2
    <3>3. CASE ~(w[2] - w[1] <= 1)
      <4>1. <<w[1], Mid(w)>> \in W /\ <<Mid(w), w[2]>> \in W
        BY <1>3, <3>3
      <4>2. g[<<w[1], Mid(w)>>] = f[<<w[1], Mid(w)>>] /\ g[<<Mid(w), w[2]>>] = f[<<Mid(w), w[2]>>]
        <5> HIDE DEF W, Mid
        <5> QED BY <4>1
      <4> HIDE DEF g, Mid, W
      <4> QED BY <3>1, <3>3, <4>2
    <3> QED BY <3>2, <3>3
  <2>5. g = [w \in W |-> Body(g, w)]
    <3> HIDE DEF Body
    <3> QED BY <2>4
  <2> HIDE DEF g, Body, W
  <2> QED BY <2>5
<1> DEFINE from == CHOOSE f : f = [w \in W |-> Body(f, w)]
<1>8. Binsplit(items, comp) = from[<<0, N>>]
  BY DEF Binsplit
<1>9. from = [w \in W |-> Body(from, w)]
  <2> HIDE DEF Body, W
  <2> QED BY <1>7
<1> HIDE DEF from
<1>10. \A w \in W : from[w] = Body(from, w)
  <2> HIDE DEF Body, W
  <2> QED BY <1>9
\* The part ends behind w[1] and not behind w[2].
<1> DEFINE Ends(w) == /\ \A i \in 1 .. w[1] + 1 : Goes(i)
                      /\ \A i \in 1 .. N : i > w[2] => ~Goes(i)
           Found(r) == \A i \in 1 .. N : Goes(i) <=> i <= r
           Below == \A i, j \in 1 .. N : i <= j /\ Goes(j) => Goes(i)
           Good(w) == /\ from[w] \in Int /\ w[1] < from[w] /\ from[w] <= w[2]
                      /\ Below /\ Ends(w) => Found(from[w])
           Wrong == {m \in Nat : \E w \in W : w[1] < w[2] /\ w[2] - w[1] = m /\ ~Good(w)}
<1>11. ASSUME NEW w \in W, w[1] < w[2], w[2] - w[1] <= 1 PROVE Good(w)
  <2>1. from[w] = w[2]
    BY <1>10, <1>11
  <2>2. PICK a \in 0 .. N, b \in 0 .. N : a = w[1] /\ b = w[2]
    BY <1>2
  <2>3. a + 1 = b /\ a \in Int /\ b \in Int
    BY <1>1, <1>11, <2>2
  <2>4. ASSUME Ends(w) PROVE Found(b)
    <3>1. (\A i \in 1 .. b : Goes(i)) /\ \A i \in 1 .. N : i > b => ~Goes(i)
      BY <2>2, <2>3, <2>4
    <3>2. \A i \in 1 .. N : i <= b => i \in 1 .. b
      BY <1>1, <2>3
    <3>3. \A i \in 1 .. N : i <= b \/ i > b
      BY <1>1, <2>3
    <3> HIDE DEF Goes
    <3> QED BY <3>1, <3>2, <3>3
  <2> HIDE DEF Ends, Found, Below
  <2> QED BY <2>1, <2>2, <2>3, <2>4
<1>12. ASSUME NEW w \in W, w[1] < w[2], ~(w[2] - w[1] <= 1),
              \A v \in W : v[1] < v[2] /\ v[2] - v[1] < w[2] - w[1] => Good(v)
       PROVE  Good(w)
  <2>1. PICK a \in 0 .. N, b \in 0 .. N : a = w[1] /\ b = w[2]
    BY <1>2
  <2>2. PICK mid : mid = Mid(w)
    OBVIOUS
  <2>3. /\ mid \in 0 .. N /\ a < mid /\ mid < b
        /\ <<a, mid>> \in W /\ <<mid, b>> \in W
        /\ mid - a < b - a /\ b - mid < b - a
    BY <1>3, <1>12, <2>1, <2>2
  <2>4. from[w] = IF ~Goes(mid + 1) THEN from[<<a, mid>>] ELSE from[<<mid, b>>]
    <3>1. from[w] = Body(from, w)
      BY <1>10
    <3> QED BY <3>1, <1>12, <2>1, <2>2
  <2>5. Good(<<a, mid>>) /\ Good(<<mid, b>>)
    <3>1. /\ <<a, mid>>[1] = a /\ <<a, mid>>[2] = mid
          /\ <<mid, b>>[1] = mid /\ <<mid, b>>[2] = b
      OBVIOUS
    <3> HIDE DEF Good, W
    <3> QED BY <1>12, <2>1, <2>3, <3>1
  <2>6. CASE ~Goes(mid + 1)
    <3>1. from[w] = from[<<a, mid>>]
      BY <2>4, <2>6
    <3>2. /\ from[<<a, mid>>] \in Int /\ a < from[<<a, mid>>] /\ from[<<a, mid>>] <= mid
          /\ Below /\ Ends(<<a, mid>>) => Found(from[<<a, mid>>])
      BY <2>5
    <3>3. ASSUME Below, Ends(w) PROVE Ends(<<a, mid>>)
      <4>1. \A i \in 1 .. a + 1 : Goes(i)
        BY <3>3, <2>1
      <4>2. ASSUME NEW i \in 1 .. N, i > mid PROVE ~Goes(i)
        <5>1. mid + 1 \in 1 .. N /\ mid + 1 <= i
          BY <1>1, <2>3, <4>2
        <5> HIDE DEF Goes
        <5> QED BY <2>6, <3>3, <5>1
      <4>3. <<a, mid>>[1] = a /\ <<a, mid>>[2] = mid
        OBVIOUS
      <4> HIDE DEF Goes
      <4> QED BY <4>1, <4>2, <4>3
    <3>4. from[w] <= b /\ from[w] \in Int
      BY <1>1, <2>3, <3>1, <3>2
    <3> HIDE DEF Ends, Found, Below
    <3> QED BY <2>1, <3>1, <3>2, <3>3, <3>4
  <2>7. CASE Goes(mid + 1)
    <3>1. from[w] = from[<<mid, b>>]
      BY <2>4, <2>7
    <3>2. /\ from[<<mid, b>>] \in Int /\ mid < from[<<mid, b>>] /\ from[<<mid, b>>] <= b
          /\ Below /\ Ends(<<mid, b>>) => Found(from[<<mid, b>>])
      BY <2>5
    <3>3. ASSUME Below, Ends(w) PROVE Ends(<<mid, b>>)
      <4>1. ASSUME NEW i \in 1 .. mid + 1 PROVE Goes(i)
        <5>1. mid + 1 \in 1 .. N /\ i \in 1 .. N /\ i <= mid + 1
          BY <1>1, <2>3
        <5> HIDE DEF Goes
        <5> QED BY <2>7, <3>3, <5>1
      <4>2. \A i \in 1 .. N : i > b => ~Goes(i)
        BY <2>1, <3>3
      <4>3. <<mid, b>>[1] = mid /\ <<mid, b>>[2] = b
        OBVIOUS
      <4> HIDE DEF Goes
      <4> QED BY <4>1, <4>2, <4>3
    <3>4. a < from[w] /\ from[w] \in Int
      BY <1>1, <2>3, <3>1, <3>2
    <3> HIDE DEF Ends, Found, Below
    <3> QED BY <2>1, <3>1, <3>2, <3>3, <3>4
  <2> QED BY <2>6, <2>7
<1> HIDE DEF Good, Mid, Body
<1>13. Wrong = {}
  <2> SUFFICES ASSUME Wrong # {} PROVE FALSE
    OBVIOUS
  <2>1. PICK m \in Wrong : \A k \in Wrong : m <= k
    <3>1. Wrong \subseteq Nat
      OBVIOUS
    <3> HIDE DEF Wrong
    <3> QED BY <3>1, LeastNat
  <2>2. PICK w \in W : w[1] < w[2] /\ w[2] - w[1] = m /\ ~Good(w)
    BY <2>1
  <2>3. ASSUME NEW v \in W, v[1] < v[2], v[2] - v[1] < w[2] - w[1] PROVE Good(v)
    <3>1. v[2] - v[1] \in Nat /\ w[2] - w[1] \in Nat
      <4> HIDE DEF W
      <4> QED BY <1>1, <1>2, <2>2, <2>3
    <3>2. v[2] - v[1] \notin Wrong
      <4> HIDE DEF Wrong, W
      <4> QED BY <2>1, <2>2, <2>3, <3>1
    <3> HIDE DEF W
    <3> QED BY <2>3, <3>1, <3>2
  <2> HIDE DEF W, Wrong
  <2> QED BY <1>11, <1>12, <2>2, <2>3
<1>14. Good(<<0, N>>)
  <2>1. <<0, N>> \in W /\ <<0, N>>[1] = 0 /\ <<0, N>>[2] = N
    BY <1>1
  <2>2. 0 < N /\ N - 0 = N /\ N \in Nat
    BY <1>1
  <2>3. N \notin Wrong
    BY <1>13
  <2> HIDE DEF W
  <2> QED BY <2>1, <2>2, <2>3
<1>15. PICK r : r = Binsplit(items, comp)
  OBVIOUS
<1>16. r \in Int /\ 0 < r /\ r <= N /\ (Below /\ Ends(<<0, N>>) => Found(r))
  <2>1. <<0, N>>[1] = 0 /\ <<0, N>>[2] = N
    OBVIOUS
  <2> HIDE DEF Below, Ends, Found
  <2> QED BY <1>8, <1>14, <1>15, <2>1 DEF Good
<1>17. r \in 1 .. N
  BY <1>1, <1>16
<1>18. ASSUME Goes(1), Below PROVE Found(r)
  <2>1. Ends(<<0, N>>)
    <3>1. <<0, N>>[1] = 0 /\ <<0, N>>[2] = N
      OBVIOUS
    <3>2. \A i \in 1 .. 0 + 1 : i = 1
      OBVIOUS
    <3>3. \A i \in 1 .. N : ~(i > N)
      BY <1>1
    <3> HIDE DEF Goes
    <3> QED BY <1>18, <3>1, <3>2, <3>3
  <2> HIDE DEF Below, Ends, Found
  <2> QED BY <1>16, <1>18, <2>1
<1> QED BY <1>15, <1>17, <1>18

-----------------------------------------------------------------------------
(* What some of the theorems assume of the constants.                      *)

\* No comparison of two keys overflows.
NearKeys == \A k, l \in Keys : Wrap(k - l) = k - l

-----------------------------------------------------------------------------
(* The inductive invariant, in parts.                                      *)

\* A tree in which every consumer has finitely many items in each bucket, and
\* the last record of each idx.log says how many are left.
TreeOK(B) ==
    /\ B \in [BucketKeys -> Bucket]
    /\ \A k \in BucketKeys, c \in Consumers : IsFiniteSet(B[k].has[c])
    /\ \A k \in BucketKeys : B[k].log = Cardinality(B[k].has[Main])

\* What the variables of an operation have in them at each place.
Shape ==
    /\ pc = "push" <=> batch # <<>>
    /\ rd = NoRead \/ \E k \in BucketKeys : rd.at = {k}
    /\ pc \in {"callback", "reap"} => rd # NoRead
    /\ pc \in {"idle", "iter", "delete", "clear"} => rd = NoRead
    /\ pc \in {"idle", "clear"} \/ (pc = "push" /\ rd = NoRead) => call = NoCall
    /\ pc = "idle" \/ (pc = "push" /\ rd = NoRead) => todo = {}
    /\ pc # "delete" => dead = {}
    /\ call.who \in Live /\ opts.max # 0
    /\ IsFiniteSet(rd.had) /\ rd.out \subseteq rd.had

BaseInv == TypeOK /\ TreeOK(bucks) /\ Shape

\* A Read is at the callback, or in a tx.Push that the callback made.
InCallback == rd # NoRead /\ pc # "reap"

\* What the callback got is no more than asked for, and still there as long
\* as the bucket is open.
Asked ==
    /\ call.count >= 0
    /\ pc = "iter" \/ InCallback => call.count > 0
    /\ InCallback =>
          /\ Cardinality(rd.out) <= call.count
          /\ rd.stale => Cardinality(rd.had) <= rd.len
          /\ ~rd.stale => \A k \in rd.at :
                bucks[k].st = "open" /\ rd.had \subseteq bucks[k].has[call.who]

\* Nothing is in a bucket that is not in the tree.
AbsentEmpty ==
    \A k \in BucketKeys : bucks[k].st = "absent" => \A c \in Consumers : bucks[k].has[c] = {}

\* The items to be pushed are in order.
Sorted == Distinct(batch) /\ Ascends(batch)

\* The trailers of the closed buckets count their items.
Trailers ==
    \A k \in BucketKeys, c \in Live :
        bucks[k].st = "nil" /\ <<k, c>> \notin uncounted =>
            bucks[k].trail[c] = Cardinality(bucks[k].has[c])

-----------------------------------------------------------------------------
(* The tree                                                                *)

\* There are finitely many keys of buckets.
LEMMA BucketKeysFinite ==
  BucketKeys \subseteq Int /\ IsFiniteSet(BucketKeys)
<1>1. BucketKeys \subseteq Int
  BY BucketsAssumption, SplitType DEF BucketKeys
<1> DEFINE f == [k \in Keys |-> SplitFunc(k)]
<1>2. f \in Surjection(Keys, BucketKeys)
  BY DEF Surjection, BucketKeys
<1>3. IsFiniteSet(BucketKeys)
  <2> HIDE DEF f
  <2> QED BY <1>2, BucketsAssumption, FS_Surjection
<1> QED BY <1>1, <1>3

\* closeUnused comes by every position of the tree.
LEMMA VisitedAll ==
  ASSUME NEW n \in Nat, NEW p \in 0 .. n - 1
  PROVE  \E i \in 0 .. n - 1 : Visited(n, i) = p
<1>1. PICK h \in Nat : h = n \div 2 /\ 2 * h <= n /\ n <= 2 * h + 1
  OBVIOUS
<1>2. CASE p >= h
  <2>1. PICK d \in Nat : d = p - h
    BY <1>1, <1>2
  <2>2. 2 * d \in 0 .. n - 1 /\ (2 * d) % 2 = 0 /\ (2 * d) \div 2 = d /\ h + d = p
    BY <1>1, <2>1
  <2>3. Visited(n, 2 * d) = p
    BY <1>1, <2>2 DEF Visited
  <2> QED BY <2>2, <2>3
<1>3. CASE p < h
  <2>1. PICK d \in Nat : d = h - 1 - p
    BY <1>1, <1>3
  <2>2. /\ 2 * d + 1 \in 0 .. n - 1 /\ (2 * d + 1) % 2 = 1 /\ (2 * d + 1) \div 2 = d
        /\ h - d - 1 = p
    BY <1>1, <2>1
  <2>3. Visited(n, 2 * d + 1) = p
    BY <1>1, <2>2 DEF Visited
  <2> QED BY <2>2, <2>3
<1> QED BY <1>1, <1>2, <1>3

\* closeUnused leaves at most so many buckets open, and closes open ones only.
LEMMA VictimsLemma ==
  ASSUME NEW B, NEW most \in Nat
  PROVE  /\ Victims(B, most) \subseteq OpenIn(B)
         /\ IsFiniteSet(OpenIn(B) \ Victims(B, most))
         /\ Cardinality(OpenIn(B) \ Victims(B, most)) <= most
<1> DEFINE T == InTree(B)
           O == OpenIn(B)
           n == Cardinality(T)
           surplus == Cardinality(O) - most
           OpenAt(i) == {k \in O : Cardinality({j \in T : j < k}) = Visited(n, i)}
           Before(j) == UNION {OpenAt(h) : h \in 0 .. j - 1}
           Q == {j \in 0 .. n - 1 : Cardinality(Before(j)) < surplus}
           V == UNION {OpenAt(i) : i \in Q}
<1>1. Victims(B, most) = V /\ OpenIn(B) = O
  BY DEF Victims
<1>2. T \subseteq Int /\ O \subseteq T /\ IsFiniteSet(T) /\ IsFiniteSet(O)
  <2>1. T \subseteq BucketKeys /\ O \subseteq T
    BY DEF InTree, OpenIn
  <2> HIDE DEF T, O
  <2> QED BY <2>1, BucketKeysFinite, FS_Subset
<1> HIDE DEF T, O
<1>3. n \in Nat /\ Cardinality(O) \in Nat /\ surplus \in Int
  BY <1>2, FS_CardinalityType
<1>4. V \subseteq O
  <2> HIDE DEF Q
  <2> QED OBVIOUS
<1>5. /\ IsFiniteSet(V) /\ IsFiniteSet(O \ V) /\ Cardinality(V) \in Nat
      /\ Cardinality(O \ V) = Cardinality(O) - Cardinality(V)
  <2> HIDE DEF V
  <2>1. IsFiniteSet(V) /\ O \cap V = V
    BY <1>2, <1>4, FS_Subset
  <2>2. IsFiniteSet(O \ V) /\ Cardinality(O \ V) = Cardinality(O) - Cardinality(O \cap V)
    BY <1>2, FS_Difference
  <2> QED BY <2>1, <2>2, FS_CardinalityType
<1>6. CASE surplus <= 0
  <2> HIDE DEF V
  <2> QED BY <1>1, <1>3, <1>4, <1>5, <1>6
<1>7. CASE surplus > 0 /\ \A j \in 0 .. n - 1 : j \in Q
  <2>1. ASSUME NEW k \in O PROVE k \in V
    <3> DEFINE L == {j \in T : j < k}
               p == Cardinality(L)
    <3>1. k \in T /\ k \in Int /\ k \notin L /\ L \subseteq T \ {k}
      BY <1>2
    <3>2. IsFiniteSet(T \ {k}) /\ Cardinality(T \ {k}) = n - 1
      BY <1>2, <3>1, FS_RemoveElement
    <3>3. p \in Nat /\ p <= n - 1
      <4> HIDE DEF L
      <4>1. IsFiniteSet(L) /\ Cardinality(L) <= Cardinality(T \ {k})
        BY <3>1, <3>2, FS_Subset
      <4> QED BY <3>2, <4>1, FS_CardinalityType
    <3>4. PICK i \in 0 .. n - 1 : Visited(n, i) = p
      <4> HIDE DEF p, n
      <4> QED BY <1>3, <3>3, VisitedAll
    <3>5. k \in OpenAt(i)
      BY <3>4
    <3> HIDE DEF OpenAt, Q
    <3> QED BY <1>7, <3>5
  <2>2. O \ V = {} /\ Cardinality({}) = 0
    <3> HIDE DEF V
    <3> QED BY <2>1, FS_EmptySet
  <2> HIDE DEF V
  <2> QED BY <1>1, <1>4, <1>5, <2>2
<1>8. CASE surplus > 0 /\ \E j \in 0 .. n - 1 : j \notin Q
  <2> DEFINE R == {j \in 0 .. n - 1 : j \notin Q}
  <2>1. R \subseteq Nat /\ R # {}
    <3> HIDE DEF Q
    <3> QED BY <1>8
  <2>2. PICK j \in R : \A i \in R : j <= i
    <3> HIDE DEF R
    <3> QED BY <2>1, LeastNat
  <2>3. j \in 0 .. n - 1 /\ j \notin Q
    BY <2>2
  <2>4. Before(j) \subseteq V
    <3>1. ASSUME NEW h \in 0 .. j - 1 PROVE h \in Q
      <4>1. h \in 0 .. n - 1 /\ ~(j <= h)
        BY <1>3, <2>3
      <4> HIDE DEF Q
      <4> QED BY <2>2, <4>1
    <3> HIDE DEF Q, OpenAt
    <3> QED BY <3>1
  <2>5. IsFiniteSet(Before(j)) /\ Cardinality(Before(j)) \in Nat /\ Cardinality(Before(j)) <= Cardinality(V)
    <3> HIDE DEF Before, V
    <3> QED BY <1>5, <2>4, FS_Subset, FS_CardinalityType
  <2>6. ~(Cardinality(Before(j)) < surplus)
    <3> HIDE DEF Before
    <3> QED BY <2>3
  <2> HIDE DEF Before, V
  <2> QED BY <1>1, <1>3, <1>4, <1>5, <2>5, <2>6
<1> HIDE DEF Q, V
<1> QED BY <1>3, <1>6, <1>7, <1>8

\* A bucket that is closed keeps its items.
LEMMA ClosedLemma ==
  ASSUME NEW b \in Bucket, \A c \in Consumers : IsFiniteSet(b.has[c])
  PROVE  /\ Closed(b) \in Bucket /\ Closed(b).has = b.has /\ Closed(b).st = "nil"
         /\ Closed(b).log = b.log
         /\ \A c \in Consumers : c \in Live => Closed(b).trail[c] = Cardinality(b.has[c])
<1> DEFINE t == [c \in Consumers |-> IF c \in Live THEN LenIn(b, c) ELSE b.trail[c]]
<1>1. t \in [Consumers -> Nat \cup {NoTrailer}]
  <2>1. \A c \in Consumers : Cardinality(b.has[c]) \in Nat
    BY FS_CardinalityType
  <2>2. b.trail \in [Consumers -> Nat \cup {NoTrailer}]
    BY DEF Bucket
  <2> QED BY <2>1, <2>2 DEF LenIn
<1>2. Closed(b) = [b EXCEPT !.st = "nil", !.trail = t]
  BY DEF Closed
<1>3. \A c \in Consumers : c \in Live => t[c] = Cardinality(b.has[c])
  BY DEF LenIn
<1> HIDE DEF t
<1> QED BY <1>1, <1>2, <1>3 DEF Bucket

\* What opening the bucket key does to the other buckets: some may be closed,
\* and then their trailers are right.
Opened(B, C, key) ==
    /\ C[key].st = "open"
    /\ \A k \in BucketKeys \ {key} :
          \/ C[k].st = B[k].st /\ C[k].trail = B[k].trail
          \/ /\ opts.max > 0 /\ B[k].st = "open" /\ C[k].st = "nil"
             /\ \A c \in Consumers : c \in Live => C[k].trail[c] = Cardinality(B[k].has[c])

\* forKey opens the bucket, keeps all items, and keeps the limit.
LEMMA ForKeyLemma ==
  ASSUME NEW B, TreeOK(B), NEW key \in BucketKeys, opts \in [max : Int, abort : BOOLEAN]
  PROVE  LET C == ForKey(B, key)
         IN  /\ TreeOK(C) /\ Opened(B, C, key)
             /\ \A k \in BucketKeys : C[k].has = B[k].has
             /\ opts.max >= 1 /\ Cardinality(OpenIn(B)) <= opts.max
                => Cardinality(OpenIn(C)) <= opts.max
<1> DEFINE C == ForKey(B, key)
           V == IF opts.max - 1 < 0 THEN {} ELSE Victims(B, opts.max - 1)
           D == [k \in BucketKeys |-> IF k \in V THEN Closed(B[k]) ELSE B[k]]
<1>1. CASE B[key].st = "open"
  <2>1. C = B
    BY <1>1 DEF ForKey
  <2> HIDE DEF V, D
  <2> QED BY <1>1, <2>1 DEF Opened
<1>2. CASE B[key].st # "open"
  <2>1. opts.max \in Int /\ opts.max - 1 \in Int
    OBVIOUS
  <2>2. /\ V \subseteq OpenIn(B) /\ (opts.max - 1 < 0 => V = {})
        /\ opts.max - 1 >= 0 => /\ IsFiniteSet(OpenIn(B) \ V)
                               /\ Cardinality(OpenIn(B) \ V) <= opts.max - 1
    <3>1. CASE opts.max - 1 < 0
      BY <2>1, <3>1
    <3>2. CASE opts.max - 1 >= 0
      <4>1. V = Victims(B, opts.max - 1) /\ opts.max - 1 \in Nat
        BY <2>1, <3>2
      <4> HIDE DEF V
      <4> QED BY <2>1, <3>2, <4>1, VictimsLemma
    <3> QED BY <2>1, <3>1, <3>2
  <2>3. CloseUnused(B, opts.max - 1) = D
    <3>1. CASE opts.max - 1 < 0
      <4>1. D = B
        BY <3>1 DEF TreeOK
      <4> QED BY <3>1, <4>1 DEF CloseUnused
    <3>2. CASE ~(opts.max - 1 < 0)
      BY <3>2 DEF CloseUnused
    <3> QED BY <3>1, <3>2
  <2>4. C = [D EXCEPT ![key].st = "open"]
    <3> HIDE DEF D
    <3> QED BY <1>2, <2>3 DEF ForKey
  <2> HIDE DEF V
  <2>5. ASSUME NEW k \in BucketKeys
        PROVE  /\ D[k] \in Bucket /\ D[k].has = B[k].has /\ D[k].log = B[k].log
               /\ k \in V => /\ B[k].st = "open" /\ D[k].st = "nil" /\ opts.max > 0
                             /\ \A c \in Consumers : c \in Live =>
                                    D[k].trail[c] = Cardinality(B[k].has[c])
               /\ k \notin V => D[k] = B[k]
    <3>1. B[k] \in Bucket /\ \A c \in Consumers : IsFiniteSet(B[k].has[c])
      BY DEF TreeOK
    <3>2. CASE k \in V
      <4>1. D[k] = Closed(B[k]) /\ B[k].st = "open" /\ opts.max > 0
        BY <2>1, <2>2, <3>2 DEF OpenIn
      <4> HIDE DEF D
      <4> QED BY <3>1, <3>2, <4>1, ClosedLemma
    <3>3. CASE k \notin V
      BY <3>1, <3>3
    <3> QED BY <3>2, <3>3
  <2>6. D \in [BucketKeys -> Bucket]
    <3>1. D = [k \in BucketKeys |-> D[k]]
      OBVIOUS
    <3> HIDE DEF D
    <3> QED BY <2>5, <3>1
  <2> HIDE DEF D, C
  <2>7. /\ C \in [BucketKeys -> Bucket]
        /\ C[key].st = "open" /\ C[key].has = D[key].has /\ C[key].log = D[key].log
        /\ \A k \in BucketKeys \ {key} : C[k] = D[k]
    BY <2>4, <2>6 DEF Bucket
  <2>8. \A k \in BucketKeys : C[k].has = B[k].has /\ C[k].log = B[k].log
    BY <2>5, <2>7
  <2>9. TreeOK(C)
    BY <2>7, <2>8 DEF TreeOK
  <2>10. Opened(B, C, key)
    <3>1. ASSUME NEW k \in BucketKeys \ {key}
          PROVE  \/ C[k].st = B[k].st /\ C[k].trail = B[k].trail
                 \/ /\ opts.max > 0 /\ B[k].st = "open" /\ C[k].st = "nil"
                    /\ \A c \in Consumers : c \in Live => C[k].trail[c] = Cardinality(B[k].has[c])
      BY <2>5, <2>7
    <3> QED BY <2>7, <3>1 DEF Opened
  <2>11. ASSUME opts.max >= 1 PROVE Cardinality(OpenIn(C)) <= opts.max
    <3>1. OpenIn(C) \subseteq (OpenIn(B) \ V) \cup {key}
      BY <2>5, <2>7 DEF OpenIn
    <3>2. /\ IsFiniteSet(OpenIn(B) \ V) /\ Cardinality(OpenIn(B) \ V) <= opts.max - 1
          /\ Cardinality(OpenIn(B) \ V) \in Nat
      BY <2>1, <2>2, <2>11, FS_CardinalityType
    <3>3. PICK R : R = OpenIn(B) \ V
      OBVIOUS
    <3>4. /\ IsFiniteSet(R \cup {key})
          /\ Cardinality(R \cup {key}) \in {Cardinality(R), Cardinality(R) + 1}
      BY <3>2, <3>3, FS_AddElement
    <3>5. /\ Cardinality(OpenIn(C)) <= Cardinality(R \cup {key})
          /\ Cardinality(OpenIn(C)) \in Nat
      BY <3>1, <3>3, <3>4, FS_Subset, FS_CardinalityType
    <3> QED BY <2>1, <3>2, <3>3, <3>4, <3>5
  <2> QED BY <2>8, <2>9, <2>10, <2>11 DEF C
<1> QED BY <1>1, <1>2

\* Setting what the consumers have left in one bucket, and logging it.
SetHas(B, key, h) == [B EXCEPT ![key] = [@ EXCEPT !.has = h, !.log = Cardinality(h[Main])]]

\* This changes nothing else.
LEMMA WithHas ==
  ASSUME NEW B, TreeOK(B), NEW key \in BucketKeys, NEW h \in [Consumers -> SUBSET Item],
         \A c \in Consumers : IsFiniteSet(h[c]),
         NEW C, C = SetHas(B, key, h)
  PROVE  /\ TreeOK(C) /\ C[key].has = h
         /\ \A k \in BucketKeys \ {key} : C[k] = B[k]
         /\ \A k \in BucketKeys : C[k].st = B[k].st /\ C[k].trail = B[k].trail
<1>1. B \in [BucketKeys -> Bucket] /\ B[key] \in Bucket
  BY DEF TreeOK
<1>2. Cardinality(h[Main]) \in Nat
  BY FS_CardinalityType DEF Consumers
<1>3. [B[key] EXCEPT !.has = h, !.log = Cardinality(h[Main])] \in Bucket
  BY <1>1, <1>2 DEF Bucket
<1>4. /\ C \in [BucketKeys -> Bucket]
      /\ C[key] = [B[key] EXCEPT !.has = h, !.log = Cardinality(h[Main])]
      /\ \A k \in BucketKeys \ {key} : C[k] = B[k]
  BY <1>1, <1>3 DEF SetHas
<1>5. /\ C[key].has = h /\ C[key].st = B[key].st /\ C[key].trail = B[key].trail
      /\ C[key].log = Cardinality(h[Main])
  BY <1>1, <1>4 DEF Bucket
<1>6. TreeOK(C)
  BY <1>4, <1>5 DEF TreeOK
<1> QED BY <1>4, <1>5, <1>6

\* Removing buckets from the tree.
LEMMA WithoutLemma ==
  ASSUME NEW B, TreeOK(B), NEW ks, NEW C, C = Without(B, ks)
  PROVE  /\ TreeOK(C)
         /\ \A k \in BucketKeys : /\ k \in ks => C[k] = Absent
                                  /\ k \notin ks => C[k] = B[k]
         /\ Absent.st = "absent" /\ \A c \in Consumers : Absent.has[c] = {}
<1>1. /\ Absent \in Bucket /\ Absent.st = "absent" /\ \A c \in Consumers : Absent.has[c] = {}
      /\ Absent.log = 0
  BY DEF Absent, Bucket, NoTrailer
<1>2. \A k \in BucketKeys : C[k] = IF k \in ks THEN Absent ELSE B[k]
  BY DEF Without
<1>3. C \in [BucketKeys -> Bucket]
  BY <1>1 DEF Without, TreeOK
<1>4. \A k \in BucketKeys, c \in Consumers : IsFiniteSet(C[k].has[c])
  BY <1>1, <1>2, FS_EmptySet DEF TreeOK
<1>5. \A k \in BucketKeys : C[k].log = Cardinality(C[k].has[Main])
  BY <1>1, <1>2, FS_EmptySet DEF TreeOK, Consumers
<1> QED BY <1>1, <1>2, <1>3, <1>4, <1>5 DEF TreeOK

-----------------------------------------------------------------------------
(* The items of a batch                                                    *)

\* What Push makes of the keys it is given.
NewItems(keys) == [i \in DOMAIN keys |-> [key |-> keys[i], id |-> nextId + i - 1]]

\* A batch has new items, in order if no comparison overflows.
LEMMA GivenLemma ==
  ASSUME TypeOK, NEW keys \in Batches, Given(keys)
  PROVE  /\ batch' \in Seq(Item) /\ batch' # <<>> /\ Len(batch') = Len(keys)
         /\ \A x \in Pending' : x \in Item /\ nextId <= x.id /\ x.id < nextId'
         /\ \A x, y \in Pending' : x.id = y.id => x = y
         /\ nextId' \in 0 .. MaxItems /\ nextId' = nextId + Len(keys)
         /\ Distinct(batch') /\ (NearKeys => Ascends(batch'))
<1> DEFINE items == NewItems(keys)
<1>1. keys \in Seq(Keys) /\ keys # <<>> /\ DOMAIN keys = 1 .. Len(keys) /\ Len(keys) \in Nat \ {0}
  BY BucketsAssumption
<1>2. nextId \in Nat /\ MaxItems \in Nat
  BY BucketsAssumption DEF TypeOK
<1>3. ASSUME NEW i \in 1 .. Len(keys)
      PROVE  /\ items[i] \in Item /\ items[i].id = nextId + i - 1
  <2>1. i \in Nat /\ keys[i] \in Keys /\ nextId + i - 1 \in Nat
    BY <1>1, <1>2
  <2> QED BY <1>1, <2>1 DEF Item, NewItems
<1>4. DOMAIN items = 1 .. Len(keys) /\ items \in Seq(Item) /\ Len(items) = Len(keys)
  <2>1. items = [i \in 1 .. Len(keys) |-> items[i]]
    BY <1>1 DEF NewItems
  <2> HIDE DEF items
  <2> QED BY <1>1, <1>3, <2>1
<1>5. batch' = SortItems(items) /\ nextId' = nextId + Len(keys) /\ nextId + Len(keys) <= MaxItems
  BY DEF Given, NewItems
<1> HIDE DEF items
<1>6. Distinct(items)
  BY <1>1, <1>2, <1>3, <1>4 DEF Distinct
<1>7. NearKeys => Near(Item)
  BY BucketsAssumption DEF NearKeys, Near, Item
<1>8. /\ batch' \in Seq(Item) /\ Len(batch') = Len(items) /\ ItemsOf(batch') = ItemsOf(items)
      /\ Distinct(batch') /\ (NearKeys => Ascends(batch'))
  BY <1>4, <1>5, <1>6, <1>7, SortLemma
<1>9. batch' # <<>>
  <2>1. Len(<<>>) = 0
    OBVIOUS
  <2> QED BY <1>1, <1>4, <1>8, <2>1
<1>10. Pending' = {items[i] : i \in 1 .. Len(keys)}
  BY <1>4, <1>8 DEF Pending, ItemsOf
<1>11. ASSUME NEW x \in Pending' PROVE x \in Item /\ nextId <= x.id /\ x.id < nextId'
  <2>1. PICK i \in 1 .. Len(keys) : x = items[i]
    BY <1>10
  <2> QED BY <1>1, <1>2, <1>3, <1>5, <2>1
<1>12. ASSUME NEW x \in Pending', NEW y \in Pending', x.id = y.id PROVE x = y
  <2>1. PICK i \in 1 .. Len(keys) : x = items[i]
    BY <1>10
  <2>2. PICK j \in 1 .. Len(keys) : y = items[j]
    BY <1>10
  <2>3. i = j
    BY <1>1, <1>2, <1>3, <1>12, <2>1, <2>2
  <2> QED BY <2>1, <2>2, <2>3
<1> QED BY <1>1, <1>2, <1>4, <1>5, <1>8, <1>9, <1>11, <1>12

\* pushSorted cuts a part off the front; the rest follows on it.
LEMMA PartLemma ==
  ASSUME NEW rest, rest = SubSeq(batch, Cardinality(Part) + 1, Len(batch)),
         batch \in Seq(Item), batch # <<>>
  PROVE  /\ Part \subseteq Pending /\ IsFiniteSet(Part) /\ Part \subseteq Item
         /\ batch[1] \in Item /\ SplitFunc(batch[1].key) \in BucketKeys
         /\ rest \in Seq(Item) /\ ItemsOf(rest) \subseteq Pending
         /\ Distinct(batch) => Distinct(rest) /\ Part \cup ItemsOf(rest) = Pending
         /\ Distinct(batch) /\ Ascends(batch) =>
               /\ Ascends(rest)
               /\ \A x \in Part : SplitFunc(x.key) = SplitFunc(batch[1].key)
<1> DEFINE comp == SplitFunc(batch[1].key)
<1>1. PICK n : n = Binsplit(batch, comp)
  OBVIOUS
<1>2. /\ n \in 1 .. Len(batch)
      /\ /\ \A i, j \in 1 .. Len(batch) :
               i <= j /\ SplitFunc(batch[j].key) = comp => SplitFunc(batch[i].key) = comp
         => \A i \in 1 .. Len(batch) : SplitFunc(batch[i].key) = comp <=> i <= n
  <2> HIDE DEF comp
  <2>1. SplitFunc(batch[1].key) = comp
    BY DEF comp
  <2> QED BY <1>1, <2>1, BinsplitLemma
<1>3. Part = {batch[i] : i \in 1 .. n}
  <2>1. Part = {batch[i] : i \in 1 .. Binsplit(batch, comp)}
    BY DEF Part
  <2> QED BY <1>1, <2>1
<1>4. DOMAIN batch = 1 .. Len(batch) /\ Len(batch) \in Nat \ {0} /\ Pending = ItemsOf(batch)
  BY DEF Pending, ItemsOf
<1>5. \A i \in 1 .. n : i \in DOMAIN batch
  BY <1>2, <1>4
<1>6. Part \subseteq Pending /\ Pending \subseteq Item
  BY <1>3, <1>4, <1>5 DEF ItemsOf
<1>7. batch[1] \in Item /\ SplitFunc(batch[1].key) \in BucketKeys
  <2>1. batch[1] \in Item
    BY <1>4
  <2> QED BY <2>1 DEF Item, BucketKeys
<1> DEFINE f == [i \in 1 .. n |-> batch[i]]
<1>8. f \in Surjection(1 .. n, Part)
  BY <1>3 DEF Surjection
<1>9. IsFiniteSet(1 .. n) /\ Cardinality(1 .. n) = n /\ n \in Nat
  BY <1>2, <1>4, FS_Interval
<1>10. IsFiniteSet(Part) /\ (Distinct(batch) => Cardinality(Part) = n)
  <2>1. Distinct(batch) => f \in Injection(1 .. n, Part)
    <3> SUFFICES ASSUME Distinct(batch) PROVE f \in Injection(1 .. n, Part)
      OBVIOUS
    <3>1. ASSUME NEW i \in 1 .. n, NEW j \in 1 .. n, f[i] = f[j] PROVE i = j
      BY <1>5, <3>1 DEF Distinct
    <3>2. f \in [1 .. n -> Part]
      BY <1>3
    <3> HIDE DEF f
    <3> QED BY <3>1, <3>2 DEF Injection, IsInjective
  <2> HIDE DEF f
  <2> QED BY <1>8, <1>9, <2>1, FS_Surjection
<1>11. PICK m : m = Cardinality(Part) + 1
  OBVIOUS
<1>12. m \in Nat /\ m >= 1 /\ rest = SubSeq(batch, m, Len(batch))
  BY <1>10, <1>11, FS_CardinalityType
<1>13. /\ rest \in Seq(Item)
       /\ Len(rest) = IF m <= Len(batch) THEN Len(batch) - m + 1 ELSE 0
       /\ \A i \in 1 .. Len(batch) - m + 1 : rest[i] = batch[m + i - 1]
  <2>1. \A i \in m .. Len(batch) : batch[i] \in Item
    BY <1>4, <1>12
  <2>2. m \in Int /\ Len(batch) \in Int
    BY <1>4, <1>12
  <2>3. /\ SubSeq(batch, m, Len(batch)) \in Seq(Item)
        /\ Len(SubSeq(batch, m, Len(batch))) =
              IF m <= Len(batch) THEN Len(batch) - m + 1 ELSE 0
        /\ \A i \in 1 .. Len(batch) - m + 1 : SubSeq(batch, m, Len(batch))[i] = batch[m + i - 1]
    BY <2>1, <2>2, SubSeqProperties
  <2> QED BY <1>12, <2>3
<1>14. ASSUME NEW i \in DOMAIN rest
       PROVE  i \in Nat /\ m + i - 1 \in DOMAIN batch /\ m + i - 1 >= m /\ rest[i] = batch[m + i - 1]
  <2>1. DOMAIN rest = 1 .. Len(rest)
    BY <1>13
  <2> QED BY <1>4, <1>12, <1>13, <2>1
<1>15. ItemsOf(rest) \subseteq Pending
  BY <1>4, <1>14 DEF ItemsOf
<1>16. ASSUME Distinct(batch) PROVE Distinct(rest)
  <2> SUFFICES ASSUME NEW i \in DOMAIN rest, NEW j \in DOMAIN rest, rest[i] = rest[j] PROVE i = j
    BY DEF Distinct
  <2>1. m + i - 1 = m + j - 1
    BY <1>14, <1>16 DEF Distinct
  <2> QED BY <1>12, <1>14, <2>1
<1>17. ASSUME Distinct(batch) PROVE Part \cup ItemsOf(rest) = Pending
  <2>1. m = n + 1
    BY <1>10, <1>11, <1>17
  <2>2. ASSUME NEW j \in DOMAIN batch PROVE batch[j] \in Part \cup ItemsOf(rest)
    <3>1. CASE j <= n
      <4>1. j \in 1 .. n
        BY <1>4, <1>9, <3>1
      <4> QED BY <1>3, <4>1
    <3>2. CASE j > n
      <4>1. PICK i : i = j - n
        OBVIOUS
      <4>2. i \in 1 .. Len(batch) - m + 1 /\ m + i - 1 = j /\ m <= Len(batch)
        BY <1>4, <1>9, <2>1, <3>2, <4>1
      <4>3. i \in DOMAIN rest /\ rest[i] = batch[j]
        BY <1>4, <1>12, <1>13, <4>2
      <4> QED BY <4>3 DEF ItemsOf
    <3> QED BY <1>4, <1>9, <3>1, <3>2
  <2> QED BY <1>4, <1>6, <1>15, <2>2 DEF ItemsOf
<1>18. ASSUME Ascends(batch) PROVE Ascends(rest)
  <2> SUFFICES ASSUME NEW i \in DOMAIN rest, NEW j \in DOMAIN rest, i <= j
               PROVE  rest[i].key <= rest[j].key
    BY DEF Ascends
  <2>1. m + i - 1 <= m + j - 1
    BY <1>12, <1>14
  <2> QED BY <1>14, <1>18, <2>1 DEF Ascends
<1>19. ASSUME Ascends(batch) PROVE \A x \in Part : SplitFunc(x.key) = comp
  <2>1. ASSUME NEW i \in 1 .. Len(batch), NEW j \in 1 .. Len(batch), i <= j,
               SplitFunc(batch[j].key) = comp
        PROVE  SplitFunc(batch[i].key) = comp
    <3>1. 1 \in DOMAIN batch /\ i \in DOMAIN batch /\ j \in DOMAIN batch /\ 1 <= i
      BY <1>4
    <3>2. batch[1].key \in Int /\ batch[i].key \in Int /\ batch[j].key \in Int
      <4>1. batch[1] \in Item /\ batch[i] \in Item /\ batch[j] \in Item
        BY <3>1
      <4>2. \A x \in Item : x.key \in Int
        BY BucketsAssumption DEF Item
      <4> QED BY <4>1, <4>2
    <3>3. batch[1].key <= batch[i].key /\ batch[i].key <= batch[j].key
      BY <1>19, <2>1, <3>1 DEF Ascends
    <3>4. comp <= SplitFunc(batch[i].key) /\ SplitFunc(batch[i].key) <= SplitFunc(batch[j].key)
      BY <3>2, <3>3, SplitMonotone
    <3>5. comp \in Int /\ SplitFunc(batch[i].key) \in Int
      BY <3>2, SplitType
    <3> HIDE DEF comp
    <3> QED BY <2>1, <3>4, <3>5
  <2>2. \A i \in 1 .. Len(batch) : SplitFunc(batch[i].key) = comp <=> i <= n
    <3> HIDE DEF comp
    <3> QED BY <1>2, <2>1
  <2>3. \A i \in 1 .. n : SplitFunc(batch[i].key) = comp
    BY <1>2, <1>4, <2>2
  <2> QED BY <1>3, <2>3
<1> QED BY <1>6, <1>7, <1>10, <1>13, <1>15, <1>16, <1>17, <1>18, <1>19

-----------------------------------------------------------------------------
(* What each step does to the tree                                         *)

\* The least bucket of those to go to.
LEMMA LeastTodo ==
  ASSUME NEW S, S \subseteq BucketKeys, S # {}
  PROVE  Min(S) \in S /\ Min(S) \in BucketKeys /\ \A k \in S : Min(S) <= k
<1>1. S \subseteq Int /\ IsFiniteSet(S)
  BY BucketKeysFinite, FS_Subset
<1> QED BY <1>1, MinOfFinite

\* The maximum over a single bucket.
LEMMA MaxOfOne ==
  ASSUME NEW x \in Int
  PROVE  Max({x}) = x
BY DEF Max

\* Consumers have finitely many items in a bucket.
LEMMA LenType ==
  ASSUME TreeOK(bucks), NEW k \in BucketKeys, NEW c \in Consumers
  PROVE  /\ LenIn(bucks[k], c) \in Nat /\ IsFiniteSet(bucks[k].has[c])
         /\ LenIn(bucks[k], c) = Cardinality(bucks[k].has[c])
         /\ bucks[k].has[c] \subseteq Item
<1>1. IsFiniteSet(bucks[k].has[c]) /\ bucks[k].has[c] \subseteq Item
  BY DEF TreeOK, Bucket
<1> QED BY <1>1, FS_CardinalityType DEF LenIn

\* The forks that there are, and the queue itself, are consumers.
LEMMA LiveConsumers ==
  ASSUME TypeOK
  PROVE  Live \subseteq Consumers /\ Main \in Live /\ Main \in Consumers
BY DEF TypeOK, Live, Consumers

\* pushSorted adds the part to one bucket, for all consumers.
LEMMA PushTree ==
  ASSUME BaseInv, PushBucket, NEW key, key = SplitFunc(batch[1].key)
  PROVE  /\ key \in BucketKeys /\ TreeOK(bucks') /\ Opened(bucks, bucks', key)
         /\ \A k \in BucketKeys, c \in Consumers :
               bucks'[k].has[c] = IF k = key /\ c \in Live THEN bucks[k].has[c] \cup Part
                                  ELSE bucks[k].has[c]
         /\ OpenLimit => OpenLimit'
         /\ \A k \in BucketKeys : ForKey(bucks, key)[k].st = bucks'[k].st
<1>1. /\ TreeOK(bucks) /\ batch \in Seq(Item) /\ batch # <<>> /\ opts \in [max : Int, abort : BOOLEAN]
      /\ opts.max # 0
  BY DEF BaseInv, Shape, TypeOK, PushBucket
<1>2. key \in BucketKeys /\ IsFiniteSet(Part) /\ Part \subseteq Item
  BY <1>1, PartLemma
<1>3. PICK C : C = ForKey(bucks, key)
  OBVIOUS
<1>4. /\ TreeOK(C) /\ Opened(bucks, C, key)
      /\ \A k \in BucketKeys : C[k].has = bucks[k].has
      /\ opts.max >= 1 /\ Cardinality(OpenIn(bucks)) <= opts.max => Cardinality(OpenIn(C)) <= opts.max
  BY <1>1, <1>2, <1>3, ForKeyLemma
<1>5. PICK h : h = [c \in Consumers |-> IF c \in Live THEN C[key].has[c] \cup Part ELSE C[key].has[c]]
  OBVIOUS
<1>6. h \in [Consumers -> SUBSET Item] /\ \A c \in Consumers : IsFiniteSet(h[c])
  <2>1. \A c \in Consumers : C[key].has[c] \subseteq Item /\ IsFiniteSet(C[key].has[c])
    BY <1>2, <1>4 DEF TreeOK, Bucket
  <2>2. \A c \in Consumers : IsFiniteSet(C[key].has[c] \cup Part)
    BY <1>2, <2>1, FS_Union
  <2> QED BY <1>2, <1>5, <2>1, <2>2
<1>7. bucks' = SetHas(C, key, h) /\ opts' = opts
  <2>1. bucks' = [C EXCEPT ![key] = Pushed(C[key])] /\ opts' = opts
    BY <1>3 DEF PushBucket, Update
  <2>2. Pushed(C[key]) = [C[key] EXCEPT !.has = h, !.log = Cardinality(h[Main])]
    BY <1>5 DEF Pushed
  <2> QED BY <2>1, <2>2 DEF SetHas
<1>8. /\ TreeOK(bucks') /\ bucks'[key].has = h
      /\ \A k \in BucketKeys \ {key} : bucks'[k] = C[k]
      /\ \A k \in BucketKeys : bucks'[k].st = C[k].st /\ bucks'[k].trail = C[k].trail
  <2>1. TreeOK(C)
    BY <1>4
  <2> QED BY <1>2, <1>6, <1>7, <2>1, WithHas
<1>9. Opened(bucks, bucks', key)
  BY <1>2, <1>4, <1>8 DEF Opened
<1>10. OpenLimit => OpenLimit'
  <2>1. OpenIn(C) = OpenIn(bucks')
    BY <1>8 DEF OpenIn
  <2> QED BY <1>1, <1>4, <1>7, <2>1 DEF OpenLimit
<1>11. ASSUME NEW k \in BucketKeys, NEW c \in Consumers
       PROVE  bucks'[k].has[c] = IF k = key /\ c \in Live THEN bucks[k].has[c] \cup Part
                                 ELSE bucks[k].has[c]
  <2>1. CASE k = key
    <3>1. bucks'[k].has = h /\ C[key].has = bucks[key].has
      BY <1>4, <1>8, <2>1
    <3> QED BY <1>5, <2>1, <3>1
  <2>2. CASE k # key
    <3>1. bucks'[k] = C[k] /\ C[k].has = bucks[k].has
      BY <1>4, <1>8, <2>2
    <3> QED BY <2>2, <3>1
  <2> QED BY <2>1, <2>2
<1> QED BY <1>2, <1>3, <1>8, <1>9, <1>10, <1>11

\* Read opens the next bucket.
LEMMA ReadTree ==
  ASSUME BaseInv, ReadBucket
  PROVE  /\ NextBucket \in BucketKeys /\ NextBucket \in todo /\ \A k \in todo : NextBucket <= k
         /\ TreeOK(bucks') /\ Opened(bucks, bucks', NextBucket)
         /\ \A k \in BucketKeys : bucks'[k].has = bucks[k].has
         /\ OpenLimit => OpenLimit'
         /\ bucks' = ForKey(bucks, NextBucket)
<1>1. /\ TreeOK(bucks) /\ todo \subseteq BucketKeys /\ todo # {}
      /\ opts \in [max : Int, abort : BOOLEAN] /\ opts.max # 0
  BY DEF BaseInv, Shape, TypeOK, ReadBucket
<1>2. NextBucket \in BucketKeys /\ NextBucket \in todo /\ \A k \in todo : NextBucket <= k
  BY <1>1, LeastTodo DEF NextBucket
<1>3. bucks' = ForKey(bucks, NextBucket) /\ opts' = opts
  BY DEF ReadBucket, Update
<1>4. /\ TreeOK(bucks') /\ Opened(bucks, bucks', NextBucket)
      /\ \A k \in BucketKeys : bucks'[k].has = bucks[k].has
      /\ opts.max >= 1 /\ Cardinality(OpenIn(bucks)) <= opts.max
         => Cardinality(OpenIn(bucks')) <= opts.max
  BY <1>1, <1>2, <1>3, ForKeyLemma
<1>5. OpenLimit => OpenLimit'
  <2>1. OpenIn(bucks)' = OpenIn(bucks')
    BY DEF OpenIn
  <2> QED BY <1>1, <1>3, <1>4, <2>1 DEF OpenLimit
<1> QED BY <1>2, <1>3, <1>4, <1>5

\* Delete opens the next bucket and takes what it hits from the consumer.
LEMMA DeleteTree ==
  ASSUME BaseInv, DeleteBucket, NEW key, key = Min(todo)
  PROVE  /\ key \in BucketKeys /\ key \in todo
         /\ TreeOK(bucks') /\ Opened(bucks, bucks', key)
         /\ \A k \in BucketKeys, c \in Consumers :
               bucks'[k].has[c] = IF k = key /\ c = call.who /\ ~(key > call.hi)
                                  THEN {x \in bucks[k].has[c] : ~Hit(x)} ELSE bucks[k].has[c]
         /\ OpenLimit => OpenLimit'
         /\ dead' = IF AllEmpty(bucks'[key]) THEN dead \cup {key} ELSE dead
<1>1. /\ TreeOK(bucks) /\ todo \subseteq BucketKeys /\ todo # {}
      /\ opts \in [max : Int, abort : BOOLEAN] /\ opts.max # 0 /\ call.who \in Consumers
  BY DEF BaseInv, Shape, TypeOK, DeleteBucket
<1>2. key \in BucketKeys /\ key \in todo
  BY <1>1, LeastTodo
<1>3. PICK C : C = ForKey(bucks, key)
  OBVIOUS
<1>4. /\ TreeOK(C) /\ Opened(bucks, C, key)
      /\ \A k \in BucketKeys : C[k].has = bucks[k].has
      /\ opts.max >= 1 /\ Cardinality(OpenIn(bucks)) <= opts.max => Cardinality(OpenIn(C)) <= opts.max
  BY <1>1, <1>2, <1>3, ForKeyLemma
<1>5. PICK kept : kept = {x \in C[key].has[call.who] : ~Hit(x)}
  OBVIOUS
<1>6. PICK h : h = IF key > call.hi THEN C[key].has ELSE [C[key].has EXCEPT ![call.who] = kept]
  OBVIOUS
<1>7. C[key] \in Bucket /\ C[key].has \in [Consumers -> SUBSET Item]
  BY <1>2, <1>4 DEF TreeOK, Bucket
<1>8. /\ h \in [Consumers -> SUBSET Item]
      /\ \A c \in Consumers : h[c] = IF c = call.who /\ ~(key > call.hi) THEN kept ELSE C[key].has[c]
  BY <1>1, <1>5, <1>6, <1>7
<1>9. \A c \in Consumers : IsFiniteSet(h[c])
  <2>1. \A c \in Consumers : IsFiniteSet(C[key].has[c]) /\ h[c] \subseteq C[key].has[c]
    BY <1>2, <1>4, <1>5, <1>8 DEF TreeOK
  <2> QED BY <2>1, FS_Subset
<1>10. bucks' = SetHas(C, key, h) /\ opts' = opts
  <2>1. bucks' = [C EXCEPT ![key] = Deleted(C[key], key)] /\ opts' = opts
    BY <1>3 DEF DeleteBucket, Update
  <2>2. C[key].log = Cardinality(C[key].has[Main]) /\ Main \in Consumers
    BY <1>2, <1>4 DEF TreeOK, Consumers
  <2>3. Deleted(C[key], key) = [C[key] EXCEPT !.has = h, !.log = Cardinality(h[Main])]
    <3>1. CASE key > call.hi
      <4>1. Deleted(C[key], key) = C[key] /\ h = C[key].has
        BY <1>6, <3>1 DEF Deleted
      <4> QED BY <1>7, <2>2, <4>1 DEF Bucket
    <3>2. CASE ~(key > call.hi)
      <4>1. PICK hits : hits = {x \in C[key].has[call.who] : Hit(x)}
        OBVIOUS
      <4>2. PICK l : l = IF call.who = Main /\ hits # {} THEN LenIn(C[key], Main) - Cardinality(hits)
                         ELSE C[key].log
        OBVIOUS
      <4>3. Deleted(C[key], key) = [C[key] EXCEPT !.has[call.who] = kept, !.log = l]
        BY <1>5, <3>2, <4>1, <4>2 DEF Deleted
      <4>4. l = Cardinality(h[Main])
        <5>1. CASE call.who = Main
          <6>1. PICK S : S = C[key].has[Main]
            OBVIOUS
          <6>2. IsFiniteSet(S) /\ IsFiniteSet(hits) /\ hits \subseteq S
            <7>1. IsFiniteSet(S)
              BY <1>2, <1>4, <2>2, <6>1 DEF TreeOK
            <7>2. hits \subseteq S
              BY <4>1, <5>1, <6>1
            <7> QED BY <7>1, <7>2, FS_Subset
          <6>3. S \cap hits = hits /\ S \ hits = kept
            BY <1>5, <4>1, <5>1, <6>1
          <6>4. Cardinality(S \ hits) = Cardinality(S) - Cardinality(S \cap hits)
            BY <6>2, FS_Difference
          <6>5. Cardinality(S) - Cardinality(hits) = Cardinality(kept)
            BY <6>3, <6>4
          <6>6. h[Main] = kept
            BY <1>8, <2>2, <3>2, <5>1
          <6>7. hits = {} => kept = S
            BY <6>3
          <6> QED BY <2>2, <4>2, <5>1, <6>1, <6>5, <6>6, <6>7 DEF LenIn
        <5>2. CASE call.who # Main
          BY <1>8, <2>2, <4>2, <5>2
        <5> QED BY <5>1, <5>2
      <4>5. h = [C[key].has EXCEPT ![call.who] = kept]
        BY <1>6, <3>2
      <4> QED BY <1>7, <4>3, <4>4, <4>5
    <3> QED BY <3>1, <3>2
  <2> QED BY <2>1, <2>3 DEF SetHas
<1>11. /\ TreeOK(bucks') /\ bucks'[key].has = h
       /\ \A k \in BucketKeys \ {key} : bucks'[k] = C[k]
       /\ \A k \in BucketKeys : bucks'[k].st = C[k].st /\ bucks'[k].trail = C[k].trail
  <2>1. TreeOK(C) /\ h \in [Consumers -> SUBSET Item]
    BY <1>4, <1>8
  <2> QED BY <1>2, <1>9, <1>10, <2>1, WithHas
<1>12. Opened(bucks, bucks', key)
  BY <1>2, <1>4, <1>11 DEF Opened
<1>13. OpenLimit => OpenLimit'
  <2>1. OpenIn(C) = OpenIn(bucks')
    BY <1>11 DEF OpenIn
  <2> QED BY <1>1, <1>4, <1>10, <2>1 DEF OpenLimit
<1>14. ASSUME NEW k \in BucketKeys, NEW c \in Consumers
       PROVE  bucks'[k].has[c] = IF k = key /\ c = call.who /\ ~(key > call.hi)
                                 THEN {x \in bucks[k].has[c] : ~Hit(x)} ELSE bucks[k].has[c]
  <2>1. CASE k = key
    <3>1. bucks'[k].has = h /\ C[key].has = bucks[key].has
      BY <1>4, <1>11, <2>1
    <3> QED BY <1>5, <1>8, <2>1, <3>1
  <2>2. CASE k # key
    <3>1. bucks'[k] = C[k] /\ C[k].has = bucks[k].has
      BY <1>4, <1>11, <2>2
    <3> QED BY <2>2, <3>1
  <2> QED BY <2>1, <2>2
<1>15. dead' = IF AllEmpty(bucks'[key]) THEN dead \cup {key} ELSE dead
  BY DEF DeleteBucket, Update
<1> QED BY <1>2, <1>11, <1>12, <1>13, <1>14, <1>15

\* A step that leaves the buckets of the tree and their trailers as they are,
\* and gives their consumers other items.
OnlyItems(B, C) ==
    \A k \in BucketKeys : C[k].st = B[k].st /\ C[k].trail = B[k].trail

\* A step that opens no bucket keeps the limit.
LEMMA FewerOpen ==
  ASSUME \A k \in BucketKeys : bucks'[k].st = "open" => bucks[k].st = "open",
         opts' = opts, OpenLimit, opts.max \in Int
  PROVE  OpenLimit'
<1>1. OpenIn(bucks') \subseteq OpenIn(bucks)
  BY DEF OpenIn
<1>2. IsFiniteSet(OpenIn(bucks))
  <2>1. OpenIn(bucks) \subseteq BucketKeys
    BY DEF OpenIn
  <2> QED BY <2>1, BucketKeysFinite, FS_Subset
<1>3. IsFiniteSet(OpenIn(bucks')) /\ Cardinality(OpenIn(bucks')) <= Cardinality(OpenIn(bucks))
  BY <1>1, <1>2, FS_Subset
<1>4. Cardinality(OpenIn(bucks')) \in Nat /\ Cardinality(OpenIn(bucks)) \in Nat
  BY <1>2, <1>3, FS_CardinalityType
<1> QED BY <1>3, <1>4 DEF OpenLimit

\* Pop takes what the callback got from the consumer, if the bucket is open.
LEMMA PopTree ==
  ASSUME BaseInv, Pop
  PROVE  /\ TreeOK(bucks') /\ OnlyItems(bucks, bucks')
         /\ \A k \in BucketKeys, c \in Consumers :
               bucks'[k].has[c] = IF k \in rd.at /\ c = call.who /\ ~rd.stale
                                  THEN bucks[k].has[c] \ rd.out ELSE bucks[k].has[c]
         /\ uncounted' \subseteq uncounted
<1>1. TreeOK(bucks) /\ bucks \in [BucketKeys -> Bucket] /\ call.who \in Consumers
  BY DEF BaseInv, TypeOK, TreeOK
<1>2. CASE rd.stale
  <2>1. bucks' = bucks /\ uncounted' = uncounted
    BY <1>2 DEF Pop
  <2> QED BY <1>1, <1>2, <2>1 DEF OnlyItems
<1>3. CASE ~rd.stale
  <2> DEFINE B == [k \in BucketKeys |-> IF k \in rd.at THEN Popped(bucks[k]) ELSE bucks[k]]
  <2>1. bucks' = B /\ uncounted' \subseteq uncounted
    BY <1>3 DEF Pop, Update
  <2>2. ASSUME NEW k \in BucketKeys
        PROVE  /\ B[k] \in Bucket /\ B[k].st = bucks[k].st /\ B[k].trail = bucks[k].trail
               /\ B[k].log = Cardinality(B[k].has[Main])
               /\ \A c \in Consumers :
                     B[k].has[c] = IF k \in rd.at /\ c = call.who THEN bucks[k].has[c] \ rd.out
                                   ELSE bucks[k].has[c]
    <3>1. /\ bucks[k] \in Bucket /\ Main \in Consumers
          /\ bucks[k].log = Cardinality(bucks[k].has[Main])
      BY <1>1 DEF TreeOK, Consumers
    <3>2. CASE k \in rd.at
      <4>1. B[k] = Popped(bucks[k])
        BY <3>2
      <4> HIDE DEF B
      <4>2. PICK h : h = [bucks[k].has EXCEPT ![call.who] = bucks[k].has[call.who] \ rd.out]
        OBVIOUS
      <4>3. bucks[k].has \in [Consumers -> SUBSET Item]
        BY <3>1 DEF Bucket
      <4>4. /\ h \in [Consumers -> SUBSET Item]
            /\ \A c \in Consumers : h[c] = IF c = call.who THEN bucks[k].has[c] \ rd.out
                                            ELSE bucks[k].has[c]
        BY <1>1, <4>2, <4>3
      <4>5. PICK l : l = IF call.who = Main /\ rd.out # {}
                         THEN Cardinality(bucks[k].has[call.who] \ rd.out) ELSE bucks[k].log
        OBVIOUS
      <4>6. B[k] = [bucks[k] EXCEPT !.has = h, !.log = l]
        BY <4>1, <4>2, <4>5 DEF Popped
      <4>7. l = Cardinality(h[Main])
        BY <3>1, <4>4, <4>5
      <4>8. l \in Nat
        <5>1. h[Main] \subseteq bucks[k].has[Main] /\ IsFiniteSet(bucks[k].has[Main])
          BY <1>1, <3>1, <4>4 DEF TreeOK
        <5> QED BY <4>7, <5>1, FS_Subset, FS_CardinalityType
      <4> QED BY <3>1, <3>2, <4>4, <4>6, <4>7, <4>8 DEF Bucket
    <3>3. CASE k \notin rd.at
      BY <3>1, <3>3
    <3> QED BY <3>2, <3>3
  <2>3. B \in [BucketKeys -> Bucket]
    <3>1. B = [k \in BucketKeys |-> B[k]]
      OBVIOUS
    <3> HIDE DEF B
    <3> QED BY <2>2, <3>1
  <2> HIDE DEF B
  <2>4. \A k \in BucketKeys, c \in Consumers : B[k].has[c] \subseteq bucks[k].has[c]
    BY <2>2
  <2>5. \A k \in BucketKeys, c \in Consumers : IsFiniteSet(B[k].has[c])
    BY <1>1, <2>4, FS_Subset DEF TreeOK
  <2>6. TreeOK(B)
    BY <2>2, <2>3, <2>5 DEF TreeOK
  <2> QED BY <1>3, <2>1, <2>2, <2>6 DEF OnlyItems
<1> QED BY <1>2, <1>3

\* A fork gets what its source has left.
LEMMA ForkTree ==
  ASSUME BaseInv, Fork
  PROVE  \E src \in Live, dst \in Forks \ forks :
           /\ TreeOK(bucks') /\ OnlyItems(bucks, bucks')
           /\ \A k \in BucketKeys, c \in Consumers :
                 bucks'[k].has[c] = IF c = dst /\ bucks[k].st # "absent" THEN bucks[k].has[src]
                                    ELSE bucks[k].has[c]
           /\ forks' = forks \cup {dst}
           /\ uncounted' = uncounted \cup {<<k, dst>> : k \in InTree(bucks) \ OpenIn(bucks)}
<1>1. TreeOK(bucks) /\ bucks \in [BucketKeys -> Bucket] /\ Live \subseteq Consumers
  BY LiveConsumers DEF BaseInv, TreeOK
<1>2. PICK src \in Live, dst \in Forks \ forks :
        /\ bucks' = [k \in BucketKeys |-> Forked(bucks[k], src, dst)]
        /\ forks' = forks \cup {dst}
        /\ uncounted' = uncounted \cup {<<k, dst>> : k \in InTree(bucks) \ OpenIn(bucks)}
  BY DEF Fork
<1>3. src \in Consumers /\ dst \in Consumers
  BY <1>1 DEF Consumers
<1>4. ASSUME NEW k \in BucketKeys
      PROVE  /\ bucks'[k] \in Bucket /\ bucks'[k].st = bucks[k].st /\ bucks'[k].trail = bucks[k].trail
             /\ bucks'[k].log = bucks[k].log
             /\ \A c \in Consumers :
                   bucks'[k].has[c] = IF c = dst /\ bucks[k].st # "absent" THEN bucks[k].has[src]
                                      ELSE bucks[k].has[c]
  <2>1. bucks[k] \in Bucket /\ bucks'[k] = Forked(bucks[k], src, dst)
    BY <1>1, <1>2
  <2>2. CASE bucks[k].st = "absent"
    BY <2>1, <2>2 DEF Forked
  <2>3. CASE bucks[k].st # "absent"
    <3>1. bucks'[k] = [bucks[k] EXCEPT !.has[dst] = bucks[k].has[src]]
      BY <2>1, <2>3 DEF Forked
    <3>2. bucks[k].has[src] \subseteq Item
      BY <1>3, <2>1 DEF Bucket
    <3> QED BY <1>3, <2>1, <2>3, <3>1, <3>2 DEF Bucket
  <2> QED BY <2>2, <2>3
<1>5. bucks' \in [BucketKeys -> Bucket]
  <2>1. bucks' = [k \in BucketKeys |-> bucks'[k]]
    BY <1>2
  <2> QED BY <1>4, <2>1
<1>6. TreeOK(bucks')
  <2>1. dst # Main /\ Main \in Consumers
    BY BucketsAssumption DEF Consumers
  <2>2. \A k \in BucketKeys : bucks'[k].has[Main] = bucks[k].has[Main]
    BY <1>4, <2>1
  <2>3. \A k \in BucketKeys, c \in Consumers : IsFiniteSet(bucks'[k].has[c])
    BY <1>1, <1>3, <1>4 DEF TreeOK
  <2> QED BY <1>1, <1>4, <1>5, <2>2, <2>3 DEF TreeOK
<1> QED BY <1>2, <1>4, <1>6 DEF OnlyItems

\* A fork that is removed takes what it has left along, and open buckets that
\* nobody else needs.
LEMMA RemoveForkTree ==
  ASSUME BaseInv, RemoveFork
  PROVE  \E f \in forks, gone \in SUBSET BucketKeys :
           /\ TreeOK(bucks') /\ forks' = forks \ {f} /\ uncounted' = {u \in uncounted : u[2] # f}
           /\ \A k \in gone : /\ bucks'[k] = Absent
                               /\ \A c \in Consumers : c \in Live \ {f} => bucks[k].has[c] = {}
           /\ \A k \in BucketKeys \ gone :
                 /\ bucks'[k].st = bucks[k].st /\ bucks'[k].trail = bucks[k].trail
                 /\ \A c \in Consumers :
                       bucks'[k].has[c] = IF c = f THEN {} ELSE bucks[k].has[c]
<1>1. TreeOK(bucks) /\ bucks \in [BucketKeys -> Bucket] /\ forks \subseteq Consumers
  BY LiveConsumers DEF BaseInv, TreeOK, Live
<1>2. PICK f \in forks :
        LET B == [k \in BucketKeys |-> [bucks[k] EXCEPT !.has[f] = {}]]
            gone == {k \in OpenIn(B) : \A c \in Live \ {f} : B[k].has[c] = {}}
        IN  /\ bucks' = Without(B, gone)
            /\ forks' = forks \ {f}
            /\ uncounted' = {u \in uncounted : u[2] # f}
  BY DEF RemoveFork
<1>3. PICK B : B = [k \in BucketKeys |-> [bucks[k] EXCEPT !.has[f] = {}]]
  OBVIOUS
<1>4. PICK gone : gone = {k \in OpenIn(B) : \A c \in Live \ {f} : B[k].has[c] = {}}
  OBVIOUS
<1>5. bucks' = Without(B, gone) /\ forks' = forks \ {f} /\ uncounted' = {u \in uncounted : u[2] # f}
  BY <1>2, <1>3, <1>4
<1>6. ASSUME NEW k \in BucketKeys
      PROVE  /\ B[k] \in Bucket /\ B[k].st = bucks[k].st /\ B[k].trail = bucks[k].trail
             /\ B[k].log = bucks[k].log
             /\ \A c \in Consumers : B[k].has[c] = IF c = f THEN {} ELSE bucks[k].has[c]
  <2>1. bucks[k] \in Bucket /\ f \in Consumers /\ B[k] = [bucks[k] EXCEPT !.has[f] = {}]
    BY <1>1, <1>3
  <2> QED BY <2>1 DEF Bucket
<1>7. TreeOK(B)
  <2>1. B \in [BucketKeys -> Bucket]
    <3>1. B = [k \in BucketKeys |-> B[k]]
      BY <1>3
    <3> QED BY <1>6, <3>1
  <2>2. \A k \in BucketKeys, c \in Consumers : IsFiniteSet(B[k].has[c])
    BY <1>1, <1>6, FS_EmptySet DEF TreeOK
  <2>3. f # Main /\ Main \in Consumers
    BY BucketsAssumption DEF BaseInv, TypeOK, Consumers
  <2>4. \A k \in BucketKeys : B[k].has[Main] = bucks[k].has[Main]
    BY <1>6, <2>3
  <2> QED BY <1>1, <1>6, <2>1, <2>2, <2>4 DEF TreeOK
<1>8. /\ TreeOK(bucks')
      /\ \A k \in BucketKeys : (k \in gone => bucks'[k] = Absent) /\ (k \notin gone => bucks'[k] = B[k])
  BY <1>5, <1>7, WithoutLemma
<1>9. gone \in SUBSET BucketKeys
  BY <1>4 DEF OpenIn
<1>10. ASSUME NEW k \in gone
       PROVE  /\ bucks'[k] = Absent
              /\ \A c \in Consumers : c \in Live \ {f} => bucks[k].has[c] = {}
  BY <1>4, <1>6, <1>8, <1>9
<1>11. ASSUME NEW k \in BucketKeys \ gone
       PROVE  /\ bucks'[k].st = bucks[k].st /\ bucks'[k].trail = bucks[k].trail
              /\ \A c \in Consumers : bucks'[k].has[c] = IF c = f THEN {} ELSE bucks[k].has[c]
  BY <1>6, <1>8
<1> QED BY <1>5, <1>8, <1>9, <1>10, <1>11

\* Reopening finds all items, and their number in the trailers.
LEMMA RestartTree ==
  ASSUME BaseInv, Restart
  PROVE  /\ TreeOK(bucks') /\ OpenLimit'
         /\ \A k \in BucketKeys :
               /\ bucks'[k].has = bucks[k].has
               /\ bucks'[k].st = "absent" <=> bucks[k].st = "absent"
               /\ bucks'[k].st = "nil" => bucks'[k].trail[Main] = Cardinality(bucks[k].has[Main])
<1>1. /\ TreeOK(bucks) /\ bucks \in [BucketKeys -> Bucket] /\ Main \in Consumers
      /\ opts \in [max : Int, abort : BOOLEAN] /\ opts.max # 0
  BY LiveConsumers DEF BaseInv, TreeOK, TypeOK, Shape
<1>2. PICK B : B = [k \in BucketKeys |-> OnDisk(bucks[k])]
  OBVIOUS
<1>3. /\ bucks' = (IF InTree(B) = {} THEN B ELSE ForKey(B, Min(InTree(B)))) /\ opts' = opts
  BY <1>2 DEF Restart, Update
<1>4. ASSUME NEW k \in BucketKeys
      PROVE  /\ B[k] \in Bucket /\ B[k].has = bucks[k].has
             /\ B[k].st = "absent" <=> bucks[k].st = "absent"
             /\ B[k].st # "open" /\ B[k].log = bucks[k].log
             /\ B[k].st = "nil" => B[k].trail[Main] = Cardinality(bucks[k].has[Main])
  <2>1. /\ bucks[k] \in Bucket /\ B[k] = OnDisk(bucks[k])
        /\ bucks[k].log = Cardinality(bucks[k].has[Main]) /\ bucks[k].log \in Nat
    BY <1>1, <1>2 DEF TreeOK, Bucket
  <2>2. CASE bucks[k].st = "absent"
    BY <2>1, <2>2 DEF OnDisk
  <2>3. CASE bucks[k].st # "absent"
    <3>1. PICK t : t = [c \in Consumers |-> IF c = Main THEN bucks[k].log ELSE NoTrailer]
      OBVIOUS
    <3>2. t \in [Consumers -> Nat \cup {NoTrailer}] /\ t[Main] = Cardinality(bucks[k].has[Main])
      BY <1>1, <2>1, <3>1
    <3>3. B[k] = [bucks[k] EXCEPT !.st = "nil", !.trail = t]
      BY <2>1, <2>3, <3>1 DEF OnDisk
    <3> QED BY <2>1, <2>3, <3>2, <3>3 DEF Bucket
  <2> QED BY <2>2, <2>3
<1>5. TreeOK(B)
  <2>1. B \in [BucketKeys -> Bucket]
    <3>1. B = [k \in BucketKeys |-> B[k]]
      BY <1>2
    <3> QED BY <1>4, <3>1
  <2> QED BY <1>1, <1>4, <2>1 DEF TreeOK
<1>6. OpenIn(B) = {} /\ Cardinality(OpenIn(B)) = 0
  BY <1>4, FS_EmptySet DEF OpenIn
<1>7. CASE InTree(B) = {}
  <2>1. bucks' = B
    BY <1>3, <1>7
  <2>2. OpenLimit'
    BY <1>3, <1>6, <2>1 DEF OpenLimit
  <2> QED BY <1>4, <1>5, <2>1, <2>2
<1>8. CASE InTree(B) # {}
  <2>1. PICK key : key = Min(InTree(B))
    OBVIOUS
  <2>2. key \in InTree(B) /\ key \in BucketKeys
    <3>1. InTree(B) \subseteq BucketKeys
      BY DEF InTree
    <3> QED BY <1>8, <2>1, <3>1, LeastTodo
  <2>3. bucks' = ForKey(B, key)
    BY <1>3, <1>8, <2>1
  <2>4. /\ TreeOK(bucks') /\ Opened(B, bucks', key)
        /\ \A k \in BucketKeys : bucks'[k].has = B[k].has
        /\ opts.max >= 1 /\ Cardinality(OpenIn(B)) <= opts.max
           => Cardinality(OpenIn(bucks')) <= opts.max
    BY <1>1, <1>5, <2>2, <2>3, ForKeyLemma
  <2>5. OpenLimit'
    BY <1>1, <1>3, <1>6, <2>4 DEF OpenLimit
  <2>6. \A k \in BucketKeys \ {key} : bucks'[k].st = B[k].st /\ bucks'[k].trail = B[k].trail
    BY <1>4, <2>4 DEF Opened
  <2>7. B[key].st # "absent" /\ bucks'[key].st = "open"
    BY <2>2, <2>4 DEF InTree, Opened
  <2> QED BY <1>4, <2>2, <2>4, <2>5, <2>6, <2>7
<1> QED BY <1>7, <1>8
-----------------------------------------------------------------------------
(* Types, and what is where                                                *)

CallType == [who : Consumers, n : Nat, count : Int, lo : Int, hi : Int, popped : SUBSET Item]
ReadType == [at : SUBSET BucketKeys, out : SUBSET Item, had : SUBSET Item,
             stale : BOOLEAN, len : Nat, empty : BOOLEAN]

\* No call and no Read are a call and a Read.
LEMMA NoTypes ==
  /\ NoCall \in CallType /\ NoCall.who = Main /\ NoCall.count = 0 /\ NoCall.n = 0
  /\ NoCall.popped = {}
  /\ NoRead \in ReadType /\ NoRead.at = {} /\ NoRead.had = {} /\ NoRead.out = {}
  /\ NoRead.stale = FALSE
BY DEF NoCall, NoRead, CallType, ReadType, Consumers

\* By how much the count changes.
LEMMA CountedLemma ==
  ASSUME BaseInv, NEW B, TreeOK(B), NEW k \in BucketKeys, rd.at = {k}
  PROVE  /\ Counted(B) = Cardinality(rd.had) -
              (IF rd.stale THEN rd.len ELSE Cardinality(B[k].has[call.who]))
         /\ Counted(B) \in Int
         /\ Cardinality(rd.had) \in Nat /\ Cardinality(B[k].has[call.who]) \in Nat
<1>1. /\ call.who \in Consumers /\ rd.len \in Nat /\ rd.stale \in BOOLEAN
      /\ IsFiniteSet(rd.had)
  BY DEF BaseInv, TypeOK, Shape
<1>2. Cardinality(B[k].has[call.who]) \in Nat /\ Cardinality(rd.had) \in Nat
  BY <1>1, FS_CardinalityType DEF TreeOK
<1>3. {LenIn(B[j], call.who) : j \in rd.at} = {Cardinality(B[k].has[call.who])}
  BY DEF LenIn
<1>4. Max({Cardinality(B[k].has[call.who])}) = Cardinality(B[k].has[call.who])
  BY <1>2, MaxOfOne
<1>5. Counted(B) = Cardinality(rd.had) -
         (IF rd.stale THEN rd.len ELSE Cardinality(B[k].has[call.who]))
  BY <1>3, <1>4 DEF Counted
<1> QED BY <1>1, <1>2, <1>5

\* What is taken has been in the bucket.
LEMMA ConsumedItems ==
  ASSUME BaseInv, NEW B
  PROVE  Consumed(B) \subseteq Item
<1>1. /\ bucks \in [BucketKeys -> Bucket] /\ call.who \in Consumers /\ rd.at \subseteq BucketKeys
  BY DEF BaseInv, TypeOK
<1>2. \A k \in rd.at : bucks[k].has[call.who] \subseteq Item
  BY <1>1 DEF Bucket
<1> QED BY <1>2 DEF Consumed

\* Where the callback is, there is a bucket.
LEMMA ReadAtOne ==
  ASSUME BaseInv, rd # NoRead
  PROVE  \E k \in BucketKeys : rd.at = {k}
BY DEF BaseInv, Shape

\* When a tx.Push closes the bucket being read, its length is kept.
LEMMA ReadAmidLemma ==
  ASSUME BaseInv, NEW B
  PROVE  /\ rd = NoRead => ReadAmid(B) = rd
         /\ ReadAmid(B) \in ReadType /\ ReadAmid(B).at = rd.at
         /\ ReadAmid(B).had = rd.had /\ ReadAmid(B).out = rd.out
         /\ \/ /\ ReadAmid(B) = rd
               /\ rd.stale \/ \A k \in rd.at : B[k].st = "open"
            \/ /\ ~rd.stale /\ ReadAmid(B).stale
               /\ \A k \in rd.at : /\ ReadAmid(B).len = Cardinality(bucks[k].has[call.who])
                                    /\ B[k].st # "open"
<1>1. rd \in ReadType /\ call.who \in Consumers /\ TreeOK(bucks)
  BY DEF BaseInv, TypeOK, ReadType
<1>2. CASE \E k \in rd.at : ~rd.stale /\ B[k].st # "open"
  <2>1. PICK k \in BucketKeys : rd.at = {k}
    BY <1>2, NoTypes DEF BaseInv, Shape
  <2>2. Max({LenIn(bucks[j], call.who) : j \in rd.at}) = Cardinality(bucks[k].has[call.who])
    <3>1. {LenIn(bucks[j], call.who) : j \in rd.at} = {LenIn(bucks[k], call.who)}
      BY <2>1
    <3> QED BY <1>1, <2>1, <3>1, LenType, MaxOfOne
  <2>3. Cardinality(bucks[k].has[call.who]) \in Nat
    BY <1>1, LenType
  <2>4. PICK e \in BOOLEAN : e = \A j \in rd.at : AllEmpty(bucks[j])
    OBVIOUS
  <2>5. ReadAmid(B) = [rd EXCEPT !.stale = TRUE, !.len = Cardinality(bucks[k].has[call.who]),
                                 !.empty = e]
    BY <1>2, <2>2, <2>4 DEF ReadAmid
  <2>6. rd # NoRead
    BY <2>1, NoTypes
  <2> QED BY <1>1, <1>2, <2>1, <2>3, <2>5, <2>6 DEF ReadType
<1>3. CASE ~\E k \in rd.at : ~rd.stale /\ B[k].st # "open"
  <2>1. ReadAmid(B) = rd
    BY <1>3 DEF ReadAmid
  <2>2. rd.stale \/ \A k \in rd.at : B[k].st = "open"
    BY <1>3
  <2> QED BY <1>1, <2>1, <2>2
<1> QED BY <1>2, <1>3

\* Type correctness and the shape hold at the beginning.
LEMMA BaseInit == Init => BaseInv
<1> SUFFICES ASSUME Init PROVE BaseInv
  OBVIOUS
<1>1. TreeOK(bucks)
  <2>1. Absent \in Bucket /\ Absent.log = 0 /\ \A c \in Consumers : Absent.has[c] = {}
    BY DEF Absent, Bucket, NoTrailer
  <2> QED BY <2>1, FS_EmptySet DEF Init, TreeOK, Consumers
<1>2. opts \in [max : Int, abort : BOOLEAN] /\ opts.max # 0
  BY BucketsAssumption DEF Init
<1>3. TypeOK
  <2>1. MaxItems \in Nat /\ MaxRestarts \in Nat /\ <<>> \in Seq(Item)
    BY BucketsAssumption
  <2> QED BY <1>1, <1>2, <2>1, NoTypes DEF Init, TypeOK, TreeOK, CallType, ReadType
<1>4. Shape
  BY <1>2, NoTypes, FS_EmptySet DEF Init, Shape, Live
<1> QED BY <1>1, <1>3, <1>4 DEF BaseInv

\* Push and tx.Push take the items.
LEMMA BaseGiven ==
  ASSUME BaseInv, NEW keys \in Batches, Given(keys), pc \in {"idle", "callback"}
  PROVE  BaseInv'
<1>1. batch' \in Seq(Item) /\ batch' # <<>> /\ nextId' \in 0 .. MaxItems
  BY GivenLemma DEF BaseInv
<1>2. /\ pc' = "push" /\ UNCHANGED <<opts, bucks, forks, call, todo, dead, rd, restarts, uncounted>>
  BY DEF Given
<1>3. TypeOK'
  BY <1>1, <1>2 DEF BaseInv, TypeOK
<1>4. Shape'
  BY <1>1, <1>2 DEF BaseInv, Shape, Live
<1>5. TreeOK(bucks')
  BY <1>2 DEF BaseInv
<1> QED BY <1>3, <1>4, <1>5 DEF BaseInv, TreeOK

\* Opening the next bucket for pushed items.
LEMMA BasePushBucket ==
  ASSUME BaseInv, PushBucket
  PROVE  BaseInv'
<1>1. TreeOK(bucks')
  BY PushTree
<1>2. PICK rest : rest = SubSeq(batch, Cardinality(Part) + 1, Len(batch))
  OBVIOUS
<1>3. /\ batch' = rest /\ rd' = ReadAmid(ForKey(bucks, SplitFunc(batch[1].key)))
      /\ pc' = (IF rest # <<>> THEN "push" ELSE IF rd = NoRead THEN "idle" ELSE "callback")
      /\ UNCHANGED <<opts, forks, call, todo, dead, nextId, restarts>>
      /\ uncounted' \subseteq uncounted /\ pc = "push"
  BY <1>2 DEF PushBucket, Update
<1>4. rest \in Seq(Item)
  BY <1>2, PartLemma DEF BaseInv, Shape, TypeOK, PushBucket
<1>5. /\ rd' \in ReadType /\ rd'.at = rd.at /\ rd'.had = rd.had /\ rd'.out = rd.out
      /\ rd = NoRead => rd' = NoRead
  BY <1>3, ReadAmidLemma
<1>6. rd' = NoRead => rd = NoRead
  BY <1>5, ReadAtOne, NoTypes
<1>7. TypeOK'
  <2>1. bucks' \in [BucketKeys -> Bucket]
    BY <1>1 DEF TreeOK
  <2> QED BY <1>3, <1>4, <1>5, <2>1 DEF BaseInv, TypeOK, ReadType
<1>8. Shape'
  BY <1>3, <1>5, <1>6 DEF BaseInv, Shape, Live
<1> QED BY <1>1, <1>7, <1>8 DEF BaseInv, TreeOK

\* The beginning of a Read.
LEMMA BaseRead ==
  ASSUME BaseInv, Read
  PROVE  BaseInv'
<1>1. PICK c \in Live, n \in Ns : call' = [NoCall EXCEPT !.who = c, !.n = n, !.count = n]
  BY DEF Read
<1>2. n \in Nat /\ c \in Consumers
  BY LiveConsumers, BucketsAssumption DEF BaseInv, All
<1>3. call' \in CallType /\ call'.who = c
  <2>1. call' = [who |-> c, n |-> n, count |-> n, lo |-> 0, hi |-> 0, popped |-> {}]
    BY <1>1 DEF NoCall
  <2> QED BY <1>2, <2>1 DEF CallType
<1>4. todo' \subseteq BucketKeys
  BY DEF Read, InTree
<1>5. TypeOK'
  BY <1>3, <1>4 DEF BaseInv, TypeOK, Read, CallType
<1>6. Shape'
  BY <1>3 DEF BaseInv, Shape, Live, Read
<1> QED BY <1>5, <1>6 DEF BaseInv, TreeOK, Read

\* The next bucket of a Read.
LEMMA BaseReadBucket ==
  ASSUME BaseInv, ReadBucket
  PROVE  BaseInv'
<1>1. /\ NextBucket \in BucketKeys /\ TreeOK(bucks')
      /\ \A k \in BucketKeys : bucks'[k].has = bucks[k].has
  BY ReadTree
<1>2. PICK had : had = bucks'[NextBucket].has[call.who]
  OBVIOUS
<1>3. PICK out \in Peeked(had, call.count) :
        rd' = [NoRead EXCEPT !.at = {NextBucket}, !.out = out, !.had = had]
  BY <1>2 DEF ReadBucket, Update
<1>4. had \subseteq Item /\ IsFiniteSet(had)
  BY <1>1, <1>2 DEF BaseInv, TypeOK, TreeOK, Bucket
<1>5. out \subseteq had
  BY DEF Peeked
<1>6. /\ rd' \in ReadType /\ rd'.at = {NextBucket} /\ rd'.out = out /\ rd'.had = had
      /\ rd' # NoRead
  BY <1>1, <1>3, <1>4, <1>5, NoTypes DEF ReadType, NoRead
<1>7. TypeOK'
  <2>1. bucks' \in [BucketKeys -> Bucket]
    BY <1>1 DEF TreeOK
  <2> QED BY <1>6, <2>1 DEF BaseInv, TypeOK, ReadBucket, Update, ReadType
<1>8. Shape'
  BY <1>1, <1>4, <1>5, <1>6 DEF BaseInv, Shape, Live, ReadBucket
<1> QED BY <1>1, <1>7, <1>8 DEF BaseInv, TreeOK

\* What steps of every operation leave alone.
Rest == UNCHANGED <<opts, forks, batch, nextId, restarts>>

\* The end of an operation.
LEMMA BaseReturn ==
  ASSUME BaseInv, Return, Rest, TreeOK(bucks'), uncounted' \subseteq uncounted, pc # "push"
  PROVE  BaseInv'
<1>1. TypeOK'
  <2>1. bucks' \in [BucketKeys -> Bucket]
    BY DEF TreeOK
  <2> QED BY <2>1, NoTypes DEF BaseInv, TypeOK, Return, Rest, CallType, ReadType
<1>2. Shape'
  BY NoTypes, FS_EmptySet DEF BaseInv, Shape, Return, Rest, Live
<1> QED BY <1>1, <1>2 DEF BaseInv, TreeOK

\* A Read goes on to the next bucket.
LEMMA BaseOn ==
  ASSUME BaseInv, pc' = "iter", rd' = NoRead, UNCHANGED <<call, todo, dead>>, Rest,
         TreeOK(bucks'), uncounted' \subseteq uncounted, pc \in {"callback", "reap"}
  PROVE  BaseInv'
<1>1. TypeOK'
  <2>1. bucks' \in [BucketKeys -> Bucket]
    BY DEF TreeOK
  <2> QED BY <2>1, NoTypes DEF BaseInv, TypeOK, Rest, ReadType
<1>2. Shape'
  BY NoTypes, FS_EmptySet DEF BaseInv, Shape, Rest, Live
<1> QED BY <1>1, <1>2 DEF BaseInv, TreeOK

\* An error ends the Read, or it goes on.
LEMMA BaseReadError ==
  ASSUME BaseInv, ReadError, Rest, TreeOK(bucks'), uncounted' \subseteq uncounted,
         pc \in {"callback", "reap"}
  PROVE  BaseInv'
BY BaseReturn, BaseOn DEF ReadError

\* The callback returned.
LEMMA BaseServed ==
  ASSUME BaseInv, NEW B, TreeOK(B), Served(B), Rest, TreeOK(bucks'), uncounted' \subseteq uncounted,
         pc = "callback"
  PROVE  BaseInv'
<1>1. rd # NoRead
  BY DEF BaseInv, Shape
<1>2. PICK k \in BucketKeys : rd.at = {k}
  BY <1>1, ReadAtOne
<1>3. Counted(B) \in Int
  BY <1>2, CountedLemma
<1>4. /\ call' = [call EXCEPT !.count = call.count - Counted(B),
                              !.popped = call.popped \cup Consumed(B)]
      /\ pc' = "reap" /\ UNCHANGED <<todo, dead, rd>>
  BY DEF Served
<1>5. call \in CallType /\ Consumed(B) \subseteq Item
  BY ConsumedItems DEF BaseInv, TypeOK, CallType
<1>6. call' \in CallType /\ call'.who = call.who
  <2>1. PICK n, P : n = call.count - Counted(B) /\ P = call.popped \cup Consumed(B)
    OBVIOUS
  <2>2. n \in Int /\ P \in SUBSET Item
    BY <1>3, <1>5, <2>1 DEF CallType
  <2> QED BY <1>4, <1>5, <2>1, <2>2 DEF CallType
<1>7. TypeOK'
  <2>1. bucks' \in [BucketKeys -> Bucket]
    BY DEF TreeOK
  <2> QED BY <1>4, <1>6, <2>1 DEF BaseInv, TypeOK, Rest, CallType
<1>8. Shape'
  BY <1>1, <1>4, <1>6 DEF BaseInv, Shape, Rest, Live
<1> QED BY <1>7, <1>8 DEF BaseInv, TreeOK

\* The callback consumes what it got.
LEMMA BasePop ==
  ASSUME BaseInv, Pop
  PROVE  BaseInv'
<1>1. TreeOK(bucks') /\ uncounted' \subseteq uncounted /\ Rest /\ pc = "callback" /\ TreeOK(bucks)
  BY PopTree DEF Pop, Rest, BaseInv
<1>2. ReadError \/ Served(bucks) \/ Served(bucks')
  BY DEF Pop, Update
<1> QED BY <1>1, <1>2, BaseReadError, BaseServed

\* The callback only looks, or fails.
LEMMA BasePeek ==
  ASSUME BaseInv, Peek \/ CallbackErr
  PROVE  BaseInv'
<1>1. TreeOK(bucks') /\ uncounted' \subseteq uncounted /\ Rest /\ pc = "callback" /\ TreeOK(bucks)
  BY DEF Peek, CallbackErr, Rest, BaseInv
<1>2. ReadError \/ Served(bucks)
  BY DEF Peek, CallbackErr
<1> QED BY <1>1, <1>2, BaseReadError, BaseServed

\* A drained bucket goes, and the Read ends or goes on.
LEMMA BaseReap ==
  ASSUME BaseInv, Reap
  PROVE  BaseInv'
<1>1. TreeOK(bucks')
  BY WithoutLemma DEF BaseInv, Reap, Update
<1>2. uncounted' \subseteq uncounted /\ Rest /\ pc = "reap"
  BY DEF Reap, Update, Rest
<1>3. Return \/ (pc' = "iter" /\ rd' = NoRead /\ UNCHANGED <<call, todo, dead>>)
  BY DEF Reap
<1> QED BY <1>1, <1>2, <1>3, BaseReturn, BaseOn

\* A Read, a Delete or a Clear has come to its end.
LEMMA BaseEnd ==
  ASSUME BaseInv, ReadEnd \/ DeleteEnd \/ ClearEnd
  PROVE  BaseInv'
<1>1. TreeOK(bucks') /\ uncounted' \subseteq uncounted
  BY WithoutLemma DEF BaseInv, ReadEnd, DeleteEnd, ClearEnd, Update
<1>2. Return /\ Rest /\ pc # "push"
  BY DEF ReadEnd, DeleteEnd, ClearEnd, Rest
<1> QED BY <1>1, <1>2, BaseReturn

\* The beginning of a Delete or a Clear.
LEMMA BaseBegin ==
  ASSUME BaseInv, Delete \/ Clear
  PROVE  BaseInv'
<1>1. CASE Delete
  <2>1. PICK c \in Live, r \in Ranges :
          /\ call' = [NoCall EXCEPT !.who = c, !.lo = r[1], !.hi = r[2]]
          /\ todo' = InRange(r[1], r[2])
    BY <1>1 DEF Delete
  <2>2. c \in Consumers /\ r[1] \in Int /\ r[2] \in Int
    BY LiveConsumers, BucketsAssumption DEF BaseInv
  <2>3. call' \in CallType /\ call'.who = c
    <3>1. call' = [who |-> c, n |-> 0, count |-> 0, lo |-> r[1], hi |-> r[2], popped |-> {}]
      BY <2>1 DEF NoCall
    <3> QED BY <2>2, <3>1 DEF CallType
  <2>4. todo' \subseteq BucketKeys
    BY <2>1 DEF InRange, InTree
  <2>5. TypeOK'
    BY <1>1, <2>3, <2>4 DEF BaseInv, TypeOK, Delete, CallType
  <2>6. Shape'
    BY <1>1, <2>3 DEF BaseInv, Shape, Live, Delete
  <2> QED BY <1>1, <2>5, <2>6 DEF BaseInv, TreeOK, Delete
<1>2. CASE Clear
  <2>1. todo' \subseteq BucketKeys
    BY <1>2 DEF InTree, Clear
  <2>2. TypeOK'
    BY <1>2, <2>1 DEF BaseInv, TypeOK, Clear
  <2>3. Shape'
    BY <1>2 DEF BaseInv, Shape, Live, Clear
  <2> QED BY <1>2, <2>2, <2>3 DEF BaseInv, TreeOK, Clear
<1> QED BY <1>1, <1>2

\* A step of a Delete or of a Clear.
LEMMA BaseSweep ==
  ASSUME BaseInv, DeleteBucket \/ ClearBucket
  PROVE  BaseInv'
<1>1. TreeOK(bucks') /\ dead' \subseteq BucketKeys /\ (pc # "delete" => dead' = {})
  <2>1. CASE DeleteBucket
    <3>1. PICK key : key = Min(todo)
      OBVIOUS
    <3>2. /\ TreeOK(bucks') /\ key \in BucketKeys
          /\ dead' = IF AllEmpty(bucks'[key]) THEN dead \cup {key} ELSE dead
      BY <2>1, <3>1, DeleteTree
    <3> QED BY <2>1, <3>2 DEF BaseInv, TypeOK, DeleteBucket
  <2>2. CASE ClearBucket
    BY <2>2, WithoutLemma DEF BaseInv, ClearBucket, Update, TypeOK, Shape
  <2> QED BY <2>1, <2>2
<1>2. /\ Rest /\ UNCHANGED <<pc, call, rd>> /\ todo' \subseteq todo /\ uncounted' \subseteq uncounted
      /\ pc \in {"delete", "clear"}
  BY DEF DeleteBucket, ClearBucket, Rest, Update
<1>3. TypeOK'
  <2>1. bucks' \in [BucketKeys -> Bucket]
    BY <1>1 DEF TreeOK
  <2> QED BY <1>1, <1>2, <2>1 DEF BaseInv, TypeOK, Rest
<1>4. Shape'
  BY <1>1, <1>2 DEF BaseInv, Shape, Rest, Live
<1> QED BY <1>1, <1>3, <1>4 DEF BaseInv, TreeOK

\* Forks, and reopening.
LEMMA BaseForks ==
  ASSUME BaseInv, Fork \/ RemoveFork \/ Restart
  PROVE  BaseInv'
<1>1. /\ UNCHANGED <<opts, pc, call, todo, dead, rd, batch, nextId>> /\ pc = "idle"
      /\ restarts' \in 0 .. MaxRestarts
  BY BucketsAssumption DEF Fork, RemoveFork, Restart, BaseInv, TypeOK
<1>2. /\ TreeOK(bucks') /\ forks' \subseteq Forks
      /\ uncounted' \subseteq BucketKeys \X Forks
  <2>1. CASE Fork
    <3>1. PICK dst \in Forks \ forks :
            /\ TreeOK(bucks') /\ forks' = forks \cup {dst}
            /\ uncounted' = uncounted \cup {<<k, dst>> : k \in InTree(bucks) \ OpenIn(bucks)}
      BY <2>1, ForkTree
    <3>2. InTree(bucks) \subseteq BucketKeys
      BY DEF InTree
    <3> QED BY <3>1, <3>2 DEF BaseInv, TypeOK
  <2>2. CASE RemoveFork
    BY <2>2, RemoveForkTree DEF BaseInv, TypeOK
  <2>3. CASE Restart
    BY <2>3, RestartTree DEF BaseInv, TypeOK, Restart, Update
  <2> QED BY <2>1, <2>2, <2>3
<1>3. TypeOK'
  <2>1. bucks' \in [BucketKeys -> Bucket]
    BY <1>2 DEF TreeOK
  <2> QED BY <1>1, <1>2, <2>1 DEF BaseInv, TypeOK
<1>4. Shape'
  <2>1. call = NoCall
    BY <1>1 DEF BaseInv, Shape
  <2> QED BY <1>1, <2>1, NoTypes DEF BaseInv, Shape, Live
<1> QED BY <1>2, <1>3, <1>4 DEF BaseInv, TreeOK

\* Every step keeps types and shape.
LEMMA BaseStep ==
  ASSUME BaseInv, [Next]_vars
  PROVE  BaseInv'
<1>1. CASE Push \/ TxPush
  BY <1>1, BaseGiven DEF Push, TxPush
<1>2. CASE UNCHANGED vars
  BY <1>2 DEF vars, BaseInv, TypeOK, Shape, TreeOK, Live
<1> QED BY <1>1, <1>2, BasePushBucket, BaseRead, BaseReadBucket, BasePop, BasePeek, BaseReap,
          BaseEnd, BaseBegin, BaseSweep, BaseForks DEF Next

\* The variables have their types, whatever the constants are.
THEOREM BucketsTypes == Spec => []TypeOK
<1>1. BaseInv => TypeOK
  BY DEF BaseInv
<1> QED BY <1>1, BaseInit, BaseStep, PTL DEF Spec

-----------------------------------------------------------------------------
(* The limit on open buckets                                               *)

\* Every step keeps the limit.
LEMMA LimitStep ==
  ASSUME BaseInv, OpenLimit, [Next]_vars
  PROVE  OpenLimit'
<1>1. opts.max \in Int /\ TreeOK(bucks)
  BY DEF BaseInv, TypeOK
<1>2. ASSUME UNCHANGED <<bucks, opts>> PROVE OpenLimit'
  BY <1>2 DEF OpenLimit, OpenIn
<1>3. CASE \/ Push \/ TxPush \/ Read \/ ReadEnd \/ Peek \/ CallbackErr \/ Delete \/ Clear
           \/ ClearEnd \/ UNCHANGED vars
  BY <1>2, <1>3 DEF Push, TxPush, Given, Read, ReadEnd, Peek, CallbackErr, Delete, Clear, ClearEnd, vars
<1>4. CASE PushBucket \/ ReadBucket \/ DeleteBucket \/ Restart
  BY <1>4, PushTree, ReadTree, DeleteTree, RestartTree
<1>5. CASE Pop
  BY <1>1, <1>5, PopTree, FewerOpen DEF OnlyItems, Pop
<1>6. CASE Reap \/ DeleteEnd \/ ClearBucket
  <2>1. PICK ks : bucks' = Without(bucks, ks)
    BY <1>6 DEF Reap, DeleteEnd, ClearBucket, Update
  <2>2. \A k \in BucketKeys : bucks'[k].st = "open" => bucks[k].st = "open"
    BY <1>1, <2>1, WithoutLemma
  <2>3. opts' = opts
    BY <1>6 DEF Reap, DeleteEnd, ClearBucket
  <2> QED BY <1>1, <2>2, <2>3, FewerOpen
<1>7. CASE Fork
  BY <1>1, <1>7, ForkTree, FewerOpen DEF OnlyItems, Fork
<1>8. CASE RemoveFork
  <2>1. PICK gone \in SUBSET BucketKeys :
          /\ \A k \in gone : bucks'[k] = Absent
          /\ \A k \in BucketKeys \ gone : bucks'[k].st = bucks[k].st
    BY <1>8, RemoveForkTree
  <2>2. \A k \in BucketKeys : bucks'[k].st = "open" => bucks[k].st = "open"
    BY <2>1 DEF Absent
  <2>3. opts' = opts
    BY <1>8 DEF RemoveFork
  <2> QED BY <1>1, <2>2, <2>3, FewerOpen
<1> QED BY <1>3, <1>4, <1>5, <1>6, <1>7, <1>8 DEF Next

\* forKey and closeUnused keep the number of open buckets below the limit of
\* MaxParallelOpenBuckets, for every limit, tree and sequence of operations.
THEOREM NeverTooManyOpen == Spec => []OpenLimit
<1>1. Init => OpenLimit
  <2>1. Init => OpenIn(bucks) = {}
    BY DEF Init, OpenIn, Absent
  <2> QED BY <2>1, FS_EmptySet, BaseInit DEF OpenLimit, BaseInv, TypeOK
<1>2. BaseInv /\ OpenLimit /\ [Next]_vars => BaseInv' /\ OpenLimit'
  BY BaseStep, LimitStep
<1> QED BY <1>1, <1>2, BaseInit, PTL DEF Spec

-----------------------------------------------------------------------------
(* What a Read asked for                                                   *)

\* The callback returned: the count is not more than what it got less.
LEMMA AskedServed ==
  ASSUME BaseInv, Asked, pc = "callback", NEW B, TreeOK(B), Served(B),
         ~rd.stale => \A k \in rd.at : bucks[k].has[call.who] \ rd.out \subseteq B[k].has[call.who]
  PROVE  Asked'
<1>1. rd # NoRead /\ InCallback
  BY DEF BaseInv, Shape, InCallback
<1>2. PICK k \in BucketKeys : rd.at = {k}
  BY <1>1, ReadAtOne
<1>3. /\ Counted(B) = Cardinality(rd.had) -
            (IF rd.stale THEN rd.len ELSE Cardinality(B[k].has[call.who]))
      /\ Cardinality(rd.had) \in Nat /\ Cardinality(B[k].has[call.who]) \in Nat
  BY <1>2, CountedLemma
<1>4. /\ call \in CallType /\ call.who \in Consumers /\ call.count \in Int /\ rd.len \in Nat
      /\ rd.stale \in BOOLEAN /\ IsFiniteSet(rd.had) /\ rd.out \subseteq rd.had
  BY DEF BaseInv, TypeOK, Shape, CallType
<1>5. /\ Cardinality(rd.out) <= call.count
      /\ rd.stale => Cardinality(rd.had) <= rd.len
      /\ ~rd.stale => rd.had \subseteq bucks[k].has[call.who]
  BY <1>1, <1>2 DEF Asked
<1>6. /\ IsFiniteSet(rd.out) /\ Cardinality(rd.out) \in Nat /\ IsFiniteSet(rd.had \ rd.out)
      /\ Cardinality(rd.had \ rd.out) = Cardinality(rd.had) - Cardinality(rd.out)
  <2>1. PICK H, O : H = rd.had /\ O = rd.out
    OBVIOUS
  <2>2. IsFiniteSet(H) /\ O \subseteq H /\ H \cap O = O
    BY <1>4, <2>1
  <2>3. IsFiniteSet(O) /\ IsFiniteSet(H \ O)
    BY <2>2, FS_Subset
  <2>4. Cardinality(O) \in Nat
    BY <2>3, FS_CardinalityType
  <2>5. Cardinality(H \ O) = Cardinality(H) - Cardinality(H \cap O)
    BY <2>2, FS_Difference
  <2> QED BY <2>1, <2>2, <2>3, <2>4, <2>5
<1>7. Counted(B) <= call.count /\ Counted(B) \in Int
  <2>1. CASE rd.stale
    BY <1>3, <1>4, <1>5, <1>6, <2>1
  <2>2. CASE ~rd.stale
    <3>1. rd.had \ rd.out \subseteq B[k].has[call.who]
      BY <1>2, <1>5, <2>2
    <3>2. IsFiniteSet(B[k].has[call.who])
      BY <1>4 DEF TreeOK
    <3>3. Cardinality(rd.had \ rd.out) <= Cardinality(B[k].has[call.who])
      BY <3>1, <3>2, FS_Subset
    <3> QED BY <1>3, <1>4, <1>5, <1>6, <2>2, <3>3
  <2> QED BY <2>1, <2>2
<1>8. call' = [call EXCEPT !.count = call.count - Counted(B),
                              !.popped = call.popped \cup Consumed(B)] /\ pc' = "reap"
  BY DEF Served
<1>9. call'.count = call.count - Counted(B)
  BY <1>4, <1>8 DEF CallType
<1>10. call'.count >= 0
  BY <1>4, <1>7, <1>9
<1> QED BY <1>8, <1>10 DEF Asked, InCallback

\* Every step keeps it.
LEMMA AskedStep ==
  ASSUME BaseInv, Asked, [Next]_vars
  PROVE  Asked'
<1>0. BaseInv' /\ TreeOK(bucks) /\ call.count \in Int
  BY BaseStep DEF BaseInv, TypeOK
<1>1. CASE Push \/ Delete \/ Clear \/ DeleteBucket \/ ClearBucket \/ Fork \/ RemoveFork \/ Restart
  <2>1. rd = NoRead /\ rd' = rd /\ pc' # "iter"
    BY <1>1 DEF Push, Given, Delete, Clear, DeleteBucket, ClearBucket, Fork, RemoveFork, Restart,
       BaseInv, Shape
  <2>2. call'.count >= 0
    <3>1. CASE Delete
      <4>1. PICK c \in Live, r \in Ranges : call' = [NoCall EXCEPT !.who = c, !.lo = r[1], !.hi = r[2]]
        BY <3>1 DEF Delete
      <4> QED BY <4>1 DEF NoCall
    <3>2. CASE ~Delete
      <4>1. call' = call
        BY <1>1, <3>2 DEF Push, Given, Clear, DeleteBucket, ClearBucket, Fork, RemoveFork, Restart
      <4> QED BY <4>1 DEF Asked
    <3> QED BY <3>1, <3>2
  <2> QED BY <2>1, <2>2 DEF Asked, InCallback
<1>2. CASE TxPush \/ UNCHANGED vars
  BY <1>2 DEF TxPush, Given, Asked, InCallback, BaseInv, Shape, vars
<1>3. CASE PushBucket
  <2>1. PICK key : key = SplitFunc(batch[1].key)
    OBVIOUS
  <2>2. PICK B : B = ForKey(bucks, key)
    OBVIOUS
  <2>3. /\ \A k \in BucketKeys, c \in Consumers : bucks[k].has[c] \subseteq bucks'[k].has[c]
        /\ \A k \in BucketKeys : B[k].st = bucks'[k].st
    BY <1>3, <2>1, <2>2, PushTree
  <2>4. rd' = ReadAmid(B) /\ UNCHANGED <<call, opts>> /\ pc = "push" /\ pc' \in {"push", "idle", "callback"}
    BY <1>3, <2>1, <2>2 DEF PushBucket
  <2>5. /\ rd = NoRead => rd' = rd
        /\ rd'.at = rd.at /\ rd'.had = rd.had /\ rd'.out = rd.out
        /\ \/ /\ rd' = rd
              /\ rd.stale \/ \A k \in rd.at : B[k].st = "open"
           \/ /\ ~rd.stale /\ rd'.stale
              /\ \A k \in rd.at : /\ rd'.len = Cardinality(bucks[k].has[call.who])
                                   /\ B[k].st # "open"
    BY <2>4, ReadAmidLemma
  <2>6. CASE rd = NoRead
    BY <2>4, <2>5, <2>6 DEF Asked, InCallback
  <2>7. CASE rd # NoRead
    <3>1. PICK k \in BucketKeys : rd.at = {k}
      BY <2>7, ReadAtOne
    <3>2. /\ InCallback /\ call.count > 0 /\ Cardinality(rd.out) <= call.count
          /\ rd.stale => Cardinality(rd.had) <= rd.len
          /\ ~rd.stale => rd.had \subseteq bucks[k].has[call.who]
      BY <2>4, <2>7, <3>1 DEF Asked, InCallback
    <3>3. call.who \in Consumers /\ IsFiniteSet(bucks[k].has[call.who])
      BY <1>0 DEF BaseInv, TypeOK, TreeOK
    <3>4. ~rd.stale => Cardinality(rd.had) <= Cardinality(bucks[k].has[call.who])
      BY <3>2, <3>3, FS_Subset
    <3>5. ~rd.stale => rd.had \subseteq bucks'[k].has[call.who]
      BY <2>3, <3>2, <3>3
    <3>6. rd'.stale => Cardinality(rd'.had) <= rd'.len
      BY <2>5, <3>1, <3>2, <3>4
    <3>7. ~rd'.stale => bucks'[k].st = "open" /\ rd'.had \subseteq bucks'[k].has[call.who]
      BY <2>3, <2>5, <3>1, <3>5
    <3> QED BY <1>0, <2>4, <2>5, <3>1, <3>2, <3>6, <3>7 DEF Asked, InCallback
  <2> QED BY <2>6, <2>7
<1>4. CASE Read
  <2>1. PICK c \in Live, n \in Ns : call' = [NoCall EXCEPT !.who = c, !.n = n, !.count = n]
    BY <1>4 DEF Read
  <2>2. call'.count = n /\ n >= 1 /\ n \in Int
    BY <2>1, BucketsAssumption DEF NoCall, All
  <2>3. rd' = NoRead
    BY <1>4 DEF Read, BaseInv, Shape
  <2> QED BY <2>2, <2>3 DEF Asked, InCallback
<1>5. CASE ReadBucket
  <2>1. /\ NextBucket \in BucketKeys /\ TreeOK(bucks') /\ bucks'[NextBucket].st = "open"
    BY <1>5, ReadTree DEF Opened
  <2>2. PICK had : had = bucks'[NextBucket].has[call.who]
    OBVIOUS
  <2>3. PICK out \in Peeked(had, call.count) :
          rd' = [NoRead EXCEPT !.at = {NextBucket}, !.out = out, !.had = had]
    BY <1>5, <2>2 DEF ReadBucket, Update
  <2>4. /\ rd'.at = {NextBucket} /\ rd'.had = had /\ rd'.out = out /\ rd'.stale = FALSE
    BY <2>3 DEF NoRead
  <2>5. UNCHANGED call /\ pc' = "callback" /\ call.count > 0
    BY <1>5 DEF ReadBucket, Asked
  <2>6. Cardinality(out) <= call.count
    <3>1. Cardinality(out) = Min({call.count, Cardinality(had)})
      BY <2>3 DEF Peeked
    <3>2. Cardinality(had) \in Int
      <4>1. IsFiniteSet(had)
        BY <2>1, <2>2 DEF BaseInv, TypeOK, TreeOK
      <4> QED BY <4>1, FS_CardinalityType
    <3>3. /\ Min({call.count, Cardinality(had)}) <= call.count
      <4>1. {call.count, Cardinality(had)} \subseteq Int /\ IsFiniteSet({call.count, Cardinality(had)})
        <5>1. IsFiniteSet({call.count})
          BY FS_Singleton
        <5>2. IsFiniteSet({call.count} \cup {Cardinality(had)})
          BY <5>1, FS_AddElement
        <5>3. {call.count} \cup {Cardinality(had)} = {call.count, Cardinality(had)}
          OBVIOUS
        <5> QED BY <1>0, <3>2, <5>2, <5>3
      <4> QED BY <4>1, MinOfFinite
    <3> QED BY <3>1, <3>3
  <2> QED BY <1>0, <2>1, <2>2, <2>4, <2>5, <2>6 DEF Asked, InCallback
<1>6. CASE ReadEnd \/ DeleteEnd \/ ClearEnd
  <2>1. Return
    BY <1>6 DEF ReadEnd, DeleteEnd, ClearEnd
  <2> QED BY <2>1, NoTypes DEF Return, Asked, InCallback
<1>7. ASSUME ReadError, pc = "callback" PROVE Asked'
  <2>1. call.count > 0
    BY <1>7 DEF Asked, InCallback, BaseInv, Shape
  <2> QED BY <1>0, <1>7, <2>1, NoTypes DEF ReadError, Return, Asked, InCallback
<1>8. CASE Pop
  <2>1. /\ TreeOK(bucks') /\ pc = "callback"
        /\ \A k \in BucketKeys, c \in Consumers : bucks[k].has[c] \ rd.out \subseteq bucks'[k].has[c]
    BY <1>8, PopTree DEF Pop
  <2>2. \/ ReadError
        \/ Served(bucks)
        \/ Served(bucks')
    BY <1>8 DEF Pop, Update
  <2>3. rd.at \subseteq BucketKeys /\ call.who \in Consumers
    BY DEF BaseInv, TypeOK
  <2> QED BY <1>0, <1>7, <2>1, <2>2, <2>3, AskedServed
<1>9. CASE Peek
  <2>1. Served(bucks) /\ pc = "callback"
    BY <1>9 DEF Peek
  <2> QED BY <1>0, <2>1, AskedServed
<1>10. CASE CallbackErr
  BY <1>7, <1>10 DEF CallbackErr
<1>11. CASE Reap
  BY <1>0, <1>11, NoTypes DEF Reap, Return, Asked, InCallback
<1> QED BY <1>1, <1>2, <1>3, <1>4, <1>5, <1>6, <1>8, <1>9, <1>10, <1>11 DEF Next

-----------------------------------------------------------------------------
(* Every item in its place                                                 *)

\* Where the items of a bucket come from: they have been there for one of the
\* consumers, or are the part that is being pushed to it.  A bucket that is
\* not in the tree has just been removed, or got nothing.
LEMMA WhereFrom ==
  ASSUME BaseInv, [Next]_vars, NEW k \in BucketKeys
  PROVE  /\ \A c \in Consumers : \A x \in bucks'[k].has[c] :
               \/ \E d \in Consumers : x \in bucks[k].has[d]
               \/ PushBucket /\ k = SplitFunc(batch[1].key) /\ x \in Part
         /\ bucks'[k].st = "absent" =>
               \/ \A c \in Consumers : bucks'[k].has[c] = {}
               \/ /\ bucks[k].st = "absent"
                  /\ \A c \in Consumers : bucks'[k].has[c] \subseteq bucks[k].has[c]
<1>1. TreeOK(bucks)
  BY DEF BaseInv
<1>2. CASE bucks' = bucks
  BY <1>2
<1>3. CASE PushBucket
  <2>1. PICK key : key = SplitFunc(batch[1].key)
    OBVIOUS
  <2>2. /\ \A c \in Consumers :
               bucks'[k].has[c] = IF k = key /\ c \in Live THEN bucks[k].has[c] \cup Part
                                  ELSE bucks[k].has[c]
        /\ Opened(bucks, bucks', key)
    BY <1>3, <2>1, PushTree
  <2>3. bucks'[k].st = "absent" => k # key /\ bucks[k].st = "absent"
    BY <2>2 DEF Opened
  <2> QED BY <1>3, <2>1, <2>2, <2>3
<1>4. CASE ReadBucket
  <2>1. bucks'[k].has = bucks[k].has /\ Opened(bucks, bucks', NextBucket)
    BY <1>4, ReadTree
  <2>2. bucks'[k].st = "absent" => bucks[k].st = "absent"
    BY <2>1 DEF Opened
  <2> QED BY <2>1, <2>2
<1>5. CASE DeleteBucket
  <2>1. PICK key : key = Min(todo)
    OBVIOUS
  <2>2. /\ \A c \in Consumers :
               bucks'[k].has[c] = IF k = key /\ c = call.who /\ ~(key > call.hi)
                                  THEN {x \in bucks[k].has[c] : ~Hit(x)} ELSE bucks[k].has[c]
        /\ Opened(bucks, bucks', key)
    BY <1>5, <2>1, DeleteTree
  <2>3. bucks'[k].st = "absent" => k # key /\ bucks[k].st = "absent"
    BY <2>2 DEF Opened
  <2> QED BY <2>2, <2>3
<1>6. CASE Pop
  <2>1. /\ OnlyItems(bucks, bucks')
        /\ \A c \in Consumers :
               bucks'[k].has[c] = IF k \in rd.at /\ c = call.who /\ ~rd.stale
                                  THEN bucks[k].has[c] \ rd.out ELSE bucks[k].has[c]
    BY <1>6, PopTree
  <2> QED BY <2>1 DEF OnlyItems
<1>7. CASE Reap \/ DeleteEnd \/ ClearBucket
  <2>1. PICK ks : bucks' = Without(bucks, ks)
    BY <1>7 DEF Reap, DeleteEnd, ClearBucket, Update
  <2> QED BY <1>1, <2>1, WithoutLemma
<1>8. CASE Fork
  <2>1. PICK src \in Live, dst \in Forks \ forks :
          /\ OnlyItems(bucks, bucks')
          /\ \A c \in Consumers :
                 bucks'[k].has[c] = IF c = dst /\ bucks[k].st # "absent" THEN bucks[k].has[src]
                                    ELSE bucks[k].has[c]
    BY <1>8, ForkTree
  <2>2. src \in Consumers
    BY LiveConsumers DEF BaseInv
  <2> QED BY <2>1, <2>2 DEF OnlyItems
<1>9. CASE RemoveFork
  <2>1. PICK f \in forks, gone \in SUBSET BucketKeys :
          /\ k \in gone => bucks'[k] = Absent
          /\ k \notin gone =>
                /\ bucks'[k].st = bucks[k].st
                /\ \A c \in Consumers :
                      bucks'[k].has[c] = IF c = f THEN {} ELSE bucks[k].has[c]
    BY <1>9, RemoveForkTree
  <2> QED BY <2>1 DEF Absent
<1>10. CASE Restart
  BY <1>10, RestartTree
<1>11. CASE \/ Push \/ TxPush \/ Read \/ ReadEnd \/ Peek \/ CallbackErr \/ Delete \/ Clear
            \/ ClearEnd \/ UNCHANGED vars
  BY <1>2, <1>11 DEF Push, TxPush, Given, Read, ReadEnd, Peek, CallbackErr, Delete, Clear, ClearEnd, vars
<1> QED BY <1>3, <1>4, <1>5, <1>6, <1>7, <1>8, <1>9, <1>10, <1>11 DEF Next

\* The items to be pushed are new ones, or what is left of them.
LEMMA BatchStep ==
  ASSUME BaseInv, [Next]_vars
  PROVE  \/ \E keys \in Batches : Given(keys) /\ pc \in {"idle", "callback"}
         \/ PushBucket /\ batch' = SubSeq(batch, Cardinality(Part) + 1, Len(batch)) /\ nextId' = nextId
         \/ UNCHANGED <<batch, nextId>>
<1>1. CASE Push \/ TxPush
  BY <1>1 DEF Push, TxPush
<1>2. CASE PushBucket
  BY <1>2 DEF PushBucket
<1>3. CASE ~(Push \/ TxPush \/ PushBucket)
  BY <1>3 DEF Next, vars, Read, ReadBucket, ReadEnd, Pop, Peek, CallbackErr, Reap, Delete,
     DeleteBucket, DeleteEnd, Clear, ClearBucket, ClearEnd, Fork, RemoveFork, Restart
<1> QED BY <1>1, <1>2, <1>3

\* Every item is in the bucket of its key, also for consumers that are gone.
Placed == \A k \in BucketKeys, c \in Consumers : \A x \in bucks[k].has[c] : SplitFunc(x.key) = k

PlaceInv == AbsentEmpty /\ Sorted /\ Placed

\* Sorting, cutting and pushing keep the items in their places.
LEMMA PlaceStep ==
  ASSUME NearKeys, BaseInv, PlaceInv, [Next]_vars
  PROVE  PlaceInv'
<1>1. Sorted'
  <2>1. CASE \E keys \in Batches : Given(keys)
    BY <2>1, GivenLemma DEF Sorted, BaseInv
  <2>2. CASE PushBucket /\ batch' = SubSeq(batch, Cardinality(Part) + 1, Len(batch))
    <3>1. batch \in Seq(Item) /\ batch # <<>>
      BY <2>2 DEF BaseInv, TypeOK, Shape, PushBucket
    <3> QED BY <2>2, <3>1, PartLemma DEF PlaceInv, Sorted
  <2>3. CASE batch' = batch
    BY <2>3 DEF PlaceInv, Sorted, Distinct, Ascends
  <2> QED BY <2>1, <2>2, <2>3, BatchStep
<1>2. AbsentEmpty'
  BY WhereFrom DEF PlaceInv, AbsentEmpty
<1>3. Placed'
  <2> SUFFICES ASSUME NEW k \in BucketKeys, NEW c \in Consumers, NEW x \in bucks'[k].has[c]
               PROVE  SplitFunc(x.key) = k
    BY DEF Placed
  <2>1. CASE \E d \in Consumers : x \in bucks[k].has[d]
    BY <2>1 DEF PlaceInv, Placed
  <2>2. CASE PushBucket /\ k = SplitFunc(batch[1].key) /\ x \in Part
    <3>1. batch \in Seq(Item) /\ batch # <<>>
      BY <2>2 DEF BaseInv, TypeOK, Shape, PushBucket
    <3> QED BY <2>2, <3>1, PartLemma DEF PlaceInv, Sorted
  <2> QED BY <2>1, <2>2, WhereFrom
<1> QED BY <1>1, <1>2, <1>3 DEF PlaceInv

\* At the beginning there are no items.
LEMMA PlaceInit == Init => PlaceInv
<1> SUFFICES ASSUME Init PROVE PlaceInv
  OBVIOUS
<1>1. \A k \in BucketKeys, c \in Consumers : bucks[k].has[c] = {}
  BY DEF Init, Absent
<1>2. DOMAIN batch = {}
  BY DEF Init
<1> QED BY <1>1, <1>2 DEF PlaceInv, AbsentEmpty, Sorted, Distinct, Ascends, Placed

\* Pushing puts every item into the bucket of its key, whatever the keys, the
\* split function and the batches, if no comparison of two keys overflows
\* (buckets.Push, pushSorted, binsplit); and the key of a bucket is that of its
\* own bucket, as ValidateBucketKeys wants it on reopening.
THEOREM ItemsInPlace ==
  ASSUME NearKeys
  PROVE  Spec => []InPlace
<1>1. BaseInv /\ PlaceInv /\ [Next]_vars => BaseInv' /\ PlaceInv'
  BY BaseStep, PlaceStep
<1>2. PlaceInv => InPlace
  <2>1. ASSUME NEW k \in BucketKeys PROVE SplitFunc(k) = k
    BY BucketsAssumption, SplitIdempotent DEF BucketKeys
  <2> QED BY <2>1 DEF PlaceInv, Placed, InPlace, InTree
<1> QED BY <1>1, <1>2, BaseInit, PlaceInit, PTL DEF Spec

-----------------------------------------------------------------------------
(* Len                                                                     *)

\* Every step keeps the trailers right: a bucket that is closed gets new ones,
\* and only open buckets change.
LEMMA TrailersStep ==
  ASSUME BaseInv, Asked, Trailers, [Next]_vars
  PROVE  Trailers'
<1> SUFFICES ASSUME NEW k \in BucketKeys, NEW c \in Live',
                    bucks'[k].st = "nil", <<k, c>> \notin uncounted'
             PROVE  bucks'[k].trail[c] = Cardinality(bucks'[k].has[c])
  BY DEF Trailers
<1>1. TreeOK(bucks) /\ BaseInv' /\ c \in Consumers
  BY BaseStep, LiveConsumers DEF BaseInv, Live, Consumers, TypeOK
<1>2. ASSUME c \in Live, <<k, c>> \notin uncounted, bucks[k].st = "nil",
             bucks'[k].trail = bucks[k].trail, bucks'[k].has[c] = bucks[k].has[c]
      PROVE  bucks'[k].trail[c] = Cardinality(bucks'[k].has[c])
  BY <1>2 DEF Trailers
<1>3. ASSUME NEW B, Update(B) PROVE bucks' = B /\ <<k, c>> \notin uncounted
  BY <1>3 DEF Update
<1>4. ASSUME NEW key \in BucketKeys, Opened(bucks, bucks', key), <<k, c>> \notin uncounted, forks' = forks,
             k # key => bucks'[k].has[c] = bucks[k].has[c]
      PROVE  bucks'[k].trail[c] = Cardinality(bucks'[k].has[c])
  <2>1. c \in Live /\ k # key
    BY <1>4 DEF Live, Opened
  <2>2. CASE bucks'[k].st = bucks[k].st /\ bucks'[k].trail = bucks[k].trail
    BY <1>2, <1>4, <2>1, <2>2
  <2>3. CASE \A d \in Consumers : d \in Live => bucks'[k].trail[d] = Cardinality(bucks[k].has[d])
    BY <1>1, <1>4, <2>1, <2>3
  <2> QED BY <1>4, <2>1, <2>2, <2>3 DEF Opened
<1>5. CASE PushBucket
  <2>1. PICK key : key = SplitFunc(batch[1].key)
    OBVIOUS
  <2>2. /\ key \in BucketKeys /\ Opened(bucks, bucks', key)
        /\ k # key => bucks'[k].has[c] = bucks[k].has[c]
    BY <1>1, <1>5, <2>1, PushTree
  <2>3. <<k, c>> \notin uncounted /\ forks' = forks
    BY <1>3, <1>5 DEF PushBucket
  <2> QED BY <1>4, <2>2, <2>3
<1>6. CASE ReadBucket
  <2>1. NextBucket \in BucketKeys /\ Opened(bucks, bucks', NextBucket) /\ bucks'[k].has = bucks[k].has
    BY <1>6, ReadTree
  <2>2. <<k, c>> \notin uncounted /\ forks' = forks
    BY <1>3, <1>6 DEF ReadBucket
  <2> QED BY <1>4, <2>1, <2>2
<1>7. CASE DeleteBucket
  <2>1. PICK key : key = Min(todo)
    OBVIOUS
  <2>2. /\ key \in BucketKeys /\ Opened(bucks, bucks', key)
        /\ k # key => bucks'[k].has[c] = bucks[k].has[c]
    BY <1>1, <1>7, <2>1, DeleteTree
  <2>3. <<k, c>> \notin uncounted /\ forks' = forks
    BY <1>3, <1>7 DEF DeleteBucket
  <2> QED BY <1>4, <2>2, <2>3
<1>8. CASE Pop
  <2>1. /\ bucks'[k].st = bucks[k].st /\ bucks'[k].trail = bucks[k].trail
        /\ bucks'[k].has[c] = IF k \in rd.at /\ c = call.who /\ ~rd.stale
                              THEN bucks[k].has[c] \ rd.out ELSE bucks[k].has[c]
    BY <1>1, <1>8, PopTree DEF OnlyItems
  <2>2. <<k, c>> \notin uncounted /\ forks' = forks
    BY <1>3, <1>8 DEF Pop
  <2>3. ~rd.stale => \A j \in rd.at : bucks[j].st = "open"
    BY <1>8 DEF Pop, Asked, InCallback, BaseInv, Shape
  <2> QED BY <1>2, <2>1, <2>2, <2>3 DEF Live
<1>9. CASE Reap \/ DeleteEnd \/ ClearBucket
  <2>1. PICK ks : Update(Without(bucks, ks)) /\ forks' = forks
    BY <1>9 DEF Reap, DeleteEnd, ClearBucket
  <2>2. bucks' = Without(bucks, ks) /\ <<k, c>> \notin uncounted
    BY <1>3, <2>1
  <2>3. bucks'[k] = bucks[k]
    BY <1>1, <2>2, WithoutLemma
  <2> QED BY <1>2, <2>1, <2>2, <2>3 DEF Live
<1>10. CASE Fork
  <2>1. PICK src \in Live, dst \in Forks \ forks :
          /\ bucks'[k].st = bucks[k].st /\ bucks'[k].trail = bucks[k].trail
          /\ bucks'[k].has[c] = IF c = dst /\ bucks[k].st # "absent" THEN bucks[k].has[src]
                                ELSE bucks[k].has[c]
          /\ forks' = forks \cup {dst}
          /\ uncounted' = uncounted \cup {<<j, dst>> : j \in InTree(bucks) \ OpenIn(bucks)}
    BY <1>1, <1>10, ForkTree DEF OnlyItems
  <2>2. k \in InTree(bucks) \ OpenIn(bucks)
    BY <2>1 DEF InTree, OpenIn
  <2>3. c # dst
    BY <2>1, <2>2
  <2> QED BY <1>2, <2>1, <2>3 DEF Live
<1>11. CASE RemoveFork
  <2>1. PICK f \in forks, gone \in SUBSET BucketKeys :
          /\ forks' = forks \ {f} /\ uncounted' = {u \in uncounted : u[2] # f}
          /\ k \in gone => bucks'[k] = Absent
          /\ k \notin gone =>
                /\ bucks'[k].st = bucks[k].st /\ bucks'[k].trail = bucks[k].trail
                /\ bucks'[k].has[c] = IF c = f THEN {} ELSE bucks[k].has[c]
    BY <1>1, <1>11, RemoveForkTree
  <2>2. k \notin gone
    BY <2>1 DEF Absent
  <2>3. c # f
    BY <2>1, BucketsAssumption DEF Live, BaseInv, TypeOK
  <2> QED BY <1>2, <2>1, <2>2, <2>3 DEF Live
<1>12. CASE Restart
  <2>1. c = Main
    BY <1>12 DEF Restart, Live
  <2> QED BY <1>12, <2>1, RestartTree
<1>13. CASE \/ Push \/ TxPush \/ Read \/ ReadEnd \/ Peek \/ CallbackErr \/ Delete \/ Clear
            \/ ClearEnd \/ UNCHANGED vars
  <2>1. UNCHANGED <<bucks, uncounted, forks>>
    BY <1>13 DEF Push, TxPush, Given, Read, ReadEnd, Peek, CallbackErr, Delete, Clear, ClearEnd, vars
  <2> QED BY <1>2, <2>1 DEF Live
<1> QED BY <1>5, <1>6, <1>7, <1>8, <1>9, <1>10, <1>11, <1>12, <1>13 DEF Next

\* What a consumer has left in some buckets.
HasOf(B, c, s) == UNION {B[k].has[c] : k \in s}

\* It is finite.
LEMMA FiniteContent ==
  ASSUME NEW B, TreeOK(B), NEW s \in SUBSET BucketKeys, NEW c \in Consumers
  PROVE  IsFiniteSet(HasOf(B, c, s))
<1>1. PICK S : S = {B[k].has[c] : k \in s}
  OBVIOUS
<1>2. PICK f : f = [k \in s |-> B[k].has[c]]
  OBVIOUS
<1>3. f \in Surjection(s, S)
  BY <1>1, <1>2 DEF Surjection
<1>4. IsFiniteSet(S)
  BY <1>3, BucketKeysFinite, FS_Subset, FS_Surjection
<1>5. \A T \in S : IsFiniteSet(T)
  BY <1>1 DEF TreeOK
<1>6. IsFiniteSet(UNION S)
  BY <1>4, <1>5, FS_UNION
<1> QED BY <1>1, <1>6 DEF HasOf

\* buckets.Len adds up to the number of items of a consumer, if the trailers
\* are right and every item is in its place.
LEMMA LenLemma ==
  ASSUME TreeOK(bucks), Placed, NEW c \in Consumers,
         \A k \in BucketKeys : bucks[k].st = "nil" =>
             bucks[k].trail[c] = Cardinality(bucks[k].has[c])
  PROVE  LenOf(c) = Cardinality(UNION {bucks[k].has[c] : k \in InTree(bucks)})
<1> DEFINE T == InTree(bucks)
           LenAt(k) == CASE bucks[k].st = "open" -> LenIn(bucks[k], c)
                         [] bucks[k].st = "nil" /\ bucks[k].trail[c] # NoTrailer -> bucks[k].trail[c]
                         [] OTHER -> 0
           Some(s) == CHOOSE k \in s : TRUE
           Body(f, s) == IF s = {} THEN 0 ELSE LenAt(Some(s)) + f[s \ {Some(s)}]
           Up(s) == UNION {bucks[k].has[c] : k \in s}
           iter == CHOOSE f : f = [s \in SUBSET T |-> Body(f, s)]
<1>1. T \subseteq BucketKeys /\ IsFiniteSet(T)
  <2>1. T \subseteq BucketKeys
    BY DEF InTree
  <2> HIDE DEF T
  <2> QED BY <2>1, BucketKeysFinite, FS_Subset
<1>2. LenOf(c) = iter[T]
  BY DEF LenOf, FoldSet, MapThenFoldSet
<1>3. ASSUME NEW k \in T PROVE LenAt(k) = Cardinality(bucks[k].has[c]) /\ IsFiniteSet(bucks[k].has[c])
  <2>1. k \in BucketKeys /\ bucks[k] \in Bucket /\ bucks[k].st # "absent"
    BY DEF InTree, TreeOK
  <2>2. bucks[k].st \in {"nil", "open"}
    BY <2>1 DEF Bucket
  <2>3. LenIn(bucks[k], c) = Cardinality(bucks[k].has[c]) /\ LenIn(bucks[k], c) \in Nat
        /\ IsFiniteSet(bucks[k].has[c])
    BY <2>1, LenType
  <2>4. bucks[k].st = "nil" => bucks[k].trail[c] = LenIn(bucks[k], c) /\ bucks[k].trail[c] # NoTrailer
    BY <2>1, <2>3 DEF NoTrailer
  <2> QED BY <2>2, <2>3, <2>4
<1> HIDE DEF T, LenAt
<1>4. ASSUME NEW s \in SUBSET T, s # {}
      PROVE  /\ Some(s) \in s /\ s \ {Some(s)} \in SUBSET T
             /\ Cardinality(Up(s)) = LenAt(Some(s)) + Cardinality(Up(s \ {Some(s)}))
  <2>1. PICK x : x = Some(s)
    OBVIOUS
  <2>2. x \in s
    BY <1>4, <2>1
  <2>3. PICK r : r = s \ {x}
    OBVIOUS
  <2>4. s \in SUBSET BucketKeys /\ r \in SUBSET BucketKeys /\ r \in SUBSET T /\ x \in BucketKeys
    BY <1>1, <2>2, <2>3
  <2>5. IsFiniteSet(Up(r))
    <3>1. IsFiniteSet(HasOf(bucks, c, r))
      BY <2>4, FiniteContent
    <3> QED BY <3>1 DEF HasOf
  <2>6. Up(s) = bucks[x].has[c] \cup Up(r)
    BY <2>2, <2>3
  <2>7. bucks[x].has[c] \cap Up(r) = {}
    <3> SUFFICES ASSUME NEW y \in bucks[x].has[c], y \in Up(r) PROVE FALSE
      OBVIOUS
    <3>1. PICK k \in r : y \in bucks[k].has[c]
      OBVIOUS
    <3>2. SplitFunc(y.key) = k /\ SplitFunc(y.key) = x
      BY <2>4, <3>1 DEF Placed
    <3> QED BY <2>3, <3>2
  <2>8. LenAt(x) = Cardinality(bucks[x].has[c]) /\ IsFiniteSet(bucks[x].has[c])
    BY <1>3, <2>2
  <2>9. PICK U, V : U = Up(r) /\ V = bucks[x].has[c]
    OBVIOUS
  <2>10. Cardinality(V \cup U) = Cardinality(V) + Cardinality(U)
    <3>1. IsFiniteSet(U) /\ IsFiniteSet(V)
      BY <2>5, <2>8, <2>9
    <3>2. Cardinality(V \cup U) = Cardinality(V) + Cardinality(U) - Cardinality(V \cap U)
      BY <3>1, FS_Union
    <3>3. Cardinality(U) \in Nat /\ Cardinality(V) \in Nat
      BY <3>1, FS_CardinalityType
    <3>4. PICK W : W = V \cap U
      OBVIOUS
    <3>5. W = {}
      BY <2>7, <2>9, <3>4
    <3>6. Cardinality(W) = 0
      BY <3>5, FS_EmptySet
    <3> QED BY <3>2, <3>3, <3>4, <3>6
  <2> HIDE DEF Up
  <2> QED BY <2>1, <2>2, <2>3, <2>4, <2>6, <2>8, <2>9, <2>10
<1>5. Up({}) = {} /\ Cardinality({}) = 0
  BY FS_EmptySet
<1> HIDE DEF Up, Some
<1>6. iter = [s \in SUBSET T |-> Body(iter, s)]
  <2>1. PICK f : f = [s \in SUBSET T |-> Cardinality(Up(s))]
    OBVIOUS
  <2>2. ASSUME NEW s \in SUBSET T PROVE Cardinality(Up(s)) = Body(f, s)
    <3>1. CASE s = {}
      BY <1>5, <3>1
    <3>2. CASE s # {}
      BY <1>4, <2>1, <3>2
    <3> QED BY <3>1, <3>2
  <2> HIDE DEF Body
  <2>3. f = [s \in SUBSET T |-> Body(f, s)]
    BY <2>1, <2>2
  <2> QED BY <2>3
<1> HIDE DEF iter
<1>7. ASSUME NEW s \in SUBSET T PROVE iter[s] = Body(iter, s)
  <2> HIDE DEF Body
  <2> QED BY <1>6
<1> DEFINE Bad == {n \in Nat : \E s \in SUBSET T : Cardinality(s) = n /\ iter[s] # Cardinality(Up(s))}
<1>8. Bad = {}
  <2> SUFFICES ASSUME Bad # {} PROVE FALSE
    OBVIOUS
  <2>1. PICK n \in Bad : \A m \in Bad : n <= m
    <3>1. Bad \subseteq Nat
      OBVIOUS
    <3> HIDE DEF Bad
    <3> QED BY <3>1, LeastNat
  <2>2. PICK s \in SUBSET T : Cardinality(s) = n /\ iter[s] # Cardinality(Up(s))
    OBVIOUS
  <2>3. s # {}
    BY <1>5, <1>7, <2>2
  <2>4. PICK r : r = s \ {Some(s)}
    OBVIOUS
  <2>5. /\ Some(s) \in s /\ r \in SUBSET T
        /\ Cardinality(Up(s)) = LenAt(Some(s)) + Cardinality(Up(r))
    BY <1>4, <2>3, <2>4
  <2>6. iter[s] = LenAt(Some(s)) + iter[r]
    BY <1>7, <2>3, <2>4
  <2>7. IsFiniteSet(s)
    BY <1>1, FS_Subset
  <2>8. Cardinality(r) = n - 1 /\ n - 1 \in Nat
    <3>1. IsFiniteSet(r) /\ Cardinality(r) = n - 1
      BY <2>2, <2>4, <2>5, <2>7, FS_RemoveElement
    <3> QED BY <3>1, FS_CardinalityType
  <2>9. n - 1 \in Bad
    BY <2>2, <2>5, <2>6, <2>8
  <2> HIDE DEF Bad
  <2>10. n <= n - 1 /\ n \in Nat
    BY <2>1, <2>2, <2>7, <2>9, FS_CardinalityType
  <2> QED BY <2>10
<1>9. iter[T] = Cardinality(Up(T))
  <2>1. Cardinality(T) \in Nat /\ T \in SUBSET T
    BY <1>1, FS_CardinalityType
  <2> QED BY <1>8, <2>1
<1> QED BY <1>2, <1>9 DEF Up, T

\* buckets.Len is the number of items that a consumer can get, although it
\* opens no bucket and takes the trailers of the closed ones, after reopening
\* those that Push, popSync and Delete wrote last: for the queue itself
\* always, for a fork once each of its buckets was open.
THEOREM LenIsRight ==
  ASSUME NearKeys
  PROVE  Spec => []LenAgrees
<1> DEFINE Inv == BaseInv /\ Asked /\ PlaceInv /\ Trailers
<1>1. Init => Inv
  <2>1. Init => Asked
    BY NoTypes DEF Init, Asked, InCallback
  <2>2. Init => Trailers
    BY DEF Init, Trailers, Absent
  <2> QED BY <2>1, <2>2, BaseInit, PlaceInit
<1>2. Inv /\ [Next]_vars => Inv'
  BY BaseStep, AskedStep, PlaceStep, TrailersStep
<1>3. Inv => LenAgrees
  <2> SUFFICES ASSUME Inv, NEW c \in Live, \A k \in BucketKeys : <<k, c>> \notin uncounted
               PROVE  LenOf(c) = Cardinality(Content(c))
    BY DEF LenAgrees
  <2>1. c \in Consumers /\ TreeOK(bucks)
    BY LiveConsumers DEF BaseInv
  <2>2. \A k \in BucketKeys : bucks[k].st = "nil" => bucks[k].trail[c] = Cardinality(bucks[k].has[c])
    BY DEF Trailers
  <2>3. LenOf(c) = Cardinality(UNION {bucks[k].has[c] : k \in InTree(bucks)})
    BY <2>1, <2>2, LenLemma DEF PlaceInv
  <2>4. Content(c) = UNION {bucks[k].has[c] : k \in InTree(bucks)}
    <3>1. \A k \in BucketKeys : k \notin InTree(bucks) => bucks[k].has[c] = {}
      BY <2>1 DEF InTree, PlaceInv, AbsentEmpty
    <3>2. InTree(bucks) \subseteq BucketKeys
      BY DEF InTree
    <3> QED BY <3>1, <3>2 DEF Content
  <2> QED BY <2>3, <2>4
<1> QED BY <1>1, <1>2, <1>3, PTL DEF Spec

-----------------------------------------------------------------------------
(* The tree of buckets implements the abstract queue.                      *)

\* No item has a key below that of its bucket.  This holds for shifts, and for
\* FixedSizeBucketSplit if no key is negative (SplitDown).
SplitsDown == \A k \in Keys : SplitFunc(k) <= k

-----------------------------------------------------------------------------
(* What the steps rest on, besides the invariants of Buckets_proofs.       *)

\* Every item is one of its own.
Held == Pending \cup UNION {Content(c) : c \in Consumers}
UniqueIds ==
    \A x \in Held : x \in Item /\ x.id < nextId /\ \A y \in Held : x.id = y.id => x = y

\* The bucket being read is not closed: only an unlimited tree is pushed to.
NotClosed == ~rd.stale /\ (pc = "push" /\ rd # NoRead => opts.max < 0 /\ call.n = All)

\* A Read goes over the buckets in order.
Onward == \A k \in rd.at, l \in todo : k < l

\* What the callback got comes first in the bucket, which has no more unless
\* the Read is for all items.
GotFirst ==
    InCallback =>
        /\ rd.out \in Peeked(rd.had, call.count)
        /\ call.n # All => \A k \in rd.at : rd.had = bucks[k].has[call.who]

\* What the Read in progress may still come to.
AheadAt == todo \cup (IF pc = "reap" THEN {} ELSE rd.at)
Ahead == HasOf(bucks, call.who, AheadAt) \cup Pending

\* A Read for all items never comes to the end of its count.
Enough ==
    (pc = "iter" \/ rd # NoRead) /\ call.n = All =>
        Cardinality(Ahead) + (MaxItems - nextId) < call.count

\* What Delete is to remove is empty, and what Clear is to remove is all.
ToRemove ==
    /\ pc = "delete" => call.count = 0 /\ \A k \in dead : AllEmpty(bucks[k])
    /\ pc = "clear" => InTree(bucks) \subseteq todo

CarefulInv == NotClosed /\ Onward /\ GotFirst /\ Enough /\ ToRemove

AllInv == BaseInv /\ Asked /\ PlaceInv /\ UniqueIds /\ CarefulInv

-----------------------------------------------------------------------------
(* Items are one of their own                                              *)

\* Every step keeps the numbers of items unique.
LEMMA UniqueStep ==
  ASSUME BaseInv, UniqueIds, [Next]_vars
  PROVE  UniqueIds'
<1>1. PICK S : S = UNION {Content(c)' : c \in Consumers}
  OBVIOUS
<1>2. S \subseteq Held
  <2> SUFFICES ASSUME NEW k \in BucketKeys, NEW c \in Consumers, NEW x \in bucks'[k].has[c]
               PROVE  x \in Held
    BY <1>1 DEF Content
  <2>1. CASE \E d \in Consumers : x \in bucks[k].has[d]
    BY <2>1 DEF Held, Content
  <2>2. CASE PushBucket /\ x \in Part
    <3>1. batch \in Seq(Item) /\ batch # <<>>
      BY <2>2 DEF BaseInv, TypeOK, Shape, PushBucket
    <3> QED BY <2>2, <3>1, PartLemma DEF Held
  <2> QED BY <2>1, <2>2, WhereFrom
<1>3. Held' = Pending' \cup S
  BY <1>1 DEF Held
<1>4. nextId \in Nat
  BY DEF BaseInv, TypeOK
<1>5. CASE \E keys \in Batches : Given(keys)
  <2>1. /\ \A x \in Pending' : x \in Item /\ nextId <= x.id /\ x.id < nextId'
        /\ \A x, y \in Pending' : x.id = y.id => x = y
        /\ nextId' \in Nat /\ nextId <= nextId'
    <3>1. PICK keys \in Batches : Given(keys)
      BY <1>5
    <3>2. /\ \A x \in Pending' : x \in Item /\ nextId <= x.id /\ x.id < nextId'
          /\ \A x, y \in Pending' : x.id = y.id => x = y
          /\ nextId' \in 0 .. MaxItems /\ nextId' = nextId + Len(keys)
      BY <3>1, GivenLemma DEF BaseInv
    <3>3. Len(keys) \in Nat
      BY BucketsAssumption
    <3> QED BY <1>4, <3>2, <3>3
  <2>2. \A x \in S : x \in Item /\ x.id < nextId
    BY <1>2 DEF UniqueIds
  <2>3. \A x \in Item : x.id \in Nat
    BY DEF Item
  <2>4. \A x \in Pending' \cup S : x \in Item /\ x.id < nextId'
    BY <1>4, <2>1, <2>2, <2>3
  <2>5. ASSUME NEW x \in Pending' \cup S, NEW y \in Pending' \cup S, x.id = y.id PROVE x = y
    <3>1. CASE x \in Pending' /\ y \in Pending'
      BY <2>1, <2>5, <3>1
    <3>2. CASE x \in S /\ y \in S
      BY <1>2, <2>5, <3>2 DEF UniqueIds
    <3>3. CASE x \in Pending' /\ y \in S
      BY <1>4, <2>1, <2>2, <2>3, <2>5, <3>3
    <3>4. CASE x \in S /\ y \in Pending'
      BY <1>4, <2>1, <2>2, <2>3, <2>5, <3>4
    <3> QED BY <3>1, <3>2, <3>3, <3>4
  <2> QED BY <1>3, <2>4, <2>5 DEF UniqueIds
<1>6. CASE Pending' \subseteq Pending /\ nextId' = nextId
  <2>1. Held' \subseteq Held
    BY <1>2, <1>3, <1>6 DEF Held
  <2> QED BY <1>6, <2>1 DEF UniqueIds
<1>7. CASE PushBucket /\ batch' = SubSeq(batch, Cardinality(Part) + 1, Len(batch)) /\ nextId' = nextId
  <2>1. batch \in Seq(Item) /\ batch # <<>>
    BY <1>7 DEF BaseInv, TypeOK, Shape, PushBucket
  <2>2. ItemsOf(batch') \subseteq Pending
    BY <1>7, <2>1, PartLemma
  <2>3. Pending' = ItemsOf(batch')
    BY DEF Pending, ItemsOf
  <2> QED BY <1>6, <1>7, <2>2, <2>3
<1>8. CASE UNCHANGED <<batch, nextId>>
  BY <1>6, <1>8 DEF Pending
<1> QED BY <1>5, <1>7, <1>8, BatchStep

\* So there are no more items than were ever pushed.
LEMMA FewHeld ==
  ASSUME BaseInv, UniqueIds
  PROVE  IsFiniteSet(Held) /\ Cardinality(Held) <= nextId /\ Cardinality(Held) \in Nat
<1>1. nextId \in Nat /\ \A x \in Held : x.id \in 0 .. nextId - 1
  BY DEF BaseInv, TypeOK, UniqueIds, Item
<1>2. PICK f : f = [x \in Held |-> x.id]
  OBVIOUS
<1>3. f \in Injection(Held, 0 .. nextId - 1)
  BY <1>1, <1>2 DEF Injection, IsInjective, UniqueIds
<1>4. IsFiniteSet(0 .. nextId - 1) /\ Cardinality(0 .. nextId - 1) = nextId
  BY <1>1, FS_Interval
<1>5. IsFiniteSet(Held) /\ Cardinality(Held) <= nextId
  BY <1>3, <1>4, FS_Injection
<1> QED BY <1>5, FS_CardinalityType

-----------------------------------------------------------------------------
(* Steps of a careful application                                          *)

\* What a Read has in its hands after each step.
LEMMA ReadAfter ==
  ASSUME BaseInv, [Next]_vars
  PROVE  \/ rd' = NoRead
         \/ rd' = rd /\ call'.who = call.who /\ call'.n = call.n /\ todo' = todo
         \/ PushBucket \/ ReadBucket
<1>1. call \in CallType
  BY DEF BaseInv, TypeOK, CallType
<1>2. CASE Push \/ TxPush \/ UNCHANGED vars
  BY <1>2 DEF Push, TxPush, Given, vars
<1>3. CASE Read \/ Delete \/ Clear \/ DeleteBucket \/ ClearBucket \/ Fork \/ RemoveFork \/ Restart
  BY <1>3 DEF Read, Delete, Clear, DeleteBucket, ClearBucket, Fork, RemoveFork, Restart, BaseInv, Shape
<1>4. CASE ReadEnd \/ DeleteEnd \/ ClearEnd \/ Reap \/ CallbackErr
  BY <1>4 DEF ReadEnd, DeleteEnd, ClearEnd, Reap, CallbackErr, ReadError, Return
<1>5. CASE Pop \/ Peek
  <2>1. ReadError \/ \E B \in {bucks, bucks'} : Served(B)
    BY <1>5 DEF Pop, Peek, Update
  <2>2. CASE ReadError
    BY <2>2 DEF ReadError, Return
  <2>3. ASSUME NEW B, Served(B)
        PROVE  rd' = rd /\ call'.who = call.who /\ call'.n = call.n /\ todo' = todo
    BY <1>1, <2>3 DEF Served, CallType
  <2> QED BY <2>1, <2>2, <2>3
<1> QED BY <1>2, <1>3, <1>4, <1>5 DEF Next

\* A tree without a limit closes no bucket.
LEMMA NotClosedPush ==
  ASSUME BaseInv, Asked, NotClosed, PushBucket
  PROVE  rd' = rd
<1>1. PICK key : key = SplitFunc(batch[1].key)
  OBVIOUS
<1>2. PICK B : B = ForKey(bucks, key)
  OBVIOUS
<1>3. Opened(bucks, bucks', key) /\ \A k \in BucketKeys : B[k].st = bucks'[k].st
  BY <1>1, <1>2, PushTree
<1>4. rd' = ReadAmid(B) /\ pc = "push"
  BY <1>1, <1>2 DEF PushBucket
<1>5. CASE rd = NoRead
  BY <1>4, <1>5, ReadAmidLemma
<1>6. CASE rd # NoRead
  <2>1. PICK k \in BucketKeys : rd.at = {k}
    BY <1>6, ReadAtOne
  <2>2. opts.max < 0 /\ ~rd.stale /\ bucks[k].st = "open" /\ opts.max \in Int
    BY <1>4, <1>6, <2>1 DEF NotClosed, Asked, InCallback, BaseInv, TypeOK
  <2>3. bucks'[k].st = "open"
    BY <1>3, <2>2 DEF Opened
  <2> QED BY <1>3, <1>4, <2>1, <2>3, ReadAmidLemma
<1> QED BY <1>5, <1>6

\* The first parts of the invariant, one after the other.
LEMMA NotClosedStep ==
  ASSUME Careful, BaseInv, Asked, NotClosed, [Next]_vars
  PROVE  NotClosed'
<1>1. ~rd'.stale
  <2>1. CASE ReadBucket
    <3>1. PICK out, had : rd' = [NoRead EXCEPT !.at = {NextBucket}, !.out = out, !.had = had]
      BY <2>1 DEF ReadBucket
    <3> QED BY <3>1 DEF NoRead
  <2>2. CASE PushBucket
    BY <2>2, NotClosedPush DEF NotClosed
  <2> QED BY <2>1, <2>2, ReadAfter, NoTypes DEF NotClosed
<1>2. ASSUME pc' = "push", rd' # NoRead PROVE opts'.max < 0 /\ call'.n = All
  <2>1. CASE Push
    BY <1>2, <2>1 DEF Push, Given, BaseInv, Shape
  <2>2. CASE TxPush
    BY <2>2 DEF TxPush, Given, MayPush
  <2>3. CASE PushBucket
    BY <1>2, <2>3, NotClosedPush DEF NotClosed, PushBucket
  <2>4. CASE UNCHANGED vars
    BY <1>2, <2>4 DEF NotClosed, vars
  <2>5. CASE ~(Push \/ TxPush \/ PushBucket \/ UNCHANGED vars)
    <3>1. pc' # "push"
      BY <2>5 DEF Next, Read, ReadBucket, ReadEnd, Pop, Peek, CallbackErr, Reap, Delete,
         DeleteBucket, DeleteEnd, Clear, ClearBucket, ClearEnd, Fork, RemoveFork, Restart,
         Return, ReadError, Served
    <3> QED BY <1>2, <3>1
  <2> QED BY <2>1, <2>2, <2>3, <2>4, <2>5
<1> QED BY <1>1, <1>2 DEF NotClosed

\* The bucket being read is before those to come.
LEMMA OnwardStep ==
  ASSUME BaseInv, Asked, NotClosed, Onward, [Next]_vars
  PROVE  Onward'
<1>1. CASE ReadBucket
  <2>1. NextBucket \in BucketKeys /\ todo \subseteq BucketKeys /\ \A k \in todo : NextBucket <= k
    BY <1>1, ReadTree DEF BaseInv, TypeOK
  <2>2. PICK out, had : rd' = [NoRead EXCEPT !.at = {NextBucket}, !.out = out, !.had = had]
    BY <1>1 DEF ReadBucket
  <2>3. rd'.at = {NextBucket} /\ todo' = todo \ {NextBucket}
    BY <1>1, <2>2 DEF NoRead, ReadBucket
  <2>4. ASSUME NEW l \in todo \ {NextBucket} PROVE NextBucket < l
    <3>1. l \in Int /\ NextBucket \in Int /\ NextBucket <= l /\ l # NextBucket
      BY <2>1, BucketKeysFinite
    <3> QED BY <3>1
  <2> QED BY <2>3, <2>4 DEF Onward
<1>2. CASE PushBucket
  BY <1>2, NotClosedPush DEF Onward, PushBucket
<1>3. CASE rd' = NoRead
  BY <1>3, NoTypes DEF Onward
<1>4. CASE rd' = rd /\ todo' = todo
  BY <1>4 DEF Onward
<1> QED BY <1>1, <1>2, <1>3, <1>4, ReadAfter

\* The callback has what comes first.
LEMMA GotFirstStep ==
  ASSUME Careful, BaseInv, Asked, NotClosed, GotFirst, [Next]_vars
  PROVE  GotFirst'
<1>1. CASE ReadBucket
  <2>1. PICK had : had = bucks'[NextBucket].has[call.who]
    OBVIOUS
  <2>2. PICK out \in Peeked(had, call.count) :
          rd' = [NoRead EXCEPT !.at = {NextBucket}, !.out = out, !.had = had]
    BY <1>1, <2>1 DEF ReadBucket, Update
  <2>3. rd'.at = {NextBucket} /\ rd'.out = out /\ rd'.had = had /\ call' = call
    BY <1>1, <2>2 DEF NoRead, ReadBucket
  <2> QED BY <2>1, <2>2, <2>3 DEF GotFirst, Peeked
<1>2. CASE PushBucket
  <2>1. rd' = rd /\ call' = call /\ pc = "push"
    BY <1>2, NotClosedPush DEF PushBucket
  <2>2. rd # NoRead => call.n = All
    BY <2>1 DEF NotClosed
  <2> QED BY <2>1, <2>2 DEF GotFirst, InCallback, Peeked
<1>3. CASE TxPush \/ UNCHANGED vars
  <2>1. UNCHANGED <<rd, call, bucks>> /\ (pc' = pc \/ pc = "callback")
    BY <1>3 DEF TxPush, Given, vars
  <2> QED BY <2>1 DEF GotFirst, InCallback, Peeked
<1>4. CASE ~(ReadBucket \/ PushBucket \/ TxPush \/ UNCHANGED vars)
  <2>1. ~InCallback'
    <3>1. CASE Push \/ Read \/ Delete \/ Clear \/ DeleteBucket \/ ClearBucket \/ Fork \/ RemoveFork \/ Restart
      BY <3>1 DEF Push, Given, Read, Delete, Clear, DeleteBucket, ClearBucket, Fork, RemoveFork, Restart,
         BaseInv, Shape, InCallback
    <3>2. CASE ReadEnd \/ DeleteEnd \/ ClearEnd \/ Reap \/ CallbackErr
      BY <3>2 DEF ReadEnd, DeleteEnd, ClearEnd, Reap, CallbackErr, ReadError, Return, InCallback
    <3>3. CASE Pop \/ Peek
      <4>1. pc' = "reap" \/ rd' = NoRead
        BY <3>3 DEF Pop, Peek, ReadError, Return, Served
      <4> QED BY <4>1 DEF InCallback
    <3> QED BY <1>4, <3>1, <3>2, <3>3 DEF Next
  <2> QED BY <2>1 DEF GotFirst
<1> QED BY <1>1, <1>2, <1>3, <1>4

\* What is to be removed stays so.
LEMMA ToRemoveStep ==
  ASSUME BaseInv, ToRemove, [Next]_vars
  PROVE  ToRemove'
<1>1. TreeOK(bucks) /\ Live \subseteq Consumers
  BY LiveConsumers DEF BaseInv
<1>2. CASE Delete
  BY <1>2 DEF Delete, ToRemove, BaseInv, Shape, NoCall
<1>3. CASE DeleteBucket
  <2>1. PICK key : key = Min(todo)
    OBVIOUS
  <2>2. /\ key \in BucketKeys
        /\ \A k \in BucketKeys, c \in Consumers : bucks'[k].has[c] \subseteq bucks[k].has[c]
        /\ dead' = IF AllEmpty(bucks'[key]) THEN dead \cup {key} ELSE dead
    BY <1>3, <2>1, DeleteTree
  <2>3. pc = "delete" /\ pc' = pc /\ UNCHANGED <<forks, call>> /\ dead \subseteq BucketKeys
    BY <1>3 DEF DeleteBucket, BaseInv, TypeOK
  <2>4. ASSUME NEW k \in dead' PROVE \A c \in Live : bucks'[k].has[c] = {}
    <3>1. CASE k \in dead
      BY <1>1, <2>2, <2>3, <3>1 DEF ToRemove, AllEmpty
    <3>2. CASE k = key /\ AllEmpty(bucks'[key])
      BY <3>2 DEF AllEmpty
    <3> QED BY <2>2, <2>4, <3>1, <3>2
  <2> QED BY <2>3, <2>4 DEF ToRemove, AllEmpty, Live
<1>4. CASE Clear
  BY <1>4 DEF Clear, ToRemove, InTree
<1>5. CASE ClearBucket
  <2>1. PICK m : m = Min(todo)
    OBVIOUS
  <2>2. bucks' = Without(bucks, {m}) /\ todo' = todo \ {m} /\ pc = "clear" /\ pc' = pc
    BY <1>5, <2>1 DEF ClearBucket, Update
  <2>3. \A k \in BucketKeys : bucks'[k].st # "absent" => k # m /\ bucks[k].st # "absent"
    BY <1>1, <2>2, WithoutLemma
  <2> QED BY <2>2, <2>3 DEF ToRemove, InTree
<1>6. CASE UNCHANGED vars
  BY <1>6 DEF ToRemove, AllEmpty, Live, InTree, vars
<1>7. CASE ~(Delete \/ DeleteBucket \/ Clear \/ ClearBucket \/ UNCHANGED vars)
  <2>1. pc' \notin {"delete", "clear"}
    BY <1>7 DEF Next, Push, TxPush, Given, PushBucket, Read, ReadBucket, ReadEnd, Pop, Peek, CallbackErr,
       Reap, DeleteEnd, ClearEnd, Fork, RemoveFork, Restart, Return, ReadError, Served
  <2> QED BY <2>1 DEF ToRemove
<1> QED BY <1>2, <1>3, <1>4, <1>5, <1>6, <1>7

\* What a Read may still come to is finite, and part of what there is.
LEMMA AheadFinite ==
  ASSUME BaseInv, UniqueIds
  PROVE  /\ Ahead \subseteq Held /\ IsFiniteSet(Ahead) /\ Cardinality(Ahead) \in Nat
         /\ Cardinality(Ahead) <= nextId /\ call.who \in Consumers /\ AheadAt \in SUBSET BucketKeys
<1>1. call.who \in Consumers /\ AheadAt \in SUBSET BucketKeys
  BY DEF BaseInv, TypeOK, AheadAt
<1>2. Ahead \subseteq Held
  BY <1>1 DEF Ahead, HasOf, Held, Content
<1>3. IsFiniteSet(Ahead) /\ Cardinality(Ahead) <= Cardinality(Held)
  BY <1>2, FewHeld, FS_Subset
<1>4. Cardinality(Ahead) \in Nat
  BY <1>3, FS_CardinalityType
<1>5. nextId \in Nat
  BY DEF BaseInv, TypeOK
<1> QED BY <1>1, <1>2, <1>3, <1>4, <1>5, FewHeld

\* A step after which there is not more to come to, and as much to read.
LEMMA EnoughStays ==
  ASSUME BaseInv, UniqueIds, Enough, BaseInv', pc = "iter" \/ rd # NoRead, Ahead' \subseteq Ahead,
         call' = call, nextId' = nextId
  PROVE  Enough'
<1>1. IsFiniteSet(Ahead) /\ Cardinality(Ahead) \in Nat
  BY AheadFinite
<1>2. PICK A, A2 : A = Ahead /\ A2 = Ahead'
  OBVIOUS
<1>3. IsFiniteSet(A2) /\ Cardinality(A2) <= Cardinality(A)
  BY <1>1, <1>2, FS_Subset
<1>4. Cardinality(A2) \in Nat
  BY <1>3, FS_CardinalityType
<1>5. MaxItems \in Nat /\ nextId \in Nat /\ call.count \in Int
  BY BucketsAssumption DEF BaseInv, TypeOK
<1>6. call.n = All => Cardinality(A) + (MaxItems - nextId) < call.count
  BY <1>2 DEF Enough
<1>7. call.n = All => Cardinality(A2) + (MaxItems - nextId) < call.count
  BY <1>1, <1>2, <1>3, <1>4, <1>5, <1>6
<1> QED BY <1>2, <1>7 DEF Enough

\* The callback returned: what the count is lowered by is no longer ahead.
LEMMA EnoughServed ==
  ASSUME BaseInv, Asked, PlaceInv, UniqueIds, NotClosed, Onward, Enough, pc = "callback",
         NEW B, TreeOK(B), Served(B), UNCHANGED <<batch, nextId>>,
         \A l \in todo : bucks'[l].has[call.who] = bucks[l].has[call.who]
  PROVE  Enough'
<1>1. rd # NoRead /\ InCallback /\ batch = <<>>
  BY DEF BaseInv, Shape, InCallback
<1>2. PICK k \in BucketKeys : rd.at = {k}
  BY <1>1, ReadAtOne
<1>3. /\ Counted(B) = Cardinality(rd.had) - Cardinality(B[k].has[call.who])
      /\ Cardinality(rd.had) \in Nat /\ Cardinality(B[k].has[call.who]) \in Nat
  BY <1>2, CountedLemma DEF NotClosed
<1>4. /\ call \in CallType /\ call.who \in Consumers /\ call.count \in Int /\ todo \in SUBSET BucketKeys
      /\ TreeOK(bucks)
  BY DEF BaseInv, TypeOK, CallType
<1>5. call' = [call EXCEPT !.count = call.count - Counted(B),
                              !.popped = call.popped \cup Consumed(B)] /\ pc' = "reap" /\ todo' = todo
  BY DEF Served
<1>6. call'.count = call.count - Counted(B) /\ call'.n = call.n /\ call'.who = call.who
  BY <1>4, <1>5 DEF CallType
<1>7. PICK H, R : H = bucks[k].has[call.who] /\ R = HasOf(bucks, call.who, todo)
  OBVIOUS
<1>8. IsFiniteSet(H) /\ IsFiniteSet(R)
  BY <1>4, <1>7, FiniteContent DEF TreeOK
<1>9. Pending = {} /\ Pending' = {}
  BY <1>1 DEF Pending
<1>10. Ahead = H \cup R
  BY <1>2, <1>7, <1>9 DEF Ahead, AheadAt, HasOf
<1>11. Ahead' = R
  BY <1>4, <1>5, <1>6, <1>7, <1>9 DEF Ahead, AheadAt, HasOf
<1>12. k \notin todo
  BY <1>2, BucketKeysFinite DEF Onward
<1>13. H \cap R = {}
  <2> SUFFICES ASSUME NEW x \in H, x \in R PROVE FALSE
    OBVIOUS
  <2>1. PICK l \in todo : x \in bucks[l].has[call.who]
    BY <1>7 DEF HasOf
  <2>2. SplitFunc(x.key) = k /\ SplitFunc(x.key) = l
    BY <1>4, <1>7, <2>1 DEF PlaceInv, Placed
  <2> QED BY <1>12, <2>2
<1>14. Cardinality(H \cup R) = Cardinality(H) + Cardinality(R)
  <2>1. PICK W : W = H \cap R
    OBVIOUS
  <2>2. Cardinality(W) = 0
    BY <1>13, <2>1, FS_EmptySet
  <2>3. Cardinality(H \cup R) = Cardinality(H) + Cardinality(R) - Cardinality(H \cap R)
    BY <1>8, FS_Union
  <2>4. Cardinality(H) \in Nat /\ Cardinality(R) \in Nat
    BY <1>8, FS_CardinalityType
  <2> QED BY <2>1, <2>2, <2>3, <2>4
<1>15. Cardinality(rd.had) <= Cardinality(H)
  <2>1. rd.had \subseteq H
    BY <1>1, <1>2, <1>7 DEF Asked, NotClosed
  <2> QED BY <1>8, <2>1, FS_Subset
<1>16. call.n = All => Cardinality(H) + Cardinality(R) + (MaxItems - nextId) < call.count
  BY <1>1, <1>10, <1>14 DEF Enough
<1>17. MaxItems \in Nat /\ nextId \in Nat /\ Cardinality(H) \in Nat /\ Cardinality(R) \in Nat
  BY <1>8, BucketsAssumption, FS_CardinalityType DEF BaseInv, TypeOK
<1>18. call'.n = All => Cardinality(R) + (MaxItems - nextId) < call'.count
  BY <1>3, <1>4, <1>6, <1>15, <1>16, <1>17
<1> QED BY <1>11, <1>18 DEF Enough

\* A Read for all items has enough left after each step.
LEMMA EnoughStep ==
  ASSUME BaseInv, Asked, PlaceInv, UniqueIds, NotClosed, Onward, Enough, [Next]_vars
  PROVE  Enough'
<1>1. BaseInv' /\ UniqueIds'
  BY BaseStep, UniqueStep
<1>2. TreeOK(bucks) /\ call.who \in Consumers /\ call.who \in Live /\ todo \subseteq BucketKeys
  BY DEF BaseInv, TypeOK, Shape
<1>3. MaxItems \in Nat /\ nextId \in Nat /\ call.count \in Int
  BY BucketsAssumption DEF BaseInv, TypeOK
<1>4. ASSUME pc' # "iter", rd' = NoRead PROVE Enough'
  BY <1>4 DEF Enough
<1>5. CASE Read
  <2>1. PICK c \in Live, n \in Ns : call' = [NoCall EXCEPT !.who = c, !.n = n, !.count = n]
    BY <1>5 DEF Read
  <2>2. call'.n = n /\ call'.count = n
    BY <2>1 DEF NoCall
  <2>3. nextId' = nextId
    BY <1>5 DEF Read
  <2>4. Cardinality(Ahead') <= nextId' /\ Cardinality(Ahead') \in Nat
    <3>1. Pending' = Pending /\ bucks' = bucks /\ BaseInv'
      BY <1>1, <1>5 DEF Read, Pending
    <3>2. Ahead' \subseteq Held
      BY <3>1 DEF Ahead, HasOf, Held, Content, BaseInv, TypeOK, AheadAt
    <3>3. PICK A : A = Ahead'
      OBVIOUS
    <3>4. IsFiniteSet(A) /\ Cardinality(A) <= Cardinality(Held)
      BY <3>2, <3>3, FewHeld, FS_Subset
    <3>5. Cardinality(A) \in Nat
      BY <3>4, FS_CardinalityType
    <3> QED BY <1>3, <2>3, <3>3, <3>4, <3>5, FewHeld
  <2>5. n = All => Cardinality(Ahead') + (MaxItems - nextId') < n
    BY <1>3, <2>3, <2>4 DEF All
  <2> QED BY <2>2, <2>5 DEF Enough
<1>6. CASE ReadBucket
  <2>1. /\ NextBucket \in todo /\ \A k \in BucketKeys : bucks'[k].has = bucks[k].has
    BY <1>6, ReadTree
  <2>2. PICK out, had : rd' = [NoRead EXCEPT !.at = {NextBucket}, !.out = out, !.had = had]
    BY <1>6 DEF ReadBucket
  <2>3. /\ rd'.at = {NextBucket} /\ todo' = todo \ {NextBucket} /\ pc = "iter" /\ pc' = "callback"
        /\ UNCHANGED <<call, nextId, batch>>
    BY <1>6, <2>2 DEF NoRead, ReadBucket
  <2>4. AheadAt' \subseteq todo
    BY <2>1, <2>3 DEF AheadAt
  <2>5. Ahead' \subseteq Ahead
    BY <1>2, <2>1, <2>3, <2>4 DEF Ahead, AheadAt, HasOf, Pending
  <2> QED BY <1>1, <2>3, <2>5, EnoughStays
<1>7. CASE TxPush
  <2>1. PICK keys \in Batches : Given(keys)
    BY <1>7 DEF TxPush
  <2>2. /\ Len(batch') = Len(keys) /\ nextId' = nextId + Len(keys) /\ batch' \in Seq(Item)
    BY <2>1, GivenLemma DEF BaseInv
  <2>3. /\ pc = "callback" /\ pc' = "push" /\ UNCHANGED <<rd, call, bucks, todo>> /\ batch = <<>>
        /\ rd # NoRead
    BY <1>7, <2>1 DEF TxPush, Given, BaseInv, Shape
  <2>4. PICK A, N : A = Ahead /\ N = Pending'
    OBVIOUS
  <2>5. Ahead' = A \cup N
    <3>1. Pending = {}
      BY <2>3 DEF Pending
    <3> QED BY <2>3, <2>4, <3>1 DEF Ahead, AheadAt, HasOf
  <2>6. IsFiniteSet(N) /\ Cardinality(N) <= Len(keys) /\ Len(keys) \in Nat
    <3>1. PICK f : f = [i \in 1 .. Len(keys) |-> batch'[i]]
      OBVIOUS
    <3>2. DOMAIN batch' = 1 .. Len(keys) /\ Len(keys) \in Nat
      BY <2>2, BucketsAssumption
    <3>3. f \in Surjection(1 .. Len(keys), N)
      BY <2>4, <3>1, <3>2 DEF Surjection, Pending
    <3>4. IsFiniteSet(1 .. Len(keys)) /\ Cardinality(1 .. Len(keys)) = Len(keys)
      BY <3>2, FS_Interval
    <3> QED BY <3>2, <3>3, <3>4, FS_Surjection
  <2>7. IsFiniteSet(A) /\ Cardinality(A) \in Nat
    BY <2>4, AheadFinite
  <2>8. Cardinality(A \cup N) <= Cardinality(A) + Len(keys) /\ Cardinality(A \cup N) \in Nat
    <3>1. IsFiniteSet(A \cup N) /\ Cardinality(A \cup N) = Cardinality(A) + Cardinality(N) - Cardinality(A \cap N)
      BY <2>6, <2>7, FS_Union
    <3>2. Cardinality(A \cap N) \in Nat
      BY <2>7, FS_Intersection, FS_CardinalityType
    <3>3. Cardinality(A \cup N) \in Nat /\ Cardinality(N) \in Nat
      BY <2>6, <3>1, FS_CardinalityType
    <3> QED BY <2>6, <2>7, <3>1, <3>2, <3>3
  <2>9. call.n = All => Cardinality(A) + (MaxItems - nextId) < call.count
    BY <2>3, <2>4 DEF Enough
  <2>10. call.n = All => Cardinality(A \cup N) + (MaxItems - nextId') < call.count
    BY <1>3, <2>2, <2>6, <2>7, <2>8, <2>9
  <2> QED BY <2>3, <2>5, <2>10 DEF Enough
<1>8. CASE PushBucket
  <2>1. rd' = rd /\ pc = "push" /\ UNCHANGED <<call, todo, nextId>> /\ pc' \notin {"reap", "iter"}
    BY <1>8, NotClosedPush DEF PushBucket
  <2>2. CASE rd = NoRead
    BY <1>4, <2>1, <2>2
  <2>3. CASE rd # NoRead
    <3>1. batch \in Seq(Item) /\ batch # <<>>
          /\ batch' = SubSeq(batch, Cardinality(Part) + 1, Len(batch))
      BY <1>8 DEF BaseInv, TypeOK, Shape, PushBucket
    <3>2. Part \subseteq Pending /\ ItemsOf(batch') \subseteq Pending
      BY <3>1, PartLemma
    <3>3. \A k \in BucketKeys : bucks'[k].has[call.who] \subseteq bucks[k].has[call.who] \cup Part
      BY <1>2, <1>8, PushTree
    <3>4. Pending' = ItemsOf(batch')
      BY DEF Pending, ItemsOf
    <3>5. AheadAt' = AheadAt /\ AheadAt \subseteq BucketKeys
      BY <2>1 DEF AheadAt, BaseInv, TypeOK
    <3>6. Ahead' \subseteq Ahead
      BY <2>1, <3>2, <3>3, <3>4, <3>5 DEF Ahead, HasOf
    <3> QED BY <1>1, <2>1, <2>3, <3>6, EnoughStays
  <2> QED BY <2>2, <2>3
<1>9. ASSUME ReadError, pc = "callback", UNCHANGED <<bucks, batch, nextId>> PROVE Enough'
  <2>1. CASE Return
    BY <1>4, <2>1 DEF Return
  <2>2. CASE pc' = "iter" /\ rd' = NoRead /\ UNCHANGED <<call, todo>>
    <3>1. Ahead' \subseteq Ahead
      BY <1>9, <2>2, NoTypes DEF Ahead, AheadAt, HasOf, Pending
    <3>2. rd # NoRead
      BY <1>9 DEF BaseInv, Shape
    <3> QED BY <1>1, <1>9, <2>2, <3>1, <3>2, EnoughStays
  <2> QED BY <1>9, <2>1, <2>2 DEF ReadError
<1>10. CASE Pop
  <2>1. ~rd.stale /\ pc = "callback" /\ UNCHANGED <<batch, nextId>>
    BY <1>10 DEF Pop, NotClosed
  <2>2. Served(bucks')
    BY <1>10, <2>1 DEF Pop, Update
  <2>3. /\ TreeOK(bucks')
        /\ \A k \in BucketKeys : k \notin rd.at => bucks'[k].has[call.who] = bucks[k].has[call.who]
    BY <1>2, <1>10, PopTree
  <2>4. \A l \in todo : l \notin rd.at
    BY <1>2, BucketKeysFinite DEF Onward
  <2> QED BY <1>2, <2>1, <2>2, <2>3, <2>4, EnoughServed
<1>11. CASE Peek
  BY <1>2, <1>11, EnoughServed DEF Peek
<1>12. CASE CallbackErr
  BY <1>9, <1>12 DEF CallbackErr
<1>13. CASE Reap
  <2>1. CASE Return
    BY <1>4, <2>1 DEF Return
  <2>2. CASE pc' = "iter" /\ rd' = NoRead /\ UNCHANGED <<call, todo>>
    <3>1. PICK ks : bucks' = Without(bucks, ks)
      BY <1>13 DEF Reap, Update
    <3>2. \A k \in BucketKeys : bucks'[k].has[call.who] \subseteq bucks[k].has[call.who]
      BY <1>2, <3>1, WithoutLemma
    <3>3. pc = "reap" /\ rd # NoRead /\ UNCHANGED <<batch, nextId>>
      BY <1>13 DEF Reap, BaseInv, Shape
    <3>4. AheadAt' = todo /\ AheadAt = todo
      BY <2>2, <3>3, NoTypes DEF AheadAt
    <3>5. Ahead' \subseteq Ahead
      BY <1>2, <2>2, <3>2, <3>3, <3>4 DEF Ahead, HasOf, Pending
    <3> QED BY <1>1, <2>2, <3>3, <3>5, EnoughStays
  <2> QED BY <1>13, <2>1, <2>2 DEF Reap
<1>14. CASE Push \/ Delete \/ Clear \/ DeleteBucket \/ ClearBucket \/ Fork \/ RemoveFork \/ Restart
  BY <1>4, <1>14 DEF Push, Given, Delete, Clear, DeleteBucket, ClearBucket, Fork, RemoveFork, Restart,
     BaseInv, Shape
<1>15. CASE ReadEnd \/ DeleteEnd \/ ClearEnd
  BY <1>4, <1>15 DEF ReadEnd, DeleteEnd, ClearEnd, Return
<1>16. CASE UNCHANGED vars
  BY <1>16 DEF Enough, Ahead, AheadAt, HasOf, Pending, vars
<1> QED BY <1>5, <1>6, <1>7, <1>8, <1>10, <1>11, <1>12, <1>13, <1>14, <1>15, <1>16 DEF Next

\* The whole invariant.
LEMMA AllInit == Init => AllInv
<1> SUFFICES ASSUME Init PROVE AllInv
  OBVIOUS
<1>1. \A k \in BucketKeys, c \in Consumers : bucks[k].has[c] = {}
  BY DEF Init, Absent
<1>2. Asked
  BY NoTypes DEF Init, Asked, InCallback
<1>3. Pending = {}
  BY DEF Init, Pending
<1>4. UniqueIds
  BY <1>1, <1>3 DEF UniqueIds, Held, Content
<1>5. NotClosed /\ Onward /\ GotFirst /\ ToRemove /\ Enough
  BY NoTypes DEF Init, NotClosed, Onward, GotFirst, InCallback, ToRemove, Enough
<1> QED BY <1>2, <1>4, <1>5, BaseInit, PlaceInit DEF AllInv, CarefulInv

\* Every step of a careful application keeps it.
LEMMA AllStep ==
  ASSUME Careful, NearKeys, AllInv, [Next]_vars
  PROVE  AllInv'
<1>1. BaseInv' /\ Asked' /\ PlaceInv' /\ UniqueIds'
  BY BaseStep, AskedStep, PlaceStep, UniqueStep DEF AllInv
<1>2. NotClosed' /\ Onward' /\ GotFirst' /\ Enough' /\ ToRemove'
  BY NotClosedStep, OnwardStep, GotFirstStep, EnoughStep, ToRemoveStep DEF AllInv, CarefulInv
<1> QED BY <1>1, <1>2 DEF AllInv, CarefulInv

-----------------------------------------------------------------------------
(* What a Read has popped                                                  *)

\* The count of a Read of n items is what it has not popped yet.
Few ==
    call.n # All =>
        /\ IsFiniteSet(call.popped) /\ Cardinality(call.popped) + call.count <= call.n
        /\ Cardinality(call.popped \cup rd.out) <= call.n

\* Two finite sets together have no more elements than each by itself.
LEMMA UnionCount ==
  ASSUME NEW S, NEW T, IsFiniteSet(S), IsFiniteSet(T)
  PROVE  /\ IsFiniteSet(S \cup T) /\ Cardinality(S \cup T) \in Nat
         /\ Cardinality(S \cup T) <= Cardinality(S) + Cardinality(T)
         /\ Cardinality(S) \in Nat /\ Cardinality(T) \in Nat
<1>1. IsFiniteSet(S \cup T) /\ IsFiniteSet(S \cap T)
  BY FS_Union, FS_Intersection
<1>2. Cardinality(S \cup T) = Cardinality(S) + Cardinality(T) - Cardinality(S \cap T)
  BY FS_Union
<1>3. /\ Cardinality(S) \in Nat /\ Cardinality(T) \in Nat /\ Cardinality(S \cap T) \in Nat
      /\ Cardinality(S \cup T) \in Nat
  BY <1>1, FS_CardinalityType
<1> QED BY <1>1, <1>2, <1>3

\* The callback returned: the count is lowered by as much as was taken.
LEMMA FewServed ==
  ASSUME BaseInv, Asked, NotClosed, GotFirst, Few, pc = "callback",
         NEW B, TreeOK(B), Served(B), NEW took \in SUBSET rd.out,
         \A k \in rd.at : B[k].has[call.who] = bucks[k].has[call.who] \ took
  PROVE  Few'
<1>1. rd # NoRead /\ InCallback
  BY DEF BaseInv, Shape, InCallback
<1>2. PICK k \in BucketKeys : rd.at = {k}
  BY <1>1, ReadAtOne
<1>3. /\ call \in CallType /\ call.count \in Int /\ call.n \in Nat /\ ~rd.stale
      /\ IsFiniteSet(rd.had) /\ rd.out \subseteq rd.had
  BY DEF BaseInv, TypeOK, Shape, CallType, NotClosed
<1>4. /\ Counted(B) = Cardinality(rd.had) - Cardinality(B[k].has[call.who])
      /\ Counted(B) \in Int
  BY <1>2, <1>3, CountedLemma
<1>5. /\ call' = [call EXCEPT !.count = call.count - Counted(B),
                              !.popped = call.popped \cup Consumed(B)]
      /\ rd' = rd
  BY DEF Served
<1>6. /\ call'.count = call.count - Counted(B) /\ call'.popped = call.popped \cup Consumed(B)
      /\ call'.n = call.n
  BY <1>3, <1>5 DEF CallType
<1> SUFFICES ASSUME call.n # All
             PROVE  /\ IsFiniteSet(call'.popped)
                    /\ Cardinality(call'.popped) + call'.count <= call'.n
                    /\ Cardinality(call'.popped \cup rd'.out) <= call'.n
  BY <1>6 DEF Few
<1>7. PICK P, O, T, H : P = call.popped /\ O = rd.out /\ T = took /\ H = rd.had
  OBVIOUS
<1>8. /\ IsFiniteSet(P) /\ Cardinality(P) + call.count <= call.n
      /\ Cardinality(P \cup O) <= call.n
  BY <1>7 DEF Few
<1>9. bucks[k].has[call.who] = H
  BY <1>1, <1>2, <1>7 DEF GotFirst
<1>10. Consumed(B) = T /\ B[k].has[call.who] = H \ T /\ T \subseteq O /\ T \subseteq H
  <2>1. T \subseteq O /\ T \subseteq H /\ B[k].has[call.who] = H \ T
    BY <1>2, <1>3, <1>7, <1>9
  <2>2. Consumed(B) = H \ (H \ T)
    BY <1>2, <1>9, <2>1 DEF Consumed
  <2> QED BY <2>1, <2>2
<1>11. IsFiniteSet(T) /\ Cardinality(H \ T) = Cardinality(H) - Cardinality(T)
  <2>1. IsFiniteSet(H) /\ H \cap T = T
    BY <1>3, <1>7, <1>10
  <2>2. IsFiniteSet(T)
    BY <1>10, <2>1, FS_Subset
  <2>3. Cardinality(H \ T) = Cardinality(H) - Cardinality(H \cap T)
    BY <2>1, FS_Difference
  <2> QED BY <2>1, <2>2, <2>3
<1>12. Counted(B) = Cardinality(T)
  <2>1. Cardinality(H) \in Nat /\ Cardinality(T) \in Nat
    BY <1>3, <1>7, <1>11, FS_CardinalityType
  <2> QED BY <1>4, <1>7, <1>10, <1>11, <2>1
<1>13. /\ IsFiniteSet(P \cup T) /\ Cardinality(P \cup T) \in Nat
       /\ Cardinality(P \cup T) <= Cardinality(P) + Cardinality(T)
       /\ Cardinality(P) \in Nat /\ Cardinality(T) \in Nat
  BY <1>8, <1>11, UnionCount
<1>14. call'.popped = P \cup T /\ call'.count = call.count - Cardinality(T) /\ call'.n = call.n
  BY <1>6, <1>7, <1>10, <1>12
<1>15. Cardinality(P \cup T) + (call.count - Cardinality(T)) <= call.n
  BY <1>3, <1>8, <1>13
<1>16. call'.popped \cup rd'.out = P \cup O
  BY <1>5, <1>7, <1>10, <1>14
<1> QED BY <1>8, <1>13, <1>14, <1>15, <1>16

\* Every step of a careful application keeps it.
LEMMA FewStep ==
  ASSUME Careful, BaseInv, Asked, NotClosed, GotFirst, Few, [Next]_vars
  PROVE  Few'
<1>0. BaseInv' /\ Asked' /\ TreeOK(bucks) /\ call.count \in Int /\ call.n \in Nat
  BY BaseStep, AskedStep DEF BaseInv, TypeOK
<1>1. CASE UNCHANGED call /\ rd'.out = rd.out
  BY <1>1 DEF Few
<1>2. ASSUME call'.popped = {}, call'.count = call'.n, call'.n \in Nat, rd'.out = {} PROVE Few'
  <2>1. IsFiniteSet({}) /\ Cardinality({}) = 0
    BY FS_EmptySet
  <2>2. call'.popped \cup rd'.out = {}
    BY <1>2
  <2> QED BY <1>2, <2>1, <2>2 DEF Few
<1>3. ASSUME Return PROVE Few'
  BY <1>2, <1>3, NoTypes DEF Return
<1>4. ASSUME UNCHANGED call, rd' = NoRead PROVE Few'
  <2>1. call.n # All => Cardinality(call.popped) \in Nat
    BY FS_CardinalityType DEF Few
  <2>2. call.popped \cup rd'.out = call.popped
    BY <1>4, NoTypes
  <2>3. call.n # All => Cardinality(call.popped) <= call.n
    BY <1>0, <2>1 DEF Few, Asked
  <2> QED BY <1>4, <2>2, <2>3 DEF Few
<1>5. ASSUME ReadError PROVE Few'
  BY <1>3, <1>4, <1>5 DEF ReadError
<1>6. CASE Push \/ TxPush \/ Clear \/ DeleteBucket \/ ClearBucket \/ Fork \/ RemoveFork \/ Restart
           \/ UNCHANGED vars
  BY <1>1, <1>6 DEF Push, TxPush, Given, Clear, DeleteBucket, ClearBucket, Fork, RemoveFork,
     Restart, vars
<1>7. CASE PushBucket
  <2>1. UNCHANGED call /\ \E B : rd' = ReadAmid(B)
    BY <1>7 DEF PushBucket
  <2> QED BY <1>1, <2>1, ReadAmidLemma
<1>8. CASE Delete
  <2>1. PICK c \in Live, r \in Ranges : call' = [NoCall EXCEPT !.who = c, !.lo = r[1], !.hi = r[2]]
    BY <1>8 DEF Delete
  <2>2. call'.popped = {} /\ call'.count = 0 /\ call'.n = 0
    BY <2>1 DEF NoCall
  <2>3. rd'.out = {}
    BY <1>8, NoTypes DEF Delete, BaseInv, Shape
  <2> QED BY <1>2, <2>2, <2>3
<1>9. CASE Read
  <2>1. PICK c \in Live, n \in Ns : call' = [NoCall EXCEPT !.who = c, !.n = n, !.count = n]
    BY <1>9 DEF Read
  <2>2. call'.popped = {} /\ call'.count = n /\ call'.n = n /\ n \in Nat
    BY <2>1, BucketsAssumption DEF NoCall, All
  <2>3. rd'.out = {}
    BY <1>9, NoTypes DEF Read, BaseInv, Shape
  <2> QED BY <1>2, <2>2, <2>3
<1>10. CASE ReadBucket
  <2>1. UNCHANGED call /\ pc' = "callback"
    BY <1>10 DEF ReadBucket
  <2>2. InCallback'
    BY <1>0, <2>1 DEF InCallback, BaseInv, Shape
  <2>3. /\ Cardinality(rd'.out) <= call.count
        /\ IsFiniteSet(rd'.had) /\ rd'.out \subseteq rd'.had
    BY <1>0, <2>1, <2>2 DEF Asked, BaseInv, Shape
  <2>4. PICK P, O : P = call.popped /\ O = rd'.out
    OBVIOUS
  <2>5. IsFiniteSet(O) /\ Cardinality(O) <= call.count
    BY <2>3, <2>4, FS_Subset
  <2>6. ASSUME call.n # All PROVE Cardinality(P \cup O) <= call.n
    <3>1. IsFiniteSet(P) /\ Cardinality(P) + call.count <= call.n
      BY <2>4, <2>6 DEF Few
    <3>2. /\ Cardinality(P \cup O) <= Cardinality(P) + Cardinality(O)
          /\ Cardinality(P) \in Nat /\ Cardinality(O) \in Nat /\ Cardinality(P \cup O) \in Nat
      BY <2>5, <3>1, UnionCount
    <3> QED BY <1>0, <2>5, <3>1, <3>2
  <2> QED BY <2>1, <2>4, <2>6 DEF Few
<1>11. CASE ReadEnd \/ DeleteEnd \/ ClearEnd
  BY <1>3, <1>11 DEF ReadEnd, DeleteEnd, ClearEnd
<1>12. CASE Pop
  <2>1. /\ TreeOK(bucks') /\ pc = "callback" /\ call.who \in Consumers /\ rd.at \subseteq BucketKeys
        /\ \A k \in BucketKeys, c \in Consumers :
              bucks'[k].has[c] = IF k \in rd.at /\ c = call.who /\ ~rd.stale
                                 THEN bucks[k].has[c] \ rd.out ELSE bucks[k].has[c]
    BY <1>12, PopTree DEF Pop, BaseInv, TypeOK
  <2>2. Served(bucks') /\ ~rd.stale
    BY <1>12 DEF Pop, Update, NotClosed
  <2>3. \A k \in rd.at : bucks'[k].has[call.who] = bucks[k].has[call.who] \ rd.out
    BY <2>1, <2>2
  <2>4. rd.out \in SUBSET rd.out
    OBVIOUS
  <2> QED BY <2>1, <2>2, <2>3, <2>4, FewServed
<1>13. CASE Peek
  <2>1. Served(bucks) /\ pc = "callback"
    BY <1>13 DEF Peek
  <2>2. {} \in SUBSET rd.out /\ \A k \in rd.at : bucks[k].has[call.who] = bucks[k].has[call.who] \ {}
    OBVIOUS
  <2> QED BY <1>0, <2>1, <2>2, FewServed
<1>14. CASE CallbackErr
  BY <1>5, <1>14 DEF CallbackErr
<1>15. CASE Reap
  BY <1>3, <1>4, <1>15 DEF Reap
<1> QED BY <1>6, <1>7, <1>8, <1>9, <1>10, <1>11, <1>12, <1>13, <1>14, <1>15 DEF Next

\* A Read of n items pops no more than n over all buckets, and is not given
\* items that would take it past n, if its callbacks do not push while it is
\* under way (Queue.Read, buckets.Read): the count is always n less what was
\* popped, since nothing else changes the length of the bucket it is at.
THEOREM ReadsUpToCount ==
  ASSUME Careful
  PROVE  Spec => []PopsUpTo
<1> DEFINE Inv == BaseInv /\ Asked /\ NotClosed /\ GotFirst /\ Few
<1>1. Init => Inv
  <2> SUFFICES ASSUME Init PROVE Inv
    OBVIOUS
  <2>1. Asked /\ NotClosed /\ GotFirst
    BY NoTypes DEF Init, Asked, NotClosed, GotFirst, InCallback
  <2>2. Few
    <3>1. call.popped = {} /\ rd.out = {} /\ call.count = 0 /\ call.n = 0
      BY NoTypes DEF Init
    <3>2. IsFiniteSet({}) /\ Cardinality({}) = 0 /\ {} \cup {} = {}
      BY FS_EmptySet
    <3> QED BY <3>1, <3>2 DEF Few
  <2> QED BY <2>1, <2>2, BaseInit
<1>2. Inv /\ [Next]_vars => Inv'
  BY BaseStep, AskedStep, NotClosedStep, GotFirstStep, FewStep
<1>3. Inv => PopsUpTo
  BY DEF Few, PopsUpTo
<1> QED BY <1>1, <1>2, <1>3, PTL DEF Spec

-----------------------------------------------------------------------------
(* What the users of the queue see, before and after a step.               *)

\* What they see of the items of a consumer.
Shown(c) ==
    IF c \notin Live \/ pc = "clear" THEN {}
    ELSE IF pc = "delete" /\ c = call.who
         THEN {x \in Content(c) \cup Pending : ~(Hit(x) /\ SplitFunc(x.key) \in todo)}
         ELSE Content(c) \cup Pending

\* That is the content of the abstract queue.
LEMMA SeenFun ==
  /\ ContentSeen = [c \in Consumers |-> Shown(c)]
  /\ ContentSeen' = [c \in Consumers |-> Shown(c)']
<1>1. ContentSeen = [c \in Consumers |-> Shown(c)]
  BY DEF ContentSeen, Shown
<1>2. ContentSeen' = [c \in Consumers |-> Shown(c)']
  BY DEF ContentSeen, Shown
<1> QED BY <1>1, <1>2

\* Outside Delete and Clear they see what there is.
LEMMA ShownPlain ==
  ASSUME NEW c
  PROVE  /\ pc \notin {"delete", "clear"} =>
               Shown(c) = IF c \in Live THEN Content(c) \cup Pending ELSE {}
         /\ pc' \notin {"delete", "clear"} =>
               Shown(c)' = IF c \in Live' THEN Content(c)' \cup Pending' ELSE {}
<1>1. pc \notin {"delete", "clear"} =>
         Shown(c) = IF c \in Live THEN Content(c) \cup Pending ELSE {}
  BY DEF Shown
<1>2. pc' \notin {"delete", "clear"} =>
         Shown(c)' = IF c \in Live' THEN Content(c)' \cup Pending' ELSE {}
  BY DEF Shown
<1> QED BY <1>1, <1>2

\* A step that its users do not see.
LEMMA SeenStutter ==
  ASSUME OpSeen' = OpSeen, forks' = forks, ViewSeen' = ViewSeen,
         \A c \in Consumers : Shown(c)' = Shown(c)
  PROVE  UNCHANGED Seen!qvars
<1>1. ContentSeen' = ContentSeen
  BY SeenFun
<1> QED BY <1>1 DEF Seen!qvars

\* The return of an operation.
LEMMA SeenEnd ==
  ASSUME OpSeen # Seen!NoOp, OpSeen' = Seen!NoOp, forks' = forks, ViewSeen' = {},
         \A c \in Consumers : Shown(c)' = Shown(c)
  PROVE  Seen!Next
<1>1. ContentSeen' = ContentSeen
  BY SeenFun
<1> QED BY <1>1 DEF Seen!Next, Seen!End

\* Nothing is going on.
LEMMA IdleSeen ==
  ASSUME BaseInv, pc = "idle"
  PROVE  OpSeen = Seen!NoOp /\ ViewSeen = {} /\ Pending = {} /\ call = NoCall /\ rd = NoRead
<1>1. call = NoCall /\ rd = NoRead /\ batch = <<>>
  BY DEF BaseInv, Shape
<1>2. OpSeen = Seen!NoOp
  BY <1>1 DEF OpSeen, Seen!NoOp, NoCall
<1>3. ViewSeen = {}
  BY <1>1 DEF ViewSeen, NoCall
<1>4. Pending = {}
  BY <1>1 DEF Pending
<1> QED BY <1>1, <1>2, <1>3, <1>4

\* Nothing is going on any more.
LEMMA ReturnSeen ==
  ASSUME Return
  PROVE  OpSeen' = Seen!NoOp /\ ViewSeen' = {} /\ pc' \notin {"delete", "clear"}
<1>1. call' = NoCall /\ rd' = NoRead /\ pc' = "idle"
  BY DEF Return
<1>2. OpSeen' = Seen!NoOp
  BY <1>1 DEF OpSeen, Seen!NoOp, NoCall
<1>3. ViewSeen' = {}
  BY <1>1 DEF ViewSeen, NoCall
<1> QED BY <1>1, <1>2, <1>3

\* A Read is going on.
LEMMA ReadSeen ==
  ASSUME BaseInv, pc \in {"iter", "callback", "reap"} \/ rd # NoRead
  PROVE  OpSeen.name = "read" /\ OpSeen.who = call.who /\ OpSeen # Seen!NoOp
BY DEF OpSeen, Seen!NoOp

\* What a Read sees.
LEMMA ViewFull ==
  /\ ViewSeen = IF call.count <= 0 THEN {}
                ELSE (IF pc = "reap" THEN {} ELSE rd.had) \cup HasOf(bucks, call.who, todo)
                     \cup {x \in Pending : SplitFunc(x.key) \in todo}
  /\ ViewSeen' = IF call'.count <= 0 THEN {}
                 ELSE (IF pc' = "reap" THEN {} ELSE rd'.had) \cup HasOf(bucks', call'.who, todo')
                      \cup {x \in Pending' : SplitFunc(x.key) \in todo'}
<1>1. ViewSeen = IF call.count <= 0 THEN {}
                 ELSE (IF pc = "reap" THEN {} ELSE rd.had) \cup HasOf(bucks, call.who, todo)
                      \cup {x \in Pending : SplitFunc(x.key) \in todo}
  BY DEF ViewSeen, HasOf
<1>2. ViewSeen' = IF call'.count <= 0 THEN {}
                  ELSE (IF pc' = "reap" THEN {} ELSE rd'.had) \cup HasOf(bucks', call'.who, todo')
                       \cup {x \in Pending' : SplitFunc(x.key) \in todo'}
  BY DEF ViewSeen, HasOf
<1> QED BY <1>1, <1>2

\* The same, when no Push is going on.
LEMMA ViewAt ==
  /\ batch = <<>> =>
        ViewSeen = IF call.count <= 0 THEN {}
                   ELSE (IF pc = "reap" THEN {} ELSE rd.had) \cup HasOf(bucks, call.who, todo)
  /\ batch' = <<>> =>
        ViewSeen' = IF call'.count <= 0 THEN {}
                    ELSE (IF pc' = "reap" THEN {} ELSE rd'.had) \cup HasOf(bucks', call'.who, todo')
<1>1. ASSUME batch = <<>>
      PROVE  ViewSeen = IF call.count <= 0 THEN {}
                        ELSE (IF pc = "reap" THEN {} ELSE rd.had) \cup HasOf(bucks, call.who, todo)
  <2>1. Pending = {}
    BY <1>1 DEF Pending
  <2> QED BY <2>1 DEF ViewSeen, HasOf
<1>2. ASSUME batch' = <<>>
      PROVE  ViewSeen' = IF call'.count <= 0 THEN {}
                         ELSE (IF pc' = "reap" THEN {} ELSE rd'.had) \cup HasOf(bucks', call'.who, todo')
  <2>1. Pending' = {}
    BY <1>2 DEF Pending
  <2> QED BY <2>1 DEF ViewSeen, HasOf
<1> QED BY <1>1, <1>2

\* Nothing changes in what there is.
LEMMA SameShown ==
  ASSUME pc \notin {"delete", "clear"}, pc' \notin {"delete", "clear"}, UNCHANGED <<forks, batch>>,
         \A k \in BucketKeys, c \in Consumers : c \in Live => bucks'[k].has[c] = bucks[k].has[c]
  PROVE  \A c \in Consumers : Shown(c)' = Shown(c)
<1> SUFFICES ASSUME NEW c \in Consumers PROVE Shown(c)' = Shown(c)
  OBVIOUS
<1>1. Live' = Live /\ Pending' = Pending
  BY DEF Live, Pending
<1>2. c \in Live => Content(c)' = Content(c)
  BY DEF Content
<1> QED BY <1>1, <1>2, ShownPlain

-----------------------------------------------------------------------------
(* Each step, as its users see it                                          *)

\* The items of a Push or tx.Push are new to every consumer, and all get them.
LEMMA AddSeen ==
  ASSUME AllInv, NEW keys \in Batches, Given(keys), pc \in {"idle", "callback"}
  PROVE  Seen!Add(Pending') /\ Pending' \in SUBSET ContentSeen'[Main]
<1>1. /\ pc' = "push" /\ UNCHANGED <<bucks, forks>> /\ batch = <<>>
  BY DEF Given, AllInv, BaseInv, Shape
<1>2. Pending = {} /\ Live' = Live
  BY <1>1 DEF Pending, Live
<1>3. Live \subseteq Consumers /\ Main \in Live /\ Main \in Consumers
  BY LiveConsumers DEF AllInv, BaseInv
<1>4. ASSUME NEW c \in Consumers
      PROVE  /\ Shown(c) = IF c \in Live THEN Content(c) ELSE {}
             /\ Shown(c)' = IF c \in Live THEN Content(c) \cup Pending' ELSE {}
  <2>1. Content(c)' = Content(c)
    BY <1>1 DEF Content
  <2> QED BY <1>1, <1>2, <2>1, ShownPlain
<1>5. ASSUME NEW c \in Consumers PROVE Pending' \cap Content(c) = {}
  <2>1. \A x \in Pending' : x \in Item /\ nextId <= x.id
    BY GivenLemma DEF AllInv, BaseInv
  <2>2. \A x \in Content(c) : x \in Item /\ x.id < nextId
    BY DEF AllInv, UniqueIds, Held
  <2>3. nextId \in Nat /\ \A x \in Item : x.id \in Nat
    BY DEF AllInv, BaseInv, TypeOK, Item
  <2> QED BY <2>1, <2>2, <2>3
<1>6. PICK con, con2, N : con = ContentSeen /\ con2 = ContentSeen' /\ N = Pending'
  OBVIOUS
<1>7. /\ con = [c \in Consumers |-> IF c \in Live THEN Content(c) ELSE {}]
      /\ con2 = [c \in Consumers |-> IF c \in Live THEN Content(c) \cup N ELSE {}]
  BY <1>4, <1>6, SeenFun
<1>8. \A c \in Live : N \cap con[c] = {}
  BY <1>3, <1>5, <1>6, <1>7
<1>9. con2 = [c \in DOMAIN con |-> IF c \in Live THEN con[c] \cup N ELSE con[c]]
  BY <1>7
<1>10. N \subseteq con2[Main]
  BY <1>3, <1>7
<1>11. Seen!Live = Live
  BY DEF Seen!Live, Live
<1> QED BY <1>1, <1>6, <1>8, <1>9, <1>10, <1>11 DEF Seen!Add

\* Push
LEMMA PushSeen ==
  ASSUME AllInv, Push
  PROVE  Seen!Next
<1>1. PICK keys \in Batches : Given(keys)
  BY DEF Push
<1>2. Seen!Add(Pending') /\ Pending' \in SUBSET ContentSeen'[Main]
  BY <1>1, AddSeen DEF Push
<1>3. OpSeen = Seen!NoOp /\ ViewSeen = {} /\ call = NoCall /\ rd = NoRead
  BY IdleSeen DEF AllInv, Push
<1>4. pc' = "push" /\ UNCHANGED <<call, rd>>
  BY <1>1 DEF Given
<1>5. OpSeen' = [Seen!NoOp EXCEPT !.name = "push"]
  BY <1>3, <1>4 DEF OpSeen, Seen!NoOp, NoCall
<1>6. ViewSeen' = {}
  BY <1>3, <1>4 DEF ViewSeen, NoCall
<1>7. Seen!Push(Pending')
  BY <1>2, <1>3, <1>5, <1>6 DEF Seen!Push
<1> QED BY <1>2, <1>7 DEF Seen!Next

\* tx.Push
LEMMA TxPushSeen ==
  ASSUME AllInv, TxPush
  PROVE  Seen!Next
<1>1. PICK keys \in Batches : Given(keys)
  BY DEF TxPush
<1>2. Seen!Add(Pending') /\ Pending' \in SUBSET ContentSeen'[Main]
  BY <1>1, AddSeen DEF TxPush
<1>3. pc = "callback" /\ pc' = "push" /\ UNCHANGED <<call, rd, todo, bucks>> /\ batch = <<>> /\ rd # NoRead
  BY <1>1 DEF Given, TxPush, AllInv, BaseInv, Shape
<1>4. OpSeen' = OpSeen /\ OpSeen.name = "read"
  BY <1>3 DEF OpSeen
<1>5. call.count > 0 /\ call.count \in Int
  BY <1>3 DEF AllInv, Asked, InCallback, BaseInv, TypeOK
<1>6. PICK some : some = {x \in Pending' : SplitFunc(x.key) \in todo}
  OBVIOUS
<1>7. ViewSeen' = ViewSeen \cup some
  <2>1. ViewSeen = rd.had \cup HasOf(bucks, call.who, todo)
    BY <1>3, <1>5, ViewAt
  <2>2. ViewSeen' = rd.had \cup HasOf(bucks, call.who, todo) \cup some
    <3>1. HasOf(bucks', call'.who, todo') = HasOf(bucks, call.who, todo) /\ call'.count = call.count
      BY <1>3
    <3>2. {x \in Pending' : SplitFunc(x.key) \in todo'} = some
      BY <1>3, <1>6
    <3>3. pc' # "reap" /\ rd'.had = rd.had
      BY <1>3
    <3> QED BY <1>5, <3>1, <3>2, <3>3, ViewFull
  <2> QED BY <2>1, <2>2
<1>8. some \in SUBSET Pending'
  BY <1>6
<1>9. Seen!TxPush(Pending')
  BY <1>2, <1>4, <1>7, <1>8 DEF Seen!TxPush
<1> QED BY <1>2, <1>9 DEF Seen!Next

\* The part of a bucket goes from the batch to the tree.
LEMMA PushBucketSeen ==
  ASSUME AllInv, PushBucket
  PROVE  Seen!Next \/ UNCHANGED Seen!qvars
<1>1. PICK key : key = SplitFunc(batch[1].key)
  OBVIOUS
<1>2. PICK rest : rest = SubSeq(batch, Cardinality(Part) + 1, Len(batch))
  OBVIOUS
<1>3. /\ batch' = rest /\ pc = "push" /\ UNCHANGED <<opts, forks, call, todo>>
      /\ pc' = (IF rest # <<>> THEN "push" ELSE IF rd = NoRead THEN "idle" ELSE "callback")
      /\ rd' = rd
  BY <1>2, NotClosedPush DEF PushBucket, AllInv, CarefulInv
<1>4. /\ key \in BucketKeys
      /\ \A k \in BucketKeys, c \in Consumers :
            bucks'[k].has[c] = IF k = key /\ c \in Live THEN bucks[k].has[c] \cup Part
                               ELSE bucks[k].has[c]
  BY <1>1, PushTree DEF AllInv
<1>5. /\ Part \cup ItemsOf(rest) = Pending /\ \A x \in Part : SplitFunc(x.key) = key
      /\ Pending' = ItemsOf(rest)
  <2>1. batch \in Seq(Item) /\ batch # <<>> /\ Distinct(batch) /\ Ascends(batch)
    BY <1>3 DEF AllInv, BaseInv, TypeOK, Shape, PlaceInv, Sorted
  <2>2. Part \cup ItemsOf(rest) = Pending /\ \A x \in Part : SplitFunc(x.key) = key
    BY <1>1, <1>2, <2>1, PartLemma
  <2>3. Pending' = ItemsOf(rest)
    BY <1>3 DEF Pending, ItemsOf
  <2> QED BY <2>2, <2>3
<1>6. ASSUME NEW c \in Consumers PROVE Shown(c)' = Shown(c)
  <2>1. Live' = Live
    BY <1>3 DEF Live
  <2>2. c \in Live => Content(c)' = Content(c) \cup Part
    <3>1. \A x : x \in Content(c) <=> \E k \in BucketKeys : x \in bucks[k].has[c]
      BY DEF Content
    <3>2. \A x : x \in Content(c)' <=> \E k \in BucketKeys : x \in bucks'[k].has[c]
      BY DEF Content
    <3> QED BY <1>4, <3>1, <3>2
  <2>3. c \in Live => Content(c)' \cup Pending' = Content(c) \cup Pending
    BY <1>5, <2>2
  <2> QED BY <1>3, <2>1, <2>3, ShownPlain
<1>7. CASE rd = NoRead
  <2>1. call = NoCall
    BY <1>3, <1>7 DEF AllInv, BaseInv, Shape
  <2>2. ViewSeen = {} /\ ViewSeen' = {}
    BY <1>3, <2>1 DEF ViewSeen, NoCall
  <2>3. CASE rest = <<>>
    <3>1. OpSeen # Seen!NoOp /\ OpSeen' = Seen!NoOp
      BY <1>3, <1>7, <2>1, <2>3 DEF OpSeen, Seen!NoOp, NoCall
    <3> QED BY <1>3, <1>6, <2>2, <3>1, SeenEnd
  <2>4. CASE rest # <<>>
    <3>1. OpSeen' = OpSeen
      BY <1>3, <2>4 DEF OpSeen
    <3> QED BY <1>3, <1>6, <2>2, <3>1, SeenStutter
  <2> QED BY <2>3, <2>4
<1>8. CASE rd # NoRead
  <2>1. OpSeen' = OpSeen
    BY <1>3, <1>8 DEF OpSeen
  <2>2. call.who \in Live /\ call.who \in Consumers /\ todo \subseteq BucketKeys
    BY DEF AllInv, BaseInv, Shape, TypeOK
  <2>3. pc' # "reap"
    BY <1>3
  <2>4. \A k \in todo : bucks'[k].has[call.who] = IF k = key THEN bucks[k].has[call.who] \cup Part
                                                  ELSE bucks[k].has[call.who]
    BY <1>4, <2>2
  <2>5. PICK G, H, P, Q : /\ G = HasOf(bucks, call.who, todo) /\ H = HasOf(bucks', call.who, todo)
                          /\ P = {x \in Pending : SplitFunc(x.key) \in todo}
                          /\ Q = {x \in Pending' : SplitFunc(x.key) \in todo}
    OBVIOUS
  <2>6. G \cup P = H \cup Q
    <3>1. H = G \cup (IF key \in todo THEN Part ELSE {})
      <4>1. \A x : x \in G <=> \E k \in todo : x \in bucks[k].has[call.who]
        BY <2>5 DEF HasOf
      <4>2. \A x : x \in H <=> \E k \in todo : x \in bucks'[k].has[call.who]
        BY <2>5 DEF HasOf
      <4> QED BY <2>4, <4>1, <4>2
    <3>2. P = Q \cup (IF key \in todo THEN Part ELSE {})
      BY <1>5, <2>5
    <3> QED BY <3>1, <3>2
  <2>7. /\ ViewSeen = IF call.count <= 0 THEN {} ELSE rd.had \cup G \cup P
        /\ ViewSeen' = IF call.count <= 0 THEN {} ELSE rd.had \cup H \cup Q
    <3>1. pc # "reap" /\ pc' # "reap" /\ rd' = rd /\ call' = call /\ todo' = todo
      BY <1>3, <2>3
    <3> QED BY <2>5, <3>1, ViewFull
  <2>8. rd.had \cup G \cup P = rd.had \cup H \cup Q
    BY <2>6
  <2> QED BY <1>3, <1>6, <2>1, <2>7, <2>8, SeenStutter
<1> QED BY <1>7, <1>8

\* The beginning of a Read.
LEMMA ReadBegins ==
  ASSUME AllInv, Read
  PROVE  Seen!Next
<1>1. PICK c \in Live, n \in Ns : call' = [NoCall EXCEPT !.who = c, !.n = n, !.count = n]
  BY DEF Read
<1>2. /\ pc = "idle" /\ pc' = "iter" /\ todo' = InTree(bucks)
      /\ UNCHANGED <<bucks, forks, rd, batch>>
  BY DEF Read
<1>3. OpSeen = Seen!NoOp /\ Pending = {} /\ rd = NoRead /\ batch = <<>>
  BY <1>2, IdleSeen DEF AllInv, BaseInv, Shape
<1>4. c \in Consumers /\ n \in Int /\ n > 0
  BY LiveConsumers, BucketsAssumption DEF AllInv, BaseInv, All
<1>5. call'.who = c /\ call'.count = n /\ call'.lo = 0 /\ call'.hi = 0
  BY <1>1 DEF NoCall
<1>6. OpSeen' = [Seen!NoOp EXCEPT !.name = "read", !.who = c]
  <2>1. OpSeen' = [name |-> "read", who |-> c, lo |-> 0, hi |-> 0]
    BY <1>2, <1>5 DEF OpSeen
  <2>2. PICK z : z = [Seen!NoOp EXCEPT !.name = "read", !.who = c]
    OBVIOUS
  <2>3. z = [name |-> "read", who |-> c, lo |-> 0, hi |-> 0]
    BY <2>2 DEF Seen!NoOp
  <2> QED BY <2>1, <2>2, <2>3
<1>7. \A d \in Consumers : Shown(d)' = Shown(d)
  BY <1>2, SameShown
<1>8. ViewSeen' = Shown(c)
  <2>1. ViewSeen' = HasOf(bucks, c, InTree(bucks))
    BY <1>2, <1>3, <1>4, <1>5, ViewAt, NoTypes
  <2>2. Shown(c) = Content(c)
    BY <1>2, <1>3, ShownPlain
  <2>3. \A k \in BucketKeys : k \notin InTree(bucks) => bucks[k].has[c] = {}
    BY <1>4 DEF InTree, AllInv, PlaceInv, AbsentEmpty
  <2>4. InTree(bucks) \subseteq BucketKeys
    BY DEF InTree
  <2> QED BY <2>1, <2>2, <2>3, <2>4 DEF HasOf, Content
<1>9. ContentSeen' = ContentSeen /\ ContentSeen[c] = Shown(c)
  BY <1>4, <1>7, SeenFun
<1>10. Seen!Read(c)
  BY <1>2, <1>3, <1>6, <1>8, <1>9 DEF Seen!Read
<1>11. c \in Seen!Live
  BY DEF Seen!Live, Live
<1> QED BY <1>10, <1>11 DEF Seen!Next

\* Opening the next bucket is not seen.
LEMMA ReadBucketSeen ==
  ASSUME AllInv, ReadBucket
  PROVE  UNCHANGED Seen!qvars
<1>1. /\ NextBucket \in todo /\ \A k \in BucketKeys : bucks'[k].has = bucks[k].has
      /\ todo \subseteq BucketKeys
  BY ReadTree DEF AllInv, BaseInv, TypeOK
<1>2. PICK had : had = bucks'[NextBucket].has[call.who]
  OBVIOUS
<1>3. PICK out : rd' = [NoRead EXCEPT !.at = {NextBucket}, !.out = out, !.had = had]
  BY <1>2 DEF ReadBucket, Update
<1>4. rd'.had = had
  BY <1>3 DEF NoRead
<1>5. /\ pc = "iter" /\ pc' = "callback" /\ todo' = todo \ {NextBucket}
      /\ UNCHANGED <<forks, call, batch>> /\ batch = <<>> /\ rd = NoRead
  BY DEF ReadBucket, AllInv, BaseInv, Shape
<1>6. \A c \in Consumers : Shown(c)' = Shown(c)
  BY <1>1, <1>5, SameShown
<1>7. OpSeen' = OpSeen
  BY <1>5 DEF OpSeen
<1>8. ViewSeen' = ViewSeen
  <2>1. HasOf(bucks, call.who, todo) = had \cup HasOf(bucks', call.who, todo \ {NextBucket})
    BY <1>1, <1>2 DEF HasOf
  <2> QED BY <1>4, <1>5, <2>1, ViewAt, NoTypes
<1> QED BY <1>5, <1>6, <1>7, <1>8, SeenStutter

\* The end of a Read that came to the end of the tree.
LEMMA ReadEndSeen ==
  ASSUME AllInv, ReadEnd
  PROVE  Seen!Next
<1>1. OpSeen # Seen!NoOp
  BY ReadSeen DEF AllInv, ReadEnd
<1>2. OpSeen' = Seen!NoOp /\ ViewSeen' = {} /\ pc' \notin {"delete", "clear"}
  BY ReturnSeen DEF ReadEnd
<1>3. pc = "iter" /\ UNCHANGED <<bucks, forks, batch>>
  BY DEF ReadEnd
<1>4. \A c \in Consumers : Shown(c)' = Shown(c)
  BY <1>2, <1>3, SameShown
<1> QED BY <1>1, <1>2, <1>3, <1>4, SeenEnd

\* The callback returned an error, and the Read goes on or is over.
LEMMA ReadErrorSeen ==
  ASSUME AllInv, CallbackErr
  PROVE  Seen!Next
<1>1. /\ pc = "callback" /\ UNCHANGED <<bucks, forks, batch>> /\ ReadError /\ batch = <<>>
  BY DEF CallbackErr, AllInv, BaseInv, Shape
<1>2. OpSeen.name = "read" /\ OpSeen # Seen!NoOp
  BY <1>1, ReadSeen DEF AllInv
<1>3. CASE Return
  <2>1. OpSeen' = Seen!NoOp /\ ViewSeen' = {} /\ pc' \notin {"delete", "clear"}
    BY <1>3, ReturnSeen
  <2>2. \A c \in Consumers : Shown(c)' = Shown(c)
    BY <1>1, <2>1, SameShown
  <2> QED BY <1>1, <1>2, <2>1, <2>2, SeenEnd
<1>4. CASE pc' = "iter" /\ rd' = NoRead /\ UNCHANGED <<call, todo, dead>>
  <2>1. OpSeen' = OpSeen
    BY <1>1, <1>4 DEF OpSeen
  <2>2. \A c \in Consumers : Shown(c)' = Shown(c)
    BY <1>1, <1>4, SameShown
  <2>3. ViewSeen' \subseteq ViewSeen
    BY <1>1, <1>4, ViewAt, NoTypes
  <2>4. ContentSeen' = ContentSeen
    BY <2>2, SeenFun
  <2>5. Seen!First({})
    BY DEF Seen!First
  <2>6. ViewSeen \ {} = ViewSeen
    OBVIOUS
  <2>7. Seen!Look({})
    BY <1>1, <1>2, <2>1, <2>3, <2>4, <2>5, <2>6 DEF Seen!Look
  <2>8. {} \in SUBSET ViewSeen
    OBVIOUS
  <2> QED BY <2>7, <2>8 DEF Seen!Next
<1> QED BY <1>1, <1>3, <1>4 DEF ReadError

\* The callback looked at items.
LEMMA PeekSeen ==
  ASSUME AllInv, Peek
  PROVE  Seen!Next
<1>1. /\ pc = "callback" /\ UNCHANGED <<bucks, forks, batch, todo, rd>> /\ Served(bucks) /\ batch = <<>>
      /\ pc' = "reap"
  BY DEF Peek, Served, AllInv, BaseInv, Shape
<1>2. OpSeen.name = "read" /\ OpSeen.who = call.who
  BY <1>1, ReadSeen DEF AllInv
<1>3. call \in CallType
  BY DEF AllInv, BaseInv, TypeOK, CallType
<1>4. call'.who = call.who /\ call'.lo = call.lo /\ call'.hi = call.hi
  BY <1>1, <1>3 DEF Served, CallType
<1>5. OpSeen' = OpSeen
  BY <1>1, <1>4 DEF OpSeen
<1>6. \A c \in Consumers : Shown(c)' = Shown(c)
  BY <1>1, SameShown
<1>7. ViewSeen' \subseteq ViewSeen
  <2>1. ~(call.count <= 0)
    <3>1. call.count > 0 /\ call.count \in Int
      BY <1>1 DEF AllInv, Asked, InCallback, BaseInv, Shape, TypeOK
    <3> QED BY <3>1
  <2> QED BY <1>1, <1>4, <2>1, ViewAt
<1>8. ContentSeen' = ContentSeen
  BY <1>6, SeenFun
<1>9. Seen!First({})
  BY DEF Seen!First
<1>10. ViewSeen \ {} = ViewSeen
  OBVIOUS
<1>11. Seen!Look({})
  BY <1>1, <1>2, <1>5, <1>7, <1>8, <1>9, <1>10 DEF Seen!Look
<1>12. {} \in SUBSET ViewSeen
  OBVIOUS
<1> QED BY <1>11, <1>12 DEF Seen!Next

\* What the callback got is the first of what is left for the Read: the rest
\* of the bucket and the buckets to come have no smaller keys.
LEMMA OutFirst ==
  ASSUME AllInv, pc = "callback"
  PROVE  Seen!First(rd.out)
<1>1. rd # NoRead /\ InCallback /\ batch = <<>>
  BY DEF AllInv, BaseInv, Shape, InCallback
<1>2. PICK k \in BucketKeys : rd.at = {k}
  BY <1>1, ReadAtOne DEF AllInv
<1>3. call.count > 0 /\ call.count \in Int /\ todo \subseteq BucketKeys /\ call.who \in Consumers
  BY <1>1 DEF AllInv, Asked, BaseInv, TypeOK
<1>4. ViewSeen = rd.had \cup HasOf(bucks, call.who, todo)
  BY <1>1, <1>3, ViewAt
<1>5. rd.out \subseteq rd.had /\ \A x \in rd.out, y \in rd.had \ rd.out : x.key <= y.key
  BY <1>1 DEF AllInv, CarefulInv, GotFirst, Peeked
<1>6. rd.had \subseteq bucks[k].has[call.who]
  BY <1>1, <1>2 DEF AllInv, Asked, CarefulInv, NotClosed
<1>7. ASSUME NEW x \in rd.out, NEW y \in HasOf(bucks, call.who, todo) PROVE x.key <= y.key
  <2>1. PICK l \in todo : y \in bucks[l].has[call.who]
    BY DEF HasOf
  <2>2. k < l /\ k \in Int /\ l \in Int
    BY <1>2, <1>3, BucketKeysFinite DEF AllInv, CarefulInv, Onward
  <2>3. x \in bucks[k].has[call.who] /\ l \in BucketKeys
    BY <1>3, <1>5, <1>6
  <2>4. x \in Item /\ y \in Item
    BY <1>3, <2>1, <2>3, LenType DEF AllInv, BaseInv
  <2>5. x.key \in Int /\ y.key \in Int
    BY <2>4, BucketsAssumption DEF Item
  <2>6. SplitFunc(x.key) = k /\ SplitFunc(y.key) = l
    BY <1>3, <2>1, <2>3 DEF AllInv, PlaceInv, Placed
  <2>7. ~(y.key <= x.key)
    <3> SUFFICES ASSUME y.key <= x.key PROVE FALSE
      OBVIOUS
    <3>1. SplitFunc(y.key) <= SplitFunc(x.key)
      BY <2>5, SplitMonotone
    <3> QED BY <2>2, <2>6, <3>1
  <2> QED BY <2>5, <2>7
<1> QED BY <1>4, <1>5, <1>7 DEF Seen!First

\* If the callback consumed less than the bucket had, the Read has enough.
LEMMA TookAll ==
  ASSUME AllInv, Pop, ~(call'.count <= 0)
  PROVE  rd.out = rd.had
<1>1. pc = "callback" /\ ~rd.stale /\ rd # NoRead /\ InCallback
  BY DEF Pop, AllInv, CarefulInv, NotClosed, BaseInv, Shape, InCallback
<1>2. PICK k \in BucketKeys : rd.at = {k}
  BY <1>1, ReadAtOne DEF AllInv
<1>3. Served(bucks')
  BY <1>1 DEF Pop, Update
<1>4. /\ TreeOK(bucks') /\ call.who \in Consumers /\ call \in CallType /\ call.count \in Int
      /\ bucks'[k].has[call.who] = bucks[k].has[call.who] \ rd.out
      /\ IsFiniteSet(rd.had) /\ rd.out \subseteq rd.had
  <2>1. call.who \in Consumers /\ call \in CallType /\ call.count \in Int
        /\ IsFiniteSet(rd.had) /\ rd.out \subseteq rd.had
    BY DEF AllInv, BaseInv, TypeOK, CallType, Shape
  <2> QED BY <1>1, <1>2, <2>1, PopTree DEF AllInv
<1>5. /\ Counted(bucks') = Cardinality(rd.had) - Cardinality(bucks'[k].has[call.who])
      /\ Cardinality(rd.had) \in Nat /\ Cardinality(bucks'[k].has[call.who]) \in Nat
  BY <1>1, <1>2, <1>4, CountedLemma DEF AllInv
<1>6. call'.count = call.count - Counted(bucks')
  BY <1>3, <1>4 DEF Served, CallType
<1>7. Cardinality(rd.out) = Min({call.count, Cardinality(rd.had)})
  BY <1>1 DEF AllInv, CarefulInv, GotFirst, Peeked
<1>8. Min({call.count, Cardinality(rd.had)}) \in {call.count, Cardinality(rd.had)}
  <2>1. IsFiniteSet({call.count})
    BY FS_Singleton
  <2>2. IsFiniteSet({call.count} \cup {Cardinality(rd.had)})
    BY <2>1, FS_AddElement
  <2>3. {call.count} \cup {Cardinality(rd.had)} = {call.count, Cardinality(rd.had)}
    OBVIOUS
  <2>4. {call.count, Cardinality(rd.had)} \subseteq Int
    BY <1>4, <1>5
  <2> QED BY <2>2, <2>3, <2>4, MinOfFinite
<1>9. CASE Cardinality(rd.out) = Cardinality(rd.had)
  BY <1>4, <1>9, FS_Subset
<1>10. CASE Cardinality(rd.out) = call.count /\ call.n # All
  <2>1. PICK H, O : H = rd.had /\ O = rd.out
    OBVIOUS
  <2>2. bucks[k].has[call.who] = H
    BY <1>1, <1>2, <1>10, <2>1 DEF AllInv, CarefulInv, GotFirst
  <2>3. Cardinality(H \ O) = Cardinality(H) - Cardinality(O)
    <3>1. Cardinality(H \ O) = Cardinality(H) - Cardinality(H \cap O)
      BY <1>4, <2>1, FS_Difference
    <3>2. H \cap O = O
      BY <1>4, <2>1
    <3> QED BY <3>1, <3>2
  <2>4. Counted(bucks') = call.count
    BY <1>4, <1>5, <1>10, <2>1, <2>2, <2>3
  <2> QED BY <1>4, <1>6, <2>4
<1>11. CASE Cardinality(rd.out) = call.count /\ call.n = All
  <2>1. PICK A, H : A = Ahead /\ H = rd.had
    OBVIOUS
  <2>2. IsFiniteSet(A) /\ Cardinality(A) \in Nat
    BY <2>1, AheadFinite DEF AllInv
  <2>3. H \subseteq A
    <3>1. rd.had \subseteq bucks[k].has[call.who]
      BY <1>1, <1>2 DEF AllInv, Asked
    <3>2. k \in AheadAt
      BY <1>1, <1>2 DEF AheadAt
    <3> QED BY <2>1, <3>1, <3>2 DEF Ahead, HasOf
  <2>4. Cardinality(H) <= Cardinality(A)
    BY <2>2, <2>3, FS_Subset
  <2>5. Cardinality(A) + (MaxItems - nextId) < call.count
    BY <1>1, <1>11, <2>1 DEF AllInv, CarefulInv, Enough
  <2>6. MaxItems \in Nat /\ nextId \in Nat /\ nextId <= MaxItems
    BY BucketsAssumption DEF AllInv, BaseInv, TypeOK
  <2>7. Cardinality(rd.out) <= Cardinality(rd.had)
    BY <1>4, FS_Subset
  <2> QED BY <1>4, <1>5, <1>11, <2>1, <2>2, <2>4, <2>5, <2>6, <2>7
<1> QED BY <1>7, <1>8, <1>9, <1>10, <1>11

\* The callback consumed what it got.
LEMMA PopSeen ==
  ASSUME AllInv, Pop
  PROVE  Seen!Next
<1>1. /\ pc = "callback" /\ ~rd.stale /\ batch = <<>> /\ rd # NoRead
      /\ UNCHANGED <<forks, batch>>
  BY DEF Pop, AllInv, CarefulInv, NotClosed, BaseInv, Shape
<1>2. Served(bucks') /\ pc' = "reap" /\ UNCHANGED <<todo, rd>>
  BY <1>1 DEF Pop, Update, Served
<1>3. PICK k \in BucketKeys : rd.at = {k}
  BY <1>1, ReadAtOne DEF AllInv
<1>4. /\ call \in CallType /\ call.who \in Consumers /\ call.who \in Live /\ rd.out \subseteq rd.had
      /\ todo \subseteq BucketKeys /\ call.count \in Int
  BY DEF AllInv, BaseInv, TypeOK, CallType, Shape
<1>5. call'.who = call.who /\ call'.lo = call.lo /\ call'.hi = call.hi
  BY <1>2, <1>4 DEF Served, CallType
<1>6. OpSeen' = OpSeen /\ OpSeen.name = "read" /\ OpSeen.who = call.who
  <2>1. OpSeen' = OpSeen
    BY <1>1, <1>2, <1>5 DEF OpSeen
  <2> QED BY <1>1, <2>1, ReadSeen DEF AllInv
<1>7. \A j \in BucketKeys, c \in Consumers :
         bucks'[j].has[c] = IF j = k /\ c = call.who THEN bucks[j].has[c] \ rd.out ELSE bucks[j].has[c]
  BY <1>1, <1>3, PopTree DEF AllInv
<1>8. rd.out \subseteq bucks[k].has[call.who]
  BY <1>1, <1>3, <1>4 DEF AllInv, Asked, InCallback
<1>9. \A j \in BucketKeys : \A x \in rd.out : x \in bucks[j].has[call.who] => j = k
  BY <1>4, <1>8 DEF AllInv, PlaceInv, Placed
<1>10. ASSUME NEW c \in Consumers
       PROVE  Shown(c)' = IF c = call.who THEN Shown(c) \ rd.out ELSE Shown(c)
  <2>1. Live' = Live /\ Pending' = {} /\ Pending = {}
    BY <1>1 DEF Live, Pending
  <2>2. Content(c)' = IF c = call.who THEN Content(c) \ rd.out ELSE Content(c)
    <3>1. \A x : x \in Content(c) <=> \E j \in BucketKeys : x \in bucks[j].has[c]
      BY DEF Content
    <3>2. \A x : x \in Content(c)' <=> \E j \in BucketKeys : x \in bucks'[j].has[c]
      BY DEF Content
    <3>3. CASE c = call.who
      <4>1. \A j \in BucketKeys : bucks'[j].has[c] =
               IF j = k THEN bucks[j].has[c] \ rd.out ELSE bucks[j].has[c]
        BY <1>7, <3>3
      <4>2. \A j \in BucketKeys : \A x \in rd.out : x \in bucks[j].has[c] => j = k
        BY <1>9, <3>3
      <4>3. \A x : x \in Content(c)' <=> x \in Content(c) /\ x \notin rd.out
        BY <3>1, <3>2, <4>1, <4>2
      <4> QED BY <3>3, <4>3
    <3>4. CASE c # call.who
      <4>1. \A j \in BucketKeys : bucks'[j].has[c] = bucks[j].has[c]
        BY <1>7, <3>4
      <4>2. \A x : x \in Content(c)' <=> x \in Content(c)
        BY <3>1, <3>2, <4>1
      <4> QED BY <3>4, <4>2
    <3> QED BY <3>3, <3>4
  <2> QED BY <1>1, <1>2, <2>1, <2>2, ShownPlain
<1>11. ContentSeen' = [ContentSeen EXCEPT ![call.who] = ContentSeen[call.who] \ rd.out]
  <2>1. PICK con, con2 : con = ContentSeen /\ con2 = ContentSeen'
    OBVIOUS
  <2>2. /\ con = [c \in Consumers |-> Shown(c)]
        /\ con2 = [c \in Consumers |-> IF c = call.who THEN Shown(c) \ rd.out ELSE Shown(c)]
    BY <1>10, <2>1, SeenFun
  <2>3. con2 = [con EXCEPT ![call.who] = con[call.who] \ rd.out]
    BY <1>4, <2>2
  <2> QED BY <2>1, <2>3
<1>12. ViewSeen' \in {ViewSeen \ rd.out, {}}
  <2>1. CASE call'.count <= 0
    BY <1>1, <2>1, ViewAt
  <2>2. CASE ~(call'.count <= 0)
    <3>1. rd.out = rd.had
      BY <2>2, TookAll
    <3>2. call.count > 0
      BY <1>1 DEF AllInv, Asked, InCallback
    <3>3. ViewSeen = rd.had \cup HasOf(bucks, call.who, todo)
      BY <1>1, <1>4, <3>2, ViewAt
    <3>4. ViewSeen' = HasOf(bucks', call.who, todo)
      BY <1>1, <1>2, <1>5, <2>2, ViewAt
    <3>5. k \notin todo
      BY <1>3, BucketKeysFinite DEF AllInv, CarefulInv, Onward
    <3>6. HasOf(bucks', call.who, todo) = HasOf(bucks, call.who, todo)
      <4>1. \A j \in todo : bucks'[j].has[call.who] = bucks[j].has[call.who]
        BY <1>4, <1>7, <3>5
      <4> QED BY <4>1 DEF HasOf
    <3>7. rd.had \cap HasOf(bucks, call.who, todo) = {}
      BY <1>4, <1>9, <3>1, <3>5 DEF HasOf
    <3> QED BY <3>1, <3>3, <3>4, <3>6, <3>7
  <2> QED BY <2>1, <2>2
<1>13. Seen!First(rd.out)
  BY <1>1, OutFirst
<1>14. Seen!Take(rd.out)
  BY <1>1, <1>6, <1>11, <1>12, <1>13 DEF Seen!Take
<1>15. rd.out \in SUBSET ViewSeen
  BY <1>13 DEF Seen!First
<1> QED BY <1>14, <1>15 DEF Seen!Next

\* A drained bucket goes, which nobody sees, and the Read goes on or is over.
LEMMA ReapSeen ==
  ASSUME AllInv, Reap
  PROVE  Seen!Next \/ UNCHANGED Seen!qvars
<1>1. /\ pc = "reap" /\ UNCHANGED <<forks, batch>> /\ batch = <<>> /\ ~rd.stale /\ TreeOK(bucks)
      /\ call.who \in Live /\ call.who \in Consumers /\ todo \subseteq BucketKeys
  BY DEF Reap, AllInv, CarefulInv, NotClosed, BaseInv, Shape, TypeOK
<1>2. PICK ks : ks = {k \in rd.at : Drained(k)}
  OBVIOUS
<1>3. bucks' = Without(bucks, ks)
  BY <1>2 DEF Reap, Update
<1>4. \A k \in BucketKeys, c \in Consumers : c \in Live => bucks'[k].has[c] = bucks[k].has[c]
  <2>1. \A k \in ks : \A c \in Live : bucks[k].has[c] = {}
    BY <1>1, <1>2 DEF Drained, AllEmpty
  <2>2. \A j \in BucketKeys : bucks'[j] = IF j \in ks THEN Absent ELSE bucks[j]
    BY <1>3 DEF Without
  <2>3. \A c \in Consumers : Absent.has[c] = {}
    BY DEF Absent
  <2> SUFFICES ASSUME NEW k \in BucketKeys, NEW c \in Consumers, c \in Live
               PROVE  bucks'[k].has[c] = bucks[k].has[c]
    OBVIOUS
  <2>4. CASE k \in ks
    <3>1. bucks[k].has[c] = {}
      BY <2>1, <2>4
    <3>2. bucks'[k] = Absent
      BY <2>2, <2>4
    <3>3. bucks'[k].has[c] = {}
      BY <2>3, <3>2
    <3> QED BY <3>1, <3>3
  <2>5. CASE k \notin ks
    BY <2>2, <2>5
  <2> QED BY <2>4, <2>5
<1>5. OpSeen.name = "read" /\ OpSeen # Seen!NoOp
  BY <1>1, ReadSeen DEF AllInv
<1>6. CASE Return
  <2>1. OpSeen' = Seen!NoOp /\ ViewSeen' = {} /\ pc' \notin {"delete", "clear"}
    BY <1>6, ReturnSeen
  <2>2. \A c \in Consumers : Shown(c)' = Shown(c)
    BY <1>1, <1>4, <2>1, SameShown
  <2> QED BY <1>1, <1>5, <2>1, <2>2, SeenEnd
<1>7. CASE pc' = "iter" /\ rd' = NoRead /\ UNCHANGED <<call, todo, dead>>
  <2>1. OpSeen' = OpSeen
    BY <1>1, <1>7 DEF OpSeen
  <2>2. \A c \in Consumers : Shown(c)' = Shown(c)
    BY <1>1, <1>4, <1>7, SameShown
  <2>3. HasOf(bucks', call.who, todo) = HasOf(bucks, call.who, todo)
    BY <1>1, <1>4 DEF HasOf
  <2>4. ViewSeen' = ViewSeen
    BY <1>1, <1>7, <2>3, ViewAt, NoTypes
  <2> QED BY <1>1, <2>1, <2>2, <2>4, SeenStutter
<1> QED BY <1>6, <1>7 DEF Reap

\* Delete takes effect when it is called: the items in the range are all in
\* buckets that it will come to.
LEMMA DeleteSeen ==
  ASSUME AllInv, Delete
  PROVE  Seen!Next
<1>1. pc = "idle" /\ pc' = "delete" /\ UNCHANGED <<bucks, forks, rd, batch>>
  BY DEF Delete
<1>2. PICK c \in Live, r \in Ranges :
        /\ call' = [NoCall EXCEPT !.who = c, !.lo = r[1], !.hi = r[2]]
        /\ todo' = InRange(r[1], r[2])
  BY DEF Delete
<1>3. PICK lo, hi : lo = r[1] /\ hi = r[2] /\ lo \in Int /\ hi \in Int
  BY BucketsAssumption
<1>4. call' = [who |-> c, n |-> 0, count |-> 0, lo |-> lo, hi |-> hi, popped |-> {}]
      /\ todo' = InRange(lo, hi)
  BY <1>2, <1>3 DEF NoCall
<1>5. OpSeen = Seen!NoOp /\ ViewSeen = {} /\ Pending = {} /\ rd = NoRead
  BY <1>1, IdleSeen DEF AllInv
<1>6. Pending' = {} /\ Live' = Live /\ Live \subseteq Consumers
  BY <1>1, <1>5, LiveConsumers DEF Pending, Live, AllInv, BaseInv
<1>7. OpSeen' = [name |-> "delete", who |-> c, lo |-> lo, hi |-> hi]
  BY <1>1, <1>4, <1>5, NoTypes DEF OpSeen
<1>8. ViewSeen' = {}
  BY <1>4 DEF ViewSeen
<1>9. \A d \in Consumers : Shown(d) = IF d \in Live THEN Content(d) ELSE {}
  BY <1>1, <1>5, ShownPlain
<1>10. \A d \in Consumers : Content(d)' = Content(d)
  BY <1>1 DEF Content
<1>11. \A d \in Consumers : d # c => Shown(d)' = Shown(d)
  BY <1>1, <1>4, <1>6, <1>9, <1>10 DEF Shown
<1>12. Shown(c)' = {x \in Shown(c) : x.key < lo \/ x.key > hi}
  <2>1. Shown(c)' = {x \in Content(c) : ~((lo <= x.key /\ x.key <= hi) /\ SplitFunc(x.key) \in InRange(lo, hi))}
    <3>1. c \in Consumers /\ c \in Live'
      BY <1>6
    <3>2. Shown(c)' = {x \in Content(c)' \cup Pending' :
                          ~((call'.lo <= x.key /\ x.key <= call'.hi) /\ SplitFunc(x.key) \in todo')}
      BY <1>1, <1>4, <3>1 DEF Shown, Hit
    <3>3. Content(c)' \cup Pending' = Content(c) /\ call'.lo = lo /\ call'.hi = hi
      BY <1>4, <1>6, <1>10
    <3> QED BY <1>4, <3>2, <3>3
  <2>2. ASSUME NEW x \in Content(c), lo <= x.key, x.key <= hi PROVE SplitFunc(x.key) \in InRange(lo, hi)
    <3>1. PICK k \in BucketKeys : x \in bucks[k].has[c]
      BY DEF Content
    <3>2. c \in Consumers /\ TreeOK(bucks)
      BY <1>6 DEF AllInv, BaseInv
    <3>3. SplitFunc(x.key) = k /\ bucks[k].st # "absent"
      BY <3>1, <3>2 DEF AllInv, PlaceInv, Placed, AbsentEmpty
    <3>4. x.key \in Int
      BY <3>1, <3>2, LenType, BucketsAssumption DEF Item
    <3>5. SplitFunc(lo) <= k /\ k <= SplitFunc(hi)
      BY <1>3, <2>2, <3>3, <3>4, SplitMonotone
    <3> QED BY <3>3, <3>5 DEF InRange, InTree
  <2>3. \A x \in Content(c) : x.key \in Int
    <3>1. ASSUME NEW x \in Content(c) PROVE x.key \in Int
      <4>1. PICK k \in BucketKeys : x \in bucks[k].has[c]
        BY DEF Content
      <4> QED BY <1>6, <4>1, LenType, BucketsAssumption DEF Item, AllInv, BaseInv
    <3> QED BY <3>1
  <2>4. Shown(c) = Content(c)
    BY <1>6, <1>9
  <2>5. \A x \in Content(c) : (x.key < lo \/ x.key > hi) <=> ~(lo <= x.key /\ x.key <= hi)
    BY <1>3, <2>3
  <2> QED BY <2>1, <2>2, <2>4, <2>5
<1>13. PICK con, con2 : con = ContentSeen /\ con2 = ContentSeen'
  OBVIOUS
<1>14. con2 = [con EXCEPT ![c] = {x \in con[c] : x.key < lo \/ x.key > hi}]
  <2>1. /\ con = [d \in Consumers |-> Shown(d)] /\ con[c] = Shown(c)
        /\ con2 = [d \in Consumers |-> IF d = c THEN {x \in con[c] : x.key < lo \/ x.key > hi} ELSE Shown(d)]
    <3>1. con = [d \in Consumers |-> Shown(d)] /\ con[c] = Shown(c)
      BY <1>6, <1>13, SeenFun
    <3>2. PICK S : S = {x \in con[c] : x.key < lo \/ x.key > hi}
      OBVIOUS
    <3>3. Shown(c)' = S
      BY <1>12, <3>1, <3>2
    <3>4. con2 = [d \in Consumers |-> IF d = c THEN S ELSE Shown(d)]
      BY <1>11, <1>13, <3>3, SeenFun
    <3> QED BY <3>1, <3>2, <3>4
  <2> QED BY <2>1
<1>15. PICK o : o = OpSeen'
  OBVIOUS
<1>16. o.name = "delete" /\ o.who = c /\ o.lo = lo /\ o.hi = hi
  BY <1>7, <1>15
<1>17. Seen!Delete(c)
  BY <1>1, <1>5, <1>8, <1>13, <1>14, <1>15, <1>16 DEF Seen!Delete
<1>18. c \in Seen!Live
  BY DEF Seen!Live, Live
<1> QED BY <1>17, <1>18 DEF Seen!Next

\* Going over the buckets of the range is not seen.  Delete may pass over a
\* bucket whose key is above the range, since all its items are.
LEMMA DeleteBucketSeen ==
  ASSUME SplitsDown, AllInv, DeleteBucket
  PROVE  UNCHANGED Seen!qvars
<1>1. PICK key : key = Min(todo)
  OBVIOUS
<1>2. /\ pc = "delete" /\ pc' = pc /\ todo' = todo \ {key} /\ UNCHANGED <<forks, call, rd, batch>>
      /\ batch = <<>> /\ rd = NoRead
  BY <1>1 DEF DeleteBucket, AllInv, BaseInv, Shape
<1>3. /\ key \in BucketKeys /\ key \in todo
      /\ \A k \in BucketKeys, c \in Consumers :
            bucks'[k].has[c] = IF k = key /\ c = call.who /\ ~(key > call.hi)
                               THEN {x \in bucks[k].has[c] : ~Hit(x)} ELSE bucks[k].has[c]
  BY <1>1, DeleteTree DEF AllInv
<1>4. OpSeen' = OpSeen
  BY <1>2 DEF OpSeen
<1>5. ViewSeen' = {} /\ ViewSeen = {}
  BY <1>2 DEF ViewSeen, AllInv, CarefulInv, ToRemove
<1>6. ASSUME NEW c \in Consumers PROVE Shown(c)' = Shown(c)
  <2>1. Live' = Live /\ Pending' = {} /\ Pending = {}
    BY <1>2 DEF Live, Pending
  <2>2. \A x : x \in Content(c) <=> \E k \in BucketKeys : x \in bucks[k].has[c]
    BY DEF Content
  <2>3. \A x : x \in Content(c)' <=> \E k \in BucketKeys : x \in bucks'[k].has[c]
    BY DEF Content
  <2>4. CASE c # call.who
    <3>1. \A k \in BucketKeys : bucks'[k].has[c] = bucks[k].has[c]
      BY <1>3, <2>4
    <3>2. Content(c)' = Content(c)
      BY <2>2, <2>3, <3>1
    <3> QED BY <1>2, <2>1, <2>4, <3>2 DEF Shown
  <2>5. CASE c = call.who
    <3>1. \A k \in BucketKeys : \A x \in bucks[k].has[c] : SplitFunc(x.key) = k /\ x \in Item
      <4>1. \A k \in BucketKeys : bucks[k].has[c] \subseteq Item
        BY LenType DEF AllInv, BaseInv
      <4> QED BY <4>1 DEF AllInv, PlaceInv, Placed
    <3>2. ASSUME NEW x \in bucks[key].has[c], key > call.hi PROVE ~Hit(x)
      <4>1. SplitFunc(x.key) = key /\ x.key \in Keys
        BY <1>3, <3>1 DEF Item
      <4>2. key <= x.key
        BY <4>1 DEF SplitsDown
      <4>3. x.key \in Int /\ call.hi \in Int /\ key \in Int
        BY <1>3, <4>1, BucketsAssumption, BucketKeysFinite DEF AllInv, BaseInv, TypeOK
      <4> QED BY <3>2, <4>2, <4>3 DEF Hit
    <3>3. \A x : x \in bucks'[key].has[c] <=> x \in bucks[key].has[c] /\ ~Hit(x)
      <4>1. CASE key > call.hi
        <5>1. bucks'[key].has[c] = bucks[key].has[c]
          BY <1>3, <4>1
        <5> QED BY <3>2, <4>1, <5>1
      <4>2. CASE ~(key > call.hi)
        <5>1. bucks'[key].has[c] = {x \in bucks[key].has[c] : ~Hit(x)}
          BY <1>3, <2>5, <4>2
        <5> QED BY <5>1
      <4> QED BY <4>1, <4>2
    <3>4. \A k \in BucketKeys : k # key => bucks'[k].has[c] = bucks[k].has[c]
      BY <1>3
    <3>5. /\ Shown(c) = IF c \in Live THEN {x \in Content(c) : ~(Hit(x) /\ SplitFunc(x.key) \in todo)} ELSE {}
          /\ Shown(c)' = IF c \in Live
                         THEN {x \in Content(c)' : ~(Hit(x) /\ SplitFunc(x.key) \in todo \ {key})} ELSE {}
      <4>1. Content(c) \cup Pending = Content(c) /\ Content(c)' \cup Pending' = Content(c)'
        BY <2>1
      <4>2. Shown(c) = IF c \in Live THEN {x \in Content(c) : ~(Hit(x) /\ SplitFunc(x.key) \in todo)} ELSE {}
        BY <1>2, <2>5, <4>1 DEF Shown
      <4>3. Shown(c)' = IF c \in Live' THEN {x \in Content(c)' : ~(Hit(x)' /\ SplitFunc(x.key) \in todo')} ELSE {}
        BY <1>2, <2>5, <4>1 DEF Shown
      <4>4. \A x : Hit(x)' <=> Hit(x)
        BY <1>2 DEF Hit
      <4> QED BY <1>2, <2>1, <4>2, <4>3, <4>4
    <3>6. \A x : (x \in Content(c)' /\ ~(Hit(x) /\ SplitFunc(x.key) \in todo \ {key}))
                 <=> (x \in Content(c) /\ ~(Hit(x) /\ SplitFunc(x.key) \in todo))
      <4> SUFFICES ASSUME NEW x
                   PROVE  (x \in Content(c)' /\ ~(Hit(x) /\ SplitFunc(x.key) \in todo \ {key}))
                          <=> (x \in Content(c) /\ ~(Hit(x) /\ SplitFunc(x.key) \in todo))
        OBVIOUS
      <4>1. x \in Content(c)' => x \in Content(c)
        BY <2>2, <2>3, <3>3, <3>4
      <4>2. x \in Content(c) /\ x \notin Content(c)' => SplitFunc(x.key) = key /\ Hit(x)
        BY <1>3, <2>2, <2>3, <3>1, <3>3, <3>4
      <4>3. x \in Content(c)' /\ SplitFunc(x.key) = key => ~Hit(x)
        <5> SUFFICES ASSUME x \in Content(c)', SplitFunc(x.key) = key PROVE ~Hit(x)
          OBVIOUS
        <5>1. PICK k \in BucketKeys : x \in bucks'[k].has[c]
          BY <2>3
        <5>2. k = key
          BY <3>1, <3>4, <5>1
        <5> QED BY <3>3, <5>1, <5>2
      <4> QED BY <1>3, <4>1, <4>2, <4>3
    <3> QED BY <3>5, <3>6
  <2> QED BY <2>4, <2>5
<1> QED BY <1>2, <1>4, <1>5, <1>6, SeenStutter

\* The buckets that Delete removes at its end are empty.
LEMMA DeleteEndSeen ==
  ASSUME AllInv, DeleteEnd
  PROVE  Seen!Next
<1>1. /\ pc = "delete" /\ todo = {} /\ UNCHANGED <<forks, batch>> /\ Return /\ batch = <<>>
      /\ bucks' = Without(bucks, dead) /\ TreeOK(bucks)
  BY DEF DeleteEnd, Update, AllInv, BaseInv, Shape
<1>2. OpSeen # Seen!NoOp
  BY <1>1 DEF OpSeen, Seen!NoOp, AllInv, BaseInv, Shape
<1>3. OpSeen' = Seen!NoOp /\ ViewSeen' = {} /\ pc' \notin {"delete", "clear"}
  BY <1>1, ReturnSeen
<1>4. \A j \in BucketKeys : bucks'[j] = IF j \in dead THEN Absent ELSE bucks[j]
  BY <1>1 DEF Without
<1>5. \A c \in Consumers : Absent.has[c] = {}
  BY DEF Absent
<1>6. \A j \in dead : \A c \in Live : bucks[j].has[c] = {}
  BY <1>1 DEF AllInv, CarefulInv, ToRemove, AllEmpty
<1>7. ASSUME NEW c \in Consumers PROVE Shown(c)' = Shown(c)
  <2>1. Live' = Live /\ Pending' = Pending
    BY <1>1 DEF Live, Pending
  <2>2. Shown(c) = IF c \in Live THEN Content(c) \cup Pending ELSE {}
    BY <1>1 DEF Shown
  <2>3. Shown(c)' = IF c \in Live THEN Content(c)' \cup Pending ELSE {}
    BY <1>3, <2>1, ShownPlain
  <2>4. ASSUME c \in Live PROVE Content(c)' = Content(c)
    <3>1. ASSUME NEW j \in BucketKeys PROVE bucks'[j].has[c] = bucks[j].has[c]
      <4>1. CASE j \in dead
        <5>1. bucks[j].has[c] = {}
          BY <1>6, <2>4, <4>1
        <5>2. bucks'[j] = Absent
          BY <1>4, <4>1
        <5> QED BY <1>5, <5>1, <5>2
      <4>2. CASE j \notin dead
        BY <1>4, <4>2
      <4> QED BY <4>1, <4>2
    <3> QED BY <3>1 DEF Content
  <2> QED BY <2>2, <2>3, <2>4
<1> QED BY <1>1, <1>2, <1>3, <1>7, SeenEnd

\* Clear takes effect when it is called.
LEMMA ClearSeen ==
  ASSUME AllInv, Clear
  PROVE  Seen!Next
<1>1. pc = "idle" /\ pc' = "clear" /\ UNCHANGED <<forks, call, rd>>
  BY DEF Clear
<1>2. OpSeen = Seen!NoOp /\ ViewSeen = {} /\ call = NoCall /\ rd = NoRead
  BY <1>1, IdleSeen DEF AllInv
<1>3. OpSeen' = [Seen!NoOp EXCEPT !.name = "clear"]
  BY <1>1, <1>2 DEF OpSeen, Seen!NoOp, NoCall
<1>4. ViewSeen' = {}
  BY <1>1, <1>2 DEF ViewSeen, NoCall
<1>5. \A c \in Consumers : Shown(c)' = {}
  BY <1>1 DEF Shown
<1>6. PICK con, con2 : con = ContentSeen /\ con2 = ContentSeen'
  OBVIOUS
<1>7. con2 = [c \in DOMAIN con |-> {}]
  <2>1. con = [c \in Consumers |-> Shown(c)]
    BY <1>6, SeenFun
  <2>2. con2 = [c \in Consumers |-> {}]
    BY <1>5, <1>6, SeenFun
  <2> QED BY <2>1, <2>2
<1>8. Seen!Clear
  BY <1>1, <1>2, <1>3, <1>4, <1>6, <1>7 DEF Seen!Clear
<1> QED BY <1>8 DEF Seen!Next

\* Removing one bucket after the other is not seen.
LEMMA ClearBucketSeen ==
  ASSUME AllInv, ClearBucket
  PROVE  UNCHANGED Seen!qvars
<1>1. pc = "clear" /\ pc' = "clear" /\ UNCHANGED <<forks, call, rd>> /\ call = NoCall
  BY DEF ClearBucket, AllInv, BaseInv, Shape
<1>2. OpSeen' = OpSeen
  BY <1>1 DEF OpSeen
<1>3. ViewSeen' = {} /\ ViewSeen = {}
  BY <1>1 DEF ViewSeen, NoCall
<1>4. \A c \in Consumers : Shown(c)' = Shown(c)
  BY <1>1 DEF Shown
<1> QED BY <1>1, <1>2, <1>3, <1>4, SeenStutter

\* After Clear there is no bucket left.
LEMMA ClearEndSeen ==
  ASSUME AllInv, ClearEnd
  PROVE  Seen!Next
<1>1. /\ pc = "clear" /\ todo = {} /\ UNCHANGED <<bucks, forks, batch>> /\ Return /\ batch = <<>>
  BY DEF ClearEnd, AllInv, BaseInv, Shape
<1>2. OpSeen # Seen!NoOp
  BY <1>1 DEF OpSeen, Seen!NoOp, AllInv, BaseInv, Shape
<1>3. OpSeen' = Seen!NoOp /\ ViewSeen' = {} /\ pc' \notin {"delete", "clear"}
  BY <1>1, ReturnSeen
<1>4. \A k \in BucketKeys : bucks[k].st = "absent"
  BY <1>1 DEF AllInv, CarefulInv, ToRemove, InTree
<1>5. \A k \in BucketKeys, c \in Consumers : bucks[k].has[c] = {}
  BY <1>4 DEF AllInv, PlaceInv, AbsentEmpty
<1>6. ASSUME NEW c \in Consumers PROVE Shown(c)' = Shown(c)
  <2>1. Content(c)' = {} /\ Pending' = {}
    BY <1>1, <1>5 DEF Content, Pending
  <2>2. Shown(c) = {}
    BY <1>1 DEF Shown
  <2> QED BY <1>3, <2>1, <2>2, ShownPlain
<1> QED BY <1>1, <1>2, <1>3, <1>6, SeenEnd

\* A fork has what its source has.
LEMMA ForkSeen ==
  ASSUME AllInv, Fork
  PROVE  Seen!Next
<1>1. pc = "idle" /\ UNCHANGED <<pc, call, todo, rd, batch>>
  BY DEF Fork
<1>2. PICK src \in Live, dst \in Forks \ forks :
        /\ \A k \in BucketKeys, c \in Consumers :
              bucks'[k].has[c] = IF c = dst /\ bucks[k].st # "absent" THEN bucks[k].has[src]
                                 ELSE bucks[k].has[c]
        /\ forks' = forks \cup {dst}
  BY ForkTree DEF AllInv
<1>3. OpSeen = Seen!NoOp /\ ViewSeen = {} /\ Pending = {} /\ call = NoCall
  BY <1>1, IdleSeen DEF AllInv
<1>4. OpSeen' = OpSeen /\ Pending' = {}
  BY <1>1, <1>3 DEF OpSeen, Pending
<1>5. ViewSeen' = {}
  BY <1>1, <1>3 DEF ViewSeen, NoCall
<1>6. Live' = Live \cup {dst} /\ src \in Consumers /\ dst \in Consumers
  BY <1>2, LiveConsumers DEF Live, AllInv, BaseInv, Consumers
<1>7. \A c \in Consumers : /\ Shown(c) = IF c \in Live THEN Content(c) ELSE {}
                           /\ Shown(c)' = IF c \in Live' THEN Content(c)' ELSE {}
  BY <1>1, <1>3, <1>4, ShownPlain
<1>8. Content(dst)' = Content(src)
  <2>1. ASSUME NEW k \in BucketKeys PROVE bucks'[k].has[dst] = bucks[k].has[src]
    <3>1. CASE bucks[k].st = "absent"
      <4>1. bucks[k].has[src] = {} /\ bucks[k].has[dst] = {}
        BY <1>6, <3>1 DEF AllInv, PlaceInv, AbsentEmpty
      <4> QED BY <1>2, <1>6, <3>1, <4>1
    <3>2. CASE bucks[k].st # "absent"
      BY <1>2, <1>6, <3>2
    <3> QED BY <3>1, <3>2
  <2> QED BY <2>1 DEF Content
<1>9. ASSUME NEW c \in Consumers, c # dst PROVE Content(c)' = Content(c)
  <2>1. \A k \in BucketKeys : bucks'[k].has[c] = bucks[k].has[c]
    BY <1>2, <1>9
  <2> QED BY <2>1 DEF Content
<1>10. ASSUME NEW c \in Consumers PROVE Shown(c)' = IF c = dst THEN Shown(src) ELSE Shown(c)
  <2>1. CASE c = dst
    BY <1>6, <1>7, <1>8, <2>1
  <2>2. CASE c # dst
    BY <1>6, <1>7, <1>9, <2>2
  <2> QED BY <2>1, <2>2
<1>11. PICK con, con2 : con = ContentSeen /\ con2 = ContentSeen'
  OBVIOUS
<1>12. con2 = [con EXCEPT ![dst] = con[src]]
  <2>1. con = [c \in Consumers |-> Shown(c)]
    BY <1>11, SeenFun
  <2>2. con2 = [c \in Consumers |-> IF c = dst THEN Shown(src) ELSE Shown(c)]
    BY <1>10, <1>11, SeenFun
  <2> QED BY <1>6, <2>1, <2>2
<1>13. Seen!Fork(src, dst)
  BY <1>2, <1>3, <1>4, <1>5, <1>11, <1>12 DEF Seen!Fork
<1>14. src \in Seen!Live /\ dst \in Forks
  BY DEF Seen!Live, Live
<1> QED BY <1>13, <1>14 DEF Seen!Next

\* Only the fork that is removed loses something.
LEMMA RemoveForkSeen ==
  ASSUME AllInv, RemoveFork
  PROVE  Seen!Next
<1>1. pc = "idle" /\ UNCHANGED <<pc, call, todo, rd, batch>>
  BY DEF RemoveFork
<1>2. PICK f \in forks, gone \in SUBSET BucketKeys :
        /\ forks' = forks \ {f}
        /\ \A k \in gone : /\ bucks'[k] = Absent
                           /\ \A c \in Consumers : c \in Live \ {f} => bucks[k].has[c] = {}
        /\ \A k \in BucketKeys \ gone : \A c \in Consumers :
              bucks'[k].has[c] = IF c = f THEN {} ELSE bucks[k].has[c]
  BY RemoveForkTree DEF AllInv
<1>3. OpSeen = Seen!NoOp /\ ViewSeen = {} /\ Pending = {} /\ call = NoCall
  BY <1>1, IdleSeen DEF AllInv
<1>4. OpSeen' = OpSeen /\ Pending' = {}
  BY <1>1, <1>3 DEF OpSeen, Pending
<1>5. ViewSeen' = {}
  BY <1>1, <1>3 DEF ViewSeen, NoCall
<1>6. Live' = Live \ {f} /\ f \in Consumers
  <2>1. f # Main
    BY <1>2, BucketsAssumption DEF AllInv, BaseInv, TypeOK
  <2> QED BY <1>2, <2>1, LiveConsumers DEF Live, AllInv, BaseInv
<1>7. \A c \in Consumers : /\ Shown(c) = IF c \in Live THEN Content(c) ELSE {}
                           /\ Shown(c)' = IF c \in Live' THEN Content(c)' ELSE {}
  BY <1>1, <1>3, <1>4, ShownPlain
<1>8. ASSUME NEW c \in Consumers, c \in Live \ {f} PROVE Content(c)' = Content(c)
  <2>1. ASSUME NEW k \in BucketKeys PROVE bucks'[k].has[c] = bucks[k].has[c]
    <3>1. CASE k \in gone
      <4>1. bucks[k].has[c] = {} /\ bucks'[k] = Absent
        BY <1>2, <1>8, <3>1
      <4>2. Absent.has[c] = {}
        BY DEF Absent
      <4> QED BY <4>1, <4>2
    <3>2. CASE k \notin gone
      BY <1>2, <1>8, <3>2
    <3> QED BY <3>1, <3>2
  <2> QED BY <2>1 DEF Content
<1>9. ASSUME NEW c \in Consumers PROVE Shown(c)' = IF c = f THEN {} ELSE Shown(c)
  BY <1>6, <1>7, <1>8
<1>10. PICK con, con2 : con = ContentSeen /\ con2 = ContentSeen'
  OBVIOUS
<1>11. con2 = [con EXCEPT ![f] = {}]
  <2>1. con = [c \in Consumers |-> Shown(c)]
    BY <1>10, SeenFun
  <2>2. con2 = [c \in Consumers |-> IF c = f THEN {} ELSE Shown(c)]
    BY <1>9, <1>10, SeenFun
  <2> QED BY <1>6, <2>1, <2>2
<1>12. Seen!RemoveFork(f)
  BY <1>2, <1>3, <1>4, <1>5, <1>10, <1>11 DEF Seen!RemoveFork
<1> QED BY <1>2, <1>12 DEF Seen!Next

\* Reopening the queue is not seen.
LEMMA RestartSeen ==
  ASSUME AllInv, Restart
  PROVE  UNCHANGED Seen!qvars
<1>1. pc = "idle" /\ UNCHANGED <<pc, forks, call, rd, batch>>
  BY DEF Restart
<1>2. ViewSeen = {} /\ call = NoCall
  BY <1>1, IdleSeen DEF AllInv
<1>3. OpSeen' = OpSeen
  BY <1>1 DEF OpSeen
<1>4. ViewSeen' = {}
  BY <1>1, <1>2 DEF ViewSeen, NoCall
<1>5. \A k \in BucketKeys, c \in Consumers : bucks'[k].has[c] = bucks[k].has[c]
  BY RestartTree DEF AllInv
<1>6. \A c \in Consumers : Shown(c)' = Shown(c)
  BY <1>1, <1>5, SameShown
<1> QED BY <1>1, <1>2, <1>3, <1>4, <1>6, SeenStutter

\* An empty queue.
LEMMA SeenInit == Init => Seen!Init
<1> SUFFICES ASSUME Init PROVE Seen!Init
  OBVIOUS
<1>1. pc = "idle" /\ forks = {} /\ BaseInv
  BY BaseInit DEF Init
<1>2. OpSeen = Seen!NoOp /\ ViewSeen = {} /\ Pending = {}
  BY <1>1, IdleSeen
<1>3. ASSUME NEW c \in Consumers PROVE Shown(c) = {}
  <2>1. Content(c) = {}
    BY DEF Content, Init, Absent
  <2> QED BY <1>1, <1>2, <2>1, ShownPlain
<1>4. ContentSeen = [c \in Consumers |-> {}]
  BY <1>3, SeenFun
<1> QED BY <1>1, <1>2, <1>4 DEF Seen!Init, Consumers

\* Every step is a step of the abstract queue, or not seen.
LEMMA SeenStep ==
  ASSUME SplitsDown, AllInv, [Next]_vars
  PROVE  [Seen!Next]_(Seen!qvars)
<1>1. CASE Push \/ TxPush \/ PushBucket
  BY <1>1, PushSeen, TxPushSeen, PushBucketSeen
<1>2. CASE Read \/ ReadBucket \/ ReadEnd \/ Pop \/ Peek \/ CallbackErr \/ Reap
  BY <1>2, ReadBegins, ReadBucketSeen, ReadEndSeen, PopSeen, PeekSeen, ReadErrorSeen, ReapSeen
<1>3. CASE Delete \/ DeleteBucket \/ DeleteEnd \/ Clear \/ ClearBucket \/ ClearEnd
  BY <1>3, DeleteSeen, DeleteBucketSeen, DeleteEndSeen, ClearSeen, ClearBucketSeen, ClearEndSeen
<1>4. CASE Fork \/ RemoveFork \/ Restart
  BY <1>4, ForkSeen, RemoveForkSeen, RestartSeen
<1>5. CASE UNCHANGED vars
  <2>1. OpSeen' = OpSeen
    BY <1>5 DEF OpSeen, vars
  <2>2. ViewSeen' = ViewSeen /\ forks' = forks
    BY <1>5 DEF ViewSeen, Pending, vars
  <2>3. \A c \in Consumers : Shown(c)' = Shown(c)
    BY <1>5 DEF Shown, Content, Pending, Live, Hit, vars
  <2> QED BY <2>1, <2>2, <2>3, SeenStutter
<1> QED BY <1>1, <1>2, <1>3, <1>4, <1>5 DEF Next

\* The tree of buckets implements the abstract queue, whatever the keys,
\* forks, batches and options are: nothing is lost, duplicated, served out of
\* order or to the wrong consumer by buckets being opened, closed and removed
\* between the steps of an operation (buckets.go).
THEOREM BucketsImplementQueue ==
  ASSUME Careful, NearKeys, SplitsDown
  PROVE  Spec => ImplementsQueue
<1>1. Init => Seen!Init
  BY SeenInit
<1>2. AllInv /\ [Next]_vars => [Seen!Next]_(Seen!qvars)
  BY SeenStep
<1>3. AllInv /\ [Next]_vars => AllInv'
  BY AllStep
<1> QED BY <1>1, <1>2, <1>3, AllInit, PTL DEF Spec, ImplementsQueue, Seen!Spec

=============================================================================
