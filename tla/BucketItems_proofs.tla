------------------------- MODULE BucketItems_proofs -------------------------
(***************************************************************************)
(* Which items a bucket can still give to each of its consumers, for every *)
(* set of forks, batches and ranges, and any number of crashes, failing    *)
(* writes, closed and opened buckets: none that was pushed for a consumer  *)
(* is lost (NothingIsLost), and the value log is there as long as a        *)
(* consumer has something to get from it (ValueLogIsKept).                 *)
(*                                                                         *)
(* The invariant says for every item that is due to a consumer where it    *)
(* is: in the index in memory, in the index that a replay of the log gives *)
(* and, in the middle of a pop or a Delete, in the index that the edits    *)
(* still to be made lead to.                                               *)
(***************************************************************************)
EXTENDS BucketIndex_proofs

-----------------------------------------------------------------------------
(* Which batches a list of edits leaves in an index.  Under one key, an    *)
(* index is a queue: Set adds at its end, Delete takes the oldest away.  So *)
(* a batch stays if as many batches of its key are before it as are still  *)
(* to be ended.                                                            *)

\* The edits from m + 1 to l that end, on the side t, a batch of the key y.
Ends(E, t, m, l, y) ==
    {j \in m + 1 .. l : t \in E[j].on /\ E[j].loc.len = 0 /\ E[j].loc.key = y}

\* Each of the edits in D has a batch of the key y below position p to end.
Room(Y, D, y, p) ==
    \E s : /\ \A j \in D : s[j] \in DOMAIN Y /\ s[j] < p /\ Y[s[j]].key = y
           /\ \A j, k \in D : s[j] = s[k] => j = k

\* From Y to Z the batches of the key y move by d, but for that at q.
Moved(Y, Z, y, d, q) ==
    \A i \in DOMAIN Y : Y[i].key = y /\ i # q => i + d \in DOMAIN Z /\ Z[i + d] = Y[i]

\* q is at or before all batches of the key y.
Oldest(Y, y, q) == \A i \in DOMAIN Y : Y[i].key = y => q <= i

LEMMA SetMoves ==
  ASSUME NEW Y \in Seq(Location), IndexSorted(Y), NEW loc \in Location, NEW y \in Nat
  PROVE  \E d \in Int : Moved(Y, IndexSet(Y, loc), y, d, 0)
<1>1. PICK Z \in Seq(Location) : Z = IndexSet(Y, loc)
  BY IndexSetType
<1>2. PICK p \in 1 .. Len(Y) + 1 : SetAt(Z, Y, loc, p)
  BY <1>1, IndexSetAt
<1>3. /\ Len(Y) \in Nat /\ Len(Z) = Len(Y) + 1 /\ DOMAIN Y = 1 .. Len(Y)
      /\ DOMAIN Z = 1 .. Len(Y) + 1 /\ loc.key \in Nat
      /\ \A j \in 1 .. p - 1 : Z[j] = Y[j] /\ Y[j].key <= loc.key
      /\ \A j \in p .. Len(Y) : Z[j + 1] = Y[j] /\ Y[j].key > loc.key
  BY <1>2, LocNumbers DEF SetAt
<1>4. CASE y <= loc.key
  <2>1. ASSUME NEW i \in DOMAIN Y, Y[i].key = y PROVE i + 0 \in DOMAIN Z /\ Z[i + 0] = Y[i]
    <3>1. i < p
      BY <1>3, <1>4, <2>1
    <3> QED BY <1>3, <3>1
  <2>2. Moved(Y, Z, y, 0, 0)
    BY <2>1 DEF Moved
  <2> QED BY <1>1, <2>2
<1>5. CASE ~(y <= loc.key)
  <2>1. ASSUME NEW i \in DOMAIN Y, Y[i].key = y PROVE i + 1 \in DOMAIN Z /\ Z[i + 1] = Y[i]
    <3>1. i >= p
      BY <1>3, <1>5, <2>1
    <3> QED BY <1>3, <3>1
  <2>2. Moved(Y, Z, y, 1, 0)
    BY <2>1 DEF Moved
  <2> QED BY <1>1, <2>2
<1> QED BY <1>4, <1>5

LEMMA DeleteMoves ==
  ASSUME NEW Y \in Seq(Location), IndexSorted(Y), NEW k \in IndexKeys(Y), k \in Nat, NEW y \in Nat
  PROVE  \E d \in Int, q \in Nat :
            /\ Moved(Y, IndexDelete(Y, k), y, d, q)
            /\ q # 0 => k = y /\ Oldest(Y, y, q)
<1>1. PICK Z : Z = IndexDelete(Y, k)
  OBVIOUS
<1>2. PICK p \in 1 .. Len(Y) : DeletedAt(Z, Y, k, p)
  BY <1>1, IndexDeleteAt
<1>3. /\ Len(Y) \in Nat /\ Len(Z) = Len(Y) - 1 /\ DOMAIN Y = 1 .. Len(Y) /\ Y[p].key = k
      /\ \A j \in 1 .. p - 1 : Z[j] = Y[j] /\ Y[j].key # k
      /\ \A j \in p .. Len(Y) - 1 : Z[j] = Y[j + 1]
  BY <1>2 DEF DeletedAt
<1>4. DOMAIN Z = 1 .. Len(Y) - 1
  <2>1. IndexDelete(Y, k) = [j \in 1 .. Len(Y) - 1 |->
             IF \E i \in 1 .. j : Y[i].key = k THEN Y[j + 1] ELSE Y[j]]
    BY DEF IndexDelete
  <2> QED BY <1>1, <2>1
<1>5. ASSUME NEW i \in DOMAIN Y, i < p PROVE i + 0 \in DOMAIN Z /\ Z[i + 0] = Y[i] /\ Y[i].key < k
  <2>1. Y[i].key <= Y[p].key
    BY <1>3, <1>5 DEF IndexSorted
  <2>2. Y[i].key \in Nat
    BY LocNumbers
  <2> QED BY <1>3, <1>4, <1>5, <2>1, <2>2
<1>6. ASSUME NEW i \in DOMAIN Y, i > p
      PROVE  i + (-1) \in DOMAIN Z /\ Z[i + (-1)] = Y[i] /\ Y[i].key >= k
  <2>1. Y[i].key >= k /\ Y[i].key \in Nat
    BY <1>3, <1>6, LocNumbers, SMTT(40) DEF IndexSorted
  <2>2. i + (-1) \in p .. Len(Y) - 1 /\ (i + (-1)) + 1 = i
    BY <1>3, <1>6
  <2>3. Z[i + (-1)] = Y[(i + (-1)) + 1]
    BY <1>3, <2>2
  <2> QED BY <1>3, <1>4, <1>6, <2>1, <2>2, <2>3
<1>7. CASE y < k
  <2>1. ASSUME NEW i \in DOMAIN Y, Y[i].key = y PROVE i + 0 \in DOMAIN Z /\ Z[i + 0] = Y[i]
    <3>1. i < p
      BY <1>3, <1>6, <1>7, <2>1
    <3> QED BY <1>5, <3>1
  <2>2. Moved(Y, Z, y, 0, 0)
    BY <2>1 DEF Moved
  <2> QED BY <1>1, <2>2
<1>8. CASE y > k
  <2>1. ASSUME NEW i \in DOMAIN Y, Y[i].key = y
        PROVE  i + (-1) \in DOMAIN Z /\ Z[i + (-1)] = Y[i]
    <3>1. i > p
      BY <1>3, <1>5, <1>8, <2>1
    <3> QED BY <1>6, <3>1
  <2>2. Moved(Y, Z, y, -1, 0)
    BY <2>1 DEF Moved
  <2> QED BY <1>1, <2>2
<1>9. CASE y = k
  <2>1. ASSUME NEW i \in DOMAIN Y, Y[i].key = y, i # p
        PROVE  i + (-1) \in DOMAIN Z /\ Z[i + (-1)] = Y[i]
    <3>1. i > p
      BY <1>3, <1>5, <1>9, <2>1
    <3> QED BY <1>6, <3>1
  <2>2. Moved(Y, Z, y, -1, p)
    BY <2>1 DEF Moved
  <2>3. p \in Nat /\ -1 \in Int /\ Oldest(Y, y, p)
    BY <1>3, <1>5, <1>9 DEF Oldest
  <2> QED BY <1>1, <1>9, <2>2, <2>3
<1> QED BY <1>7, <1>8, <1>9

LEMMA StillMoves ==
  ASSUME NEW Y \in Seq(Location), NEW y
  PROVE  Moved(Y, Y, y, 0, 0)
BY DEF Moved

LEMMA DoMoves ==
  ASSUME NEW Y \in Seq(Location), IndexSorted(Y), NEW e \in Edit, NEW t, NEW y \in Nat
  PROVE  \E d \in Int, q \in Nat :
            /\ Moved(Y, Do(Y, e, t), y, d, q)
            /\ q # 0 => /\ t \in e.on /\ e.loc.len = 0 /\ e.loc.key = y
                        /\ Oldest(Y, y, q)
<1>1. e.loc \in Location /\ e.loc.key \in Nat /\ e.loc.len \in Nat
  BY LocNumbers DEF Edit
<1>2. CASE t \notin e.on
  <2>1. Do(Y, e, t) = Y
    BY <1>2 DEF Do
  <2> QED BY <2>1, StillMoves
<1>3. CASE t \in e.on /\ e.loc.len # 0
  <2>1. Do(Y, e, t) = IndexSet(Y, e.loc)
    BY <1>3 DEF Do, IndexApply
  <2> QED BY <1>1, <2>1, SetMoves
<1>4. CASE t \in e.on /\ e.loc.len = 0
  <2>1. Do(Y, e, t) = IndexDelete(Y, e.loc.key)
    BY <1>4 DEF Do, IndexApply
  <2>2. CASE e.loc.key \in IndexKeys(Y)
    <3>1. PICK k \in IndexKeys(Y) : k = e.loc.key /\ k \in Nat
      BY <1>1, <2>2
    <3>2. PICK d \in Int, q \in Nat :
              /\ Moved(Y, IndexDelete(Y, k), y, d, q)
              /\ q # 0 => k = y /\ Oldest(Y, y, q)
      <4> QED BY ONLY <3>1, Y \in Seq(Location), IndexSorted(Y), y \in Nat, k \in IndexKeys(Y),
                      DeleteMoves, SMTT(60)
    <3>3. /\ Moved(Y, Do(Y, e, t), y, d, q)
          /\ q # 0 => /\ t \in e.on /\ e.loc.len = 0 /\ e.loc.key = y
                      /\ Oldest(Y, y, q)
      BY <1>4, <2>1, <3>1, <3>2
    <3> QED BY <3>3
  <2>3. CASE e.loc.key \notin IndexKeys(Y)
    <3>1. Do(Y, e, t) = Y
      BY <2>1, <2>3 DEF IndexDelete
    <3> QED BY <3>1, StillMoves
  <2> QED BY <2>2, <2>3
<1> QED BY <1>2, <1>3, <1>4

\* There is room afterwards: if the oldest batch goes, an edit goes with it.
LEMMA RoomMoves ==
  ASSUME NEW Y \in Seq(Location), NEW Z, NEW y, NEW d \in Int, NEW q \in Nat, Moved(Y, Z, y, d, q),
         NEW p \in Int, NEW D, NEW D2, D2 \subseteq D, Room(Y, D, y, p),
         q # 0 => \E j \in D : j \notin D2
  PROVE  Room(Z, D2, y, p + d)
<1>1. PICK s : /\ \A j \in D : s[j] \in DOMAIN Y /\ s[j] < p /\ Y[s[j]].key = y
               /\ \A j, k \in D : s[j] = s[k] => j = k
  BY DEF Room
<1>2. \A j \in D : s[j] \in Nat /\ s[j] # 0
  BY <1>1
<1>3. PICK g : q # 0 => g \in D /\ g \notin D2
  OBVIOUS
<1> DEFINE v(j) == IF q # 0 /\ s[j] = q THEN s[g] ELSE s[j]
           u == [j \in D2 |-> v(j) + d]
<1>4. ASSUME NEW j \in D2
      PROVE  v(j) \in DOMAIN Y /\ v(j) < p /\ Y[v(j)].key = y /\ v(j) # q /\ v(j) \in Int
  <2>1. CASE q # 0 /\ s[j] = q
    <3>1. g \in D /\ s[g] # s[j]
      BY <1>1, <1>3, <2>1
    <3> QED BY <1>1, <1>2, <2>1, <3>1
  <2>2. CASE ~(q # 0 /\ s[j] = q)
    BY <1>1, <1>2, <2>2
  <2> QED BY <2>1, <2>2
<1>5. ASSUME NEW j \in D2 PROVE u[j] \in DOMAIN Z /\ u[j] < p + d /\ Z[u[j]].key = y
  <2>1. PICK w \in Int : w = v(j)
    BY <1>4
  <2>2. w \in DOMAIN Y /\ w < p /\ Y[w].key = y /\ w # q
    BY <1>4, <2>1
  <2>3. w + d \in DOMAIN Z /\ Z[w + d] = Y[w]
    BY <2>2 DEF Moved
  <2>4. u[j] = w + d
    BY <2>1
  <2> QED BY <2>1, <2>2, <2>3, <2>4
<1>6. ASSUME NEW j \in D2, NEW k \in D2, u[j] = u[k] PROVE j = k
  <2>1. v(j) = v(k)
    <3>1. PICK a \in Int, b \in Int : a = v(j) /\ b = v(k)
      BY <1>4
    <3>2. u[j] = a + d /\ u[k] = b + d
      BY <3>1
    <3> QED BY <1>6, <3>1, <3>2, SMTT(40)
  <2> QED BY <1>1, <1>3, <2>1
<1> HIDE DEF u
<1> QED BY <1>5, <1>6 DEF Room

LEMMA RoomWide ==
  ASSUME NEW Y \in Seq(Location), NEW D, NEW y, NEW p, Room(Y, D, y, p)
  PROVE  Room(Y, D, y, Len(Y) + 1)
<1>1. PICK s : /\ \A j \in D : s[j] \in DOMAIN Y /\ s[j] < p /\ Y[s[j]].key = y
               /\ \A j, k \in D : s[j] = s[k] => j = k
  BY DEF Room
<1>2. \A j \in D : s[j] < Len(Y) + 1
  BY <1>1
<1> QED BY <1>1, <1>2 DEF Room

LEMMA RoomForNone ==
  ASSUME NEW Y, NEW y, NEW p
  PROVE  Room(Y, {}, y, p)
BY DEF Room

\* What the edits do to the queues, step by step.
LEMMA EndsStep ==
  ASSUME NEW E, NEW t, NEW n \in Nat, NEW l \in Nat, n < l, NEW y
  PROVE  /\ Ends(E, t, n + 1, l, y) \subseteq Ends(E, t, n, l, y)
         /\ n + 1 \notin Ends(E, t, n + 1, l, y)
         /\ t \in E[n + 1].on /\ E[n + 1].loc.len = 0 /\ E[n + 1].loc.key = y =>
               n + 1 \in Ends(E, t, n, l, y)
         /\ ~(t \in E[n + 1].on /\ E[n + 1].loc.len = 0) =>
               Ends(E, t, n, l, y) \subseteq Ends(E, t, n + 1, l, y)
<1>1. \A j : j \in n + 1 .. l <=> j = n + 1 \/ j \in (n + 1) + 1 .. l
  OBVIOUS
<1>2. n + 1 \notin (n + 1) + 1 .. l
  OBVIOUS
<1> QED BY <1>1, <1>2 DEF Ends

\* From Y to Z, the batch of the key y at p moves by d.
Follow(Y, Z, y, p, d) == p \in DOMAIN Y /\ Y[p].key = y => p + d \in DOMAIN Z /\ Z[p + d] = Y[p]

\* f has the indexes that the edits E make of X.
LEMMA RoomStep ==
  ASSUME NEW X \in Seq(Location), Tidy(X), NEW E \in Seq(Edit), NEW t, NEW f, Runs(X, E, t, f),
         NEW l \in 0 .. Len(E), NEW n \in Nat, n < l, NEW y \in Nat, NEW p \in Int,
         Room(f[n], Ends(E, t, n, l, y), y, p)
  PROVE  \E d \in Int :
            /\ Room(f[n + 1], Ends(E, t, n + 1, l, y), y, p + d)
            /\ Follow(f[n], f[n + 1], y, p, d)
<1>1. n \in 0 .. Len(E) /\ n + 1 \in 1 .. Len(E) /\ (n + 1) - 1 = n /\ l \in Nat
  OBVIOUS
<1>2. PICK Y \in Seq(Location) : Y = f[n] /\ IndexSorted(Y)
  BY <1>1, RunsTidy DEF Tidy
<1>3. PICK e \in Edit : e = E[n + 1]
  BY <1>1
<1>4. PICK Z : Z = f[n + 1] /\ Z = Do(Y, e, t)
  BY <1>1, <1>2, <1>3 DEF Runs
<1>5. PICK d \in Int, q \in Nat :
          /\ Moved(Y, Z, y, d, q)
          /\ q # 0 => /\ t \in e.on /\ e.loc.len = 0 /\ e.loc.key = y
                      /\ Oldest(Y, y, q)
  <2>1. \E d \in Int, q \in Nat :
           /\ Moved(Y, Do(Y, e, t), y, d, q)
           /\ q # 0 => /\ t \in e.on /\ e.loc.len = 0 /\ e.loc.key = y
                       /\ Oldest(Y, y, q)
    BY <1>2, DoMoves
  <2> QED BY <1>4, <2>1
<1>6. PICK D, D2 : D = Ends(E, t, n, l, y) /\ D2 = Ends(E, t, n + 1, l, y)
  OBVIOUS
<1>7. D2 \subseteq D /\ (q # 0 => \E j \in D : j \notin D2)
  BY <1>1, <1>3, <1>5, <1>6, EndsStep
<1>8. Room(Y, D, y, p)
  BY <1>2, <1>6
<1>9. Room(Z, D2, y, p + d)
  BY <1>5, <1>7, <1>8, RoomMoves
<1>10. ASSUME p \in DOMAIN Y, Y[p].key = y PROVE p + d \in DOMAIN Z /\ Z[p + d] = Y[p]
  <2>1. p # q
    <3> SUFFICES ASSUME p = q PROVE FALSE
      OBVIOUS
    <3>1. q # 0
      BY <1>2, <1>10
    <3>2. PICK j \in D : TRUE
      BY <1>7, <3>1
    <3>3. PICK s : s \in DOMAIN Y /\ s < p /\ Y[s].key = y
      BY <1>8, <3>2 DEF Room
    <3> QED BY <1>2, <1>5, <3>1, <3>3 DEF Oldest
  <2> QED BY <1>5, <1>10, <2>1 DEF Moved
<1> QED BY <1>2, <1>4, <1>6, <1>9, <1>10 DEF Follow

Has(Y, loc) == \E r \in DOMAIN Y : Y[r] = loc

\* A batch before which there is room for the ends to come stays.
LEMMA BatchStays ==
  ASSUME NEW X \in Seq(Location), Tidy(X), NEW E \in Seq(Edit), NEW t, NEW f, Runs(X, E, t, f),
         NEW l \in 0 .. Len(E), NEW m \in 0 .. l, NEW loc \in Location,
         NEW p, p \in DOMAIN f[m], f[m][p] = loc, Room(f[m], Ends(E, t, m, l, loc.key), loc.key, p)
  PROVE  \A n \in m .. l : Has(f[n], loc)
<1> DEFINE y == loc.key
           Good(n) == \E r \in Int : /\ r \in DOMAIN f[n] /\ f[n][r] = loc
                                   /\ Room(f[n], Ends(E, t, n, l, y), y, r)
           Bad == {n \in m .. l : ~Good(n)}
<1>1. y \in Nat /\ l \in Nat /\ m \in Nat /\ m \in 0 .. Len(E)
  BY LocNumbers
<1>2. Good(m)
  <2>1. f[m] \in Seq(Location)
    BY <1>1, RunsTidy
  <2>2. p \in Int
    BY <2>1
  <2> QED BY <2>2
<1>3. ASSUME NEW n \in m .. l, n < l, Good(n) PROVE Good(n + 1)
  <2>1. PICK r \in Int : r \in DOMAIN f[n] /\ f[n][r] = loc /\ Room(f[n], Ends(E, t, n, l, y), y, r)
    BY <1>3
  <2>2. n \in Nat
    BY <1>1
  <2>3. PICK d \in Int :
            /\ Room(f[n + 1], Ends(E, t, n + 1, l, y), y, r + d)
            /\ Follow(f[n], f[n + 1], y, r, d)
    <3>1. Room(f[n], Ends(E, t, n, l, y), y, r) /\ n < l /\ y \in Nat
      BY <1>1, <1>3, <2>1
    <3> HIDE DEF y
    <3> QED BY ONLY <3>1, <2>2, RoomStep, X \in Seq(Location), Tidy(X), E \in Seq(Edit),
                    Runs(X, E, t, f), l \in 0 .. Len(E), r \in Int
  <2>4. r + d \in Int
    OBVIOUS
  <2> QED BY <2>1, <2>3, <2>4 DEF Follow
<1> HIDE DEF Good
<1>4. Bad = {}
  <2> SUFFICES ASSUME Bad # {} PROVE FALSE
    OBVIOUS
  <2>1. PICK n \in Bad : \A k \in Bad : n <= k
    <3>1. Bad \subseteq Nat
      BY <1>1
    <3> HIDE DEF Bad
    <3> QED BY <3>1, LeastNat
  <2>2. n \in m .. l /\ n # m
    BY <1>2, <2>1
  <2>3. n - 1 \in m .. l /\ n - 1 \notin Bad /\ n - 1 < l /\ (n - 1) + 1 = n
    BY <1>1, <2>1, <2>2
  <2>4. Good(n - 1)
    BY <2>3
  <2> QED BY <1>3, <2>1, <2>3, <2>4
<1> QED BY <1>4 DEF Good, Has

\* The edits never end more batches of a key than there are.
LEMMA RoomStays ==
  ASSUME NEW X \in Seq(Location), Tidy(X), NEW E \in Seq(Edit), NEW t, NEW f, Runs(X, E, t, f),
         NEW l \in 0 .. Len(E), NEW y \in Nat, Room(X, Ends(E, t, 0, l, y), y, Len(X) + 1)
  PROVE  \A n \in 0 .. l : Room(f[n], Ends(E, t, n, l, y), y, Len(f[n]) + 1)
<1> DEFINE Good(n) == Room(f[n], Ends(E, t, n, l, y), y, Len(f[n]) + 1)
           Bad == {n \in 0 .. l : ~Good(n)}
<1>1. l \in Nat /\ f[0] = X
  BY DEF Runs
<1>2. Good(0)
  BY <1>1
<1>3. ASSUME NEW n \in 0 .. l, n < l, Good(n) PROVE Good(n + 1)
  <2>1. n \in Nat /\ n \in 0 .. Len(E) /\ n + 1 \in 0 .. Len(E)
    BY <1>1, <1>3
  <2>2. f[n] \in Seq(Location) /\ f[n + 1] \in Seq(Location)
    BY <2>1, RunsTidy
  <2>3. PICK p \in Int : p = Len(f[n]) + 1
    BY <2>2
  <2>4. Room(f[n], Ends(E, t, n, l, y), y, p)
    BY <1>3, <2>3
  <2>5. PICK d \in Int : Room(f[n + 1], Ends(E, t, n + 1, l, y), y, p + d)
    BY <1>3, <2>1, <2>4, RoomStep
  <2> QED BY <2>2, <2>5, RoomWide
<1> HIDE DEF Good
<1>4. Bad = {}
  <2> SUFFICES ASSUME Bad # {} PROVE FALSE
    OBVIOUS
  <2>1. PICK n \in Bad : \A k \in Bad : n <= k
    <3>1. Bad \subseteq Nat
      BY <1>1
    <3> HIDE DEF Bad
    <3> QED BY <3>1, LeastNat
  <2>2. n \in 0 .. l /\ n # 0
    BY <1>2, <2>1
  <2>3. n - 1 \in 0 .. l /\ n - 1 \notin Bad /\ n - 1 < l /\ (n - 1) + 1 = n
    BY <1>1, <2>1, <2>2
  <2>4. Good(n - 1)
    BY <2>3
  <2> QED BY <1>3, <2>1, <2>3, <2>4
<1> QED BY <1>4 DEF Good

\* A batch that an edit adds stays, as there is room before it.
LEMMA AddedStays ==
  ASSUME NEW X \in Seq(Location), Tidy(X), NEW E \in Seq(Edit), NEW t, NEW f, Runs(X, E, t, f),
         NEW l \in 0 .. Len(E), NEW m \in 1 .. l, t \in E[m].on, E[m].loc.len > 0,
         Room(f[m - 1], Ends(E, t, m - 1, l, E[m].loc.key), E[m].loc.key, Len(f[m - 1]) + 1)
  PROVE  \A n \in m .. l : Has(f[n], E[m].loc)
<1>1. l \in Nat /\ m \in 1 .. Len(E) /\ m - 1 \in 0 .. Len(E) /\ m - 1 \in Nat /\ m - 1 < l
      /\ (m - 1) + 1 = m /\ m \in 0 .. l /\ m \in 0 .. Len(E)
  OBVIOUS
<1>2. PICK loc \in Location : loc = E[m].loc
  <2>1. E[m] \in Edit
    BY <1>1
  <2> QED BY <2>1 DEF Edit
<1>3. PICK Y \in Seq(Location) : Y = f[m - 1] /\ IndexSorted(Y)
  BY <1>1, RunsTidy DEF Tidy
<1>4. PICK Z \in Seq(Location) : Z = f[m]
  BY <1>1, RunsTidy
<1>5. Z = IndexSet(Y, loc)
  BY <1>1, <1>2, <1>3, <1>4 DEF Runs, Do, IndexApply
<1>6. PICK p \in 1 .. Len(Y) + 1 : SetAt(Z, Y, loc, p)
  BY <1>3, <1>5, IndexSetAt
<1>7. /\ Len(Y) \in Nat /\ Len(Z) = Len(Y) + 1 /\ Z[p] = loc /\ loc.key \in Nat
      /\ \A j \in 1 .. p - 1 : Z[j] = Y[j]
      /\ \A j \in p .. Len(Y) : Y[j].key > loc.key
  BY <1>6, LocNumbers DEF SetAt
<1>8. PICK D, D2 : /\ D = Ends(E, t, m - 1, l, loc.key) /\ D2 = Ends(E, t, m, l, loc.key)
                   /\ D2 \subseteq D
  <2>1. Ends(E, t, (m - 1) + 1, l, loc.key) \subseteq Ends(E, t, m - 1, l, loc.key)
    BY <1>1, EndsStep, ZenonT(40)
  <2> QED BY <1>1, <2>1
<1>9. PICK s : /\ \A j \in D : s[j] \in DOMAIN Y /\ s[j] < Len(Y) + 1 /\ Y[s[j]].key = loc.key
               /\ \A j, k \in D : s[j] = s[k] => j = k
  BY <1>2, <1>3, <1>8, ZenonT(60) DEF Room
<1>10. ASSUME NEW j \in D2 PROVE s[j] \in DOMAIN Z /\ s[j] < p /\ Z[s[j]].key = loc.key
  <2>1. PICK i \in 1 .. Len(Y) : i = s[j] /\ Y[i].key = loc.key
    BY <1>8, <1>9, SMTT(40)
  <2>2. i < p
    BY <1>7, <2>1
  <2> QED BY <1>7, <2>1, <2>2
<1>11. Room(Z, D2, loc.key, p)
  BY <1>8, <1>9, <1>10, ZenonT(60) DEF Room
<1>12. p \in DOMAIN Z
  BY <1>7
<1>13. p \in DOMAIN f[m] /\ f[m][p] = loc /\ Room(f[m], Ends(E, t, m, l, loc.key), loc.key, p)
  BY <1>4, <1>7, <1>8, <1>11, <1>12
<1>14. \A n \in m .. l : Has(f[n], loc)
  BY ONLY <1>1, <1>13, BatchStays, X \in Seq(Location), Tidy(X), E \in Seq(Edit),
          Runs(X, E, t, f), l \in 0 .. Len(E), loc \in Location
<1> QED BY <1>2, <1>14

-----------------------------------------------------------------------------
(* The items that an index refers to, and what a list of edits does to     *)
(* them.                                                                   *)

ItemsAt(L, idx) == {L[s] : s \in Slots(idx) \cap DOMAIN L}

InBatch(L, loc, x) == \E s \in LocSlots(loc) : s \in DOMAIN L /\ L[s] = x

LEMMA ItemsIn ==
  ASSUME NEW L, NEW idx, NEW x
  PROVE  x \in ItemsAt(L, idx) <=> \E i \in DOMAIN idx : InBatch(L, idx[i], x)
BY DEF ItemsAt, InBatch, Slots

LEMMA HasItem ==
  ASSUME NEW L, NEW idx, NEW loc, NEW x, Has(idx, loc), InBatch(L, loc, x)
  PROVE  x \in ItemsAt(L, idx)
BY ItemsIn DEF Has

LEMMA NoItems ==
  ASSUME NEW L
  PROVE  ItemsAt(L, <<>>) = {}
BY ItemsIn

LEMMA NoLog ==
  ASSUME NEW idx
  PROVE  ItemsAt(<<>>, idx) = {}
BY DEF ItemsAt

\* A longer log has the same items where it was, and an index with one more
\* batch those it had.
LEMMA ItemsAppend ==
  ASSUME NEW L \in Seq(Item), NEW z \in Item, NEW idx
  PROVE  ItemsAt(L, idx) \subseteq ItemsAt(Append(L, z), idx)
<1> SUFFICES ASSUME NEW x \in ItemsAt(L, idx) PROVE x \in ItemsAt(Append(L, z), idx)
  OBVIOUS
<1>1. PICK i \in DOMAIN idx : InBatch(L, idx[i], x)
  BY ItemsIn
<1>2. PICK s \in LocSlots(idx[i]) : s \in DOMAIN L /\ L[s] = x
  BY <1>1 DEF InBatch
<1>3. s \in 1 .. Len(L) /\ Len(L) \in Nat
  BY <1>2
<1>4. s \in DOMAIN Append(L, z) /\ Append(L, z)[s] = L[s]
  <2>1. Append(L, z) \in Seq(Item) /\ Len(Append(L, z)) = Len(L) + 1
    BY AppendAt
  <2> QED BY <1>3, <2>1, AppendAt
<1>5. InBatch(Append(L, z), idx[i], x)
  BY <1>2, <1>4 DEF InBatch
<1> QED BY <1>5, ItemsIn

LEMMA SetHas ==
  ASSUME NEW Y \in Seq(Location), IndexSorted(Y), NEW loc \in Location
  PROVE  Has(IndexSet(Y, loc), loc) /\ \A l : Has(Y, l) => Has(IndexSet(Y, loc), l)
<1>1. PICK Z \in Seq(Location) : Z = IndexSet(Y, loc)
  BY IndexSetType
<1>2. PICK p \in 1 .. Len(Y) + 1 : SetAt(Z, Y, loc, p)
  BY <1>1, IndexSetAt
<1>3. /\ Len(Y) \in Nat /\ Len(Z) = Len(Y) + 1 /\ DOMAIN Y = 1 .. Len(Y) /\ Z[p] = loc
      /\ DOMAIN Z = 1 .. Len(Y) + 1
      /\ \A j \in 1 .. p - 1 : Z[j] = Y[j]
      /\ \A j \in p .. Len(Y) : Z[j + 1] = Y[j]
  BY <1>2 DEF SetAt
<1>4. ASSUME NEW i \in DOMAIN Y PROVE \E r \in DOMAIN Z : Z[r] = Y[i]
  <2>1. CASE i < p
    <3>1. i \in DOMAIN Z /\ Z[i] = Y[i]
      BY <1>3, <2>1
    <3> QED BY <3>1
  <2>2. CASE ~(i < p)
    <3>1. i + 1 \in DOMAIN Z /\ Z[i + 1] = Y[i]
      BY <1>3, <2>2
    <3> QED BY <3>1
  <2> QED BY <2>1, <2>2
<1>5. p \in DOMAIN Z
  BY <1>3
<1> QED BY <1>1, <1>3, <1>4, <1>5 DEF Has

LEMMA ItemsSet ==
  ASSUME NEW L, NEW Y \in Seq(Location), IndexSorted(Y), NEW loc \in Location
  PROVE  /\ ItemsAt(L, Y) \subseteq ItemsAt(L, IndexSet(Y, loc))
         /\ \A x : InBatch(L, loc, x) => x \in ItemsAt(L, IndexSet(Y, loc))
<1>1. PICK Z : Z = IndexSet(Y, loc) /\ Has(Z, loc) /\ \A l : Has(Y, l) => Has(Z, l)
  BY SetHas
<1>2. ASSUME NEW x \in ItemsAt(L, Y) PROVE x \in ItemsAt(L, Z)
  <2>1. PICK i \in DOMAIN Y : InBatch(L, Y[i], x)
    BY ItemsIn
  <2>2. Has(Y, Y[i])
    BY DEF Has
  <2> QED BY <1>1, <2>1, <2>2, HasItem
<1>3. ASSUME NEW x, InBatch(L, loc, x) PROVE x \in ItemsAt(L, Z)
  BY <1>1, <1>3, HasItem
<1> QED BY <1>1, <1>2, <1>3

\* x is there once all edits E are made; x is there all the time.
Final(L, X, E, t, x) == \E f : Runs(X, E, t, f) /\ x \in ItemsAt(L, f[Len(E)])
Safe(L, X, E, t, x) == \E f : Runs(X, E, t, f) /\ \A n \in 0 .. Len(E) : x \in ItemsAt(L, f[n])

\* The rest of a run.
Later(E, f, u) ==
    /\ Len(Tail(E)) \in Nat /\ Len(E) = Len(Tail(E)) + 1
    /\ \A i \in 0 .. Len(Tail(E)) : u[i] = f[i + 1]

LEMMA RunsTail ==
  ASSUME NEW X, NEW E \in Seq(Edit), E # <<>>, NEW t, NEW f, Runs(X, E, t, f)
  PROVE  \E u : Runs(Do(X, E[1], t), Tail(E), t, u) /\ Later(E, f, u)
<1>2. PICK n \in Nat : Len(E) = n + 1
  <2>1. Len(E) - 1 \in Nat
    OBVIOUS
  <2> QED BY <2>1
<1>3. PICK T \in Seq(Edit) : T = Tail(E) /\ Len(T) = n /\ \A i \in 1 .. n : T[i] = E[i + 1]
  <2>1. /\ Tail(E) \in Seq(Edit) /\ Len(Tail(E)) = n
        /\ \A i \in 1 .. n : i \in DOMAIN Tail(E)
    BY <1>2, TailAt
  <2> QED BY <2>1, TailAt
<1> DEFINE u == [i \in 0 .. n |-> f[i + 1]]
<1>4. f[1] = Do(X, E[1], t)
  <2>1. 1 \in 1 .. Len(E) /\ 1 - 1 = 0
    BY <1>2
  <2> QED BY <2>1 DEF Runs
<1>5. u[0] = f[1]
  OBVIOUS
<1>6. ASSUME NEW i \in 1 .. n PROVE u[i] = Do(u[i - 1], T[i], t)
  <2>1. u[i] = f[i + 1] /\ u[i - 1] = f[(i - 1) + 1] /\ (i - 1) + 1 = i /\ i + 1 \in 1 .. Len(E)
        /\ (i + 1) - 1 = i
    BY <1>2
  <2>2. f[i + 1] = Do(f[(i + 1) - 1], E[i + 1], t)
    BY <2>1 DEF Runs
  <2> QED BY <1>3, <2>1, <2>2
<1>7. \A i \in 0 .. n : u[i] = f[i + 1]
  OBVIOUS
<1> HIDE DEF u
<1>8. Runs(Do(X, E[1], t), T, t, u)
  BY <1>3, <1>4, <1>5, <1>6 DEF Runs
<1> QED BY <1>2, <1>3, <1>7, <1>8 DEF Later

LEMMA FinalStep ==
  ASSUME NEW L, NEW X, NEW E \in Seq(Edit), E # <<>>, NEW t, NEW x, Final(L, X, E, t, x)
  PROVE  Final(L, Do(X, E[1], t), Tail(E), t, x)
<1>1. PICK f : Runs(X, E, t, f) /\ x \in ItemsAt(L, f[Len(E)])
  BY DEF Final
<1>2. PICK u : Runs(Do(X, E[1], t), Tail(E), t, u) /\ Later(E, f, u)
  BY <1>1, RunsTail
<1>3. u[Len(Tail(E))] = f[Len(E)]
  BY <1>2 DEF Later
<1> QED BY <1>1, <1>2, <1>3 DEF Final

LEMMA FinalEnd ==
  ASSUME NEW L, NEW X, NEW E, E = <<>>, NEW t, NEW x, Final(L, X, E, t, x)
  PROVE  x \in ItemsAt(L, X)
BY DEF Final, Runs

LEMMA SafeStep ==
  ASSUME NEW L, NEW X, NEW E \in Seq(Edit), E # <<>>, NEW t, NEW x, Safe(L, X, E, t, x)
  PROVE  Safe(L, Do(X, E[1], t), Tail(E), t, x)
<1>1. PICK f : Runs(X, E, t, f) /\ \A n \in 0 .. Len(E) : x \in ItemsAt(L, f[n])
  BY DEF Safe
<1>2. PICK u : Runs(Do(X, E[1], t), Tail(E), t, u) /\ Later(E, f, u)
  BY <1>1, RunsTail
<1>3. ASSUME NEW n \in 0 .. Len(Tail(E)) PROVE x \in ItemsAt(L, u[n])
  <2>1. n + 1 \in 0 .. Len(E)
    BY <1>2 DEF Later
  <2> QED BY <1>1, <1>2, <2>1 DEF Later
<1> QED BY <1>2, <1>3 DEF Safe

LEMMA SafeNow ==
  ASSUME NEW L, NEW X, NEW E \in Seq(Edit), NEW t, NEW x, Safe(L, X, E, t, x)
  PROVE  x \in ItemsAt(L, X)
<1>1. 0 \in 0 .. Len(E)
  OBVIOUS
<1> QED BY <1>1 DEF Safe, Runs

-----------------------------------------------------------------------------
(* popSync keeps what was not read.                                        *)

\* The iterators h of a Read: that at k is for the batch g[k] of the index M,
\* of which it has the items that are not in out.  Of the batches with the
\* same key, the older ones are read first.
Reads(L, M, h, out, g) ==
    /\ \A k \in DOMAIN h : g[k] \in DOMAIN M /\ M[g[k]].key = h[k].first
    /\ \A j, k \in DOMAIN h : g[j] = g[k] => j = k
    /\ \A k \in DOMAIN h, i \in DOMAIN M :
          M[i].key = h[k].first /\ (\A j \in DOMAIN h : g[j] # i) => g[k] < i
    /\ \A k \in DOMAIN h : \A s \in LocSlots(M[g[k]]) :
          \/ ~h[k].exh /\ s \in LocSlots(CurrentLocation(h[k]))
          \/ s \in DOMAIN L /\ L[s] \in ItemsOf(out)

\* The edits of popSync.
PopsOf(E, h) ==
    /\ Len(E) = 2 * Len(h)
    /\ \A k \in 1 .. Len(h) :
          /\ E[2 * k - 1].on = (IF h[k].exh THEN {} ELSE Both)
          /\ E[2 * k - 1].loc = CurrentLocation(h[k])
          /\ ~h[k].exh => E[2 * k - 1].loc.len > 0
          /\ E[2 * k].on = Both /\ E[2 * k].loc = DeadLoc(h[k].first)

LEMMA PopsOfEdits ==
  ASSUME NEW L, NEW c, NEW h \in Seq(Iter), ItersFit(L, h)
  PROVE  PopsOf(PopEdits(c, h), h)
<1>1. PICK E : E = PopEdits(c, h)
  OBVIOUS
<1>2. /\ Len(E) = 2 * Len(h)
      /\ \A k \in 1 .. Len(h) :
            /\ E[2 * k - 1] = EditOf(IF h[k].exh THEN {} ELSE Both, c, CurrentLocation(h[k]))
            /\ E[2 * k] = EditOf(Both, c, DeadLoc(h[k].first))
  BY <1>1, PopEditsAt
<1>3. \A k \in 1 .. Len(h) :
         /\ E[2 * k - 1].on = (IF h[k].exh THEN {} ELSE Both)
         /\ E[2 * k - 1].loc = CurrentLocation(h[k])
         /\ E[2 * k].on = Both /\ E[2 * k].loc = DeadLoc(h[k].first)
  BY <1>2, EditOfIs
<1>4. ASSUME NEW k \in 1 .. Len(h), ~h[k].exh PROVE CurrentLocation(h[k]).len > 0
  BY <1>4 DEF ItersFit, IterFits, BatchFits
<1> QED BY <1>1, <1>2, <1>3, <1>4 DEF PopsOf

\* The edits that end a batch of the key y have one each to end.
LEMMA PopRoom ==
  ASSUME NEW L, NEW M \in Seq(Location), NEW h \in Seq(Iter), NEW out, NEW g, Reads(L, M, h, out, g),
         NEW E \in Seq(Edit), PopsOf(E, h), NEW l \in 0 .. Len(E), NEW y, NEW p,
         \A k \in DOMAIN h : 2 * k <= l /\ h[k].first = y => g[k] < p
  PROVE  Room(M, Ends(E, "mem", 0, l, y), y, p)
<1>1. PICK n \in Nat : n = Len(h) /\ DOMAIN h = 1 .. n /\ Len(E) = 2 * n
  BY DEF PopsOf
<1>2. PICK D : D = Ends(E, "mem", 0, l, y)
  OBVIOUS
<1>3. ASSUME NEW j \in D PROVE \E k \in 1 .. n : j = 2 * k /\ 2 * k <= l /\ h[k].first = y
  <2>1. j \in 1 .. l /\ "mem" \in E[j].on /\ E[j].loc.len = 0 /\ E[j].loc.key = y
    BY <1>2 DEF Ends
  <2>2. j \in 1 .. 2 * n
    BY <1>1, <2>1
  <2>3. PICK k \in 1 .. n : j = 2 * k - 1 \/ j = 2 * k
    BY <2>2, PairAt
  <2>4. j # 2 * k - 1
    <3> SUFFICES ASSUME j = 2 * k - 1 PROVE FALSE
      OBVIOUS
    <3>1. E[j].on = (IF h[k].exh THEN {} ELSE Both) /\ (~h[k].exh => E[j].loc.len > 0)
      BY <1>1 DEF PopsOf
    <3>2. ~h[k].exh
      BY <2>1, <3>1
    <3> QED BY <2>1, <3>1, <3>2
  <2>5. E[2 * k].loc = DeadLoc(h[k].first)
    BY <1>1 DEF PopsOf
  <2>6. h[k].first = y
    BY <2>1, <2>3, <2>4, <2>5, SMTT(40) DEF DeadLoc
  <2> QED BY <2>1, <2>3, <2>4, <2>6
<1>4. PICK w \in [D -> 1 .. n] : \A j \in D : j = 2 * w[j] /\ 2 * w[j] <= l /\ h[w[j]].first = y
  <2> DEFINE v == [j \in D |-> CHOOSE k \in 1 .. n : j = 2 * k /\ 2 * k <= l /\ h[k].first = y]
  <2>1. \A j \in D : v[j] \in 1 .. n /\ j = 2 * v[j] /\ 2 * v[j] <= l /\ h[v[j]].first = y
    BY <1>3
  <2>2. v \in [D -> 1 .. n]
    BY <2>1
  <2> HIDE DEF v
  <2> QED BY <2>1, <2>2
<1> DEFINE s == [j \in D |-> g[w[j]]]
<1>5. ASSUME NEW j \in D PROVE s[j] \in DOMAIN M /\ s[j] < p /\ M[s[j]].key = y
  <2>1. w[j] \in DOMAIN h /\ h[w[j]].first = y /\ 2 * w[j] <= l
    BY <1>1, <1>4
  <2>2. g[w[j]] < p
    BY <2>1
  <2> QED BY <2>1, <2>2 DEF Reads
<1>6. ASSUME NEW j \in D, NEW k \in D, s[j] = s[k] PROVE j = k
  <2>1. w[j] \in DOMAIN h /\ w[k] \in DOMAIN h /\ g[w[j]] = g[w[k]]
    BY <1>1, <1>4, <1>6
  <2>2. w[j] = w[k]
    BY <2>1 DEF Reads
  <2> QED BY <1>4, <2>2
<1> HIDE DEF s
<1>7. Room(M, D, y, p)
  BY <1>5, <1>6 DEF Room
<1> QED BY <1>2, <1>7

LEMMA PopKeeps ==
  ASSUME NEW L, NEW M \in Seq(Location), Tidy(M), NEW h \in Seq(Iter), NEW out, NEW g,
         Reads(L, M, h, out, g), NEW E \in Seq(Edit), PopsOf(E, h),
         NEW x, x \in ItemsAt(L, M), x \notin ItemsOf(out)
  PROVE  Final(L, M, E, "mem", x) /\ (~SharedFirst(h) => Safe(L, M, E, "mem", x))
<1>1. PICK f : Runs(M, E, "mem", f)
  BY RunsExist
<1>2. PICK i \in DOMAIN M : InBatch(L, M[i], x)
  BY ItemsIn
<1>3. PICK l \in Nat : l = Len(E) /\ l \in 0 .. Len(E) /\ 0 \in 0 .. l
  OBVIOUS
<1>4. PICK n \in Nat : n = Len(h) /\ DOMAIN h = 1 .. n /\ l = 2 * n
  BY <1>3 DEF PopsOf
<1>5. f[0] = M
  BY <1>1 DEF Runs
<1>6. i \in Int /\ M[i] \in Location
  OBVIOUS
<1>7. ASSUME NEW b \in 0 .. l, \A k \in DOMAIN h : 2 * k <= b /\ h[k].first = M[i].key => g[k] < i
      PROVE  \A m \in 0 .. b : x \in ItemsAt(L, f[m])
  <2>1. b \in 0 .. Len(E) /\ 0 \in 0 .. b
    BY <1>3
  <2>2. PICK y : y = M[i].key
    OBVIOUS
  <2>3. \A k \in DOMAIN h : 2 * k <= b /\ h[k].first = y => g[k] < i
    BY <1>7, <2>2
  <2>4. Room(M, Ends(E, "mem", 0, b, y), y, i)
    BY ONLY <2>1, <2>3, PopRoom, M \in Seq(Location), h \in Seq(Iter), Reads(L, M, h, out, g),
            E \in Seq(Edit), PopsOf(E, h)
  <2>5. PICK loc \in Location : loc = M[i]
    BY <1>6
  <2>6. i \in DOMAIN f[0] /\ f[0][i] = loc /\ Room(f[0], Ends(E, "mem", 0, b, loc.key), loc.key, i)
    BY <1>5, <2>2, <2>4, <2>5
  <2>7. \A m \in 0 .. b : Has(f[m], loc)
    BY ONLY <1>1, <2>1, <2>6, BatchStays, M \in Seq(Location), Tidy(M), E \in Seq(Edit),
            loc \in Location
  <2> QED BY <1>2, <2>5, <2>7, HasItem
<1>8. CASE \A j \in DOMAIN h : g[j] # i
  <2>1. \A k \in DOMAIN h : 2 * k <= l /\ h[k].first = M[i].key => g[k] < i
    BY <1>8 DEF Reads
  <2>2. l \in 0 .. l
    BY <1>3
  <2>3. \A m \in 0 .. l : x \in ItemsAt(L, f[m])
    BY <1>7, <2>1, <2>2
  <2> QED BY <1>1, <1>3, <2>2, <2>3 DEF Final, Safe
<1>9. CASE \E j \in DOMAIN h : g[j] = i
  <2>1. PICK k \in DOMAIN h : g[k] = i
    BY <1>9
  <2>2. ~h[k].exh /\ InBatch(L, CurrentLocation(h[k]), x)
    <3>1. PICK s \in LocSlots(M[i]) : s \in DOMAIN L /\ L[s] = x
      BY <1>2 DEF InBatch
    <3>2. ~h[k].exh /\ s \in LocSlots(CurrentLocation(h[k]))
      BY <2>1, <3>1 DEF Reads
    <3> QED BY <3>1, <3>2 DEF InBatch
  <2>3. PICK m \in 1 .. l : m = 2 * k - 1 /\ m - 1 \in 0 .. l
    <3>1. 2 * k - 1 \in 1 .. l /\ (2 * k - 1) - 1 \in 0 .. l
      BY <1>4
    <3> QED BY <3>1
  <2>4. "mem" \in E[m].on /\ E[m].loc.len > 0 /\ E[m].loc = CurrentLocation(h[k])
    <3>1. k \in 1 .. Len(h)
      OBVIOUS
    <3> QED BY <2>2, <2>3, <3>1 DEF PopsOf, Both
  <2>5. PICK y \in Nat : y = E[m].loc.key
    <3>1. E[m] \in Edit
      BY <1>3
    <3> QED BY <3>1, LocNumbers DEF Edit
  <2>6. Room(M, Ends(E, "mem", 0, l, y), y, Len(M) + 1)
    <3>1. \A j \in DOMAIN h : 2 * j <= l /\ h[j].first = y => g[j] < Len(M) + 1
      BY DEF Reads
    <3> QED BY ONLY <1>3, <3>1, PopRoom, M \in Seq(Location), h \in Seq(Iter),
                    Reads(L, M, h, out, g), E \in Seq(Edit), PopsOf(E, h), SMTT(60)
  <2>7. Room(f[m - 1], Ends(E, "mem", m - 1, l, y), y, Len(f[m - 1]) + 1)
    <3>1. \A j \in 0 .. l : Room(f[j], Ends(E, "mem", j, l, y), y, Len(f[j]) + 1)
      BY ONLY <1>1, <1>3, <2>5, <2>6, RoomStays, M \in Seq(Location), Tidy(M),
              E \in Seq(Edit), SMTT(60)
    <3> QED BY <2>3, <3>1
  <2>8. \A j \in m .. l : Has(f[j], E[m].loc)
    BY <1>1, <1>3, <2>4, <2>5, <2>7, AddedStays
  <2>9. \A j \in m .. l : x \in ItemsAt(L, f[j])
    BY <2>2, <2>4, <2>8, HasItem
  <2>10. Final(L, M, E, "mem", x)
    <3>1. l \in m .. l
      OBVIOUS
    <3> QED BY <1>1, <1>3, <2>9, <3>1 DEF Final
  <2>11. ASSUME ~SharedFirst(h) PROVE Safe(L, M, E, "mem", x)
    <3>1. h[k].first = M[i].key
      BY <2>1 DEF Reads
    <3>2. ASSUME NEW j \in DOMAIN h, 2 * j <= m, h[j].first = M[i].key PROVE g[j] < i
      <4>1. j # k
        BY <1>4, <2>3, <3>2
      <4> QED BY <2>11, <3>1, <3>2, <4>1 DEF SharedFirst
    <3>3. m \in 0 .. l
      BY <2>3
    <3>4. \A j \in 0 .. m : x \in ItemsAt(L, f[j])
      BY <1>7, <3>2, <3>3
    <3>5. \A j \in 0 .. Len(E) : x \in ItemsAt(L, f[j])
      <4>1. \A j \in 0 .. l : j \in 0 .. m \/ j \in m .. l
        BY <2>3
      <4> QED BY <1>3, <2>9, <3>4, <4>1
    <3> QED BY <1>1, <3>5 DEF Safe
  <2> QED BY <2>10, <2>11
<1> QED BY <1>8, <1>9

-----------------------------------------------------------------------------
(* Delete keeps what is outside of the range.                              *)

LEMMA LeftHolds ==
  ASSUME vlog \in Seq(Item), NEW loc \in Location, BatchFits(vlog, loc), NEW lo \in Nat,
         NEW x \in Item, InBatch(vlog, loc, x), x.key < lo
  PROVE  LeftPart(loc, lo).len > 0 /\ InBatch(vlog, LeftPart(loc, lo), x)
<1> DEFINE T == {s \in LocSlots(loc) \cap DOMAIN vlog : vlog[s].key < lo}
<1>1. loc.off \in Nat /\ loc.len \in Nat /\ loc.off + loc.len <= Len(vlog) /\ Len(vlog) \in Nat
  BY LocNumbers DEF BatchFits
<1>2. PICK s \in LocSlots(loc) : s \in DOMAIN vlog /\ vlog[s] = x
  BY DEF InBatch
<1>3. s \in Int /\ s > loc.off /\ s <= loc.off + loc.len
  BY <1>1, <1>2 DEF LocSlots
<1>4. loc.off + 1 .. s \subseteq T
  <2> SUFFICES ASSUME NEW a \in loc.off + 1 .. s PROVE a \in T
    OBVIOUS
  <2>1. a \in LocSlots(loc) /\ a <= s /\ a \in DOMAIN vlog
    BY <1>1, <1>3 DEF LocSlots
  <2>2. vlog[a].key <= vlog[s].key
    BY <1>2, <2>1 DEF BatchFits
  <2>3. a \in 1 .. Len(vlog) /\ s \in 1 .. Len(vlog)
    BY <1>2, <2>1
  <2>4. vlog[a].key \in Nat /\ vlog[s].key \in Nat
    BY <2>3, ItemKey
  <2> QED BY <1>2, <2>1, <2>2, <2>4
<1>5. IsFiniteSet(T)
  <2>1. T \in SUBSET LocSlots(loc)
    OBVIOUS
  <2> HIDE DEF T
  <2> QED BY <2>1, SlotsFinite, FS_Subset
<1>6. PICK m : m = LeftPart(loc, lo) /\ m.len = Cardinality(T) /\ m.off = loc.off
  <2>1. LeftPart(loc, lo) = [loc EXCEPT !.len = Cardinality(T)]
    BY DEF LeftPart
  <2> HIDE DEF T
  <2> QED BY <2>1, LocNumbers DEF Location
<1>7. Cardinality(T) \in Nat /\ s - loc.off <= Cardinality(T)
  <2> HIDE DEF T
  <2>1. PICK a, I : a = loc.off + 1 /\ I = a .. s /\ a \in Int
    BY <1>1
  <2>2. IsFiniteSet(I) /\ Cardinality(I) = s - a + 1
    <3>1. Cardinality(a .. s) = IF a > s THEN 0 ELSE s - a + 1
      BY <1>3, <2>1, FS_Interval
    <3>2. IsFiniteSet(a .. s)
      BY <1>3, <2>1, FS_Interval
    <3> QED BY <1>1, <1>3, <2>1, <3>1, <3>2
  <2>3. Cardinality(I) <= Cardinality(T) /\ Cardinality(T) \in Nat
    BY <1>4, <1>5, <2>1, FS_Subset, FS_CardinalityType
  <2> QED BY <1>1, <1>3, <2>1, <2>2, <2>3
<1> HIDE DEF T
<1>8. s \in LocSlots(m) /\ m.len > 0
  BY <1>1, <1>3, <1>6, <1>7 DEF LocSlots
<1> QED BY <1>2, <1>6, <1>8 DEF InBatch

LEMMA RightHolds ==
  ASSUME vlog \in Seq(Item), NEW loc \in Location, BatchFits(vlog, loc), NEW hi \in Nat,
         NEW x \in Item, InBatch(vlog, loc, x), x.key > hi
  PROVE  RightPart(loc, hi).len > 0 /\ InBatch(vlog, RightPart(loc, hi), x)
<1> DEFINE T == {s \in LocSlots(loc) \cap DOMAIN vlog : vlog[s].key > hi}
<1>1. loc.off \in Nat /\ loc.len \in Nat
  BY LocNumbers
<1>2. PICK s \in LocSlots(loc) : s \in DOMAIN vlog /\ vlog[s] = x
  BY DEF InBatch
<1>3. s \in T
  BY <1>2
<1>4. IsFiniteSet(T) /\ T \subseteq Int
  <2>1. T \in SUBSET LocSlots(loc) /\ T \subseteq Int
    BY DEF LocSlots
  <2> HIDE DEF T
  <2> QED BY <2>1, SlotsFinite, FS_Subset
<1>5. PICK y \in T : \A z \in T : y <= z
  <2> HIDE DEF T
  <2> QED BY <1>3, <1>4, LeastOfFinite
<1>6. Min(T) \in T /\ \A z \in T : Min(T) <= z
  <2> HIDE DEF T
  <2> QED BY <1>5 DEF Min
<1>7. PICK a \in T : a = Min(T) /\ a <= s
  BY <1>3, <1>6
<1>8. PICK m : /\ m = RightPart(loc, hi)
               /\ m = [key |-> vlog[a].key, off |-> a - 1, len |-> loc.off + loc.len - a + 1]
  BY <1>3, <1>7 DEF RightPart
<1>9. a \in Int /\ s \in Int /\ a >= loc.off + 1 /\ s <= loc.off + loc.len
  BY <1>1, <1>2 DEF LocSlots
<1>10. s \in LocSlots(m) /\ m.len > 0
  BY <1>1, <1>7, <1>8, <1>9, SMTT(40) DEF LocSlots
<1> QED BY <1>2, <1>8, <1>10 DEF InBatch

\* Each end has the batch that it is for, on both sides.
LEMMA DeleteRoom ==
  ASSUME NEW X \in Seq(Location), NEW E \in Seq(Edit), NEW n \in Nat, DeletesOf(E, X, n),
         NEW t \in {"mem", "log"}, NEW b \in 0 .. Len(E), NEW y, NEW p,
         \A k \in 1 .. n : t \in E[2 * n + k].on /\ X[k].key = y /\ 2 * n + k <= b => k < p
  PROVE  Room(X, Ends(E, t, 0, b, y), y, p)
<1>1. PICK D : D = Ends(E, t, 0, b, y)
  OBVIOUS
<1>2. n = Len(X) /\ DOMAIN X = 1 .. n /\ Len(E) = 5 * n
  BY DEF DeletesOf
<1>3. ASSUME NEW j \in D
      PROVE  j - 2 * n \in 1 .. n /\ X[j - 2 * n].key = y /\ j - 2 * n < p /\ j \in Int
  <2>1. j \in 1 .. b /\ t \in E[j].on /\ E[j].loc.len = 0 /\ E[j].loc.key = y
    BY <1>1 DEF Ends
  <2>2. j \in 1 .. 5 * n
    BY <1>2, <2>1
  <2>3. ~(j \in 1 .. 2 * n)
    BY <2>1 DEF DeletesOf
  <2>4. ~(j > 3 * n)
    <3> SUFFICES ASSUME j > 3 * n PROVE FALSE
      OBVIOUS
    <3>1. PICK m \in 1 .. 2 * n : 3 * n + m = j
      <4>1. j - 3 * n \in 1 .. 2 * n /\ 3 * n + (j - 3 * n) = j
        BY <2>2
      <4> QED BY <4>1
    <3> QED BY <2>1, <3>1 DEF DeletesOf
  <2>5. PICK k \in 1 .. n : j = 2 * n + k /\ k = j - 2 * n
    <3>1. j - 2 * n \in 1 .. n /\ j = 2 * n + (j - 2 * n)
      BY <2>2, <2>3, <2>4
    <3> QED BY <3>1
  <2>6. E[2 * n + k].loc = DeadLoc(X[k].key)
    BY DEF DeletesOf
  <2>7. X[k].key = y
    BY <2>1, <2>5, <2>6 DEF DeadLoc
  <2>8. t \in E[2 * n + k].on /\ 2 * n + k <= b
    BY <2>1, <2>5
  <2>9. k < p
    BY <2>7, <2>8
  <2> QED BY <2>2, <2>5, <2>7, <2>9
<1> DEFINE s == [j \in D |-> j - 2 * n]
<1>4. \A j \in D : s[j] \in DOMAIN X /\ s[j] < p /\ X[s[j]].key = y
  BY <1>2, <1>3
<1>5. \A j, k \in D : s[j] = s[k] => j = k
  BY <1>3
<1> HIDE DEF s
<1>6. Room(X, D, y, p)
  BY <1>4, <1>5 DEF Room
<1> QED BY <1>1, <1>6

\* Of the batches of one key, Delete takes the oldest.
OldestFirst(X, lo, hi) ==
    \A i, j \in DOMAIN X :
        i < j /\ X[i].key = X[j].key /\ Affected(X[j], lo, hi) => Affected(X[i], lo, hi)

\* What Delete does with an item outside of its range: it comes to the end in
\* memory, and is in the log at any time.
LEMMA DeleteKeeps ==
  ASSUME Base, NEW c \in Consumers, NEW lo \in Nat, NEW hi \in Nat, AllFit(vlog, mem[c]),
         OldestFirst(mem[c], lo, hi),
         NEW x \in Item, x \in ItemsAt(vlog, mem[c]), ~(lo <= x.key /\ x.key <= hi)
  PROVE  /\ Final(vlog, mem[c], DeleteEdits(c, lo, hi), "mem", x)
         /\ Safe(vlog, mem[c], DeleteEdits(c, lo, hi), "log", x)
<1>1. /\ vlog \in Seq(Item) /\ mem \in [Consumers -> Seq(Location)] /\ Tidy(mem[c])
  BY BaseTypes DEF Base, AllTidy
<1>2. PICK X \in Seq(Location) : X = mem[c] /\ Tidy(X)
  BY <1>1
<1>3. PICK n \in Nat : n = Len(X) /\ DOMAIN X = 1 .. n
  OBVIOUS
<1>4. PICK E \in Seq(Edit) : E = DeleteEdits(c, lo, hi)
  BY <1>1, DeleteEditsType
<1>5. DeletesOf(E, X, n)
  BY <1>2, <1>3, <1>4, DeletesOfEdits
<1>6. PICK l \in Nat : l = Len(E) /\ l = 5 * n /\ l \in 0 .. Len(E)
  BY <1>5 DEF DeletesOf
<1>7. DeleteEditsAre(E, c, lo, hi, n)
  BY <1>1, <1>2, <1>3, <1>4, DeleteEditsAt
<1>8. ASSUME NEW t \in {"mem", "log"}, NEW j \in 1 .. n
      PROVE  t \in E[2 * n + j].on <=> Affected(X[j], lo, hi)
  <2>1. E[2 * n + j] = EndEdits(c, lo, hi)[j]
    BY <1>7 DEF DeleteEditsAre
  <2>2. EndEdits(c, lo, hi)[j] = EditOf(IF Affected(mem[c][j], lo, hi) THEN Both ELSE {}, c,
                                        DeadLoc(mem[c][j].key))
    BY <1>1, <1>2, <1>3, EndEditsAt
  <2>3. E[2 * n + j].on = IF Affected(X[j], lo, hi) THEN Both ELSE {}
    BY <1>2, <2>1, <2>2, EditOfIs
  <2> QED BY <2>3 DEF Both
<1>9. PICK i \in DOMAIN X : InBatch(vlog, X[i], x)
  BY <1>2, ItemsIn
<1>10. i \in 1 .. n /\ i \in Int /\ X[i] \in Location /\ BatchFits(vlog, X[i])
  <2>1. X[i].len > 0
    BY <1>2 DEF Tidy
  <2> QED BY <1>2, <1>3, <2>1 DEF AllFit
<1>11. PICK f, g : Runs(X, E, "mem", f) /\ Runs(X, E, "log", g)
  BY RunsExist
\* Until edit b, no end comes to the batch.
<1>12. ASSUME NEW t \in {"mem", "log"}, NEW u, Runs(X, E, t, u), NEW b \in 0 .. l,
              \A k \in 1 .. n : t \in E[2 * n + k].on /\ X[k].key = X[i].key /\ 2 * n + k <= b => k < i
       PROVE  \A m \in 0 .. b : x \in ItemsAt(vlog, u[m])
  <2>1. b \in 0 .. Len(E) /\ 0 \in 0 .. b
    BY <1>6
  <2>2. PICK loc, y : loc \in Location /\ loc = X[i] /\ y = X[i].key /\ y = loc.key
    BY <1>10
  <2>3. \A k \in 1 .. n : t \in E[2 * n + k].on /\ X[k].key = y /\ 2 * n + k <= b => k < i
    BY <1>12, <2>2
  <2>4. Room(X, Ends(E, t, 0, b, y), y, i)
    BY ONLY <1>5, <2>1, <2>3, DeleteRoom, X \in Seq(Location), E \in Seq(Edit), n \in Nat,
            t \in {"mem", "log"}
  <2>5. i \in DOMAIN u[0] /\ u[0][i] = loc /\ Room(u[0], Ends(E, t, 0, b, loc.key), loc.key, i)
    BY <1>12, <2>2, <2>4 DEF Runs
  <2>6. \A m \in 0 .. b : Has(u[m], loc)
    <3>1. Tidy(X) /\ Runs(X, E, t, u) /\ loc \in Location
      BY <1>2, <1>12, <2>2
    <3> QED BY ONLY <3>1, <2>1, <2>5, BatchStays, X \in Seq(Location), E \in Seq(Edit)
  <2> QED BY <1>9, <2>2, <2>6, HasItem
\* A part of the batch stays from when it is set.
<1>13. ASSUME NEW t \in {"mem", "log"}, NEW u, Runs(X, E, t, u), NEW m \in 1 .. l,
              t \in E[m].on, E[m].loc.len > 0, InBatch(vlog, E[m].loc, x)
       PROVE  \A j \in m .. l : x \in ItemsAt(vlog, u[j])
  <2>1. PICK y \in Nat : y = E[m].loc.key
    <3>1. m \in 1 .. Len(E)
      BY <1>6
    <3>2. E[m] \in Edit
      BY <3>1
    <3> QED BY <3>2, LocNumbers DEF Edit
  <2>2. Room(X, Ends(E, t, 0, l, y), y, Len(X) + 1)
    <3>1. \A k \in 1 .. n : t \in E[2 * n + k].on /\ X[k].key = y /\ 2 * n + k <= l => k < Len(X) + 1
      BY <1>3
    <3> QED BY ONLY <1>5, <1>6, <3>1, DeleteRoom, X \in Seq(Location), E \in Seq(Edit), n \in Nat,
                    t \in {"mem", "log"}
  <2>3. Room(u[m - 1], Ends(E, t, m - 1, l, y), y, Len(u[m - 1]) + 1)
    <3>0. Tidy(X) /\ Runs(X, E, t, u) /\ l \in 0 .. Len(E) /\ y \in Nat
      BY <1>2, <1>6, <1>13, <2>1
    <3>1. \A j \in 0 .. l : Room(u[j], Ends(E, t, j, l, y), y, Len(u[j]) + 1)
      BY ONLY <3>0, <2>2, RoomStays, X \in Seq(Location), E \in Seq(Edit)
    <3>2. m - 1 \in 0 .. l
      BY <1>6
    <3> QED BY <3>1, <3>2
  <2>4. \A j \in m .. l : Has(u[j], E[m].loc)
    BY <1>2, <1>6, <1>13, <2>1, <2>3, AddedStays
  <2> QED BY <1>13, <2>4, HasItem
<1>14. CASE ~Affected(X[i], lo, hi)
  <2>1. ASSUME NEW t \in {"mem", "log"}, NEW u, Runs(X, E, t, u)
        PROVE  \A m \in 0 .. l : x \in ItemsAt(vlog, u[m])
    <3>1. ASSUME NEW k \in 1 .. n, t \in E[2 * n + k].on, X[k].key = X[i].key PROVE k < i
      <4>1. Affected(X[k], lo, hi)
        BY <1>8, <3>1
      <4>2. k # i /\ ~(i < k)
        BY <1>2, <1>3, <1>14, <3>1, <4>1 DEF OldestFirst
      <4> QED BY <1>10, <4>2
    <3>2. l \in 0 .. l
      BY <1>6
    <3> QED BY <1>12, <2>1, <3>1, <3>2
  <2>2. \A m \in 0 .. l : x \in ItemsAt(vlog, f[m]) /\ x \in ItemsAt(vlog, g[m])
    BY <1>11, <2>1
  <2>3. Final(vlog, X, E, "mem", x) /\ Safe(vlog, X, E, "log", x)
    BY <1>6, <1>11, <2>2 DEF Final, Safe
  <2> QED BY <1>2, <1>4, <2>3
<1>15. CASE Affected(X[i], lo, hi)
  <2>1. PICK q \in 1 .. 2 * n :
            /\ "log" \in E[q].on /\ E[q].loc.len > 0 /\ InBatch(vlog, E[q].loc, x)
    <3>1. i \in 1 .. Len(mem[c]) /\ 2 * i - 1 \in 1 .. 2 * n /\ 2 * i \in 1 .. 2 * n
      BY <1>2, <1>3, <1>10, SMTT(40)
    <3>2. /\ E[2 * i - 1] = EditOf(IF Affected(X[i], lo, hi) /\ LeftPart(X[i], lo).len > 0
                                   THEN {"log"} ELSE {}, c, LeftPart(X[i], lo))
          /\ E[2 * i] = EditOf(IF Affected(X[i], lo, hi) /\ RightPart(X[i], hi).len > 0
                               THEN {"log"} ELSE {}, c, RightPart(X[i], hi))
      <4>1. /\ PartEdits(c, lo, hi, {"log"})[2 * i - 1] =
                   EditOf(IF Affected(mem[c][i], lo, hi) /\ LeftPart(mem[c][i], lo).len > 0
                          THEN {"log"} ELSE {}, c, LeftPart(mem[c][i], lo))
            /\ PartEdits(c, lo, hi, {"log"})[2 * i] =
                   EditOf(IF Affected(mem[c][i], lo, hi) /\ RightPart(mem[c][i], hi).len > 0
                          THEN {"log"} ELSE {}, c, RightPart(mem[c][i], hi))
        <5>0. i \in 1 .. Len(mem[c]) /\ mem \in [Consumers -> Seq(Location)]
          BY <1>1, <3>1
        <5>1. PICK on : on = {"log"}
          OBVIOUS
        <5>2. /\ PartEdits(c, lo, hi, on)[2 * i - 1] =
                     EditOf(IF Affected(mem[c][i], lo, hi) /\ LeftPart(mem[c][i], lo).len > 0
                            THEN on ELSE {}, c, LeftPart(mem[c][i], lo))
              /\ PartEdits(c, lo, hi, on)[2 * i] =
                     EditOf(IF Affected(mem[c][i], lo, hi) /\ RightPart(mem[c][i], hi).len > 0
                            THEN on ELSE {}, c, RightPart(mem[c][i], hi))
          <6> QED BY ONLY <5>0, c \in Consumers, PartAt, SMTT(60)
        <5> QED BY <5>1, <5>2
      <4>2. /\ E[2 * i - 1] = PartEdits(c, lo, hi, {"log"})[2 * i - 1]
            /\ E[2 * i] = PartEdits(c, lo, hi, {"log"})[2 * i]
        BY <1>7, <3>1 DEF DeleteEditsAre
      <4>3. mem[c][i] = X[i]
        BY <1>2
      <4> QED BY <4>1, <4>2, <4>3
    <3>3. x.key \in Nat
      BY KeysAssumption DEF Item
    <3>4. CASE x.key < lo
      <4>1. LeftPart(X[i], lo).len > 0 /\ InBatch(vlog, LeftPart(X[i], lo), x)
        BY <1>1, <1>9, <1>10, <3>4, LeftHolds
      <4>2. E[2 * i - 1].on = {"log"} /\ E[2 * i - 1].loc = LeftPart(X[i], lo)
        BY <1>15, <3>2, <4>1, EditOfIs
      <4> QED BY <3>1, <4>1, <4>2
    <3>5. CASE x.key > hi
      <4>1. RightPart(X[i], hi).len > 0 /\ InBatch(vlog, RightPart(X[i], hi), x)
        BY <1>1, <1>9, <1>10, <3>5, RightHolds
      <4>2. E[2 * i].on = {"log"} /\ E[2 * i].loc = RightPart(X[i], hi)
        BY <1>15, <3>2, <4>1, EditOfIs
      <4> QED BY <3>1, <4>1, <4>2
    <3> QED BY <3>3, <3>4, <3>5
  <2>2. /\ q \in 1 .. l /\ 3 * n + q \in 1 .. l /\ q \in 0 .. l /\ l \in 3 * n + q .. l
        /\ \A j \in 0 .. l : j \in 0 .. q \/ j \in q .. l
    BY <1>6
  <2>3. "mem" \in E[3 * n + q].on /\ E[3 * n + q].loc = E[q].loc
    BY <1>5, <2>1 DEF DeletesOf
  <2>4. x \in ItemsAt(vlog, f[l])
    <3>1. PICK m \in 1 .. l : m = 3 * n + q
      BY <2>2
    <3>2. \A j \in m .. l : x \in ItemsAt(vlog, f[j])
      BY <1>11, <1>13, <2>1, <2>3, <3>1
    <3> QED BY <2>2, <3>1, <3>2
  <2>5. \A j \in q .. l : x \in ItemsAt(vlog, g[j])
    BY <1>11, <1>13, <2>1, <2>2
  <2>6. \A j \in 0 .. q : x \in ItemsAt(vlog, g[j])
    <3>1. \A k \in 1 .. n : ~(2 * n + k <= q)
      OBVIOUS
    <3> QED BY <1>11, <1>12, <2>2, <3>1
  <2>7. Final(vlog, X, E, "mem", x) /\ Safe(vlog, X, E, "log", x)
    BY <1>6, <1>11, <2>2, <2>4, <2>5, <2>6 DEF Final, Safe
  <2> QED BY <1>2, <1>4, <2>7
<1> QED BY <1>14, <1>15

-----------------------------------------------------------------------------
(* The iterators of a Read account for the batches of the index.           *)

\* Every item of the batch loc is still in the iterator it, or in out.
LeftOrOut(L, loc, it, out) ==
    \A s \in LocSlots(loc) :
        \/ ~it.exh /\ s \in LocSlots(CurrentLocation(it))
        \/ s \in DOMAIN L /\ L[s] \in ItemsOf(out)

\* In its loop, with idxIter at p, there is one iterator for each batch below p.
Merging(L, M, h, p, out, g) ==
    /\ \A k \in DOMAIN h : g[k] \in DOMAIN M /\ g[k] < p /\ M[g[k]].key = h[k].first
    /\ \A j, k \in DOMAIN h : g[j] = g[k] => j = k
    /\ \A i \in DOMAIN M : i < p => \E k \in DOMAIN h : g[k] = i
    /\ \A k \in DOMAIN h : LeftOrOut(L, M[g[k]], h[k], out)

LEMMA MergingReads ==
  ASSUME NEW L, NEW M \in Seq(Location), NEW h, NEW p \in Nat, NEW out, NEW g,
         Merging(L, M, h, p, out, g)
  PROVE  Reads(L, M, h, out, g)
<1>1. ASSUME NEW k \in DOMAIN h, NEW i \in DOMAIN M, \A j \in DOMAIN h : g[j] # i
      PROVE  g[k] < i
  <2>1. ~(i < p) /\ g[k] < p /\ i \in Nat /\ g[k] \in Nat
    BY <1>1 DEF Merging
  <2> QED BY <2>1
<1> QED BY <1>1 DEF Merging, Reads, LeftOrOut

LEMMA MergingPermuted ==
  ASSUME NEW L, NEW M, NEW h, NEW p, NEW out, NEW g, Merging(L, M, h, p, out, g),
         NEW r, NEW f, Permutes(f, h, r)
  PROVE  \E u : Merging(L, M, r, p, out, u)
<1>1. /\ \A k \in DOMAIN r : f[k] \in DOMAIN h /\ r[k] = h[f[k]]
      /\ \A j \in DOMAIN h : \E k \in DOMAIN r : f[k] = j
      /\ \A k, l \in DOMAIN r : k # l => f[k] # f[l]
  BY DEF Permutes
<1> DEFINE u == [k \in DOMAIN r |-> g[f[k]]]
<1>2. \A k \in DOMAIN r : u[k] = g[f[k]]
  OBVIOUS
<1> HIDE DEF u
<1>3. \A k \in DOMAIN r : u[k] \in DOMAIN M /\ u[k] < p /\ M[u[k]].key = r[k].first
  BY <1>1, <1>2 DEF Merging
<1>4. \A j, k \in DOMAIN r : u[j] = u[k] => j = k
  BY <1>1, <1>2 DEF Merging
<1>5. ASSUME NEW i \in DOMAIN M, i < p PROVE \E k \in DOMAIN r : u[k] = i
  <2>1. PICK j \in DOMAIN h : g[j] = i
    BY <1>5 DEF Merging
  <2>2. PICK k \in DOMAIN r : f[k] = j
    BY <1>1
  <2> QED BY <1>2, <2>1, <2>2
<1>6. \A k \in DOMAIN r : LeftOrOut(L, M[u[k]], r[k], out)
  BY <1>1, <1>2 DEF Merging
<1>7. Merging(L, M, r, p, out, u)
  BY <1>3, <1>4, <1>5, <1>6 DEF Merging
<1> QED BY <1>7

LEMMA MergingAdded ==
  ASSUME NEW L, NEW M \in Seq(Location), NEW h \in Seq(Iter), NEW p \in 1 .. Len(M), NEW out,
         NEW g, Merging(L, M, h, p, out, g), IterAt(L, M[p]) \in Iter
  PROVE  \E u : Merging(L, M, Append(h, IterAt(L, M[p])), p + 1, out, u)
<1>1. PICK it \in Iter : it = IterAt(L, M[p])
  OBVIOUS
<1>2. PICK n \in Nat : n = Len(h) /\ DOMAIN h = 1 .. n
  OBVIOUS
<1>3. PICK r \in Seq(Iter) : /\ r = Append(h, it) /\ DOMAIN r = 1 .. n + 1 /\ r[n + 1] = it
                             /\ \A k \in 1 .. n : r[k] = h[k]
  <2>1. /\ Append(h, it) \in Seq(Iter) /\ Len(Append(h, it)) = n + 1 /\ Append(h, it)[n + 1] = it
        /\ \A k \in 1 .. n : Append(h, it)[k] = h[k]
    BY <1>2, AppendAt
  <2>2. PICK r \in Seq(Iter) : r = Append(h, it)
    BY <2>1
  <2>3. DOMAIN r = 1 .. n + 1
    BY <2>1, <2>2
  <2> QED BY <2>1, <2>2, <2>3
<1> DEFINE u == [k \in 1 .. n + 1 |-> IF k <= n THEN g[k] ELSE p]
<1>4. /\ \A k \in 1 .. n + 1 : k \in 1 .. n \/ k = n + 1
      /\ \A k \in 1 .. n : u[k] = g[k] /\ k \in 1 .. n + 1
      /\ u[n + 1] = p /\ n + 1 \in 1 .. n + 1
  OBVIOUS
<1> HIDE DEF u
<1>5. \A k \in 1 .. n : g[k] \in DOMAIN M /\ g[k] < p /\ M[g[k]].key = h[k].first /\ g[k] \in Int
  BY <1>2 DEF Merging
<1>6. ASSUME NEW k \in DOMAIN r
      PROVE  u[k] \in DOMAIN M /\ u[k] < p + 1 /\ M[u[k]].key = r[k].first
  <2>1. CASE k \in 1 .. n
    <3>1. u[k] = g[k] /\ r[k] = h[k] /\ g[k] \in DOMAIN M /\ M[g[k]].key = h[k].first
      BY <1>3, <1>4, <1>5, <2>1
    <3>2. g[k] < p + 1
      BY <1>5, <2>1
    <3> QED BY <3>1, <3>2
  <2>2. CASE k = n + 1
    <3>1. it.first = M[p].key
      BY <1>1 DEF IterAt
    <3> QED BY <1>3, <1>4, <2>2, <3>1
  <2> QED BY <1>3, <1>4, <2>1, <2>2
<1>7. ASSUME NEW j \in DOMAIN r, NEW k \in DOMAIN r, u[j] = u[k] PROVE j = k
  <2>1. CASE j \in 1 .. n /\ k \in 1 .. n
    BY <1>2, <1>4, <1>7, <2>1 DEF Merging
  <2>2. CASE j = n + 1 /\ k \in 1 .. n
    BY <1>4, <1>5, <1>7, <2>2
  <2>3. CASE j \in 1 .. n /\ k = n + 1
    BY <1>4, <1>5, <1>7, <2>3
  <2> QED BY <1>3, <1>4, <2>1, <2>2, <2>3
<1>8. ASSUME NEW i \in DOMAIN M, i < p + 1 PROVE \E k \in DOMAIN r : u[k] = i
  <2>1. CASE i < p
    <3>1. PICK k \in DOMAIN h : g[k] = i
      BY <2>1 DEF Merging
    <3> QED BY <1>2, <1>3, <1>4, <3>1
  <2>2. CASE i = p
    BY <1>3, <1>4, <2>2
  <2> QED BY <1>8, <2>1, <2>2
<1>9. ASSUME NEW k \in DOMAIN r PROVE LeftOrOut(L, M[u[k]], r[k], out)
  <2>1. CASE k \in 1 .. n
    BY <1>2, <1>3, <1>4, <2>1 DEF Merging
  <2>2. CASE k = n + 1
    <3>1. ~it.exh /\ LocSlots(CurrentLocation(it)) = LocSlots(M[p])
      BY <1>1 DEF IterAt, CurrentLocation, LocSlots
    <3> QED BY <1>3, <1>4, <2>2, <3>1 DEF LeftOrOut
  <2> QED BY <1>3, <1>4, <2>1, <2>2
<1>10. Merging(L, M, r, p + 1, out, u)
  BY <1>6, <1>7, <1>8, <1>9 DEF Merging
<1> QED BY <1>1, <1>3, <1>10

\* The current item is taken.
LEMMA TakenOut ==
  ASSUME NEW L \in Seq(Item), NEW it \in Iter, ~it.exh, IterFits(L, it),
         NEW loc, NEW out \in Seq(Item), LeftOrOut(L, loc, it, out)
  PROVE  LeftOrOut(L, loc, IterNext(L, it), Append(out, L[it.off + 1]))
<1>1. /\ it.off \in Nat /\ it.len \in Nat /\ it.len > 0 /\ it.off + it.len <= Len(L) /\ Len(L) \in Nat
  <2>1. CurrentLocation(it).len > 0 /\ CurrentLocation(it).off + CurrentLocation(it).len <= Len(L)
    BY DEF IterFits, BatchFits
  <2> QED BY <2>1 DEF CurrentLocation, Iter
<1>2. PICK a \in Nat, b \in Nat : a = it.off /\ b = it.len
  BY <1>1
<1>3. LocSlots(CurrentLocation(it)) = a + 1 .. a + b
  BY <1>2 DEF CurrentLocation, LocSlots
<1>4. a + 1 \in 1 .. Len(L) /\ L[a + 1] \in Item
  BY <1>1, <1>2
<1>5. PICK o \in Seq(Item) : o = Append(out, L[a + 1]) /\ ItemsOf(out) \subseteq ItemsOf(o) /\ L[a + 1] \in ItemsOf(o)
  <2>1. /\ Append(out, L[a + 1]) \in Seq(Item) /\ Len(Append(out, L[a + 1])) = Len(out) + 1
        /\ Append(out, L[a + 1])[Len(out) + 1] = L[a + 1]
        /\ \A i \in 1 .. Len(out) : Append(out, L[a + 1])[i] = out[i]
    BY <1>4, AppendAt
  <2>2. PICK o \in Seq(Item) : o = Append(out, L[a + 1])
    BY <2>1
  <2>3. DOMAIN o = 1 .. Len(out) + 1 /\ Len(out) \in Nat /\ DOMAIN out = 1 .. Len(out)
    BY <2>1, <2>2
  <2>4. ItemsOf(out) \subseteq ItemsOf(o)
    BY <2>1, <2>2, <2>3 DEF ItemsOf
  <2>5. L[a + 1] \in ItemsOf(o)
    BY <2>1, <2>2, <2>3 DEF ItemsOf
  <2> QED BY <2>2, <2>4, <2>5
<1>6. CASE b <= 1 \/ a + 1 >= Len(L)
  <2>1. b = 1
    BY <1>1, <1>2, <1>6
  <2>2. ASSUME NEW s \in LocSlots(loc) PROVE s \in DOMAIN L /\ L[s] \in ItemsOf(o)
    <3>1. CASE s \in LocSlots(CurrentLocation(it))
      <4>1. s = a + 1
        BY <1>3, <2>1, <3>1
      <4> QED BY <1>4, <1>5, <4>1
    <3>2. CASE s \in DOMAIN L /\ L[s] \in ItemsOf(out)
      BY <1>5, <3>2
    <3> QED BY <3>1, <3>2 DEF LeftOrOut
  <2> QED BY <1>2, <1>5, <2>2 DEF LeftOrOut
<1>7. CASE ~(b <= 1 \/ a + 1 >= Len(L))
  <2>1. PICK nx : nx = IterNext(L, it) /\ nx = [it EXCEPT !.key = L[it.off + 2].key, !.off = @ + 1, !.len = @ - 1]
    BY <1>2, <1>7 DEF IterNext
  <2>2. ~nx.exh /\ nx.off = a + 1 /\ nx.len = b - 1
    BY <1>2, <2>1 DEF Iter
  <2>3. LocSlots(CurrentLocation(nx)) = a + 2 .. a + b
    <3>1. LocSlots(CurrentLocation(nx)) = (nx.off + 1) .. (nx.off + nx.len)
      BY DEF CurrentLocation, LocSlots
    <3>2. nx.off + 1 = a + 2 /\ nx.off + nx.len = a + b
      BY <2>2
    <3> QED BY <3>1, <3>2
  <2>4. ASSUME NEW s \in LocSlots(loc)
        PROVE  s \in LocSlots(CurrentLocation(nx)) \/ (s \in DOMAIN L /\ L[s] \in ItemsOf(o))
    <3>1. CASE s \in LocSlots(CurrentLocation(it))
      <4>1. s = a + 1 \/ s \in a + 2 .. a + b
        BY <1>3, <3>1
      <4> QED BY <1>4, <1>5, <2>3, <4>1
    <3>2. CASE s \in DOMAIN L /\ L[s] \in ItemsOf(out)
      BY <1>5, <3>2
    <3> QED BY <3>1, <3>2 DEF LeftOrOut
  <2> QED BY <1>2, <1>5, <2>1, <2>2, <2>4 DEF LeftOrOut
<1> QED BY <1>6, <1>7

LEMMA OutGrows ==
  ASSUME NEW L, NEW loc, NEW it, NEW out \in Seq(Item), LeftOrOut(L, loc, it, out), NEW x \in Item
  PROVE  LeftOrOut(L, loc, it, Append(out, x))
<1>1. /\ Append(out, x) \in Seq(Item) /\ Len(Append(out, x)) = Len(out) + 1
      /\ \A i \in 1 .. Len(out) : Append(out, x)[i] = out[i]
  BY AppendAt
<1>2. PICK o \in Seq(Item) : o = Append(out, x) /\ DOMAIN o = 1 .. Len(out) + 1
  <2>1. PICK o \in Seq(Item) : o = Append(out, x)
    BY <1>1
  <2>2. DOMAIN o = 1 .. Len(out) + 1
    BY <1>1, <2>1
  <2> QED BY <2>1, <2>2
<1>3. DOMAIN out = 1 .. Len(out) /\ Len(out) \in Nat
  OBVIOUS
<1>4. ItemsOf(out) \subseteq ItemsOf(o)
  BY <1>1, <1>2, <1>3 DEF ItemsOf
<1> QED BY <1>2, <1>4 DEF LeftOrOut

LEMMA MergingTaken ==
  ASSUME NEW L \in Seq(Item), NEW M, NEW h \in Seq(Iter), h # <<>>, ~h[1].exh, ItersFit(L, h),
         NEW p, NEW out \in Seq(Item), NEW g, Merging(L, M, h, p, out, g)
  PROVE  Merging(L, M, [h EXCEPT ![1] = IterNext(L, h[1])], p, Append(out, L[h[1].off + 1]), g)
<1>1. 1 \in DOMAIN h /\ h[1] \in Iter /\ IterFits(L, h[1])
  BY DEF ItersFit
<1>2. PICK it \in Iter, x \in Item : it = h[1] /\ x = L[h[1].off + 1]
  <2>1. CurrentLocation(h[1]).len > 0 /\ CurrentLocation(h[1]).off + CurrentLocation(h[1]).len <= Len(L)
    BY <1>1 DEF IterFits, BatchFits
  <2>2. h[1].off + 1 \in 1 .. Len(L)
    BY <1>1, <2>1 DEF CurrentLocation, Iter
  <2> QED BY <1>1, <2>2
<1>3. PICK r, nx : nx = IterNext(L, it) /\ r = [h EXCEPT ![1] = nx]
  OBVIOUS
<1>4. DOMAIN r = DOMAIN h /\ r[1] = nx /\ \A k \in DOMAIN h : k # 1 => r[k] = h[k]
  BY <1>1, <1>3
<1>5. nx.first = it.first
  BY <1>3 DEF IterNext, Iter
<1>6. \A k \in DOMAIN h : r[k].first = h[k].first
  BY <1>2, <1>4, <1>5
<1>7. ASSUME NEW k \in DOMAIN h PROVE LeftOrOut(L, M[g[k]], r[k], Append(out, x))
  <2>0. LeftOrOut(L, M[g[k]], h[k], out)
    BY DEF Merging
  <2>1. CASE k = 1
    <3>1. LeftOrOut(L, M[g[k]], it, out) /\ ~it.exh /\ IterFits(L, it)
      BY <1>1, <1>2, <2>0, <2>1
    <3>2. LeftOrOut(L, M[g[k]], IterNext(L, it), Append(out, L[it.off + 1]))
      BY <3>1, TakenOut
    <3> QED BY <1>2, <1>3, <1>4, <2>1, <3>2
  <2>2. CASE k # 1
    BY <1>4, <2>0, <2>2, OutGrows
  <2> QED BY <2>1, <2>2
<1>8. Merging(L, M, r, p, Append(out, x), g)
  BY <1>4, <1>6, <1>7 DEF Merging
<1> QED BY <1>2, <1>3, <1>8

\* A Push in the callback of the Read adds to the log and to the index.
LEMMA ReadsAppend ==
  ASSUME NEW L \in Seq(Item), NEW z \in Item, NEW M, NEW h, NEW out, NEW g, Reads(L, M, h, out, g)
  PROVE  Reads(Append(L, z), M, h, out, g)
<1>1. \A s \in DOMAIN L : s \in DOMAIN Append(L, z) /\ Append(L, z)[s] = L[s]
  <2>1. /\ Append(L, z) \in Seq(Item) /\ Len(Append(L, z)) = Len(L) + 1
        /\ \A i \in 1 .. Len(L) : Append(L, z)[i] = L[i]
    BY AppendAt
  <2>2. DOMAIN L = 1 .. Len(L) /\ Len(L) \in Nat /\ DOMAIN Append(L, z) = 1 .. Len(L) + 1
    BY <2>1
  <2> QED BY <2>1, <2>2
<1> QED BY <1>1 DEF Reads

LEMMA ReadsSet ==
  ASSUME NEW L, NEW M \in Seq(Location), IndexSorted(M), NEW h, NEW out, NEW g,
         Reads(L, M, h, out, g), NEW loc \in Location
  PROVE  \E u : Reads(L, IndexSet(M, loc), h, out, u)
<1>1. PICK Z \in Seq(Location) : Z = IndexSet(M, loc)
  BY IndexSetType
<1>2. PICK p \in 1 .. Len(M) + 1 : SetAt(Z, M, loc, p)
  BY <1>1, IndexSetAt, SMTT(60)
<1>3. PICK n \in Nat : /\ n = Len(M) /\ DOMAIN M = 1 .. n /\ Len(Z) = n + 1 /\ DOMAIN Z = 1 .. n + 1
                       /\ p \in 1 .. n + 1 /\ Z[p] = loc /\ loc.key \in Nat
                       /\ \A j \in 1 .. p - 1 : Z[j] = M[j] /\ M[j].key <= loc.key
                       /\ \A j \in p .. n : Z[j + 1] = M[j] /\ M[j].key > loc.key
  <2>1. Len(M) \in Nat /\ DOMAIN M = 1 .. Len(M) /\ DOMAIN Z = 1 .. Len(Z)
    OBVIOUS
  <2> QED BY <1>2, <2>1, LocNumbers DEF SetAt
<1> DEFINE w(i) == IF i < p THEN i ELSE i + 1
           u == [k \in DOMAIN h |-> w(g[k])]
<1>4. ASSUME NEW i \in DOMAIN M PROVE w(i) \in DOMAIN Z /\ Z[w(i)] = M[i] /\ w(i) # p
  <2>1. CASE i < p
    BY <1>3, <2>1
  <2>2. CASE ~(i < p)
    BY <1>3, <2>2
  <2> QED BY <2>1, <2>2
<1>5. ASSUME NEW i \in DOMAIN M, NEW j \in DOMAIN M
      PROVE  (w(i) = w(j) => i = j) /\ (i < j => w(i) < w(j)) /\ (i < p => w(i) < p)
  BY <1>3
<1>6. ASSUME NEW m \in DOMAIN Z, m # p PROVE \E i \in DOMAIN M : w(i) = m
  <2>1. CASE m < p
    BY <1>3, <2>1
  <2>2. CASE m > p
    <3>1. m - 1 \in DOMAIN M /\ w(m - 1) = m
      BY <1>3, <2>2
    <3> QED BY <3>1
  <2> QED BY <1>3, <1>6, <2>1, <2>2
<1>7. \A k \in DOMAIN h : u[k] = w(g[k]) /\ g[k] \in DOMAIN M /\ M[g[k]].key = h[k].first
  BY DEF Reads
<1> HIDE DEF u, w
<1>8. \A k \in DOMAIN h : u[k] \in DOMAIN Z /\ Z[u[k]] = M[g[k]] /\ Z[u[k]].key = h[k].first
  BY <1>4, <1>7
<1>9. \A j, k \in DOMAIN h : u[j] = u[k] => j = k
  BY <1>5, <1>7 DEF Reads
<1>10. ASSUME NEW k \in DOMAIN h, NEW m \in DOMAIN Z, Z[m].key = h[k].first,
              \A j \in DOMAIN h : u[j] # m
       PROVE  u[k] < m
  <2>1. CASE m = p
    <3>1. M[g[k]].key = loc.key /\ g[k] \in DOMAIN M
      BY <1>3, <1>7, <1>10, <2>1
    <3>2. g[k] < p
      <4>1. ~(g[k] \in p .. n)
        BY <1>3, <3>1
      <4> QED BY <1>3, <3>1, <4>1
    <3> QED BY <1>5, <1>7, <2>1, <3>1, <3>2
  <2>2. CASE m # p
    <3>1. PICK i \in DOMAIN M : w(i) = m
      BY <1>6, <2>2
    <3>2. M[i].key = h[k].first /\ \A j \in DOMAIN h : g[j] # i
      BY <1>4, <1>7, <1>10, <3>1
    <3>3. g[k] < i
      BY <3>2 DEF Reads
    <3> QED BY <1>5, <1>7, <3>1, <3>3
  <2> QED BY <2>1, <2>2
<1>11. ASSUME NEW k \in DOMAIN h, NEW s \in LocSlots(Z[u[k]])
       PROVE  \/ ~h[k].exh /\ s \in LocSlots(CurrentLocation(h[k]))
              \/ s \in DOMAIN L /\ L[s] \in ItemsOf(out)
  BY <1>8 DEF Reads
<1>12. Reads(L, Z, h, out, u)
  BY <1>8, <1>9, <1>10, <1>11 DEF Reads
<1> QED BY <1>1, <1>12

IsMerging == \E g : Merging(vlog, mem[call.who], rd.iters, rd.pos, rd.out, g)
IsReading == \E g : Reads(vlog, mem[call.who], rd.iters, rd.out, g)

ReadInv ==
    InRead /\ Ok(call.who) => (pc = "peek" => IsMerging) /\ (pc # "peek" => IsReading)

LEMMA InitReadInv == Init => ReadInv
BY DEF Init, ReadInv, InRead, Pushing

\* Steps that leave a Read in its callback alone.
ReadKept ==
    \/ ~InRead'
    \/ /\ InRead /\ pc # "peek" /\ pc' # "peek"
       /\ rd' = rd /\ call' = call /\ mem' = mem /\ vlog' = vlog /\ known' = known

LEMMA QueueReadKept ==
    ASSUME OpenInv, Program,
           Start \/ Close \/ Crash \/ CloseUnused
    PROVE  ReadKept
<1> USE DEF OpenInv, Control, Program, ReadKept, InRead, Working, Serving, Forking, Pushing, Loading
<1>1. CASE Start
  BY <1>1 DEF Start, disk, index, queue, oper, counters, history
<1>2. CASE Close
  BY <1>2 DEF Close, Stop, Forget, Return, disk, index, queue, oper, counters, history
<1>3. CASE Crash
  BY <1>3 DEF Crash, Stop, Forget, Return, disk, index, queue, oper, counters, history
<1>4. CASE CloseUnused
  BY <1>4 DEF CloseUnused, Forget, disk, index, queue, oper, counters, history
<1> QED BY <1>1, <1>2, <1>3, <1>4

LEMMA OpeningReadKept ==
    ASSUME OpenInv, Program,
           Open \/ LoadIndex \/ Loaded \/ Recover \/ Rewrite \/ Rewritten \/ Reinit \/ Opened
    PROVE  ReadKept
<1> USE DEF OpenInv, Control, Program, ReadKept, InRead, Working, Serving, Forking, Pushing, Loading
<1>1. CASE Open
  BY <1>1 DEF Open, disk, index, queue, oper, counters, history
<1>2. CASE LoadIndex
  BY <1>2 DEF LoadIndex, ToLoad, Write, disk, index, queue, oper, counters, history
<1>3. CASE Loaded
  BY <1>3 DEF Loaded, disk, index, queue, oper, counters, history
<1>4. CASE Recover
  BY <1>4 DEF Recover, Write, disk, index, queue, oper, counters, history
<1>5. CASE Rewrite
  BY <1>5 DEF Rewrite, Write, disk, index, queue, oper, counters, history
<1>6. CASE Rewritten
  BY <1>6 DEF Rewritten, disk, index, queue, oper, counters, history
<1>7. CASE Reinit
  BY <1>7 DEF Reinit, Forget, disk, index, queue, oper, counters, history
<1>8. CASE Opened
  BY <1>8 DEF Opened, ToLoad, FetchedForks, disk, index, queue, oper, counters, history
<1> QED BY <1>1, <1>2, <1>3, <1>4, <1>5, <1>6, <1>7, <1>8

LEMMA RemovingReadKept ==
    ASSUME OpenInv, Program,
           RmIndex \/ RmDat \/ RmMain \/ RmDir \/ RmDirFails
    PROVE  ReadKept
<1> USE DEF OpenInv, Control, Program, ReadKept, InRead, Working, Serving, Forking, Pushing, Loading
<1>1. CASE RmIndex
  BY <1>1 DEF RmIndex, Named, RmIndexLog, disk, index, queue, oper, counters, history
<1>2. CASE RmDat
  BY <1>2 DEF RmDat, Named, disk, index, queue, oper, counters, history
<1>3. CASE RmMain
  BY <1>3 DEF RmMain, RmIndexLog, disk, index, queue, oper, counters, history
<1>4. CASE RmDir
  BY <1>4 DEF RmDir, Return, disk, index, queue, oper, counters, history
<1>5. CASE RmDirFails
  BY <1>5 DEF RmDirFails, OpenFails, Forget, Return, disk, index, queue, oper, counters, history
<1> QED BY <1>1, <1>2, <1>3, <1>4, <1>5

LEMMA JournalReadKept ==
    ASSUME OpenInv, Program,
           JournalEnd \/ Failed
    PROVE  ReadKept
<1> USE DEF OpenInv, Control, Program, ReadKept, InRead, Working, Serving, Forking, Pushing, Loading
<1>1. CASE JournalEnd
  BY <1>1 DEF JournalEnd, disk, index, queue, oper, counters, history
<1>2. CASE Failed
  BY <1>2 DEF Failed, Return, disk, index, queue, oper, counters, history
<1> QED BY <1>1, <1>2

LEMMA PushReadKept ==
    ASSUME OpenInv, Program,
           Push \/ TxPush \/ PushIndex \/ PushDone
    PROVE  ReadKept
<1> USE DEF OpenInv, Control, Program, ReadKept, InRead, Working, Serving, Forking, Pushing, Loading
<1>1. CASE Push
  BY <1>1 DEF Push, Given, WhenOpen, disk, index, queue, oper, counters, history
<1>2. CASE TxPush
  BY <1>2 DEF TxPush, Given, disk, index, queue, oper, counters, history
<1>3. CASE PushIndex
  BY <1>3 DEF PushIndex, Write, disk, index, queue, oper, counters, history
<1>4. CASE PushDone
  BY <1>4 DEF PushDone, PushOver, disk, index, queue, oper, counters, history
<1> QED BY <1>1, <1>2, <1>3, <1>4

LEMMA ReadReadKept ==
    ASSUME OpenInv, Program,
           Read \/ Pop \/ Popped \/ PeekOnly \/ CallbackErr \/ Reap
    PROVE  ReadKept
<1> USE DEF OpenInv, Control, Program, ReadKept, InRead, Working, Serving, Forking, Pushing, Loading
<1>1. CASE Read
  BY <1>1 DEF Read, WhenOpen, NoCall, disk, index, queue, oper, counters, history
<1>2. CASE Pop
  BY <1>2 DEF Pop, Write, disk, index, queue, oper, counters, history
<1>3. CASE Popped
  BY <1>3 DEF Popped, disk, index, queue, oper, counters, history
<1>4. CASE PeekOnly
  BY <1>4 DEF PeekOnly, disk, index, queue, oper, counters, history
<1>5. CASE CallbackErr
  BY <1>5 DEF CallbackErr, Return, disk, index, queue, oper, counters, history
<1>6. CASE Reap
  BY <1>6 DEF Reap, DropBucket, Forget, Return, disk, index, queue, oper, counters, history
<1> QED BY <1>1, <1>2, <1>3, <1>4, <1>5, <1>6

LEMMA ForksReadKept ==
    ASSUME OpenInv, Program,
           Delete \/ DeleteBegin \/ Deleted \/ Clear \/ ForkListed \/ Fork \/ Forked \/ RemoveFork
    PROVE  ReadKept
<1> USE DEF OpenInv, Control, Program, ReadKept, InRead, Working, Serving, Forking, Pushing, Loading
<1>1. CASE Delete
  BY <1>1 DEF Delete, WhenOpen, NoCall, disk, index, queue, oper, counters, history
<1>2. CASE DeleteBegin
  BY <1>2 DEF DeleteBegin, Write, disk, index, queue, oper, counters, history
<1>3. CASE Deleted
  BY <1>3 DEF Deleted, disk, index, queue, oper, counters, history
<1>4. CASE Clear
  BY <1>4 DEF Clear, DropBucket, Forget, Return, disk, index, queue, oper, counters, history
<1>5. CASE ForkListed
  BY <1>5 DEF ForkListed, ForkMade, disk, index, queue, oper, counters, history
<1>6. CASE Fork
  BY <1>6 DEF Fork, Write, NoCall, disk, index, queue, oper, counters, history
<1>7. CASE Forked
  BY <1>7 DEF Forked, ForkMade, Return, disk, index, queue, oper, counters, history
<1>8. CASE RemoveFork
  BY <1>8 DEF RemoveFork, RmIndexLog, DropBucket, Forget, Return, disk, index, queue, oper, counters, history
<1> QED BY <1>1, <1>2, <1>3, <1>4, <1>5, <1>6, <1>7, <1>8

LEMMA ReadFirstMerges ==
  ASSUME NEW L \in Seq(Item), NEW X \in Seq(Location), \A i \in DOMAIN X : BatchFits(L, X[i]),
         NEW r \in PeekFirst(L, X)
  PROVE  \E g : Merging(L, X, r[1], r[2], <<>>, g)
<1>1. ASSUME NEW g PROVE Merging(L, X, <<>>, 1, <<>>, g)
  BY DEF Merging
<1>2. CASE X = <<>>
  <2>1. r = <<<<>>, 1>>
    BY <1>2 DEF PeekFirst
  <2>2. r[1] = <<>> /\ r[2] = 1
    BY <2>1
  <2> QED BY <1>1, <2>2
<1>3. CASE X # <<>>
  <2>1. r \in AddIter(L, X, <<>>, 1) /\ 1 \in 1 .. Len(X)
    BY <1>3 DEF PeekFirst
  <2>2. BatchFits(L, X[1])
    BY <2>1
  <2>3. PICK h \in Seq(Iter) : h = <<>>
    <3>1. <<>> \in Seq(Iter)
      OBVIOUS
    <3> QED BY <3>1
  <2>4. PICK p \in 1 .. Len(X) : p = 1
    BY <2>1
  <2>5. /\ r[2] = p + 1 /\ r[1] \in Pushed(h, IterAt(L, X[p]))
        /\ IterAt(L, X[p]) \in Iter /\ IterFits(L, IterAt(L, X[p]))
    BY <2>1, <2>2, <2>3, <2>4, AddIterIs
  <2>6. PICK out : out = <<>>
    OBVIOUS
  <2>7. PICK g : Merging(L, X, h, p, out, g)
    BY <1>1, <2>3, <2>4, <2>6
  <2>8. PICK u : Merging(L, X, Append(h, IterAt(L, X[p])), p + 1, out, u)
    BY <2>5, <2>7, MergingAdded
  <2>9. PICK f : Permutes(f, Append(h, IterAt(L, X[p])), r[1])
    BY <2>5, PushedPermutes
  <2>10. \E v : Merging(L, X, r[1], p + 1, out, v)
    BY <2>8, <2>9, MergingPermuted
  <2> QED BY <2>5, <2>6, <2>10
<1> QED BY <1>2, <1>3

LEMMA ReadNextMerges ==
  ASSUME NEW L \in Seq(Item), NEW X \in Seq(Location), \A i \in DOMAIN X : BatchFits(L, X[i]),
         NEW h \in Seq(Iter), h # <<>>, ~h[1].exh, ItersFit(L, h), Inside(L, h),
         NEW p \in Nat, p >= 1, NEW r \in PeekNext(L, X, h, p), NEW out \in Seq(Item), NEW g,
         Merging(L, X, h, p, out, g)
  PROVE  \E u : Merging(L, X, r[1], r[2], Append(out, L[h[1].off + 1]), u)
<1>1. PICK o : o = Append(out, L[h[1].off + 1])
  OBVIOUS
<1>2. PICK it \in Iter : it = IterNext(L, h[1])
  <2>1. 1 \in DOMAIN h /\ h[1] \in Iter /\ h[1].off < Len(L)
    BY DEF Inside
  <2> QED BY <2>1, IterNextType
<1>3. PICK h1 \in Seq(Iter) : h1 = [h EXCEPT ![1] = it] /\ h1 # <<>>
  <2>1. 1 \in DOMAIN h /\ [h EXCEPT ![1] = it] \in Seq(Iter)
    OBVIOUS
  <2>2. [h EXCEPT ![1] = it] # <<>>
    BY <2>1
  <2> QED BY <2>1, <2>2
<1>4. Merging(L, X, h1, p, o, g)
  BY <1>1, <1>2, <1>3, MergingTaken
<1>5. PICK q \in Fixed(h1) :
          r \in (IF MustAdd(X, p, it) THEN AddIter(L, X, q, p) ELSE {<<q, p>>})
  <2>1. PICK q \in Fixed([h EXCEPT ![1] = IterNext(L, h[1])]) :
          r \in (IF MustAdd(X, p, IterNext(L, h[1])) THEN AddIter(L, X, q, p) ELSE {<<q, p>>})
    BY DEF PeekNext
  <2> QED BY <1>2, <1>3, <2>1
<1>6. PICK f : Permutes(f, h1, q)
  BY <1>3, FixedPermutes
<1>7. PICK g1 : Merging(L, X, q, p, o, g1)
  BY <1>4, <1>6, MergingPermuted
<1>8. CASE ~MustAdd(X, p, it)
  <2>1. r[1] = q /\ r[2] = p
    BY <1>5, <1>8
  <2> QED BY <1>1, <1>7, <2>1
<1>9. CASE MustAdd(X, p, it)
  <2>0. /\ r[2] = p + 1 /\ r[1] \in Pushed(q, IterAt(L, X[p])) /\ IterAt(L, X[p]) \in Iter
        /\ p \in 1 .. Len(X)
    <3>1. p \in 1 .. Len(X) /\ BatchFits(L, X[p]) /\ r \in AddIter(L, X, q, p)
      BY <1>5, <1>9 DEF MustAdd
    <3> QED BY <3>1, AddIterIs
  <2>1. q \in Seq(Iter)
    <3>1. DOMAIN q = DOMAIN h1 /\ DOMAIN h1 = 1 .. Len(h1) /\ Len(h1) \in Nat
      BY DEF Fixed, ShiftUp
    <3>2. \A k \in DOMAIN q : q[k] \in Iter
      <4>1. \A k \in DOMAIN h1 : h1[k] \in Iter
        OBVIOUS
      <4> QED BY <1>6, <4>1 DEF Permutes
    <3>3. PICK P \in SUBSET DOMAIN h1 : q = ShiftUp(h1, P)
      BY DEF Fixed
    <3>4. q = [k \in DOMAIN h1 |-> q[k]]
      BY <3>3, SMTT(60) DEF ShiftUp
    <3>5. PICK n \in Nat : n = Len(h1) /\ DOMAIN h1 = 1 .. n
      BY <3>1
    <3>6. q \in [1 .. n -> Iter]
      BY <3>1, <3>2, <3>4, <3>5
    <3> QED BY <3>6
  <2>2. PICK u : Merging(L, X, Append(q, IterAt(L, X[p])), p + 1, o, u)
    BY <1>7, <2>0, <2>1, MergingAdded
  <2>3. PICK f2 : Permutes(f2, Append(q, IterAt(L, X[p])), r[1])
    BY <2>0, <2>1, PushedPermutes
  <2>4. \E v : Merging(L, X, r[1], p + 1, o, v)
    BY <2>2, <2>3, MergingPermuted
  <2> QED BY <1>1, <2>0, <2>4
<1> QED BY <1>8, <1>9

\* Whose index fits, in the middle of a Read.
LEMMA ReaderFits ==
  ASSUME Base, MemsFit, Ok(call.who), tree = "open"
  PROVE  \A i \in DOMAIN mem[call.who] : BatchFits(vlog, mem[call.who][i])
<1>1. call.who \in Consumers /\ ~Stale
  BY BaseTypes DEF Stale
<1>2. AllFit(vlog, mem[call.who]) /\ Tidy(mem[call.who])
  BY <1>1 DEF MemsFit, AllTidy, Base
<1> QED BY <1>2 DEF AllFit, Tidy

LEMMA ReadInvStep ==
  ASSUME Ground, Fit, ReadInv, Next
  PROVE  ReadInv'
<1>0. /\ Base /\ OpenInv /\ Program /\ MemsFit /\ ReadFits /\ vlog \in Seq(Item) /\ rd.iters \in Seq(Iter)
      /\ mem \in [Consumers -> Seq(Location)] /\ call.who \in Consumers /\ AllTidy /\ TypeInv
      /\ rd.pos \in Nat /\ rd.out \in Seq(Item) /\ Targets
  BY BaseTypes DEF Ground, Fit, Base
<1> SUFFICES ASSUME InRead', Ok(call.who)'
             PROVE  (pc' = "peek" => IsMerging') /\ (pc' # "peek" => IsReading')
  BY DEF ReadInv
<1>1. CASE ReadFirst
  <2>1. PICK r \in PeekFirst(vlog, mem[call.who]) : rd' = [NoRead EXCEPT !.iters = r[1], !.pos = r[2]]
    BY <1>1 DEF ReadFirst
  <2>2. rd'.iters = r[1] /\ rd'.pos = r[2] /\ rd'.out = <<>>
    BY <2>1 DEF NoRead
  <2>3. /\ pc = "read" /\ pc' = "peek" /\ vlog' = vlog /\ mem' = mem /\ call' = call /\ known' = known
    BY <1>1 DEF ReadFirst, disk, index, history
  <2>4. Ok(call.who) /\ tree = "open"
    BY <1>0, <2>3 DEF Ok, OkForks, Program, Working
  <2>5. PICK X \in Seq(Location) : X = mem[call.who] /\ \A i \in DOMAIN X : BatchFits(vlog, X[i])
    BY <1>0, <2>4, ReaderFits
  <2>6. \E g : Merging(vlog, X, r[1], r[2], <<>>, g)
    BY <1>0, <2>1, <2>5, ReadFirstMerges
  <2> QED BY <2>2, <2>3, <2>5, <2>6 DEF IsMerging
<1>2. CASE ReadNext
  <2>1. PICK r \in PeekNext(vlog, mem[call.who], rd.iters, rd.pos) :
          rd' = [iters |-> r[1], pos |-> r[2], out |-> Append(rd.out, vlog[rd.iters[1].off + 1])]
    BY <1>2 DEF ReadNext
  <2>2. /\ rd'.iters = r[1] /\ rd'.pos = r[2]
        /\ rd'.out = Append(rd.out, vlog[rd.iters[1].off + 1])
    BY <2>1
  <2>3. /\ rd.iters # <<>> /\ ~rd.iters[1].exh /\ rd.pos >= 1 /\ pc = "peek" /\ Inside(vlog, rd.iters)
        /\ pc' = "peek" /\ vlog' = vlog /\ mem' = mem /\ call' = call /\ known' = known
    BY <1>0, <1>2 DEF ReadNext, PeekMore, TypeInv, Phase, disk, index, history
  <2>4. Ok(call.who) /\ tree = "open" /\ InRead
    BY <1>0, <2>3 DEF Ok, OkForks, Program, Working, InRead
  <2>5. PICK X \in Seq(Location), h \in Seq(Iter), p \in Nat, o \in Seq(Item) :
            X = mem[call.who] /\ h = rd.iters /\ p = rd.pos /\ o = rd.out
    BY <1>0
  <2>6. ItersFit(vlog, h) /\ \A i \in DOMAIN X : BatchFits(vlog, X[i])
    BY <1>0, <2>4, <2>5, ReaderFits DEF ReadFits
  <2>7. PICK g : Merging(vlog, X, h, p, o, g)
    BY <2>3, <2>4, <2>5 DEF ReadInv, IsMerging
  <2>8. \E u : Merging(vlog, X, r[1], r[2], Append(o, vlog[h[1].off + 1]), u)
    BY <1>0, <2>1, <2>3, <2>5, <2>6, <2>7, ReadNextMerges
  <2> QED BY <2>2, <2>3, <2>5, <2>8 DEF IsMerging
<1>3. CASE ReadServe
  <2>1. /\ pc = "peek" /\ pc' = "callback" /\ UNCHANGED <<vlog, mem, call, known, rd>>
    BY <1>3 DEF ReadServe, disk, index, history
  <2>2. Ok(call.who) /\ InRead
    BY <2>1 DEF Ok, OkForks, InRead
  <2>3. PICK g : Merging(vlog, mem[call.who], rd.iters, rd.pos, rd.out, g)
    BY <2>1, <2>2 DEF ReadInv, IsMerging
  <2>4. PICK X \in Seq(Location) : X = mem[call.who]
    BY <1>0
  <2>5. Reads(vlog, X, rd.iters, rd.out, g)
    BY <1>0, <2>3, <2>4, MergingReads
  <2> QED BY <2>1, <2>4, <2>5 DEF IsReading
<1>4. CASE WriteItem
  <2>1. /\ pc = "push" /\ pc' = "push" /\ UNCHANGED <<mem, call, known, rd, reading>>
    BY <1>4 DEF WriteItem, index, history
  <2>2. Ok(call.who) /\ InRead
    BY <2>1 DEF Ok, OkForks, InRead, Pushing
  <2>3. PICK g : Reads(vlog, mem[call.who], rd.iters, rd.out, g)
    BY <2>1, <2>2 DEF ReadInv, IsReading
  <2>4. PICK x \in Item : vlog' = Append(vlog, x)
    BY <1>0, <1>4, WriteIs
  <2>5. Reads(Append(vlog, x), mem[call.who], rd.iters, rd.out, g)
    BY <1>0, <2>3, ReadsAppend
  <2> QED BY <2>1, <2>4, <2>5 DEF IsReading
<1>5. CASE Journal \/ FailWrite
  <2>1. PICK e : e = Head(todo)
    OBVIOUS
  <2>2. /\ pc = "journal" /\ e = todo[1] /\ 1 \in DOMAIN todo /\ e.to \in Consumers /\ e.loc \in Location
    BY <1>0, <1>5, <2>1, EditAt
  <2>3. /\ then = "pushed" /\ EditMem(e) /\ pc' # "peek" /\ reading /\ call' = call /\ rd' = rd
        /\ vlog' = vlog
    <3>1. CASE Journal
      BY <2>1, <2>2, <3>1 DEF Journal, InRead, Pushing
    <3>2. CASE FailWrite
      BY <2>1, <2>2, <3>2 DEF FailWrite, InRead, Pushing, PushOver, OpenFails, Return, disk
    <3> QED BY <1>5, <3>1, <3>2
  <2>4. Ok(call.who)
    BY <1>5, <2>3, OkStays DEF Next, Step, Environment
  <2>5. PICK g : Reads(vlog, mem[call.who], rd.iters, rd.out, g)
    BY <2>2, <2>3, <2>4 DEF ReadInv, IsReading, InRead, Pushing
  <2>6. PICK X \in Seq(Location) : X = mem[call.who] /\ IndexSorted(X)
    BY <1>0 DEF AllTidy, Tidy
  <2>7. e.on = Both /\ e.loc.len > 0
    BY <1>0, <2>2, <2>3 DEF Targets
  <2>8. mem' = [mem EXCEPT ![e.to] = IndexApply(@, e.loc)]
    BY <2>3, <2>7 DEF EditMem, Both
  <2>9. CASE e.to = call.who
    <3>1. mem'[call.who] = IndexSet(X, e.loc)
      BY <1>0, <2>6, <2>7, <2>8, <2>9 DEF IndexApply
    <3>2. Reads(vlog, X, rd.iters, rd.out, g)
      BY <2>5, <2>6
    <3>3. \E u : Reads(vlog, IndexSet(X, e.loc), rd.iters, rd.out, u)
      BY <2>2, <2>6, <3>2, ReadsSet
    <3> QED BY <2>3, <3>1, <3>3 DEF IsReading
  <2>10. CASE e.to # call.who
    <3>1. mem'[call.who] = mem[call.who]
      BY <1>0, <2>8, <2>10
    <3> QED BY <2>3, <2>5, <3>1 DEF IsReading
  <2> QED BY <2>9, <2>10
<1>6. CASE ReadKept
  <2>1. Ok(call.who)
    BY <1>6 DEF ReadKept, Ok, OkForks
  <2> QED BY <1>6, <2>1 DEF ReadKept, ReadInv, IsReading
<1> QED BY <1>0, <1>1, <1>2, <1>3, <1>4, <1>5, <1>6, QueueReadKept, OpeningReadKept,
           RemovingReadKept, JournalReadKept, PushReadKept, ReadReadKept, ForksReadKept
        DEF Next, Step, Environment

-----------------------------------------------------------------------------
(* Failing writes, pushes and copies in progress.                          *)

\* A write that failed is known.
Failing == fails > 0 => known \cap {"failedWrite", "failedFork"} # {}

LEMMA FailsOnlyThere ==
  ASSUME Next
  PROVE  FailWrite \/ fails' = fails
BY QueueSameFails, OpeningSameFails, RemovingSameFails, JournalSameFails, PushSameFails,
   ReadSameFails, ForksSameFails DEF Next, Step, Environment

LEMMA FailingStep ==
  ASSUME Failing, Next
  PROVE  Failing'
<1>1. CASE FailWrite
  BY <1>1 DEF FailWrite, Failing
<1>2. CASE fails' = fails
  BY <1>2, ValuesStep DEF Failing
<1> QED BY <1>1, <1>2, FailsOnlyThere

\* The items of a Push are in the value log, and every index has them or is
\* about to.
Placed == \A i \in DOMAIN batch : InBatch(vlog, PushLoc, batch[i])
Receives(c) ==
    \/ \E j \in DOMAIN todo : todo[j].to = c /\ todo[j].loc = PushLoc
    \/ ItemsOf(batch) \subseteq ItemsAt(vlog, mem[c])
Received == Doing("pushed") => Placed /\ \A c \in loaded : Receives(c)

LEMMA QueueNotPushed ==
    ASSUME OpenInv, Program,
           Start \/ Close \/ Crash \/ CloseUnused
    PROVE  (~Doing("pushed"))'
<1> USE DEF OpenInv, Control, Indexes, Loading, LoadingOne, Forking, Program, Doing
<1>1. CASE Start
  BY <1>1 DEF Start, disk, index, queue, oper, counters, history
<1>2. CASE Close
  BY <1>2 DEF Close, Stop, Forget, Return, disk, index, queue, oper, counters, history
<1>3. CASE Crash
  BY <1>3 DEF Crash, Stop, Forget, Return, disk, index, queue, oper, counters, history
<1>4. CASE CloseUnused
  BY <1>4 DEF CloseUnused, Forget, disk, index, queue, oper, counters, history
<1> QED BY <1>1, <1>2, <1>3, <1>4

LEMMA OpeningNotPushed ==
    ASSUME OpenInv, Program,
           Open \/ LoadIndex \/ Loaded \/ Recover \/ Rewrite \/ Rewritten \/ Reinit \/ Opened
    PROVE  (~Doing("pushed"))'
<1> USE DEF OpenInv, Control, Indexes, Loading, LoadingOne, Forking, Program, Doing
<1>1. CASE Open
  BY <1>1 DEF Open, disk, index, queue, oper, counters, history
<1>2. CASE LoadIndex
  BY <1>2 DEF LoadIndex, ToLoad, Write, disk, index, queue, oper, counters, history
<1>3. CASE Loaded
  BY <1>3 DEF Loaded, disk, index, queue, oper, counters, history
<1>4. CASE Recover
  BY <1>4 DEF Recover, Write, disk, index, queue, oper, counters, history
<1>5. CASE Rewrite
  BY <1>5 DEF Rewrite, Write, disk, index, queue, oper, counters, history
<1>6. CASE Rewritten
  BY <1>6 DEF Rewritten, disk, index, queue, oper, counters, history
<1>7. CASE Reinit
  BY <1>7 DEF Reinit, Forget, disk, index, queue, oper, counters, history
<1>8. CASE Opened
  BY <1>8 DEF Opened, ToLoad, FetchedForks, disk, index, queue, oper, counters, history
<1> QED BY <1>1, <1>2, <1>3, <1>4, <1>5, <1>6, <1>7, <1>8

LEMMA RemovingNotPushed ==
    ASSUME OpenInv, Program,
           RmIndex \/ RmDat \/ RmMain \/ RmDir \/ RmDirFails
    PROVE  (~Doing("pushed"))'
<1> USE DEF OpenInv, Control, Indexes, Loading, LoadingOne, Forking, Program, Doing
<1>1. CASE RmIndex
  BY <1>1 DEF RmIndex, Named, RmIndexLog, disk, index, queue, oper, counters, history
<1>2. CASE RmDat
  BY <1>2 DEF RmDat, Named, disk, index, queue, oper, counters, history
<1>3. CASE RmMain
  BY <1>3 DEF RmMain, RmIndexLog, disk, index, queue, oper, counters, history
<1>4. CASE RmDir
  BY <1>4 DEF RmDir, Return, disk, index, queue, oper, counters, history
<1>5. CASE RmDirFails
  BY <1>5 DEF RmDirFails, OpenFails, Forget, Return, disk, index, queue, oper, counters, history
<1> QED BY <1>1, <1>2, <1>3, <1>4, <1>5

LEMMA JournalNotPushed ==
    ASSUME OpenInv, Program,
           FailWrite \/ Failed
    PROVE  (~Doing("pushed"))'
<1> USE DEF OpenInv, Control, Indexes, Loading, LoadingOne, Forking, Program, Doing
<1>1. CASE FailWrite
  <2>1. CASE then = "pushed" /\ EditMem(Head(todo)) /\ PushOver /\ UNCHANGED queue
    BY <1>1, <2>1 DEF FailWrite, EditMem, PushOver, queue, disk, counters
  <2>2. CASE then \in {"popped", "forked"} /\ EditMem(Head(todo)) /\ Return("idle") /\ UNCHANGED queue
    BY <1>1, <2>2 DEF FailWrite, EditMem, Return, queue, disk, counters
  <2>3. CASE then = "rewritten" /\ OpenFails
    BY <1>1, <2>3 DEF FailWrite, OpenFails, Forget, Return, queue, disk, counters
  <2>4. CASE /\ then \in {"deleted", "failed"} /\ EditMem(Head(todo))
             /\ todo' = Tail(todo) /\ then' = "failed"
             /\ UNCHANGED <<pc, after, cur, call, batch, wrote, rd, reading, queue>>
    BY <1>1, <2>4 DEF FailWrite, EditMem, queue, disk, counters
  <2> HIDE DEF OpenInv, Control, Indexes, Loading, LoadingOne, Forking, Program, Doing
  <2> QED BY <1>1, <2>1, <2>2, <2>3, <2>4 DEF FailWrite
<1>2. CASE Failed
  BY <1>2 DEF Failed, Return, disk, index, queue, oper, counters, history
<1> QED BY <1>1, <1>2

LEMMA PushNotPushed ==
    ASSUME OpenInv, Program,
           Push \/ TxPush \/ WriteItem \/ PushDone
    PROVE  (~Doing("pushed"))'
<1> USE DEF OpenInv, Control, Indexes, Loading, LoadingOne, Forking, Program, Doing
<1>1. CASE Push
  BY <1>1 DEF Push, Given, WhenOpen, disk, index, queue, oper, counters, history
<1>2. CASE TxPush
  BY <1>2 DEF TxPush, Given, disk, index, queue, oper, counters, history
<1>3. CASE WriteItem
  BY <1>3 DEF WriteItem, disk, index, queue, oper, counters, history
<1>4. CASE PushDone
  BY <1>4 DEF PushDone, PushOver, disk, index, queue, oper, counters, history
<1> QED BY <1>1, <1>2, <1>3, <1>4

LEMMA ReadNotPushed ==
    ASSUME OpenInv, Program,
           Read \/ ReadFirst \/ ReadNext \/ ReadServe \/ Pop \/ Popped \/ PeekOnly \/ CallbackErr \/ Reap
    PROVE  (~Doing("pushed"))'
<1> USE DEF OpenInv, Control, Indexes, Loading, LoadingOne, Forking, Program, Doing
<1>1. CASE Read
  BY <1>1 DEF Read, WhenOpen, NoCall, disk, index, queue, oper, counters, history
<1>2. CASE ReadFirst
  BY <1>2 DEF ReadFirst, disk, index, queue, oper, counters, history
<1>3. CASE ReadNext
  BY <1>3 DEF ReadNext, disk, index, queue, oper, counters, history
<1>4. CASE ReadServe
  BY <1>4 DEF ReadServe, disk, index, queue, oper, counters, history
<1>5. CASE Pop
  BY <1>5 DEF Pop, Write, disk, index, queue, oper, counters, history
<1>6. CASE Popped
  BY <1>6 DEF Popped, disk, index, queue, oper, counters, history
<1>7. CASE PeekOnly
  BY <1>7 DEF PeekOnly, disk, index, queue, oper, counters, history
<1>8. CASE CallbackErr
  BY <1>8 DEF CallbackErr, Return, disk, index, queue, oper, counters, history
<1>9. CASE Reap
  BY <1>9 DEF Reap, DropBucket, Forget, Return, disk, index, queue, oper, counters, history
<1> QED BY <1>1, <1>2, <1>3, <1>4, <1>5, <1>6, <1>7, <1>8, <1>9

LEMMA ForksNotPushed ==
    ASSUME OpenInv, Program,
           Delete \/ DeleteBegin \/ Deleted \/ Clear \/ ForkListed \/ Fork \/ Forked \/ RemoveFork
    PROVE  (~Doing("pushed"))'
<1> USE DEF OpenInv, Control, Indexes, Loading, LoadingOne, Forking, Program, Doing
<1>1. CASE Delete
  BY <1>1 DEF Delete, WhenOpen, NoCall, disk, index, queue, oper, counters, history
<1>2. CASE DeleteBegin
  BY <1>2 DEF DeleteBegin, Write, disk, index, queue, oper, counters, history
<1>3. CASE Deleted
  BY <1>3 DEF Deleted, disk, index, queue, oper, counters, history
<1>4. CASE Clear
  BY <1>4 DEF Clear, DropBucket, Forget, Return, disk, index, queue, oper, counters, history
<1>5. CASE ForkListed
  BY <1>5 DEF ForkListed, ForkMade, disk, index, queue, oper, counters, history
<1>6. CASE Fork
  BY <1>6 DEF Fork, Write, NoCall, disk, index, queue, oper, counters, history
<1>7. CASE Forked
  BY <1>7 DEF Forked, ForkMade, Return, disk, index, queue, oper, counters, history
<1>8. CASE RemoveFork
  BY <1>8 DEF RemoveFork, RmIndexLog, DropBucket, Forget, Return, disk, index, queue, oper, counters, history
<1> QED BY <1>1, <1>2, <1>3, <1>4, <1>5, <1>6, <1>7, <1>8

LEMMA PushPlaces ==
  ASSUME Base, Fit, PushIndex
  PROVE  Placed
<1>0. vlog \in Seq(Item) /\ batch \in Seq(Item) /\ wrote = Len(batch) /\ pc = "push" /\ wrote <= Len(vlog)
  BY BaseTypes DEF PushIndex, Base, TypeInv, Phase
<1>1. \A i \in 1 .. wrote : vlog[Len(vlog) - wrote + i] = batch[i]
  BY <1>0 DEF Fit, Written
<1>2. PICK n \in Nat, m \in Nat : n = Len(vlog) /\ m = Len(batch) /\ m <= n
  BY <1>0
<1> SUFFICES ASSUME NEW i \in DOMAIN batch PROVE InBatch(vlog, PushLoc, batch[i])
  BY DEF Placed
<1>3. i \in 1 .. m /\ DOMAIN vlog = 1 .. n
  BY <1>0, <1>2
<1>4. PushLoc.off = n - m /\ PushLoc.len = m
  BY <1>2 DEF PushLoc
<1>5. n - m + i \in LocSlots(PushLoc) /\ n - m + i \in DOMAIN vlog
  BY <1>2, <1>3, <1>4 DEF LocSlots
<1>6. vlog[n - m + i] = batch[i]
  BY <1>0, <1>1, <1>2, <1>3
<1> QED BY <1>5, <1>6 DEF InBatch

LEMMA ReceivedStep ==
  ASSUME Ground, Fit, Received, Next
  PROVE  Received'
<1>0. /\ Base /\ OpenInv /\ Program /\ Targets /\ InMemory /\ mem \in [Consumers -> Seq(Location)]
      /\ loaded \subseteq Consumers /\ todo \in Seq(Edit) /\ AllTidy /\ IndexT /\ vlog \in Seq(Item)
  BY BaseTypes DEF Ground, Base
<1>1. CASE PushIndex
  <2>1. Placed
    BY <1>0, <1>1, PushPlaces
  <2>2. UNCHANGED <<vlog, batch, loaded, mem>>
    BY <1>1 DEF PushIndex, disk
  <2>3. PICK q \in SetToSeqs(Receivers) : todo' = [i \in 1 .. Len(q) |-> EditOf(Both, q[i], PushLoc)]
    BY <1>1 DEF PushIndex, Write
  <2>4. ASSUME NEW c \in loaded PROVE \E j \in DOMAIN todo' : todo'[j].to = c /\ todo'[j].loc = PushLoc
    <3>1. PICK E : E = [i \in 1 .. Len(q) |-> EditOf(Both, q[i], PushLoc)]
      OBVIOUS
    <3>2. /\ DOMAIN E = 1 .. Len(q)
          /\ \A i \in 1 .. Len(q) : E[i].to = q[i] /\ E[i].loc = PushLoc
          /\ \A d \in loaded : \E i \in 1 .. Len(q) : q[i] = d
      BY <1>0, <3>1, PushEditsAt, SMTT(60)
    <3>3. PICK i \in 1 .. Len(q) : q[i] = c
      BY <3>2
    <3> QED BY <2>3, <3>1, <3>2, <3>3
  <2>5. PushLoc' = PushLoc /\ Placed'
    BY <2>1, <2>2 DEF PushLoc, Placed
  <2> QED BY <2>2, <2>4, <2>5 DEF Received, Receives
<1>2. CASE Journal
  <2> SUFFICES ASSUME Doing("pushed")' PROVE Placed' /\ \A c \in loaded' : Receives(c)'
    BY DEF Received
  <2>1. PICK e : e = Head(todo)
    OBVIOUS
  <2>2. /\ pc = "journal" /\ e = todo[1] /\ 1 \in DOMAIN todo /\ e.to \in Consumers /\ e.loc \in Location
        /\ todo # <<>>
    BY <1>0, <1>2, <2>1, EditAt
  <2>3. /\ EditMem(e) /\ UNCHANGED <<pc, then, vlog, batch>> /\ todo' = Tail(todo)
    BY <1>2, <2>1 DEF Journal
  <2>4. then = "pushed" /\ Doing("pushed")
    BY <2>2, <2>3 DEF Doing
  <2>5. e.to \in loaded /\ e.on = Both /\ e.loc.len > 0
    BY <1>0, <2>2, <2>4 DEF Targets
  <2>6. mem' = [mem EXCEPT ![e.to] = IndexApply(@, e.loc)] /\ loaded' = loaded
    BY <2>3, <2>5 DEF EditMem, Both
  <2>7. PushLoc' = PushLoc /\ Placed' /\ Placed
    BY <2>3, <2>4 DEF PushLoc, Placed, Received
  <2>8. PICK X \in Seq(Location) : X = mem[e.to] /\ IndexSorted(X)
    BY <1>0, <2>2 DEF AllTidy, Tidy
  <2>9. mem'[e.to] = IndexSet(X, e.loc)
    BY <1>0, <2>2, <2>5, <2>6, <2>8 DEF IndexApply
  <2>10. /\ ItemsAt(vlog, X) \subseteq ItemsAt(vlog, IndexSet(X, e.loc))
         /\ \A x : InBatch(vlog, e.loc, x) => x \in ItemsAt(vlog, IndexSet(X, e.loc))
    BY <2>2, <2>8, ItemsSet
  <2> SUFFICES ASSUME NEW c \in loaded PROVE Receives(c)'
    BY <2>6, <2>7
  <2>11. CASE ItemsOf(batch) \subseteq ItemsAt(vlog, mem[c])
    <3>1. CASE c = e.to
      BY <2>3, <2>8, <2>9, <2>10, <2>11, <3>1 DEF Receives
    <3>2. CASE c # e.to
      BY <1>0, <2>2, <2>3, <2>6, <2>11, <3>2 DEF Receives
    <3> QED BY <3>1, <3>2
  <2>12. CASE \E j \in DOMAIN todo : todo[j].to = c /\ todo[j].loc = PushLoc
    <3>1. PICK j \in DOMAIN todo : todo[j].to = c /\ todo[j].loc = PushLoc
      BY <2>12
    <3>2. CASE j = 1
      <4>1. \A x \in ItemsOf(batch) : InBatch(vlog, e.loc, x)
        BY <2>2, <2>7, <3>1, <3>2 DEF ItemsOf, Placed
      <4>2. ItemsOf(batch) \subseteq ItemsAt(vlog, mem'[c])
        BY <2>2, <2>9, <2>10, <3>1, <3>2, <4>1
      <4> QED BY <2>3, <4>2 DEF Receives
    <3>3. CASE j # 1
      <4>1. j - 1 \in DOMAIN Tail(todo) /\ Tail(todo)[j - 1] = todo[j]
        <5>1. /\ Tail(todo) \in Seq(Edit) /\ Len(Tail(todo)) = Len(todo) - 1 /\ Len(todo) \in Nat
              /\ \A k \in DOMAIN Tail(todo) : Tail(todo)[k] = todo[k + 1]
          BY <1>0, <2>2, TailAt
        <5>2. j - 1 \in DOMAIN Tail(todo) /\ (j - 1) + 1 = j
          BY <1>0, <3>3, <5>1
        <5> QED BY <5>1, <5>2
      <4> QED BY <2>3, <2>7, <3>1, <4>1 DEF Receives
    <3> QED BY <3>2, <3>3
  <2>13. Receives(c)
    BY <2>4 DEF Received
  <2> QED BY <2>11, <2>12, <2>13 DEF Receives
<1>3. CASE JournalEnd
  <2>1. /\ UNCHANGED <<vlog, mem, loaded, batch, todo, then>> /\ pc = "journal" /\ pc' = then
    BY <1>3 DEF JournalEnd, disk, index, oper
  <2>2. Doing("pushed")' => Doing("pushed")
    BY <1>0, <2>1 DEF Doing, OpenInv, Control
  <2>3. PushLoc' = PushLoc
    BY <2>1 DEF PushLoc
  <2> QED BY <2>1, <2>2, <2>3 DEF Received, Receives, Placed
<1>4. CASE (~Doing("pushed"))'
  BY <1>4 DEF Received
<1> QED BY <1>0, <1>1, <1>2, <1>3, <1>4, QueueNotPushed, OpeningNotPushed, RemovingNotPushed,
           JournalNotPushed, PushNotPushed, ReadNotPushed, ForksNotPushed
        DEF Next, Step, Environment

\* A fork of a closed bucket copies the index log.
LogCopies == Doing("forked") /\ OkForks /\ tree = "nil" => Copied(file[call.who])

LEMMA LogCopiesStep ==
  ASSUME Base, Owned, LogCopies, Next
  PROVE  LogCopies'
<1>0. /\ OpenInv /\ Program /\ OnDisk /\ Targets /\ file \in [Consumers -> Seq(Location)]
      /\ cur \in Consumers /\ call.who \in Consumers /\ todo \in Seq(Edit) /\ Main \notin Forks
      /\ exist \subseteq Consumers /\ Main \in Consumers /\ forks \subseteq Consumers
      /\ Forks \subseteq Consumers
  BY BaseTypes DEF Base, TypeInv, TypeOK
<1> SUFFICES ASSUME Doing("forked")', OkForks', (tree = "nil")' PROVE Copied(file[call.who])'
  BY DEF LogCopies
<1>1. OkForks
  BY ValuesStep DEF OkForks
<1>2. CASE Fork
  <2>1. /\ pc = "idle" /\ file' = file /\ tree' = tree
    BY <1>2 DEF Fork, queue
  <2>2. PICK src \in forks \cup {Main}, dst \in Forks \ forks :
           /\ call' = [NoCall EXCEPT !.who = src] /\ cur' = dst /\ dst \notin exist
           /\ todo' = EditsOf({"log"}, dst, file[src])
    BY <1>2, <2>1 DEF Fork, Write
  <2>3. file[dst] = <<>> /\ call'.who = src /\ src \in Consumers
    BY <1>0, <2>2 DEF OnDisk, NoCall
  <2>4. PICK f \in Seq(Location) : f = file[src]
    BY <1>0, <2>3
  <2>5. Copied(f)'
    BY <2>1, <2>2, <2>3, <2>4, CopyBegins
  <2>6. f = file'[call'.who]
    BY <2>1, <2>3, <2>4
  <2> QED BY <2>5, <2>6 DEF Copied
<1>3. CASE Journal
  <2>1. /\ UNCHANGED <<pc, then, cur, call, tree>> /\ pc = "journal" /\ todo # <<>>
        /\ file' = IF "log" \in Head(todo).on THEN [file EXCEPT ![Head(todo).to] = Append(@, Head(todo).loc)] ELSE file
    BY <1>3 DEF Journal, queue
  <2>2. then = "forked" /\ Copied(file[call.who])
    BY <1>1, <2>1 DEF Doing, LogCopies
  <2>3. Head(todo).to = cur /\ cur # call.who
    <3>1. Forking
      BY <2>1, <2>2 DEF Forking
    <3>2. Head(todo) = todo[1] /\ 1 \in DOMAIN todo
      BY <1>3, EditAt
    <3> QED BY <1>0, <2>1, <2>2, <3>1, <3>2 DEF Targets, Program, OpenInv, Indexes
  <2>4. file'[call'.who] = file[call.who]
    BY <1>0, <2>1, <2>3
  <2>5. PICK f \in Seq(Location) : f = file[call.who]
    BY <1>0
  <2>6. Copied(f)'
    BY <1>3, <2>2, <2>5, CopyStep
  <2> QED BY <2>4, <2>5, <2>6 DEF Copied
<1>4. CASE JournalEnd
  <2>1. UNCHANGED <<file, cur, call, todo, then, tree>> /\ pc = "journal" /\ pc' = then
    BY <1>4 DEF JournalEnd, disk, oper, queue
  <2>2. Doing("forked")
    BY <1>0, <2>1 DEF Doing, OpenInv, Control
  <2> QED BY <1>1, <2>1, <2>2 DEF LogCopies, Copied
<1>5. CASE Rewrite
  BY <1>5 DEF Rewrite, Write, Doing
<1>6. CASE Pop
  BY <1>6 DEF Pop, Write, Doing
<1> QED BY <1>0, <1>2, <1>3, <1>4, <1>5, <1>6, QueueNotCopying, OpeningNotCopying, RemovingNotCopying,
           JournalNotCopying, PushNotCopying, ReadNotCopying, ForksNotCopying, FailNotCopying
        DEF Next, Step, Environment

-----------------------------------------------------------------------------
(* Everything a consumer has still to get can be read.                     *)

\* Nothing happened that loses items at once, and no failed write has been
\* followed by a look at the logs.
Sure ==
    /\ known \cap {"popCut", "deleteShared", "clearCut", "failedFork"} = {}
    /\ fails = 0 \/ (stops = 0 /\ closes = 0)

Cared(c) == c = Main \/ (c \in made /\ OkForks)

\* In the middle of an operation that ends batches of an index.
Mid == pc = "journal" /\ then \in {"popped", "deleted", "failed"}

Removing == pc \in {"rmIdx", "rmMain", "rmDir"}

\* There is nothing to get.
Bare == \A c \in Consumers : Cared(c) => must[c] = {}

Vacant ==
    \/ tree # "open" /\ stops = 0 /\ closes = 0
    \/ tree = "absent" /\ pc # "down"
    \/ Removing

InMem(c) == must[c] \subseteq ItemsAt(vlog, mem[c])
InLog(c) == must[c] \subseteq ItemsAt(vlog, Replay(file[c]))

\* What is left when the operation is over, or cut short.
Rest(x) ==
    /\ Final(vlog, mem[call.who], todo, "mem", x)
    /\ then = "popped" /\ ~SharedFirst(rd.iters) => Safe(vlog, mem[call.who], todo, "mem", x)
    /\ then = "deleted" /\ fails = 0 => Safe(vlog, Replay(file[call.who]), todo, "log", x)

CoverVacant == Vacant => Bare
CoverMem == \A c \in loaded : Cared(c) /\ ~(Mid /\ c = call.who) => InMem(c)
CoverLog == fails = 0 => \A c \in Consumers \ loaded : Cared(c) => InLog(c)
CoverNew == (Doing("regenerated") \/ Doing("rewritten")) /\ Cared(cur) => must[cur] = {}
CoverMid == Mid /\ Cared(call.who) => \A x \in must[call.who] : Rest(x)

Cover == Sure => CoverVacant /\ CoverMem /\ CoverLog /\ CoverNew /\ CoverMid

LEMMA InitCover == Init => Cover
<1> SUFFICES ASSUME Init PROVE Cover
  OBVIOUS
<1>1. \A c \in Consumers : must[c] = {}
  BY DEF Init
<1>2. ~Mid /\ ~Doing("regenerated") /\ ~Doing("rewritten") /\ loaded = {}
  BY DEF Init, Mid, Doing
<1> QED BY <1>1, <1>2 DEF Cover, CoverVacant, CoverMem, CoverLog, CoverNew, CoverMid, Bare, InLog

LEMMA BareCovers ==
  ASSUME Base, Bare
  PROVE  Cover
<1>0. loaded \subseteq Consumers /\ cur \in Consumers /\ call.who \in Consumers
  BY BaseTypes
<1> QED BY <1>0 DEF Cover, CoverVacant, CoverMem, CoverLog, CoverNew, CoverMid, Bare, InMem, InLog

\* The bounds count upwards.
Counted ==
    /\ stops' = stops \/ stops' = stops + 1
    /\ closes' = closes \/ closes' = closes + 1
    /\ fails' = fails \/ fails' = fails + 1

LEMMA QueueCounted ==
    ASSUME stops \in Nat, closes \in Nat, fails \in Nat,
           Start \/ Close \/ Crash \/ CloseUnused
    PROVE  Counted
<1> USE DEF Counted
<1>1. CASE Start
  BY <1>1 DEF Start, disk, index, queue, oper, counters, history
<1>2. CASE Close
  BY <1>2 DEF Close, Stop, Forget, Return, disk, index, queue, oper, counters, history
<1>3. CASE Crash
  BY <1>3 DEF Crash, Stop, Forget, Return, disk, index, queue, oper, counters, history
<1>4. CASE CloseUnused
  BY <1>4 DEF CloseUnused, Forget, disk, index, queue, oper, counters, history
<1> QED BY <1>1, <1>2, <1>3, <1>4

LEMMA OpeningCounted ==
    ASSUME stops \in Nat, closes \in Nat, fails \in Nat,
           Open \/ LoadIndex \/ Loaded \/ Recover \/ Rewrite \/ Rewritten \/ Reinit \/ Opened
    PROVE  Counted
<1> USE DEF Counted
<1>1. CASE Open
  BY <1>1 DEF Open, disk, index, queue, oper, counters, history
<1>2. CASE LoadIndex
  BY <1>2 DEF LoadIndex, ToLoad, Write, disk, index, queue, oper, counters, history
<1>3. CASE Loaded
  BY <1>3 DEF Loaded, disk, index, queue, oper, counters, history
<1>4. CASE Recover
  BY <1>4 DEF Recover, Write, disk, index, queue, oper, counters, history
<1>5. CASE Rewrite
  BY <1>5 DEF Rewrite, Write, disk, index, queue, oper, counters, history
<1>6. CASE Rewritten
  BY <1>6 DEF Rewritten, disk, index, queue, oper, counters, history
<1>7. CASE Reinit
  BY <1>7 DEF Reinit, Forget, disk, index, queue, oper, counters, history
<1>8. CASE Opened
  BY <1>8 DEF Opened, ToLoad, FetchedForks, disk, index, queue, oper, counters, history
<1> QED BY <1>1, <1>2, <1>3, <1>4, <1>5, <1>6, <1>7, <1>8

LEMMA RemovingCounted ==
    ASSUME stops \in Nat, closes \in Nat, fails \in Nat,
           RmIndex \/ RmDat \/ RmMain \/ RmDir \/ RmDirFails
    PROVE  Counted
<1> USE DEF Counted
<1>1. CASE RmIndex
  BY <1>1 DEF RmIndex, Named, RmIndexLog, disk, index, queue, oper, counters, history
<1>2. CASE RmDat
  BY <1>2 DEF RmDat, Named, disk, index, queue, oper, counters, history
<1>3. CASE RmMain
  BY <1>3 DEF RmMain, RmIndexLog, disk, index, queue, oper, counters, history
<1>4. CASE RmDir
  BY <1>4 DEF RmDir, Return, disk, index, queue, oper, counters, history
<1>5. CASE RmDirFails
  BY <1>5 DEF RmDirFails, OpenFails, Forget, Return, disk, index, queue, oper, counters, history
<1> QED BY <1>1, <1>2, <1>3, <1>4, <1>5

LEMMA JournalCounted ==
    ASSUME stops \in Nat, closes \in Nat, fails \in Nat,
           Journal \/ JournalEnd \/ FailWrite \/ Failed
    PROVE  Counted
<1> USE DEF Counted
<1>1. CASE Journal
  BY <1>1 DEF Journal, EditMem, disk, index, queue, oper, counters, history
<1>2. CASE JournalEnd
  BY <1>2 DEF JournalEnd, disk, index, queue, oper, counters, history
<1>3. CASE FailWrite
  <2>1. CASE then = "pushed" /\ EditMem(Head(todo)) /\ PushOver /\ UNCHANGED queue
    BY <1>3, <2>1 DEF FailWrite, EditMem, PushOver, queue, disk, counters
  <2>2. CASE then \in {"popped", "forked"} /\ EditMem(Head(todo)) /\ Return("idle") /\ UNCHANGED queue
    BY <1>3, <2>2 DEF FailWrite, EditMem, Return, queue, disk, counters
  <2>3. CASE then = "rewritten" /\ OpenFails
    BY <1>3, <2>3 DEF FailWrite, OpenFails, Forget, Return, queue, disk, counters
  <2>4. CASE /\ then \in {"deleted", "failed"} /\ EditMem(Head(todo))
             /\ todo' = Tail(todo) /\ then' = "failed"
             /\ UNCHANGED <<pc, after, cur, call, batch, wrote, rd, reading, queue>>
    BY <1>3, <2>4 DEF FailWrite, EditMem, queue, disk, counters
  <2> HIDE DEF Counted
  <2> QED BY <1>3, <2>1, <2>2, <2>3, <2>4 DEF FailWrite
<1>4. CASE Failed
  BY <1>4 DEF Failed, Return, disk, index, queue, oper, counters, history
<1> QED BY <1>1, <1>2, <1>3, <1>4

LEMMA PushCounted ==
    ASSUME stops \in Nat, closes \in Nat, fails \in Nat,
           Push \/ TxPush \/ WriteItem \/ PushIndex \/ PushDone
    PROVE  Counted
<1> USE DEF Counted
<1>1. CASE Push
  BY <1>1 DEF Push, Given, WhenOpen, disk, index, queue, oper, counters, history
<1>2. CASE TxPush
  BY <1>2 DEF TxPush, Given, disk, index, queue, oper, counters, history
<1>3. CASE WriteItem
  BY <1>3 DEF WriteItem, disk, index, queue, oper, counters, history
<1>4. CASE PushIndex
  BY <1>4 DEF PushIndex, Write, disk, index, queue, oper, counters, history
<1>5. CASE PushDone
  BY <1>5 DEF PushDone, PushOver, disk, index, queue, oper, counters, history
<1> QED BY <1>1, <1>2, <1>3, <1>4, <1>5

LEMMA ReadCounted ==
    ASSUME stops \in Nat, closes \in Nat, fails \in Nat,
           Read \/ ReadFirst \/ ReadNext \/ ReadServe \/ Pop \/ Popped \/ PeekOnly \/ CallbackErr \/ Reap
    PROVE  Counted
<1> USE DEF Counted
<1>1. CASE Read
  BY <1>1 DEF Read, WhenOpen, NoCall, disk, index, queue, oper, counters, history
<1>2. CASE ReadFirst
  BY <1>2 DEF ReadFirst, disk, index, queue, oper, counters, history
<1>3. CASE ReadNext
  BY <1>3 DEF ReadNext, disk, index, queue, oper, counters, history
<1>4. CASE ReadServe
  BY <1>4 DEF ReadServe, disk, index, queue, oper, counters, history
<1>5. CASE Pop
  BY <1>5 DEF Pop, Write, disk, index, queue, oper, counters, history
<1>6. CASE Popped
  BY <1>6 DEF Popped, disk, index, queue, oper, counters, history
<1>7. CASE PeekOnly
  BY <1>7 DEF PeekOnly, disk, index, queue, oper, counters, history
<1>8. CASE CallbackErr
  BY <1>8 DEF CallbackErr, Return, disk, index, queue, oper, counters, history
<1>9. CASE Reap
  BY <1>9 DEF Reap, DropBucket, Forget, Return, disk, index, queue, oper, counters, history
<1> QED BY <1>1, <1>2, <1>3, <1>4, <1>5, <1>6, <1>7, <1>8, <1>9

LEMMA ForksCounted ==
    ASSUME stops \in Nat, closes \in Nat, fails \in Nat,
           Delete \/ DeleteBegin \/ Deleted \/ Clear \/ ForkListed \/ Fork \/ Forked \/ RemoveFork
    PROVE  Counted
<1> USE DEF Counted
<1>1. CASE Delete
  BY <1>1 DEF Delete, WhenOpen, NoCall, disk, index, queue, oper, counters, history
<1>2. CASE DeleteBegin
  BY <1>2 DEF DeleteBegin, Write, disk, index, queue, oper, counters, history
<1>3. CASE Deleted
  BY <1>3 DEF Deleted, disk, index, queue, oper, counters, history
<1>4. CASE Clear
  BY <1>4 DEF Clear, DropBucket, Forget, Return, disk, index, queue, oper, counters, history
<1>5. CASE ForkListed
  BY <1>5 DEF ForkListed, ForkMade, disk, index, queue, oper, counters, history
<1>6. CASE Fork
  BY <1>6 DEF Fork, Write, NoCall, disk, index, queue, oper, counters, history
<1>7. CASE Forked
  BY <1>7 DEF Forked, ForkMade, Return, disk, index, queue, oper, counters, history
<1>8. CASE RemoveFork
  BY <1>8 DEF RemoveFork, RmIndexLog, DropBucket, Forget, Return, disk, index, queue, oper, counters, history
<1> QED BY <1>1, <1>2, <1>3, <1>4, <1>5, <1>6, <1>7, <1>8

LEMMA SureBefore ==
  ASSUME Base, Next, Sure'
  PROVE  Sure /\ Counted
<1>1. Counted
  BY BaseTypes, QueueCounted, OpeningCounted, RemovingCounted, JournalCounted, PushCounted,
     ReadCounted, ForksCounted DEF Next, Step, Environment
<1>2. stops \in Nat /\ closes \in Nat /\ fails \in Nat
  BY BaseTypes
<1>3. known \subseteq known'
  BY ValuesStep
<1>4. known \cap {"popCut", "deleteShared", "clearCut", "failedFork"} = {}
  BY <1>3 DEF Sure
<1>5. fails = 0 \/ (stops = 0 /\ closes = 0)
  BY <1>1, <1>2 DEF Sure, Counted
<1> QED BY <1>1, <1>4, <1>5 DEF Sure

\* What there is to get grows with a Push and a fork only.
MustStep ==
    /\ \A c \in Consumers : must'[c] \subseteq must[c]
    /\ made' \subseteq made

LEMMA QueueMustStep ==
    ASSUME must \in [Consumers -> SUBSET Item], call.who \in Consumers, forks \subseteq Consumers, made \subseteq Forks,
           Start \/ Close \/ Crash \/ CloseUnused
    PROVE  MustStep
<1> USE DEF MustStep
<1>1. CASE Start
  BY <1>1 DEF Start, disk, index, queue, oper, counters, history
<1>2. CASE Close
  BY <1>2 DEF Close, Stop, Forget, Return, disk, index, queue, oper, counters, history
<1>3. CASE Crash
  BY <1>3 DEF Crash, Stop, Forget, Return, disk, index, queue, oper, counters, history
<1>4. CASE CloseUnused
  BY <1>4 DEF CloseUnused, Forget, disk, index, queue, oper, counters, history
<1> QED BY <1>1, <1>2, <1>3, <1>4

LEMMA OpeningMustStep ==
    ASSUME must \in [Consumers -> SUBSET Item], call.who \in Consumers, forks \subseteq Consumers, made \subseteq Forks,
           Open \/ LoadIndex \/ Loaded \/ Recover \/ Rewrite \/ Rewritten \/ Reinit \/ Opened
    PROVE  MustStep
<1> USE DEF MustStep
<1>1. CASE Open
  BY <1>1 DEF Open, disk, index, queue, oper, counters, history
<1>2. CASE LoadIndex
  BY <1>2 DEF LoadIndex, ToLoad, Write, disk, index, queue, oper, counters, history
<1>3. CASE Loaded
  BY <1>3 DEF Loaded, disk, index, queue, oper, counters, history
<1>4. CASE Recover
  BY <1>4 DEF Recover, Write, disk, index, queue, oper, counters, history
<1>5. CASE Rewrite
  BY <1>5 DEF Rewrite, Write, disk, index, queue, oper, counters, history
<1>6. CASE Rewritten
  BY <1>6 DEF Rewritten, disk, index, queue, oper, counters, history
<1>7. CASE Reinit
  BY <1>7 DEF Reinit, Forget, disk, index, queue, oper, counters, history
<1>8. CASE Opened
  BY <1>8 DEF Opened, ToLoad, FetchedForks, disk, index, queue, oper, counters, history
<1> QED BY <1>1, <1>2, <1>3, <1>4, <1>5, <1>6, <1>7, <1>8

LEMMA RemovingMustStep ==
    ASSUME must \in [Consumers -> SUBSET Item], call.who \in Consumers, forks \subseteq Consumers, made \subseteq Forks,
           RmIndex \/ RmDat \/ RmMain \/ RmDir \/ RmDirFails
    PROVE  MustStep
<1> USE DEF MustStep
<1>1. CASE RmIndex
  BY <1>1 DEF RmIndex, Named, RmIndexLog, disk, index, queue, oper, counters, history
<1>2. CASE RmDat
  BY <1>2 DEF RmDat, Named, disk, index, queue, oper, counters, history
<1>3. CASE RmMain
  BY <1>3 DEF RmMain, RmIndexLog, disk, index, queue, oper, counters, history
<1>4. CASE RmDir
  BY <1>4 DEF RmDir, Return, disk, index, queue, oper, counters, history
<1>5. CASE RmDirFails
  BY <1>5 DEF RmDirFails, OpenFails, Forget, Return, disk, index, queue, oper, counters, history
<1> QED BY <1>1, <1>2, <1>3, <1>4, <1>5

LEMMA JournalMustStep ==
    ASSUME must \in [Consumers -> SUBSET Item], call.who \in Consumers, forks \subseteq Consumers, made \subseteq Forks,
           Journal \/ JournalEnd \/ FailWrite \/ Failed
    PROVE  MustStep
<1> USE DEF MustStep
<1>1. CASE Journal
  BY <1>1 DEF Journal, EditMem, disk, index, queue, oper, counters, history
<1>2. CASE JournalEnd
  BY <1>2 DEF JournalEnd, disk, index, queue, oper, counters, history
<1>3. CASE FailWrite
  <2>1. CASE then = "pushed" /\ EditMem(Head(todo)) /\ PushOver /\ UNCHANGED queue
    BY <1>3, <2>1 DEF FailWrite, EditMem, PushOver, queue, disk, counters
  <2>2. CASE then \in {"popped", "forked"} /\ EditMem(Head(todo)) /\ Return("idle") /\ UNCHANGED queue
    BY <1>3, <2>2 DEF FailWrite, EditMem, Return, queue, disk, counters
  <2>3. CASE then = "rewritten" /\ OpenFails
    BY <1>3, <2>3 DEF FailWrite, OpenFails, Forget, Return, queue, disk, counters
  <2>4. CASE /\ then \in {"deleted", "failed"} /\ EditMem(Head(todo))
             /\ todo' = Tail(todo) /\ then' = "failed"
             /\ UNCHANGED <<pc, after, cur, call, batch, wrote, rd, reading, queue>>
    BY <1>3, <2>4 DEF FailWrite, EditMem, queue, disk, counters
  <2> HIDE DEF MustStep
  <2> QED BY <1>3, <2>1, <2>2, <2>3, <2>4 DEF FailWrite
<1>4. CASE Failed
  BY <1>4 DEF Failed, Return, disk, index, queue, oper, counters, history
<1> QED BY <1>1, <1>2, <1>3, <1>4

LEMMA PushMustStep ==
    ASSUME must \in [Consumers -> SUBSET Item], call.who \in Consumers, forks \subseteq Consumers, made \subseteq Forks,
           Push \/ TxPush \/ WriteItem \/ PushIndex
    PROVE  MustStep
<1> USE DEF MustStep
<1>1. CASE Push
  BY <1>1 DEF Push, Given, WhenOpen, disk, index, queue, oper, counters, history
<1>2. CASE TxPush
  BY <1>2 DEF TxPush, Given, disk, index, queue, oper, counters, history
<1>3. CASE WriteItem
  BY <1>3 DEF WriteItem, disk, index, queue, oper, counters, history
<1>4. CASE PushIndex
  BY <1>4 DEF PushIndex, Write, disk, index, queue, oper, counters, history
<1> QED BY <1>1, <1>2, <1>3, <1>4

LEMMA ReadMustStep ==
    ASSUME must \in [Consumers -> SUBSET Item], call.who \in Consumers, forks \subseteq Consumers, made \subseteq Forks,
           Read \/ ReadFirst \/ ReadNext \/ ReadServe \/ Pop \/ Popped \/ PeekOnly \/ CallbackErr \/ Reap
    PROVE  MustStep
<1> USE DEF MustStep
<1>1. CASE Read
  BY <1>1 DEF Read, WhenOpen, NoCall, disk, index, queue, oper, counters, history
<1>2. CASE ReadFirst
  BY <1>2 DEF ReadFirst, disk, index, queue, oper, counters, history
<1>3. CASE ReadNext
  BY <1>3 DEF ReadNext, disk, index, queue, oper, counters, history
<1>4. CASE ReadServe
  BY <1>4 DEF ReadServe, disk, index, queue, oper, counters, history
<1>5. CASE Pop
  BY <1>5 DEF Pop, Write, disk, index, queue, oper, counters, history
<1>6. CASE Popped
  BY <1>6 DEF Popped, disk, index, queue, oper, counters, history
<1>7. CASE PeekOnly
  BY <1>7 DEF PeekOnly, disk, index, queue, oper, counters, history
<1>8. CASE CallbackErr
  BY <1>8 DEF CallbackErr, Return, disk, index, queue, oper, counters, history
<1>9. CASE Reap
  BY <1>9 DEF Reap, DropBucket, Forget, Return, disk, index, queue, oper, counters, history
<1> QED BY <1>1, <1>2, <1>3, <1>4, <1>5, <1>6, <1>7, <1>8, <1>9

LEMMA ForksMustStep ==
    ASSUME must \in [Consumers -> SUBSET Item], call.who \in Consumers, forks \subseteq Consumers, made \subseteq Forks,
           Delete \/ DeleteBegin \/ Deleted \/ Clear \/ Fork \/ RemoveFork
    PROVE  MustStep
<1> USE DEF MustStep
<1>1. CASE Delete
  BY <1>1 DEF Delete, WhenOpen, NoCall, disk, index, queue, oper, counters, history
<1>2. CASE DeleteBegin
  BY <1>2 DEF DeleteBegin, Write, disk, index, queue, oper, counters, history
<1>3. CASE Deleted
  BY <1>3 DEF Deleted, disk, index, queue, oper, counters, history
<1>4. CASE Clear
  BY <1>4 DEF Clear, DropBucket, Forget, Return, disk, index, queue, oper, counters, history
<1>5. CASE Fork
  BY <1>5 DEF Fork, Write, NoCall, disk, index, queue, oper, counters, history
<1>6. CASE RemoveFork
  BY <1>6 DEF RemoveFork, RmIndexLog, DropBucket, Forget, Return, disk, index, queue, oper, counters, history
<1> QED BY <1>1, <1>2, <1>3, <1>4, <1>5, <1>6

LEMMA CaredBefore ==
  ASSUME Next, NEW c, Cared(c)', made' \subseteq made
  PROVE  Cared(c)
<1>1. known \subseteq known'
  BY ValuesStep
<1> QED BY <1>1 DEF Cared, OkForks

\* The source of a fork is cared for if the fork is.
LEMMA ForkOf ==
  ASSUME Ground, Next, NEW src \in forks \cup {Main}, NEW dst \in Forks, ForkMade(src, dst),
         pc # "down", NEW c \in Consumers, Cared(c)'
  PROVE  /\ c = dst => Cared(src) /\ must'[c] = must[src] /\ OkForks
         /\ c # dst => Cared(c) /\ must'[c] = must[c]
<1>0. must \in [Consumers -> SUBSET Item] /\ Forks \subseteq Consumers /\ Main \notin Forks
  BY BaseTypes DEF Ground, Base, TypeInv, TypeOK
<1>1. known \subseteq known' /\ (OkForks' => OkForks)
  BY ValuesStep DEF OkForks
<1>2. must' = [must EXCEPT ![dst] = must[src]] /\ made' = made \cup {dst}
  BY DEF ForkMade
<1>3. CASE c = dst
  <2>1. OkForks
    BY <1>0, <1>1, <1>3 DEF Cared
  <2>2. made = forks
    BY <2>1 DEF Ground, Owned
  <2> QED BY <1>0, <1>2, <1>3, <2>1, <2>2 DEF Cared
<1>4. CASE c # dst
  BY <1>0, <1>1, <1>2, <1>4 DEF Cared
<1> QED BY <1>3, <1>4

LEMMA BareStays ==
  ASSUME Ground, Bare, Next, ~PushDone
  PROVE  Bare'
<1>0. /\ must \in [Consumers -> SUBSET Item] /\ call.who \in Consumers /\ forks \subseteq Consumers
      /\ made \subseteq Forks /\ Base /\ Main \in Consumers /\ Program /\ OpenInv /\ cur \in Consumers
  BY BaseTypes DEF Ground, Base, TypeInv, TypeOK
<1> SUFFICES ASSUME NEW c \in Consumers, Cared(c)' PROVE must'[c] = {}
  BY DEF Bare
<1>1. CASE MustStep
  BY <1>1, CaredBefore DEF MustStep, Bare
<1>2. CASE ForkListed
  <2>1. pc = "idle"
    BY <1>2 DEF ForkListed
  <2>2. PICK src \in forks \cup {Main}, dst \in Forks \ forks : ForkMade(src, dst)
    BY <1>2 DEF ForkListed
  <2>3. src \in Consumers
    BY <1>0
  <2> QED BY <2>1, <2>2, <2>3, ForkOf DEF Bare
<1>3. CASE Forked
  <2>1. pc = "forked" /\ ForkMade(call.who, cur)
    BY <1>3 DEF Forked
  <2>2. call.who \in forks \cup {Main} /\ cur \in Forks
    BY <1>0, <2>1 DEF Program, Forking, OpenInv, Indexes
  <2> QED BY <1>0, <2>1, <2>2, ForkOf DEF Bare
<1> QED BY <1>0, <1>1, <1>2, <1>3, QueueMustStep, OpeningMustStep, RemovingMustStep, JournalMustStep,
           PushMustStep, ReadMustStep, ForksMustStep DEF Next, Step, Environment

\* Steps that leave items, indexes and logs as they are.
Calm ==
    /\ must' = must /\ made' = made /\ loaded' = loaded /\ file' = file /\ vlog' = vlog
    /\ fails' = fails
    /\ \A c \in loaded : mem'[c] = mem[c]
    /\ ~Mid /\ ~Mid'
    /\ Doing("regenerated")' \/ Doing("rewritten")' =>
          (Doing("regenerated") \/ Doing("rewritten")) /\ cur' = cur
    /\ Vacant' => Vacant

LEMMA OpeningCalm ==
    ASSUME OpenInv, Program, InMemory, mem \in [Consumers -> Seq(Location)], loaded \subseteq Consumers,
           Open \/ LoadIndex \/ Opened
    PROVE  Calm
<1> USE DEF OpenInv, Control, Indexes, ForksOpen, Program, InMemory, Loading, LoadingOne, Forking, Calm, Mid, Doing, Vacant, Removing
<1>1. CASE Open
  BY <1>1 DEF Open, disk, index, queue, oper, counters, history
<1>2. CASE LoadIndex
  BY <1>2 DEF LoadIndex, ToLoad, Write, disk, index, queue, oper, counters, history
<1>3. CASE Opened
  BY <1>3 DEF Opened, ToLoad, FetchedForks, disk, index, queue, oper, counters, history
<1> QED BY <1>1, <1>2, <1>3

LEMMA JournalCalm ==
    ASSUME OpenInv, Program, InMemory, mem \in [Consumers -> Seq(Location)], loaded \subseteq Consumers,
           Failed
    PROVE  Calm
<1> USE DEF OpenInv, Control, Indexes, ForksOpen, Program, InMemory, Loading, LoadingOne, Forking, Calm, Mid, Doing, Vacant, Removing
<1>1. CASE Failed
  BY <1>1 DEF Failed, Return, disk, index, queue, oper, counters, history
<1> QED BY <1>1

LEMMA PushCalm ==
    ASSUME OpenInv, Program, InMemory, mem \in [Consumers -> Seq(Location)], loaded \subseteq Consumers,
           Push \/ TxPush \/ PushIndex
    PROVE  Calm
<1> USE DEF OpenInv, Control, Indexes, ForksOpen, Program, InMemory, Loading, LoadingOne, Forking, Calm, Mid, Doing, Vacant, Removing
<1>1. CASE Push
  BY <1>1 DEF Push, Given, WhenOpen, disk, index, queue, oper, counters, history
<1>2. CASE TxPush
  BY <1>2 DEF TxPush, Given, disk, index, queue, oper, counters, history
<1>3. CASE PushIndex
  BY <1>3 DEF PushIndex, Write, disk, index, queue, oper, counters, history
<1> QED BY <1>1, <1>2, <1>3

LEMMA ReadCalm ==
    ASSUME OpenInv, Program, InMemory, mem \in [Consumers -> Seq(Location)], loaded \subseteq Consumers,
           Read \/ ReadFirst \/ ReadNext \/ ReadServe \/ Popped \/ PeekOnly \/ CallbackErr
    PROVE  Calm
<1> USE DEF OpenInv, Control, Indexes, ForksOpen, Program, InMemory, Loading, LoadingOne, Forking, Calm, Mid, Doing, Vacant, Removing
<1>1. CASE Read
  BY <1>1 DEF Read, WhenOpen, NoCall, disk, index, queue, oper, counters, history
<1>2. CASE ReadFirst
  BY <1>2 DEF ReadFirst, disk, index, queue, oper, counters, history
<1>3. CASE ReadNext
  BY <1>3 DEF ReadNext, disk, index, queue, oper, counters, history
<1>4. CASE ReadServe
  BY <1>4 DEF ReadServe, disk, index, queue, oper, counters, history
<1>5. CASE Popped
  BY <1>5 DEF Popped, disk, index, queue, oper, counters, history
<1>6. CASE PeekOnly
  BY <1>6 DEF PeekOnly, disk, index, queue, oper, counters, history
<1>7. CASE CallbackErr
  BY <1>7 DEF CallbackErr, Return, disk, index, queue, oper, counters, history
<1> QED BY <1>1, <1>2, <1>3, <1>4, <1>5, <1>6, <1>7

LEMMA ForksCalm ==
    ASSUME OpenInv, Program, InMemory, mem \in [Consumers -> Seq(Location)], loaded \subseteq Consumers,
           Delete \/ Deleted \/ Fork
    PROVE  Calm
<1> USE DEF OpenInv, Control, Indexes, ForksOpen, Program, InMemory, Loading, LoadingOne, Forking, Calm, Mid, Doing, Vacant, Removing
<1>1. CASE Delete
  BY <1>1 DEF Delete, WhenOpen, NoCall, disk, index, queue, oper, counters, history
<1>2. CASE Deleted
  BY <1>2 DEF Deleted, disk, index, queue, oper, counters, history
<1>3. CASE Fork
  BY <1>3 DEF Fork, Write, NoCall, disk, index, queue, oper, counters, history
<1> QED BY <1>1, <1>2, <1>3

LEMMA CalmCovers ==
  ASSUME Next, Sure, Cover, Calm
  PROVE  Cover'
<1>0. CoverVacant /\ CoverMem /\ CoverLog /\ CoverNew
  BY DEF Cover
<1>1. \A c : Cared(c)' => Cared(c)
  BY CaredBefore DEF Calm
<1>2. CoverVacant'
  BY <1>0, <1>1 DEF CoverVacant, Calm, Bare
<1>3. CoverMem'
  BY <1>0, <1>1 DEF CoverMem, Calm, InMem
<1>4. CoverLog'
  BY <1>0, <1>1 DEF CoverLog, Calm, InLog
<1>5. CoverNew'
  BY <1>0, <1>1 DEF CoverNew, Calm
<1>6. CoverMid'
  BY DEF CoverMid, Calm
<1> QED BY <1>2, <1>3, <1>4, <1>5, <1>6 DEF Cover

LEMMA Emptied ==
  ASSUME Ground, Sure, Cover, NEW S, forks \cup {Main} \subseteq loaded \cup S, \A c \in loaded \ S : IndexEmpty(mem[c]),
         ~Mid, pc # "down"
  PROVE  \A c \in Consumers \ S : Cared(c) => must[c] = {}
<1>0. mem \in [Consumers -> Seq(Location)] /\ AllTidy /\ loaded \subseteq Consumers
  BY BaseTypes DEF Ground, Base
<1> SUFFICES ASSUME NEW c \in Consumers \ S, Cared(c) PROVE must[c] = {}
  OBVIOUS
<1>1. c \in forks \cup {Main}
  BY DEF Cared, Ground, Owned
<1>2. c \in loaded
  BY <1>1
<1>3. InMem(c)
  BY <1>2 DEF Cover, CoverMem
<1>4. mem[c] = <<>>
  BY <1>0, <1>2, TidyEmpty DEF AllTidy
<1> QED BY <1>3, <1>4, NoItems DEF InMem

\* What a consumer has still to get is in its log, too.
LEMMA LogHas ==
  ASSUME Ground, Agree, Sure, Cover, fails = 0, NEW c \in loaded, Cared(c),
         ~(pc = "journal" /\ then = "popped" /\ SharedFirst(rd.iters))
  PROVE  InLog(c)
<1>0. Program /\ todo \in Seq(Edit)
  BY BaseTypes DEF Ground, Base
<1>1. Agrees(c)
  BY DEF Cared, Agree
<1>2. CASE ~(Mid /\ c = call.who)
  <2>1. InMem(c)
    BY <1>2 DEF Cover, CoverMem
  <2>2. Replay(file[c]) = mem[c]
    BY <1>1, <1>2 DEF Agrees, Deleting, Mid
  <2> QED BY <2>1, <2>2 DEF InMem, InLog
<1>3. CASE Mid /\ c = call.who
  <2> SUFFICES ASSUME NEW x \in must[c] PROVE x \in ItemsAt(vlog, Replay(file[c]))
    BY DEF InLog
  <2>1. Rest(x)
    BY <1>3 DEF Cover, CoverMid
  <2>2. then # "failed"
    BY <1>0 DEF Program
  <2>3. CASE then = "popped"
    <3>1. Safe(vlog, mem[c], todo, "mem", x)
      BY <1>3, <2>1, <2>3 DEF Rest, Mid
    <3>2. x \in ItemsAt(vlog, mem[c])
      BY <1>0, <3>1, SafeNow
    <3>3. Replay(file[c]) = mem[c]
      BY <1>1, <2>3 DEF Agrees, Deleting
    <3> QED BY <3>2, <3>3
  <2>4. CASE then = "deleted"
    <3>1. Safe(vlog, Replay(file[c]), todo, "log", x)
      BY <1>3, <2>1, <2>4 DEF Rest
    <3> QED BY <1>0, <3>1, SafeNow
  <2> QED BY <1>3, <2>2, <2>3, <2>4 DEF Mid
<1> QED BY <1>2, <1>3

\* The bucket is closed.
Shut ==
    /\ must' = must /\ made' = made /\ loaded' = {} /\ file' = file /\ vlog' = vlog
    /\ ~Mid' /\ ~Doing("regenerated")' /\ ~Doing("rewritten")' /\ ~Vacant'
    /\ fails' = fails /\ ~(stops' = 0 /\ closes' = 0)
    /\ pc = "journal" /\ then = "popped" /\ SharedFirst(rd.iters) => "popCut" \in known'

LEMMA ShutSteps ==
  ASSUME Base, Close \/ Crash \/ CloseUnused
  PROVE  Shut
<1>0. stops \in Nat /\ closes \in Nat
  BY BaseTypes
<1>1. CASE Close
  <2>1. /\ pc = "idle" /\ pc' = "down" /\ stops' = stops + 1
        /\ UNCHANGED <<must, made, file, vlog, fails>> /\ loaded' = {}
    BY <1>1 DEF Close, Stop, Forget, Return, disk
  <2> QED BY <1>0, <2>1 DEF Shut, Mid, Doing, Vacant, Removing
<1>2. CASE Crash
  <2>1. /\ pc' = "down" /\ stops' = stops + 1 /\ known' = known \cup Cut
        /\ UNCHANGED <<must, made, file, vlog, fails>> /\ loaded' = {}
    BY <1>2 DEF Crash, Stop, Forget, Return, disk
  <2>2. pc = "journal" /\ then = "popped" /\ SharedFirst(rd.iters) => "popCut" \in Cut
    BY DEF Cut
  <2> QED BY <1>0, <2>1, <2>2 DEF Shut, Mid, Doing, Vacant, Removing
<1>3. CASE CloseUnused
  <2>1. /\ pc = "idle" /\ pc' = "idle" /\ closes' = closes + 1 /\ tree' = "nil"
        /\ UNCHANGED <<must, made, file, vlog, fails>> /\ loaded' = {}
    BY <1>3 DEF CloseUnused, Forget, disk, history
  <2> QED BY <1>0, <2>1 DEF Shut, Mid, Doing, Vacant, Removing
<1> QED BY <1>1, <1>2, <1>3

LEMMA ShutCovers ==
  ASSUME Ground, Agree, Sure, Cover, Next, Sure', Shut
  PROVE  Cover'
<1>0. loaded \subseteq Consumers
  BY BaseTypes DEF Ground
<1>1. fails = 0 /\ ~(pc = "journal" /\ then = "popped" /\ SharedFirst(rd.iters))
  BY DEF Sure, Shut
<1>2. \A c : Cared(c)' => Cared(c)
  BY CaredBefore DEF Shut
<1>3. ASSUME NEW c \in Consumers, Cared(c)' PROVE InLog(c)'
  <2>1. InLog(c)
    <3>1. CASE c \in loaded
      BY <1>1, <1>2, <1>3, <3>1, LogHas
    <3>2. CASE c \notin loaded
      BY <1>1, <1>2, <1>3, <3>2 DEF Cover, CoverLog
    <3> QED BY <3>1, <3>2
  <2> QED BY <2>1 DEF InLog, Shut
<1> QED BY <1>3 DEF Shut, Cover, CoverVacant, CoverMem, CoverLog, CoverNew, CoverMid

\* The queue starts.
LEMMA StartCovers ==
  ASSUME Ground, Sure, Cover, ~Bare, Next, Sure', Start
  PROVE  Cover'
<1>0. OnDisk /\ OpenInv /\ loaded \subseteq Consumers /\ stops \in Nat /\ closes \in Nat
  BY BaseTypes DEF Ground, Base
<1>1. /\ pc = "down" /\ UNCHANGED <<must, made, file, vlog, loaded, mem, stops, closes, fails>>
      /\ tree' = IF dir THEN "nil" ELSE "absent"
      /\ pc' = IF dir THEN "open" ELSE "idle"
  BY DEF Start, disk, index, counters
<1>2. loaded = {} /\ tree # "open"
  BY <1>0, <1>1 DEF OpenInv, Control, Indexes, Loading
<1>3. fails = 0 /\ ~(stops = 0 /\ closes = 0)
  BY <1>2 DEF Sure, Cover, CoverVacant, Vacant
<1>4. dir
  <2> SUFFICES ASSUME ~dir PROVE FALSE
    OBVIOUS
  <2>1. vlog = <<>>
    BY <1>0 DEF OnDisk
  <2>2. \A c \in Consumers : Cared(c) => must[c] = {}
    BY <1>2, <1>3, <2>1, NoLog DEF Cover, CoverLog, InLog
  <2> QED BY <2>2 DEF Bare
<1>5. Calm
  <2>1. pc' = "open" /\ tree' = "nil"
    BY <1>1, <1>4
  <2>2. ~Vacant'
    BY <1>1, <1>3, <2>1 DEF Vacant, Removing
  <2> QED BY <1>1, <1>2, <2>1, <2>2 DEF Calm, Mid, Doing
<1> QED BY <1>5, CalmCovers

\* An index is opened: loaded from its log, or regenerated.
LEMMA OpeningCovers ==
  ASSUME Ground, Sure, Cover, ~Bare, Next, Sure',
         Loaded \/ Recover \/ Rewrite \/ Rewritten
  PROVE  Cover'
<1>0. /\ Base /\ InMemory /\ OpenInv /\ loaded \subseteq Consumers /\ cur \in Consumers /\ LoadProgress
      /\ file \in [Consumers -> Seq(Location)] /\ mem \in [Consumers -> Seq(Location)]
  BY BaseTypes DEF Ground, Base
<1>1. /\ pc \in {"loaded", "regenerated", "rewritten"}
      /\ pc' = "openNext" \/ (pc' = "journal" /\ then' \in {"regenerated", "rewritten"})
      /\ UNCHANGED <<must, made, vlog, mem, tree, stops, closes, fails, known>>
  BY DEF Loaded, Recover, Rewrite, Rewritten, Write, disk, index, queue, counters, history
<1>2. tree # "open" /\ cur \notin loaded
  BY <1>0, <1>1 DEF OpenInv, Control, Loading, InMemory, LoadingOne
<1>3. fails = 0 /\ ~Vacant
  BY <1>2 DEF Sure, Cover, CoverVacant, Vacant
<1>4. CoverVacant'
  BY <1>1, <1>3 DEF CoverVacant, Vacant, Removing
<1>5. CoverMid' /\ ~Mid /\ ~Mid'
  BY <1>1 DEF CoverMid, Mid
<1>6. \A c : Cared(c)' <=> Cared(c)
  BY <1>1 DEF Cared, OkForks
<1>7. \A c \in loaded : Cared(c) => InMem(c)'
  BY <1>1, <1>5 DEF Cover, CoverMem, InMem
<1>8. \A c \in Consumers \ loaded : Cared(c) => InLog(c)
  BY <1>3 DEF Cover, CoverLog
<1>9. PICK d \in Consumers : d = cur
  BY <1>0
<1>10. CASE Loaded
  <2>1. /\ pc = "loaded" /\ loaded' = loaded \cup {cur} /\ file' = file /\ pc' = "openNext"
    BY <1>10 DEF Loaded, disk
  <2>2. mem[cur] = Replay(file[cur])
    BY <1>0, <2>1, LoadedAll
  <2>3. Cared(d) => InMem(d)'
    BY <1>0, <1>1, <1>2, <1>8, <1>9, <2>2 DEF InMem, InLog
  <2>4. CoverMem'
    BY <1>5, <1>6, <1>7, <1>9, <2>1, <2>3 DEF CoverMem
  <2>5. CoverLog'
    BY <1>1, <1>6, <1>8, <2>1 DEF CoverLog, InLog
  <2>6. CoverNew'
    BY <2>1 DEF CoverNew, Doing
  <2> QED BY <1>4, <1>5, <2>4, <2>5, <2>6 DEF Cover
<1>11. CASE Recover
  <2>1. /\ pc = "loaded" /\ cur \notin seen /\ UNCHANGED <<loaded, file, cur>>
    BY <1>11 DEF Recover, disk, index
  <2>2. Replay(file[cur]) = <<>>
    BY <1>0, <2>1, LoadedAll
  <2>3. Cared(cur) => must[cur] = {}
    BY <1>0, <1>2, <1>8, <2>2, NoItems DEF InLog
  <2>4. CoverMem'
    BY <1>5, <1>6, <1>7, <2>1 DEF CoverMem
  <2>5. CoverLog'
    BY <1>1, <1>6, <1>8, <2>1 DEF CoverLog, InLog
  <2>6. CoverNew'
    BY <1>1, <1>6, <2>1, <2>3 DEF CoverNew
  <2> QED BY <1>4, <1>5, <2>4, <2>5, <2>6 DEF Cover
<1>12. CASE Rewrite
  <2>1. /\ pc = "regenerated" /\ UNCHANGED <<loaded, cur>> /\ file' = [file EXCEPT ![cur] = <<>>]
    BY <1>12 DEF Rewrite, index
  <2>2. Cared(cur) => must[cur] = {}
    BY <2>1 DEF Cover, CoverNew, Doing
  <2>3. CoverMem'
    BY <1>5, <1>6, <1>7, <2>1 DEF CoverMem
  <2>4. ASSUME NEW c \in Consumers \ loaded, Cared(c) PROVE InLog(c)'
    <3>1. CASE c = cur
      BY <1>1, <2>2, <2>4, <3>1 DEF InLog
    <3>2. CASE c # cur
      <4>1. file'[c] = file[c]
        BY <1>0, <2>1, <3>2
      <4> QED BY <1>1, <1>8, <2>4, <4>1 DEF InLog
    <3> QED BY <3>1, <3>2
  <2>5. CoverLog'
    BY <1>6, <2>1, <2>4 DEF CoverLog
  <2>6. CoverNew'
    BY <1>1, <1>6, <2>1, <2>2 DEF CoverNew
  <2> QED BY <1>4, <1>5, <2>3, <2>5, <2>6 DEF Cover
<1>13. CASE Rewritten
  <2>1. /\ pc = "rewritten" /\ loaded' = loaded \cup {cur} /\ file' = file /\ pc' = "openNext"
    BY <1>13 DEF Rewritten, disk
  <2>2. Cared(cur) => must[cur] = {}
    BY <2>1 DEF Cover, CoverNew, Doing
  <2>3. Cared(d) => InMem(d)'
    BY <1>1, <1>9, <2>2 DEF InMem
  <2>4. CoverMem'
    BY <1>5, <1>6, <1>7, <1>9, <2>1, <2>3 DEF CoverMem
  <2>5. CoverLog'
    BY <1>1, <1>6, <1>8, <2>1 DEF CoverLog, InLog
  <2>6. CoverNew'
    BY <2>1 DEF CoverNew, Doing
  <2> QED BY <1>4, <1>5, <2>4, <2>5, <2>6 DEF Cover
<1> QED BY <1>10, <1>11, <1>12, <1>13

\* A bucket is only removed when there is nothing to get.
LEMMA DropBare ==
  ASSUME Ground, Sure, Cover, Reinit \/ (Reap /\ AllEmpty(loaded)) \/ RmIndex \/ RmDat \/ RmMain
                              \/ RmDir \/ RmDirFails
  PROVE  Bare
<1>1. CASE RmIndex \/ RmDat \/ RmMain \/ RmDir \/ RmDirFails
  <2>1. Removing
    BY <1>1 DEF RmIndex, RmDat, RmMain, RmDir, RmDirFails, Removing
  <2> QED BY <2>1 DEF Cover, CoverVacant, Vacant
<1>2. CASE Reinit
  <2>1. pc = "openNext" /\ forks \cup {Main} \subseteq loaded /\ \A c \in loaded : IndexEmpty(mem[c])
    BY <1>2 DEF Reinit, ToLoad, AllEmpty
  <2>2. ~Mid /\ pc # "down"
    BY <2>1 DEF Mid
  <2>3. PICK S : S = {}
    OBVIOUS
  <2>4. forks \cup {Main} \subseteq loaded \cup S /\ \A c \in loaded \ S : IndexEmpty(mem[c])
    BY <2>1, <2>3
  <2>5. \A c \in Consumers \ S : Cared(c) => must[c] = {}
    BY <2>2, <2>4, Emptied
  <2> QED BY <2>3, <2>5 DEF Bare
<1>3. CASE Reap /\ AllEmpty(loaded)
  <2>1. pc = "reap" /\ \A c \in loaded : IndexEmpty(mem[c])
    BY <1>3 DEF Reap, AllEmpty
  <2>2. ~Mid /\ pc # "down"
    BY <2>1 DEF Mid
  <2>3. PICK S : S = {}
    OBVIOUS
  <2>4. loaded = forks \cup {Main}
    BY <2>1 DEF Ground, Base, Program, Working, OpenInv, Indexes, ForksOpen
  <2>5. forks \cup {Main} \subseteq loaded \cup S /\ \A c \in loaded \ S : IndexEmpty(mem[c])
    BY <2>1, <2>3, <2>4
  <2>6. \A c \in Consumers \ S : Cared(c) => must[c] = {}
    BY <2>2, <2>5, Emptied
  <2> QED BY <2>3, <2>6 DEF Bare
<1> QED BY <1>1, <1>2, <1>3

LEMMA ReapCovers ==
  ASSUME Next, Sure, Cover, Reap, ~AllEmpty(loaded)
  PROVE  Cover'
<1>1. /\ pc = "reap" /\ pc' = "idle" /\ UNCHANGED <<must, made, loaded, file, vlog, mem, tree, fails, stops, closes>>
  BY DEF Reap, Return, index, queue, disk, counters, history
<1>2. Calm
  BY <1>1 DEF Calm, Mid, Doing, Vacant, Removing
<1> QED BY <1>2, CalmCovers

\* The queue is cleared.
LEMMA ClearCovers ==
  ASSUME Clear
  PROVE  Bare'
BY DEF Clear, Bare

\* An edit in the middle of an operation on the index of its caller.
LEMMA RestStep ==
  ASSUME NEW L, NEW X, NEW E \in Seq(Edit), E # <<>>, NEW t, NEW x
  PROVE  /\ Final(L, X, E, t, x) => Final(L, Do(X, E[1], t), Tail(E), t, x)
         /\ Safe(L, X, E, t, x) => Safe(L, Do(X, E[1], t), Tail(E), t, x)
BY FinalStep, SafeStep

\* The caller has an index.
LEMMA CallerLoaded ==
  ASSUME Base, Mid \/ pc \in {"callback", "delete", "pushed", "push"} \/ (pc = "journal" /\ then = "pushed")
  PROVE  /\ tree = "open" /\ loaded = forks \cup {Main}
         /\ Mid \/ pc \in {"delete"} => call.who \in loaded
         /\ pc = "callback" => call.who \in loaded
<1>0. Program /\ OpenInv
  BY DEF Base
<1>1. tree = "open"
  BY <1>0 DEF Program, Working, Mid
<1>2. loaded = forks \cup {Main}
  BY <1>0, <1>1 DEF OpenInv, Indexes, ForksOpen
<1>3. Mid \/ pc \in {"delete", "callback"} => call.who \in forks \cup {Main}
  BY <1>0 DEF Program, Serving, Mid
<1> QED BY <1>1, <1>2, <1>3

LEMMA MidCovers ==
  ASSUME Ground, Sure, Cover, ~Bare, Next, Journal, Mid
  PROVE  Cover'
<1>0. /\ Base /\ Targets /\ loaded \subseteq Consumers /\ call.who \in Consumers /\ todo \in Seq(Edit)
      /\ file \in [Consumers -> Seq(Location)] /\ mem \in [Consumers -> Seq(Location)]
  BY BaseTypes DEF Ground, Base
<1>1. PICK e : e = Head(todo)
  OBVIOUS
<1>2. /\ pc = "journal" /\ e = todo[1] /\ 1 \in DOMAIN todo /\ e.to \in Consumers /\ e.loc \in Location
      /\ todo # <<>>
  BY <1>0, <1>1, EditAt
<1>3. /\ EditMem(e) /\ todo' = Tail(todo)
      /\ file' = IF "log" \in e.on THEN [file EXCEPT ![e.to] = Append(@, e.loc)] ELSE file
      /\ UNCHANGED <<pc, then, cur, call, rd, must, made, known, fails, stops, closes, tree, vlog>>
  BY <1>1 DEF Journal, queue, counters, history
<1>4. /\ mem' = IF "mem" \in e.on THEN [mem EXCEPT ![e.to] = IndexApply(@, e.loc)] ELSE mem
      /\ loaded' = loaded
  BY <1>3 DEF EditMem
<1>5. e.to = call.who /\ call.who \in loaded
  BY <1>0, <1>2, CallerLoaded DEF Targets, Mid
<1>6. PICK w \in Consumers, X \in Seq(Location), f \in Seq(Location) :
         w = call.who /\ X = mem[w] /\ f = file[w]
  BY <1>0
<1>7. mem'[w] = Do(X, e, "mem") /\ \A c \in Consumers : c # w => mem'[c] = mem[c]
  BY <1>0, <1>4, <1>5, <1>6 DEF Do
<1>8. Replay(file'[w]) = Do(Replay(f), e, "log") /\ \A c \in Consumers : c # w => file'[c] = file[c]
  <2>1. CASE "log" \in e.on
    <3>1. file'[w] = Append(f, e.loc) /\ \A c \in Consumers : c # w => file'[c] = file[c]
      BY <1>0, <1>3, <1>5, <1>6, <2>1
    <3>2. Replay(Append(f, e.loc)) = IndexApply(Replay(f), e.loc)
      BY <1>2, ReplaySteps
    <3> QED BY <2>1, <3>1, <3>2 DEF Do
  <2>2. CASE "log" \notin e.on
    BY <1>3, <1>6, <2>2 DEF Do
  <2> QED BY <2>1, <2>2
<1>9. \A c : Cared(c)' <=> Cared(c)
  BY <1>3 DEF Cared, OkForks
<1>10. CoverVacant'
  BY <1>3 DEF Cover, CoverVacant, Vacant, Removing
<1>11. CoverMem'
  <2> SUFFICES ASSUME NEW c \in loaded, Cared(c), c # call.who PROVE InMem(c)'
    BY <1>3, <1>4, <1>9 DEF CoverMem, Mid
  <2>1. InMem(c)
    BY DEF Cover, CoverMem
  <2> QED BY <1>0, <1>3, <1>6, <1>7, <2>1 DEF InMem
<1>12. CoverLog'
  <2> SUFFICES ASSUME fails = 0, NEW c \in Consumers \ loaded, Cared(c) PROVE InLog(c)'
    BY <1>3, <1>4, <1>9 DEF CoverLog
  <2>1. InLog(c)
    BY DEF Cover, CoverLog
  <2>2. c # w
    BY <1>5, <1>6
  <2> QED BY <1>3, <1>8, <2>1, <2>2 DEF InLog
<1>13. CoverNew'
  BY <1>2, <1>3 DEF CoverNew, Doing, Mid
<1>14. CoverMid'
  <2> SUFFICES ASSUME Cared(w), NEW x \in must[w] PROVE Rest(x)'
    BY <1>3, <1>6, <1>9 DEF CoverMid
  <2>1. Rest(x)
    BY <1>6 DEF Cover, CoverMid
  <2>2. PICK R : R = Replay(f)
    OBVIOUS
  <2>3. /\ Final(vlog, X, todo, "mem", x) => Final(vlog, Do(X, e, "mem"), Tail(todo), "mem", x)
        /\ Safe(vlog, X, todo, "mem", x) => Safe(vlog, Do(X, e, "mem"), Tail(todo), "mem", x)
    BY <1>0, <1>2, RestStep
  <2>4. Safe(vlog, R, todo, "log", x) => Safe(vlog, Do(R, e, "log"), Tail(todo), "log", x)
    BY <1>0, <1>2, RestStep
  <2>5. Final(vlog, mem'[w], todo', "mem", x)
    BY <1>3, <1>6, <1>7, <2>1, <2>3 DEF Rest
  <2>6. then = "popped" /\ ~SharedFirst(rd.iters) => Safe(vlog, mem'[w], todo', "mem", x)
    BY <1>3, <1>6, <1>7, <2>1, <2>3 DEF Rest
  <2>7. then = "deleted" /\ fails = 0 => Safe(vlog, Replay(file'[w]), todo', "log", x)
    BY <1>3, <1>6, <1>8, <2>1, <2>2, <2>4 DEF Rest
  <2>8. /\ vlog' = vlog /\ call'.who = w /\ then' = then /\ rd' = rd /\ fails' = fails
    BY <1>3, <1>6
  <2>9. SharedFirst(rd'.iters) = SharedFirst(rd.iters)
    BY <2>8
  <2> QED BY <2>5, <2>6, <2>7, <2>8, <2>9 DEF Rest
<1> QED BY <1>10, <1>11, <1>12, <1>13, <1>14 DEF Cover

\* An edit that adds a batch to an index.
LEMMA PushCovers ==
  ASSUME Ground, Sure, Cover, ~Bare, Next, Sure', Journal \/ FailWrite, then = "pushed"
  PROVE  Cover'
<1>0. /\ Base /\ Targets /\ loaded \subseteq Consumers /\ todo \in Seq(Edit) /\ AllTidy /\ fails \in Nat
      /\ file \in [Consumers -> Seq(Location)] /\ mem \in [Consumers -> Seq(Location)] /\ OpenInv
  BY BaseTypes DEF Ground, Base
<1>1. PICK e : e = Head(todo)
  OBVIOUS
<1>2. /\ pc = "journal" /\ e = todo[1] /\ 1 \in DOMAIN todo /\ e.to \in Consumers /\ e.loc \in Location
      /\ todo # <<>>
  BY <1>0, <1>1, EditAt
<1>3. e.to \in loaded /\ e.on = Both /\ e.loc.len > 0
  BY <1>0, <1>2 DEF Targets
<1>4. /\ EditMem(e) /\ UNCHANGED <<must, made, stops, closes, tree, vlog>>
      /\ \A c \in Consumers : c \notin loaded => file'[c] = file[c]
      /\ (pc' = "journal" /\ then' = "pushed") \/ pc' \in {"callback", "idle"}
      /\ fails' = fails \/ fails' = fails + 1
  <2>1. CASE Journal
    <3>1. /\ EditMem(e) /\ UNCHANGED <<must, made, stops, closes, tree, vlog, pc, then, fails>>
          /\ file' = [file EXCEPT ![e.to] = Append(@, e.loc)]
      BY <1>1, <1>3, <2>1 DEF Journal, queue, counters, history, Both
    <3> QED BY <1>0, <1>2, <1>3, <3>1
  <2>2. CASE FailWrite
    <3>1. EditMem(e) /\ PushOver /\ UNCHANGED <<queue, disk, stops, closes, must, made>> /\ fails' = fails + 1
      BY <1>1, <2>2 DEF FailWrite
    <3> QED BY <3>1 DEF PushOver, queue, disk
  <2> QED BY <2>1, <2>2
<1>5. mem' = [mem EXCEPT ![e.to] = IndexApply(@, e.loc)] /\ loaded' = loaded
  BY <1>3, <1>4 DEF EditMem, Both
<1>6. PICK w \in Consumers, X \in Seq(Location) : w = e.to /\ X = mem[w] /\ IndexSorted(X)
  BY <1>0, <1>2 DEF AllTidy, Tidy
<1>7. mem'[w] = IndexSet(X, e.loc) /\ \A c \in Consumers : c # w => mem'[c] = mem[c]
  BY <1>0, <1>3, <1>5, <1>6 DEF IndexApply
<1>8. ItemsAt(vlog, X) \subseteq ItemsAt(vlog, IndexSet(X, e.loc))
  BY <1>2, <1>6, ItemsSet
<1>9. \A c : Cared(c)' => Cared(c)
  BY <1>4, CaredBefore
<1>10. ~Mid /\ ~Mid' /\ ~Doing("regenerated")' /\ ~Doing("rewritten")' /\ ~Vacant'
  <2>1. tree = "open"
    BY <1>0, <1>2, CallerLoaded
  <2> QED BY <1>4, <2>1 DEF Mid, Doing, Vacant, Removing
<1>11. CoverMem'
  <2> SUFFICES ASSUME NEW c \in loaded, Cared(c) PROVE InMem(c)'
    BY <1>5, <1>9 DEF CoverMem
  <2>1. InMem(c)
    BY <1>10 DEF Cover, CoverMem
  <2>2. CASE c = w
    BY <1>4, <1>6, <1>7, <1>8, <2>1, <2>2 DEF InMem
  <2>3. CASE c # w
    BY <1>0, <1>4, <1>7, <2>1, <2>3 DEF InMem
  <2> QED BY <2>2, <2>3
<1>12. CoverLog'
  <2> SUFFICES ASSUME fails' = 0, NEW c \in Consumers \ loaded, Cared(c) PROVE InLog(c)'
    BY <1>5, <1>9 DEF CoverLog
  <2>1. fails = 0
    BY <1>0, <1>4
  <2>2. InLog(c)
    BY <2>1 DEF Cover, CoverLog
  <2> QED BY <1>4, <2>2 DEF InLog
<1> QED BY <1>10, <1>11, <1>12 DEF Cover, CoverVacant, CoverNew, CoverMid

\* An edit of an index that is loaded, regenerated, rewritten or copied.
LEMMA BuildCovers ==
  ASSUME Ground, Sure, Cover, ~Bare, Next, Journal, ~Mid, then # "pushed"
  PROVE  Cover'
<1>0. /\ Base /\ Targets /\ loaded \subseteq Consumers /\ todo \in Seq(Edit) /\ cur \in Consumers
      /\ file \in [Consumers -> Seq(Location)] /\ mem \in [Consumers -> Seq(Location)] /\ OpenInv
      /\ InMemory /\ Program /\ Main \notin Forks
  BY BaseTypes DEF Ground, Base
<1>1. PICK e : e = Head(todo)
  OBVIOUS
<1>2. /\ pc = "journal" /\ e = todo[1] /\ 1 \in DOMAIN todo /\ e.to \in Consumers /\ e.loc \in Location
      /\ todo # <<>>
  BY <1>0, <1>1, EditAt
<1>3. /\ EditMem(e) /\ todo' = Tail(todo)
      /\ file' = IF "log" \in e.on THEN [file EXCEPT ![e.to] = Append(@, e.loc)] ELSE file
      /\ UNCHANGED <<pc, then, cur, call, must, made, known, fails, stops, closes, tree, vlog>>
  BY <1>1 DEF Journal, queue, counters, history
<1>4. /\ mem' = IF "mem" \in e.on THEN [mem EXCEPT ![e.to] = IndexApply(@, e.loc)] ELSE mem
      /\ loaded' = loaded
  BY <1>3 DEF EditMem
<1>5. then \in {"loaded", "regenerated", "rewritten", "forked"}
  BY <1>0, <1>2 DEF Mid, OpenInv, Control
<1>6. e.to = cur /\ cur \notin loaded
  <2>1. e.to = cur
    BY <1>0, <1>2, <1>5 DEF Targets
  <2>2. CASE then = "forked"
    <3>1. Forking
      BY <1>2, <2>2 DEF Forking
    <3> QED BY <1>0, <2>1, <3>1 DEF Program, OpenInv, Indexes
  <2>3. CASE then # "forked"
    <3>1. LoadingOne
      BY <1>2, <1>5, <2>3 DEF LoadingOne, Loading
    <3> QED BY <1>0, <2>1, <3>1 DEF InMemory
  <2> QED BY <2>1, <2>2, <2>3
<1>7. \A c \in loaded : mem'[c] = mem[c] /\ file'[c] = file[c]
  BY <1>0, <1>3, <1>4, <1>6
<1>8. \A c \in Consumers : c # cur => file'[c] = file[c]
  BY <1>0, <1>3, <1>6
<1>9. CASE then \in {"loaded", "regenerated"}
  <2>1. file' = file
    BY <1>0, <1>2, <1>3, <1>9 DEF Targets
  <2>2. Calm
    BY <1>2, <1>3, <1>4, <1>7, <2>1 DEF Calm, Mid, Doing, Vacant, Removing
  <2> QED BY <2>2, CalmCovers
<1>10. CASE then \in {"rewritten", "forked"}
  <2>1. Cared(cur) => must[cur] = {}
    <3>1. CASE then = "rewritten"
      BY <1>2, <3>1 DEF Cover, CoverNew, Doing
    <3>2. CASE then = "forked"
      <4>1. Forking /\ pc # "down"
        BY <1>2, <3>2 DEF Forking
      <4>2. cur \notin forks /\ cur \in Forks
        BY <1>0, <4>1 DEF Program, OpenInv, Indexes
      <4>3. OkForks => made = forks
        BY <4>1 DEF Ground, Owned
      <4> QED BY <1>0, <4>2, <4>3 DEF Cared
    <3> QED BY <1>10, <3>1, <3>2
  <2>2. \A c : Cared(c)' <=> Cared(c)
    BY <1>3 DEF Cared, OkForks
  <2>3. CoverVacant'
    BY <1>3, <2>2 DEF Cover, CoverVacant, Vacant, Removing
  <2>4. CoverMem'
    BY <1>3, <1>4, <1>7, <2>2 DEF Cover, CoverMem, InMem, Mid
  <2>5. CoverLog'
    <3> SUFFICES ASSUME fails = 0, NEW c \in Consumers \ loaded, Cared(c) PROVE InLog(c)'
      BY <1>3, <1>4, <2>2 DEF CoverLog
    <3>1. CASE c = cur
      BY <1>3, <2>1, <3>1 DEF InLog
    <3>2. CASE c # cur
      <4>1. InLog(c)
        BY DEF Cover, CoverLog
      <4> QED BY <1>3, <1>8, <3>2, <4>1 DEF InLog
    <3> QED BY <3>1, <3>2
  <2>6. CoverNew'
    BY <1>3, <2>1, <2>2 DEF CoverNew
  <2>7. CoverMid'
    BY <1>3 DEF CoverMid, Mid
  <2> QED BY <2>3, <2>4, <2>5, <2>6, <2>7 DEF Cover
<1> QED BY <1>5, <1>9, <1>10

\* All edits are made.
LEMMA JournalEndCovers ==
  ASSUME Ground, Sure, Cover, ~Bare, Next, JournalEnd
  PROVE  Cover'
<1>0. loaded \subseteq Consumers /\ OpenInv /\ Base
  BY BaseTypes DEF Ground, Base
<1>1. /\ pc = "journal" /\ todo = <<>> /\ pc' = then
      /\ UNCHANGED <<must, made, loaded, mem, file, vlog, tree, then, cur, call, known, fails, stops, closes>>
  BY DEF JournalEnd, disk, index, queue, oper, counters, history
<1>2. ~Mid' /\ ~Vacant' /\ then \notin {"idle", "open"}
  BY <1>0, <1>1 DEF Mid, OpenInv, Control, Cover, CoverVacant, Vacant, Removing
<1>3. \A c : Cared(c)' <=> Cared(c)
  BY <1>1 DEF Cared, OkForks
<1>4. CoverMem'
  <2> SUFFICES ASSUME NEW c \in loaded, Cared(c) PROVE InMem(c)
    BY <1>1, <1>3 DEF CoverMem, InMem
  <2>1. CASE ~(Mid /\ c = call.who)
    BY <2>1 DEF Cover, CoverMem
  <2>2. CASE Mid /\ c = call.who
    <3> SUFFICES ASSUME NEW x \in must[c] PROVE x \in ItemsAt(vlog, mem[c])
      BY DEF InMem
    <3>1. Final(vlog, mem[c], todo, "mem", x)
      BY <2>2 DEF Cover, CoverMid, Rest
    <3> QED BY <1>1, <3>1, FinalEnd
  <2> QED BY <2>1, <2>2
<1>5. CoverLog'
  BY <1>1, <1>3 DEF Cover, CoverLog, InLog
<1>6. CoverNew'
  BY <1>1, <1>3 DEF Cover, CoverNew, Doing
<1> QED BY <1>2, <1>4, <1>5, <1>6 DEF Cover, CoverVacant, CoverMid

\* A write fails.
LEMMA FailCovers ==
  ASSUME Ground, Sure, Cover, ~Bare, Next, Sure', FailWrite, then # "pushed"
  PROVE  Cover'
<1>0. /\ Base /\ Targets /\ loaded \subseteq Consumers /\ call.who \in Consumers /\ todo \in Seq(Edit)
      /\ mem \in [Consumers -> Seq(Location)] /\ fails \in Nat /\ OpenInv
  BY BaseTypes DEF Ground, Base
<1>1. PICK e : e = Head(todo)
  OBVIOUS
<1>2. /\ pc = "journal" /\ e = todo[1] /\ 1 \in DOMAIN todo /\ e.to \in Consumers /\ e.loc \in Location
      /\ todo # <<>>
  BY <1>0, <1>1, EditAt
<1>3. /\ fails' = fails + 1 /\ UNCHANGED <<vlog, file, stops, closes, must, made>>
      /\ known' = known \cup Cut \cup {IF then = "forked" THEN "failedFork" ELSE "failedWrite"}
  BY DEF FailWrite, disk
<1>4. fails' # 0 /\ stops = 0 /\ closes = 0
  BY <1>0, <1>3 DEF Sure
<1>5. tree = "open"
  BY <1>4 DEF Cover, CoverVacant, Vacant
<1>6. then \notin {"forked", "rewritten"}
  <2>1. then # "forked"
    BY <1>3 DEF Sure
  <2>2. then # "rewritten"
    BY <1>0, <1>2, <1>5 DEF OpenInv, Control, Loading
  <2> QED BY <2>1, <2>2
<1>7. CoverLog'
  BY <1>4 DEF CoverLog
<1>8. \A c : Cared(c)' => Cared(c)
  BY <1>3, CaredBefore
<1>9. Mid /\ EditMem(e) /\ tree' = tree
  BY <1>1, <1>2, <1>6 DEF FailWrite, Mid, queue
<1>10. /\ mem' = IF "mem" \in e.on THEN [mem EXCEPT ![e.to] = IndexApply(@, e.loc)] ELSE mem
       /\ loaded' = loaded
  BY <1>9 DEF EditMem
<1>11. e.to = call.who /\ call.who \in loaded
  BY <1>0, <1>2, <1>9, CallerLoaded DEF Targets, Mid
<1>12. PICK w \in Consumers, X \in Seq(Location) : w = call.who /\ X = mem[w]
  BY <1>0
<1>13. mem'[w] = Do(X, e, "mem") /\ \A c \in Consumers : c # w => mem'[c] = mem[c]
  BY <1>0, <1>10, <1>11, <1>12 DEF Do
<1>14. \A c \in loaded : c # w /\ Cared(c)' => InMem(c)'
  <2> SUFFICES ASSUME NEW c \in loaded, c # w, Cared(c)' PROVE InMem(c)'
    OBVIOUS
  <2>1. InMem(c)
    BY <1>8, <1>12 DEF Cover, CoverMem
  <2> QED BY <1>0, <1>3, <1>13, <2>1 DEF InMem
<1>15. ASSUME Cared(w), NEW x \in must[w] PROVE Rest(x)
  BY <1>9, <1>12, <1>15 DEF Cover, CoverMid
<1>16. CASE then = "popped"
  <2>1. pc' = "idle"
    BY <1>16 DEF FailWrite, Return
  <2>2. ~SharedFirst(rd.iters)
    <3>1. "popCut" \notin Cut
      BY <1>3 DEF Sure
    <3> QED BY <1>2, <1>16, <3>1 DEF Cut
  <2>3. Cared(w)' => InMem(w)'
    <3> SUFFICES ASSUME Cared(w)', NEW x \in must[w] PROVE x \in ItemsAt(vlog, mem'[w])
      BY <1>3 DEF InMem
    <3>1. Safe(vlog, X, todo, "mem", x)
      BY <1>8, <1>12, <1>15, <1>16, <2>2 DEF Rest
    <3>2. Safe(vlog, Do(X, e, "mem"), Tail(todo), "mem", x)
      BY <1>0, <1>2, <3>1, SafeStep
    <3>3. Tail(todo) \in Seq(Edit)
      BY <1>0, <1>2, TailAt
    <3>4. x \in ItemsAt(vlog, Do(X, e, "mem"))
      BY <3>2, <3>3, SafeNow
    <3> QED BY <1>13, <3>4
  <2>4. CoverMem'
    BY <1>10, <1>14, <2>3 DEF CoverMem
  <2>5. ~Mid' /\ ~Vacant' /\ ~Doing("regenerated")' /\ ~Doing("rewritten")'
    BY <1>5, <1>9, <2>1 DEF Mid, Vacant, Removing, Doing
  <2> QED BY <1>7, <2>4, <2>5 DEF Cover, CoverVacant, CoverNew, CoverMid
<1>17. CASE then \in {"deleted", "failed"}
  <2>1. pc' = "journal" /\ then' = "failed" /\ todo' = Tail(todo) /\ call' = call
    BY <1>2, <1>17 DEF FailWrite
  <2>2. CoverMem'
    BY <1>10, <1>12, <1>14, <2>1 DEF CoverMem, Mid
  <2>3. CoverMid'
    <3> SUFFICES ASSUME Cared(w)', NEW x \in must[w] PROVE Rest(x)'
      BY <1>3, <1>12, <2>1 DEF CoverMid
    <3>1. Final(vlog, X, todo, "mem", x)
      BY <1>8, <1>12, <1>15 DEF Rest
    <3>2. Final(vlog, Do(X, e, "mem"), Tail(todo), "mem", x)
      BY <1>0, <1>2, <3>1, FinalStep
    <3>3. Final(vlog', mem'[call'.who], todo', "mem", x)
      BY <1>3, <1>12, <1>13, <2>1, <3>2
    <3> QED BY <2>1, <3>3 DEF Rest
  <2>4. ~Vacant' /\ ~Doing("regenerated")' /\ ~Doing("rewritten")'
    BY <1>5, <1>9, <2>1 DEF Vacant, Removing, Doing
  <2> QED BY <1>7, <2>2, <2>3, <2>4 DEF Cover, CoverVacant, CoverNew
<1> QED BY <1>9, <1>16, <1>17 DEF Mid

\* An item goes to the value log.
LEMMA WriteCovers ==
  ASSUME Ground, Sure, Cover, Next, WriteItem
  PROVE  Cover'
<1>0. /\ Base /\ loaded \subseteq Consumers /\ vlog \in Seq(Item)
  BY BaseTypes DEF Ground
<1>1. PICK z \in Item : vlog' = Append(vlog, z)
  BY <1>0, WriteIs
<1>2. /\ pc = "push" /\ pc' = "push" /\ UNCHANGED <<must, made, loaded, mem, file, tree, known, fails, stops, closes>>
  BY DEF WriteItem, index, queue, counters
<1>3. \A c : Cared(c)' <=> Cared(c)
  BY <1>2 DEF Cared, OkForks
<1>4. \A idx : ItemsAt(vlog, idx) \subseteq ItemsAt(vlog', idx)
  BY <1>0, <1>1, ItemsAppend
<1>5. ~Mid /\ ~Mid' /\ ~Doing("regenerated")' /\ ~Doing("rewritten")'
  BY <1>2 DEF Mid, Doing
<1>6. CoverVacant'
  BY <1>2, <1>3 DEF Cover, CoverVacant, Vacant, Removing, Bare
<1>7. CoverMem'
  <2> SUFFICES ASSUME NEW c \in loaded, Cared(c) PROVE InMem(c)'
    BY <1>2, <1>3 DEF CoverMem
  <2>1. InMem(c)
    BY <1>5 DEF Cover, CoverMem
  <2> QED BY <1>2, <1>4, <2>1 DEF InMem
<1>8. CoverLog'
  <2> SUFFICES ASSUME fails = 0, NEW c \in Consumers \ loaded, Cared(c) PROVE InLog(c)'
    BY <1>2, <1>3 DEF CoverLog
  <2>1. InLog(c)
    BY DEF Cover, CoverLog
  <2> QED BY <1>2, <1>4, <2>1 DEF InLog
<1> QED BY <1>5, <1>6, <1>7, <1>8 DEF Cover, CoverNew, CoverMid

\* A Push is over: every index has its items.
LEMMA PushDoneCovers ==
  ASSUME Ground, Received, Sure, Cover, Next, PushDone
  PROVE  Cover'
<1>0. /\ Base /\ loaded \subseteq Consumers /\ Program /\ must \in [Consumers -> SUBSET Item]
  BY BaseTypes DEF Ground, Base, TypeInv, TypeOK
<1>1. /\ pc = "pushed" /\ pc' \in {"callback", "idle"}
      /\ must' = [c \in Consumers |-> IF c \in loaded THEN must[c] \cup ItemsOf(batch) ELSE must[c]]
      /\ UNCHANGED <<made, loaded, mem, file, vlog, tree, known, fails, stops, closes>>
  BY DEF PushDone, PushOver, disk, index, queue, counters
<1>2. \A c : Cared(c)' <=> Cared(c)
  BY <1>1 DEF Cared, OkForks
<1>3. tree = "open"
  BY <1>0, <1>1, CallerLoaded
<1>4. ~Mid /\ ~Mid' /\ ~Doing("regenerated")' /\ ~Doing("rewritten")' /\ ~Vacant'
  BY <1>1, <1>3 DEF Mid, Doing, Vacant, Removing
<1>5. CoverMem'
  <2> SUFFICES ASSUME NEW c \in loaded, Cared(c) PROVE InMem(c)'
    BY <1>1, <1>2 DEF CoverMem
  <2>1. InMem(c)
    BY <1>4 DEF Cover, CoverMem
  <2>2. todo = <<>>
    BY <1>0, <1>1 DEF Program
  <2>3. Receives(c)
    BY <1>1 DEF Received, Doing
  <2>4. ItemsOf(batch) \subseteq ItemsAt(vlog, mem[c])
    BY <2>2, <2>3 DEF Receives
  <2> QED BY <1>0, <1>1, <2>1, <2>4 DEF InMem
<1>6. CoverLog'
  <2> SUFFICES ASSUME fails = 0, NEW c \in Consumers \ loaded, Cared(c) PROVE InLog(c)'
    BY <1>1, <1>2 DEF CoverLog
  <2>1. InLog(c)
    BY DEF Cover, CoverLog
  <2> QED BY <1>1, <2>1 DEF InLog
<1> QED BY <1>4, <1>5, <1>6 DEF Cover, CoverVacant, CoverNew, CoverMid

\* An operation that ends batches of its caller's index begins.
LEMMA BeginCovers ==
  ASSUME Ground, Sure, Cover, Next, Pop \/ DeleteBegin,
         Cared(call.who) => \A x \in must'[call.who] : Rest(x)'
  PROVE  Cover'
<1>0. /\ Base /\ loaded \subseteq Consumers /\ call.who \in Consumers /\ must \in [Consumers -> SUBSET Item]
  BY BaseTypes DEF Ground, Base, TypeInv, TypeOK
<1>1. /\ pc \in {"callback", "delete"} /\ pc' = "journal" /\ then' \in {"popped", "deleted"}
      /\ \A c \in Consumers : must'[c] \subseteq must[c]
      /\ UNCHANGED <<made, loaded, mem, file, vlog, tree, fails, stops, closes, call>>
  BY <1>0 DEF Pop, DeleteBegin, Write, disk, index, queue, counters
<1>2. \A c : Cared(c)' => Cared(c)
  BY <1>1, CaredBefore
<1>3. tree = "open" /\ call.who \in loaded
  BY <1>0, <1>1, CallerLoaded
<1>4. ~Mid /\ Mid' /\ ~Doing("regenerated")' /\ ~Doing("rewritten")' /\ ~Vacant'
  BY <1>1, <1>3 DEF Mid, Doing, Vacant, Removing
<1>5. CoverMem'
  <2> SUFFICES ASSUME NEW c \in loaded, Cared(c) PROVE InMem(c)'
    BY <1>1, <1>2 DEF CoverMem
  <2>1. InMem(c)
    BY <1>4 DEF Cover, CoverMem
  <2> QED BY <1>0, <1>1, <2>1 DEF InMem
<1>6. CoverLog'
  <2> SUFFICES ASSUME fails = 0, NEW c \in Consumers \ loaded, Cared(c) PROVE InLog(c)'
    BY <1>1, <1>2 DEF CoverLog
  <2>1. InLog(c)
    BY DEF Cover, CoverLog
  <2> QED BY <1>1, <2>1 DEF InLog
<1>7. CoverMid'
  BY <1>1, <1>2 DEF CoverMid
<1> QED BY <1>4, <1>5, <1>6, <1>7 DEF Cover, CoverVacant, CoverNew

LEMMA CaredOk ==
  ASSUME Sure, NEW c, Cared(c)
  PROVE  Ok(c)
BY DEF Sure, Cared, Ok

LEMMA PopCovers ==
  ASSUME Ground, Fit, ReadInv, Sure, Cover, Next, Pop
  PROVE  Cover'
<1>0. /\ Base /\ call.who \in Consumers /\ must \in [Consumers -> SUBSET Item] /\ rd.iters \in Seq(Iter)
      /\ mem \in [Consumers -> Seq(Location)] /\ AllTidy /\ ReadFits /\ rd.out \in Seq(Item)
  BY BaseTypes DEF Ground, Base, TypeInv, TypeOK, Fit
<1>1. /\ pc = "callback" /\ then' = "popped" /\ todo' = PopEdits(call.who, rd.iters)
      /\ must' = [must EXCEPT ![call.who] = @ \ ItemsOf(rd.out)]
      /\ UNCHANGED <<mem, vlog, rd, call>>
  BY DEF Pop, Write, disk, index
<1> SUFFICES ASSUME Cared(call.who), NEW x \in must'[call.who] PROVE Rest(x)'
  BY BeginCovers
<1>2. Ok(call.who) /\ InRead /\ ~Mid
  BY <1>1, CaredOk DEF InRead, Mid
<1>3. PICK g : Reads(vlog, mem[call.who], rd.iters, rd.out, g)
  BY <1>1, <1>2 DEF ReadInv, IsReading
<1>4. x \in must[call.who] /\ x \notin ItemsOf(rd.out)
  BY <1>0, <1>1
<1>5. x \in ItemsAt(vlog, mem[call.who])
  <2>1. call.who \in loaded
    BY <1>0, <1>1, CallerLoaded
  <2> QED BY <1>2, <1>4, <2>1 DEF Cover, CoverMem, InMem
<1>6. PICK M \in Seq(Location), h \in Seq(Iter), out \in Seq(Item) : M = mem[call.who] /\ h = rd.iters /\ out = rd.out /\ Tidy(M)
  BY <1>0 DEF AllTidy
<1>7. PICK E \in Seq(Edit) : E = PopEdits(call.who, h)
  BY <1>0, PopEditsType
<1>8. PopsOf(E, h)
  BY <1>0, <1>2, <1>6, <1>7, PopsOfEdits DEF ReadFits
<1>9. Final(vlog, M, E, "mem", x) /\ (~SharedFirst(h) => Safe(vlog, M, E, "mem", x))
  <2>1. Reads(vlog, M, h, out, g) /\ x \in ItemsAt(vlog, M) /\ x \notin ItemsOf(out)
    BY <1>3, <1>4, <1>5, <1>6
  <2> QED BY <1>6, <1>8, <2>1, PopKeeps
<1>10. /\ mem'[call'.who] = M /\ todo' = E /\ vlog' = vlog /\ rd'.iters = h /\ then' = "popped"
  BY <1>1, <1>6, <1>7
<1>11. SharedFirst(rd'.iters) = SharedFirst(h)
  BY <1>10
<1> QED BY <1>9, <1>10, <1>11 DEF Rest

LEMMA DeleteCovers ==
  ASSUME Ground, Fit, Agree, Sure, Cover, Next, Sure', DeleteBegin
  PROVE  Cover'
<1>0. /\ Base /\ call.who \in Consumers /\ must \in [Consumers -> SUBSET Item]
      /\ mem \in [Consumers -> Seq(Location)] /\ call.lo \in Nat /\ call.hi \in Nat /\ MemsFit
  BY BaseTypes DEF Ground, Base, TypeInv, TypeOK, Fit
<1>1. /\ pc = "delete" /\ then' = "deleted" /\ todo' = DeleteEdits(call.who, call.lo, call.hi)
      /\ must' = [must EXCEPT ![call.who] = @ \ {x \in must[call.who] : InRange(x)}]
      /\ known' = IF WrongBatch(mem[call.who]) THEN known \cup {"deleteShared"} ELSE known
      /\ UNCHANGED <<mem, vlog, file, fails, call>>
  BY DEF DeleteBegin, Write, disk, index, counters
<1> SUFFICES ASSUME Cared(call.who), NEW x \in must'[call.who] PROVE Rest(x)'
  BY BeginCovers
<1>2. Ok(call.who) /\ ~Mid /\ ~Deleting
  BY <1>1, CaredOk DEF Mid, Deleting
<1>3. PICK c \in Consumers, lo \in Nat, hi \in Nat : c = call.who /\ lo = call.lo /\ hi = call.hi
  BY <1>0
<1>4. tree = "open" /\ c \in loaded
  BY <1>0, <1>1, <1>3, CallerLoaded
<1>5. x \in must[c] /\ ~(lo <= x.key /\ x.key <= hi) /\ x \in Item
  BY <1>0, <1>1, <1>3 DEF InRange
<1>6. x \in ItemsAt(vlog, mem[c])
  BY <1>2, <1>3, <1>4, <1>5 DEF Cover, CoverMem, InMem
<1>7. AllFit(vlog, mem[c])
  BY <1>0, <1>2, <1>3, <1>4 DEF MemsFit, Stale
<1>8. ~WrongBatch(mem[c])
  BY <1>1, <1>3 DEF Sure
<1>9. OldestFirst(mem[c], lo, hi)
  BY <1>3, <1>8 DEF WrongBatch, OldestFirst
<1>10. /\ Final(vlog, mem[c], DeleteEdits(c, lo, hi), "mem", x)
       /\ Safe(vlog, mem[c], DeleteEdits(c, lo, hi), "log", x)
  BY <1>0, <1>5, <1>6, <1>7, <1>9, DeleteKeeps
<1>11. fails = 0 => Replay(file[c]) = mem[c]
  <2>1. fails = 0 => Agrees(c)
    BY <1>3, <1>4 DEF Agree, Cared
  <2> QED BY <1>2, <2>1 DEF Agrees
<1>12. /\ call'.who = c /\ mem' = mem /\ file' = file /\ vlog' = vlog /\ then' = "deleted"
       /\ fails' = fails /\ todo' = DeleteEdits(c, lo, hi)
  BY <1>1, <1>3
<1>13. Final(vlog', mem'[c], todo', "mem", x)
  BY <1>10, <1>12
<1>14. fails = 0 => Safe(vlog', Replay(file'[c]), todo', "log", x)
  BY <1>10, <1>11, <1>12
<1> QED BY <1>12, <1>13, <1>14 DEF Rest

\* A fork that is only listed has nothing to get.
LEMMA ForkListedCovers ==
  ASSUME Ground, Sure, Cover, ~Bare, Next, ForkListed
  PROVE  Cover'
<1>0. loaded \subseteq Consumers /\ Main \notin Forks
  BY BaseTypes DEF Ground
<1>1. pc = "idle" /\ UNCHANGED <<vlog, file, loaded, mem, tree, pc, cur, then, fails, stops, closes>>
  BY DEF ForkListed, disk, index, oper, counters
<1>2. tree # "absent" /\ ~Vacant
  BY <1>1 DEF Cover, CoverVacant, Vacant
<1>3. PICK src \in forks \cup {Main}, dst \in Forks \ forks : dst \in exist /\ ForkMade(src, dst)
  BY <1>2 DEF ForkListed
<1>4. ASSUME NEW c \in Consumers, Cared(c)' PROVE Cared(c) /\ must'[c] = must[c]
  <2>1. /\ c = dst => OkForks
        /\ c # dst => Cared(c) /\ must'[c] = must[c]
    BY <1>1, <1>3, <1>4, ForkOf
  <2>2. ~OkForks
    <3> SUFFICES ASSUME OkForks PROVE FALSE
      OBVIOUS
    <3>1. exist \subseteq forks \cup {Main}
      BY <1>1 DEF Ground, Owned, Forking
    <3> QED BY <1>0, <1>3, <3>1
  <2> QED BY <2>1, <2>2
<1>5. ~Mid /\ ~Mid' /\ ~Doing("regenerated")' /\ ~Doing("rewritten")' /\ ~Vacant'
  BY <1>1, <1>2 DEF Mid, Doing, Vacant, Removing
<1>6. CoverMem'
  <2> SUFFICES ASSUME NEW c \in loaded, Cared(c)' PROVE InMem(c)'
    BY <1>1 DEF CoverMem
  <2>1. Cared(c) /\ must'[c] = must[c]
    BY <1>0, <1>4
  <2> QED BY <1>1, <1>5, <2>1 DEF Cover, CoverMem, InMem
<1>7. CoverLog'
  <2> SUFFICES ASSUME fails = 0, NEW c \in Consumers \ loaded, Cared(c)' PROVE InLog(c)'
    BY <1>1 DEF CoverLog
  <2>1. Cared(c) /\ must'[c] = must[c]
    BY <1>4
  <2> QED BY <1>1, <2>1 DEF Cover, CoverLog, InLog
<1> QED BY <1>5, <1>6, <1>7 DEF Cover, CoverVacant, CoverNew, CoverMid

\* A fork gets what its source has.
LEMMA ForkedCovers ==
  ASSUME Ground, LogCopies, Sure, Cover, ~Bare, Next, Forked
  PROVE  Cover'
<1>0. /\ loaded \subseteq Consumers /\ Main \notin Forks /\ OpenInv /\ Program /\ call.who \in Consumers
      /\ mem \in [Consumers -> Seq(Location)] /\ file \in [Consumers -> Seq(Location)] /\ cur \in Consumers
  BY BaseTypes DEF Ground, Base
<1>1. /\ pc = "forked" /\ pc' = "idle" /\ ForkMade(call.who, cur)
      /\ UNCHANGED <<vlog, file, tree, fails, stops, closes>>
  BY DEF Forked, Return, disk, counters
<1>2. PICK s \in Consumers, d \in Consumers : s = call.who /\ d = cur
  BY <1>0
<1>3. /\ s \in forks \cup {Main} /\ d \in Forks /\ d \notin forks /\ tree # "absent" /\ todo = <<>>
      /\ d \notin loaded
  BY <1>0, <1>1, <1>2 DEF Program, Forking, OpenInv, Indexes
<1>4. ~Vacant
  BY DEF Cover, CoverVacant
<1>5. ~Mid /\ ~Mid' /\ ~Doing("regenerated")' /\ ~Doing("rewritten")' /\ ~Vacant'
  BY <1>1, <1>3, <1>4 DEF Mid, Doing, Vacant, Removing
<1>6. ASSUME NEW c \in Consumers, Cared(c)'
      PROVE  /\ c = d => Cared(s) /\ must'[c] = must[s] /\ OkForks
             /\ c # d => Cared(c) /\ must'[c] = must[c]
  BY <1>1, <1>2, <1>3, <1>6, ForkOf
<1>7. CASE tree = "open"
  <2>1. mem' = [mem EXCEPT ![d] = mem[s]] /\ loaded' = loaded \cup {d}
    BY <1>2, <1>7 DEF Forked
  <2>2. loaded = forks \cup {Main}
    BY <1>0, <1>7 DEF OpenInv, Indexes, ForksOpen
  <2>3. CoverMem'
    <3> SUFFICES ASSUME NEW c \in loaded', Cared(c)' PROVE InMem(c)'
      BY DEF CoverMem
    <3>1. CASE c = d
      <4>1. Cared(s) /\ must'[c] = must[s] /\ mem'[c] = mem[s] /\ s \in loaded
        BY <1>0, <1>2, <1>3, <1>6, <2>1, <2>2, <3>1
      <4>2. InMem(s)
        BY <1>5, <4>1 DEF Cover, CoverMem
      <4> QED BY <1>1, <4>1, <4>2 DEF InMem
    <3>2. CASE c # d
      <4>1. c \in loaded /\ c \in Consumers /\ mem'[c] = mem[c]
        BY <1>0, <2>1, <3>2
      <4>2. Cared(c) /\ must'[c] = must[c]
        BY <1>6, <3>2, <4>1
      <4>3. InMem(c)
        BY <1>5, <4>1, <4>2 DEF Cover, CoverMem
      <4> QED BY <1>1, <4>1, <4>2, <4>3 DEF InMem
    <3> QED BY <3>1, <3>2
  <2>4. CoverLog'
    <3> SUFFICES ASSUME fails = 0, NEW c \in Consumers \ loaded', Cared(c)' PROVE InLog(c)'
      BY <1>1 DEF CoverLog
    <3>1. c \notin loaded /\ c # d
      BY <2>1
    <3>2. Cared(c) /\ must'[c] = must[c]
      BY <1>6, <3>1
    <3> QED BY <1>1, <3>1, <3>2 DEF Cover, CoverLog, InLog
  <2> QED BY <1>5, <2>3, <2>4 DEF Cover, CoverVacant, CoverNew, CoverMid
<1>8. CASE tree # "open"
  <2>1. loaded = {} /\ loaded' = {} /\ tree = "nil"
    <3>1. ~Loading /\ loaded' = loaded /\ tree = "nil"
      BY <1>1, <1>8 DEF Loading, Forked
    <3> QED BY <1>0, <1>8, <3>1 DEF OpenInv, Indexes
  <2>2. CoverLog'
    <3> SUFFICES ASSUME fails = 0, NEW c \in Consumers, Cared(c)' PROVE InLog(c)'
      BY <1>1 DEF CoverLog
    <3>1. CASE c = d
      <4>1. Cared(s) /\ must'[c] = must[s] /\ OkForks
        BY <1>6, <3>1
      <4>2. PICK f \in Seq(Location) : f = file[s]
        BY <1>0
      <4>3. Copied(f)
        BY <1>1, <1>2, <2>1, <4>1, <4>2 DEF LogCopies, Doing
      <4>4. file[cur] = f
        BY <1>0, <1>3, <4>3, CopiedAll
      <4>5. InLog(s)
        BY <2>1, <4>1 DEF Cover, CoverLog
      <4> QED BY <1>1, <1>2, <3>1, <4>1, <4>2, <4>4, <4>5 DEF InLog
    <3>2. CASE c # d
      <4>1. Cared(c) /\ must'[c] = must[c]
        BY <1>6, <3>2
      <4> QED BY <1>1, <2>1, <4>1 DEF Cover, CoverLog, InLog
    <3> QED BY <3>1, <3>2
  <2>3. CoverMem'
    BY <2>1 DEF CoverMem
  <2> QED BY <1>5, <2>2, <2>3 DEF Cover, CoverVacant, CoverNew, CoverMid
<1> QED BY <1>7, <1>8

\* A fork goes, and with it the bucket if the others have drained it.
LEMMA RemoveForkCovers ==
  ASSUME Ground, Sure, Cover, ~Bare, Next, RemoveFork
  PROVE  Cover' \/ Bare'
<1>0. /\ loaded \subseteq Consumers /\ Main \notin Forks /\ OpenInv /\ forks \subseteq Forks
      /\ mem \in [Consumers -> Seq(Location)] /\ file \in [Consumers -> Seq(Location)]
      /\ must \in [Consumers -> SUBSET Item] /\ made \subseteq Forks
  BY BaseTypes DEF Ground, Base, TypeInv, TypeOK
<1>1. pc = "idle" /\ UNCHANGED <<vlog, fails, stops, closes, known>>
  BY DEF RemoveFork, counters
<1>2. ~Vacant /\ tree # "absent" /\ ~Mid
  BY <1>1 DEF Cover, CoverVacant, Vacant, Mid
<1>3. PICK f \in forks :
        /\ made' = made \ {f} /\ must' = [must EXCEPT ![f] = {}] /\ file' = [file EXCEPT ![f] = <<>>]
        /\ \/ tree = "open" /\ AllEmpty(loaded \ {f})
           \/ /\ tree = "open" /\ loaded' = loaded \ {f} /\ mem' = [mem EXCEPT ![f] = <<>>]
              /\ UNCHANGED <<tree, pc, then>>
           \/ tree = "nil" /\ UNCHANGED <<loaded, mem, tree, pc, then>>
  BY <1>2 DEF RemoveFork, RmIndexLog, index, oper
<1>4. \A c \in Consumers : Cared(c)' => Cared(c) /\ c # f /\ must'[c] = must[c] /\ file'[c] = file[c]
  BY <1>0, <1>1, <1>3 DEF Cared, OkForks
<1>5. CASE tree = "open" /\ AllEmpty(loaded \ {f})
  <2>1. PICK S : S = {f}
    OBVIOUS
  <2>2. loaded = forks \cup {Main}
    BY <1>0, <1>5 DEF OpenInv, Indexes, ForksOpen
  <2>3. forks \cup {Main} \subseteq loaded \cup S /\ (\A c \in loaded \ S : IndexEmpty(mem[c])) /\ pc # "down"
    BY <1>1, <1>5, <2>1, <2>2 DEF AllEmpty
  <2>4. \A c \in Consumers \ S : Cared(c) => must[c] = {}
    BY <1>2, <2>3, Emptied
  <2>5. Bare'
    BY <1>4, <2>1, <2>4 DEF Bare
  <2> QED BY <2>5
<1>6. CASE \/ /\ tree = "open" /\ loaded' = loaded \ {f} /\ mem' = [mem EXCEPT ![f] = <<>>]
              /\ UNCHANGED <<tree, pc, then>>
           \/ tree = "nil" /\ UNCHANGED <<loaded, mem, tree, pc, then>>
  <2>1. /\ loaded' \subseteq loaded /\ loaded \ {f} \subseteq loaded' /\ UNCHANGED <<tree, pc, then>>
        /\ \A c \in Consumers : c # f => mem'[c] = mem[c]
    BY <1>0, <1>6
  <2>2. ~Mid' /\ ~Doing("regenerated")' /\ ~Doing("rewritten")' /\ ~Vacant'
    BY <1>1, <1>2, <2>1 DEF Mid, Doing, Vacant, Removing
  <2>3. CoverMem'
    <3> SUFFICES ASSUME NEW c \in loaded', Cared(c)' PROVE InMem(c)'
      BY DEF CoverMem
    <3>1. c \in loaded /\ c \in Consumers
      BY <1>0, <2>1
    <3>2. Cared(c) /\ must'[c] = must[c] /\ mem'[c] = mem[c]
      BY <1>4, <2>1, <3>1
    <3> QED BY <1>1, <1>2, <3>1, <3>2 DEF Cover, CoverMem, InMem
  <2>4. CoverLog'
    <3> SUFFICES ASSUME fails = 0, NEW c \in Consumers \ loaded', Cared(c)' PROVE InLog(c)'
      BY <1>1 DEF CoverLog
    <3>1. Cared(c) /\ must'[c] = must[c] /\ file'[c] = file[c] /\ c \notin loaded
      BY <1>4, <2>1
    <3> QED BY <1>1, <3>1 DEF Cover, CoverLog, InLog
  <2>5. Cover'
    BY <2>2, <2>3, <2>4 DEF Cover, CoverVacant, CoverNew, CoverMid
  <2> QED BY <2>5
<1> QED BY <1>3, <1>5, <1>6

LEMMA BareCoversNext ==
  ASSUME Base', Bare'
  PROVE  Cover'
<1>0. loaded' \subseteq Consumers /\ cur' \in Consumers /\ call'.who \in Consumers
  BY DEF Base, TypeInv, TypeOK
<1> QED BY <1>0 DEF Cover, CoverVacant, CoverMem, CoverLog, CoverNew, CoverMid, Bare, InMem, InLog

LEMMA CoverStep ==
  ASSUME Ground, Fit, Agree, ReadInv, Received, LogCopies, Cover, Next
  PROVE  Cover'
<1> SUFFICES ASSUME Sure' PROVE Cover'
  BY DEF Cover
<1>0. /\ Base /\ OpenInv /\ Program /\ InMemory /\ mem \in [Consumers -> Seq(Location)]
      /\ loaded \subseteq Consumers
  BY BaseTypes DEF Ground, Base
<1>1. Sure
  BY <1>0, SureBefore
<1>2. Base'
  BY <1>0, BaseStep
<1>3. CASE PushDone
  BY <1>1, <1>3, PushDoneCovers
<1>4. CASE Bare /\ ~PushDone
  <2>1. Bare'
    BY <1>4, BareStays
  <2> QED BY <1>2, <2>1, BareCoversNext
<1>5. CASE ~Bare
  <2>1. CASE Start
    BY <1>1, <1>5, <2>1, StartCovers
  <2>2. CASE Close \/ Crash \/ CloseUnused
    <3>1. Shut
      BY <1>0, <2>2, ShutSteps
    <3> QED BY <1>1, <3>1, ShutCovers
  <2>3. CASE Loaded \/ Recover \/ Rewrite \/ Rewritten
    BY <1>1, <1>5, <2>3, OpeningCovers
  <2>4. CASE Reinit \/ (Reap /\ AllEmpty(loaded)) \/ RmIndex \/ RmDat \/ RmMain \/ RmDir \/ RmDirFails
    BY <1>1, <1>5, <2>4, DropBare
  <2>5. CASE Reap /\ ~AllEmpty(loaded)
    BY <1>1, <2>5, ReapCovers
  <2>6. CASE Journal
    BY <1>1, <1>5, <2>6, MidCovers, PushCovers, BuildCovers
  <2>7. CASE JournalEnd
    BY <1>1, <1>5, <2>7, JournalEndCovers
  <2>8. CASE FailWrite
    BY <1>1, <1>5, <2>8, PushCovers, FailCovers
  <2>9. CASE WriteItem
    BY <1>1, <2>9, WriteCovers
  <2>10. CASE Pop
    BY <1>1, <2>10, PopCovers
  <2>11. CASE DeleteBegin
    BY <1>1, <2>11, DeleteCovers
  <2>12. CASE Clear
    BY <1>2, <2>12, ClearCovers, BareCoversNext
  <2>13. CASE ForkListed
    BY <1>1, <1>5, <2>13, ForkListedCovers
  <2>14. CASE Forked
    BY <1>1, <1>5, <2>14, ForkedCovers
  <2>15. CASE RemoveFork
    BY <1>1, <1>2, <1>5, <2>15, RemoveForkCovers, BareCoversNext
  <2>16. CASE Calm
    BY <1>1, <2>16, CalmCovers
  <2> QED BY <1>0, <1>3, <2>1, <2>2, <2>3, <2>4, <2>5, <2>6, <2>7, <2>8, <2>9, <2>10, <2>11,
             <2>12, <2>13, <2>14, <2>15, <2>16, OpeningCalm, JournalCalm, PushCalm, ReadCalm,
             ForksCalm DEF Next, Step, Environment
<1> QED BY <1>3, <1>4, <1>5

\* All that the proof of NoLoss rests on.
Whole ==
    /\ Ground /\ Fit /\ Copies /\ PopsBoth /\ Agree
    /\ ReadInv /\ Received /\ LogCopies /\ Failing /\ Cover

LEMMA InitWhole == Init => Whole
<1> SUFFICES ASSUME Init PROVE Whole
  OBVIOUS
<1>1. Ground /\ Fit /\ Copies /\ PopsBoth /\ Agree /\ ReadInv /\ Cover
  BY InitBase, InitOwned, InitProgress, InitFit, InitCopies, InitAgree, InitReadInv, InitCover DEF Ground
<1>2. Received /\ LogCopies /\ Failing
  BY DEF Init, Received, LogCopies, Failing, Doing
<1> QED BY <1>1, <1>2 DEF Whole

LEMMA ReadStays ==
  ASSUME ReadInv, Received, LogCopies, Failing, UNCHANGED vars
  PROVE  ReadInv' /\ Received' /\ LogCopies' /\ Failing'
<1> USE DEF vars, disk, index, queue, oper, counters, history
<1>1. ReadInv'
  BY DEF ReadInv, InRead, Pushing, Ok, OkForks, IsMerging, IsReading
<1>2. Received'
  BY DEF Received, Doing, Placed, Receives, PushLoc
<1>3. LogCopies'
  BY ZenonT(40) DEF LogCopies, Doing, OkForks, Copied
<1>4. Failing'
  BY DEF Failing
<1> QED BY <1>1, <1>2, <1>3, <1>4

LEMMA CoverStays ==
  ASSUME Cover, UNCHANGED vars
  PROVE  Cover'
<1> USE DEF vars, disk, index, queue, oper, counters, history
<1>1. (Sure' <=> Sure) /\ (Mid' <=> Mid) /\ (Vacant' <=> Vacant) /\ \A c : Cared(c)' <=> Cared(c)
  BY DEF Sure, Mid, Vacant, Removing, Cared, OkForks
<1>2. \A c : (InMem(c)' <=> InMem(c)) /\ (InLog(c)' <=> InLog(c))
  BY DEF InMem, InLog
<1>3. \A x : Rest(x)' <=> Rest(x)
  BY DEF Rest, SharedFirst
<1> QED BY <1>1, <1>2, <1>3 DEF Cover, CoverVacant, CoverMem, CoverLog, CoverNew, CoverMid, Bare, Doing

LEMMA WholeStep == Whole /\ [Next]_vars => Whole'
<1> SUFFICES ASSUME Whole, [Next]_vars PROVE Whole'
  OBVIOUS
<1>0. /\ Ground /\ Fit /\ Copies /\ PopsBoth /\ Agree /\ ReadInv /\ Received /\ LogCopies /\ Failing
      /\ Cover /\ Base /\ Owned
  BY DEF Whole, Ground
<1>1. Ground' /\ Fit' /\ Copies' /\ PopsBoth' /\ Agree'
  BY <1>0, GroundStep, FitStep, CopiesStep, AgreeStep
<1>2. CASE Next
  <2>1. ReadInv' /\ Received' /\ LogCopies' /\ Failing'
    BY <1>0, <1>2, ReadInvStep, ReceivedStep, LogCopiesStep, FailingStep
  <2>2. Cover'
    BY <1>0, <1>2, CoverStep
  <2> QED BY <1>1, <2>1, <2>2 DEF Whole
<1>3. CASE UNCHANGED vars
  BY <1>0, <1>1, <1>3, ReadStays, CoverStays DEF Whole
<1> QED BY <1>2, <1>3

\* The consumers that the properties are about.
LEMMA SoundOnes ==
  ASSUME Base, Failing, NEW c \in Sound
  PROVE  Sure /\ Cared(c) /\ c \in Consumers
<1>0. made \subseteq Forks /\ Main \in Consumers /\ Forks \subseteq Consumers /\ fails \in Nat
  BY BaseTypes DEF Base, TypeInv, TypeOK
<1>1. /\ Trouble \subseteq {"forksForgotten", "blankFork"}
      /\ c = Main \/ (Trouble = {} /\ c \in made)
  BY DEF Sound
<1>2. known \cap {"popCut", "deleteShared", "clearCut", "failedFork"} = {}
  BY <1>1 DEF Trouble
<1>3. fails = 0 \/ (stops = 0 /\ closes = 0)
  BY <1>0, <1>1 DEF Trouble, Failing
<1>4. Trouble = {} => OkForks
  BY DEF Trouble, OkForks
<1> QED BY <1>0, <1>1, <1>2, <1>3, <1>4 DEF Sure, Cared

\* Nothing is lost: every consumer to whom nothing bad is known to have
\* happened can read all that was pushed for it and that it has not consumed,
\* after any mix of pushes, pops, deletions, forks, removed forks, crashes in
\* the middle of them, failed writes, and buckets that were closed, cleaned up
\* and opened again (bucket.go, buckets.go).
THEOREM NothingIsLost == Spec => []NoLoss
<1>1. Whole => NoLoss
  <2> SUFFICES ASSUME Whole, Settled, NEW c \in Sound PROVE must[c] \subseteq Held(c)
    BY DEF NoLoss
  <2>1. Sure /\ Cared(c) /\ c \in Consumers /\ Ground /\ Cover
    BY SoundOnes DEF Whole, Ground
  <2>2. pc = "idle" /\ tree # "nil" /\ tree \in {"absent", "nil", "open"}
    BY <2>1 DEF Settled, Ground, Base, TypeInv, TypeOK
  <2>3. CASE tree = "open"
    <3>1. c \in loaded
      BY <2>1, <2>2, <2>3 DEF Ground, Base, OpenInv, Indexes, ForksOpen, Owned, Cared
    <3>2. InMem(c)
      BY <2>1, <2>2, <3>1 DEF Cover, CoverMem, Mid
    <3> QED BY <3>2 DEF InMem, Held, ItemsAt
  <2>4. CASE tree = "absent"
    <3>1. Bare
      BY <2>1, <2>2, <2>4 DEF Cover, CoverVacant, Vacant
    <3> QED BY <2>1, <3>1 DEF Bare
  <2> QED BY <2>2, <2>3, <2>4
<1> QED BY <1>1, InitWhole, WholeStep, PTL DEF Spec

\* The value log is there as long as a consumer has something to get from it:
\* removeBucketDir never runs too early, whether it is called by Read, by
\* RemoveFork or while the bucket is opened.
THEOREM ValueLogIsKept == Spec => []KeptWhileNeeded
<1>1. Whole => KeptWhileNeeded
  <2> SUFFICES ASSUME Whole, ~dat, NEW c \in Sound PROVE must[c] = {}
    BY DEF KeptWhileNeeded
  <2>1. Sure /\ Cared(c) /\ c \in Consumers /\ Ground /\ Cover
    BY SoundOnes DEF Whole, Ground
  <2>2. vlog = <<>> /\ tree # "open" /\ loaded = {}
    BY <2>1 DEF Ground, Base, OnDisk, OpenInv, Indexes
  <2>3. CASE fails = 0
    <3>1. InLog(c)
      BY <2>1, <2>2, <2>3 DEF Cover, CoverLog
    <3> QED BY <2>2, <3>1, NoLog DEF InLog
  <2>4. CASE stops = 0 /\ closes = 0
    <3>1. Bare
      BY <2>1, <2>2, <2>4 DEF Cover, CoverVacant, Vacant
    <3> QED BY <2>1, <3>1 DEF Bare
  <2> QED BY <2>1, <2>3, <2>4 DEF Sure
<1> QED BY <1>1, InitWhole, WholeStep, PTL DEF Spec

=============================================================================
