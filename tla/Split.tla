------------------------------- MODULE Split -------------------------------
(***************************************************************************)
(* How a pushed batch is cut into the parts of its buckets: the sort of    *)
(* buckets.Push, the split functions of options.go, and binsplit.          *)
(***************************************************************************)
EXTENDS SequencesExt, Integers

CONSTANTS Width,      \* the bits of item.Key; 64 in the code
          SplitConf   \* the BucketSplitConf: its kind, and shift or size

ASSUME SplitAssumption ==
    /\ Width \in Nat \ {0}
    /\ SplitConf \in [kind : {"shift", "fixed"}, size : Nat]
    /\ 2 ^ SplitConf.size \in Nat \ {0}   \* so that provers know it, too

\* Arithmetic on item.Key wraps around.
Wrap(n) == ((n + 2 ^ (Width - 1)) % (2 ^ Width)) - 2 ^ (Width - 1)

-----------------------------------------------------------------------------

\* Masking the low bits rounds down, also below zero.
ShiftBucketSplit(key) == (key \div 2 ^ SplitConf.size) * 2 ^ SplitConf.size

\* Division rounds towards zero.
FixedSizeBucketSplit(key) ==
    LET n == IF SplitConf.size = 0 THEN 1 ELSE SplitConf.size
    IN  IF key >= 0 THEN (key \div n) * n ELSE -(((-key) \div n) * n)

\* BucketSplitConf.Func
SplitFunc(key) ==
    IF SplitConf.kind = "shift" THEN ShiftBucketSplit(key) ELSE FixedSizeBucketSplit(key)

-----------------------------------------------------------------------------

\* The comparison in buckets.Push: int(i.Key - j.Key).
Compare(x, y) == Wrap(x.key - y.key)

\* slices.SortFunc sorts fewer than twelve items by insertion.
Inserted(q, x) ==
    LET p == Max({0} \cup {i \in DOMAIN q : Compare(x, q[i]) >= 0})
    IN  InsertAt(q, p + 1, x)

SortItems(items) ==
    LET sorted[i \in 0 .. Len(items)] ==
            IF i = 0 THEN <<>> ELSE Inserted(sorted[i - 1], items[i])
    IN  sorted[Len(items)]

\* Variant of Binsplit: off by one where it looks at the middle.
Binsplit_Over(items, comp) ==
    LET n == Len(items)
        from[w \in (0 .. n) \X (0 .. n)] ==
            IF w[2] - w[1] <= 1 THEN w[2]
            ELSE LET mid == w[1] + (w[2] - w[1]) \div 2
                 IN  IF SplitFunc(items[mid].key) # comp THEN from[<<w[1], mid>>]
                     ELSE from[<<mid, w[2]>>]
    IN  from[<<0, n>>]

\* binsplit: how many items from the front go to the bucket comp, by bisection.
\* w is the slice of the items at hand: those behind the first w[1], up to the
\* one at w[2].
Binsplit(items, comp) ==
    LET n == Len(items)
        from[w \in (0 .. n) \X (0 .. n)] ==
            IF w[2] - w[1] <= 1 THEN w[2]
            ELSE LET mid == w[1] + (w[2] - w[1]) \div 2
                 IN  IF SplitFunc(items[mid + 1].key) # comp THEN from[<<w[1], mid>>]
                     ELSE from[<<mid, w[2]>>]
    IN  from[<<0, n>>]
=============================================================================
