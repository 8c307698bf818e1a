------------------------------ MODULE Buckets ------------------------------
(***************************************************************************)
(* The queue over all its buckets (buckets.go): the tree of buckets, of    *)
(* which at most MaxParallelOpenBuckets are open, the trailers that give   *)
(* the length of the closed ones, and the operations Push, Read with its   *)
(* transaction, Delete, Clear, Fork, RemoveFork, Len and reopening.        *)
(*                                                                         *)
(* What a bucket does is the subject of Bucket.  Here a bucket is the set  *)
(* of items that each consumer has left in it; that an index on disk and   *)
(* in memory agree, and what happens when an operation is cut short, is    *)
(* shown there.  The mutex makes operations sequential; an operation that  *)
(* goes over several buckets takes one step per bucket.                    *)
(***************************************************************************)
EXTENDS Split

CONSTANTS Keys,         \* the keys of items
          Forks, Main,  \* the names of forks, and the queue itself, fork ""
          Batches,      \* the sequences of keys that may be pushed
          Ranges,       \* the ranges <<from, to>> that may be deleted
          Ns,           \* arguments of Read; All reads as much as there is
          Options,      \* MaxParallelOpenBuckets, and whether ErrorMode is Abort
          Careful,      \* see MayPush
          MaxItems, MaxRestarts  \* bounds on items pushed, and on reopening

Consumers == Forks \cup {Main}
All == MaxItems + 1   \* stands for the largest int

ASSUME BucketsAssumption ==
    /\ Keys \subseteq Int /\ IsFiniteSet(Keys) /\ Main \notin Forks
    /\ Batches \subseteq Seq(Keys) \ {<<>>}
    /\ Ranges \subseteq {r \in Int \X Int : r[1] <= r[2]}
    /\ Options \subseteq [max : Int, abort : BOOLEAN] /\ Ns \subseteq 1 .. All
    /\ Careful \in BOOLEAN /\ MaxItems \in Nat /\ MaxRestarts \in Nat

VARIABLES
    opts,      \* buckets.opts
    bucks,     \* the buckets: in tree, on disk, and their trailers
    forks,     \* buckets.forks
    pc,        \* where the operation in progress is
    call,      \* its consumer and range, and what a Read has still to read;
               \* popped: what it has taken so far, which the code does not keep
    todo,      \* the keys of the buckets it has still to go to
    dead,      \* deletableBucks of Delete
    rd,        \* the bucket that Read is at, and what its callback got
    batch,     \* the items that Push has still to sort in
    nextId, restarts,
    uncounted  \* the closed buckets and forks without a trailer of their own

vars == <<opts, bucks, forks, pc, call, todo, dead, rd, batch, nextId, restarts, uncounted>>

Item == [key : Keys, id : Nat]
BucketKeys == {SplitFunc(k) : k \in Keys}
Live == forks \cup {Main}
NoTrailer == -1

\* st: not in the tree, in the tree but closed (nil), or open; trail: what
\* buckets.trailers has of it; log: the trailer of the last record of its
\* idx.log, zero if there is none.
Absent == [st |-> "absent", has |-> [c \in Consumers |-> {}],
           trail |-> [c \in Consumers |-> NoTrailer], log |-> 0]

NoCall == [who |-> Main, n |-> 0, count |-> 0, lo |-> 0, hi |-> 0, popped |-> {}]

\* stale: the bucket was closed after Read got hold of it; then len and empty
\* are what it had by then.
NoRead == [at |-> {}, out |-> {}, had |-> {}, stale |-> FALSE, len |-> 0, empty |-> FALSE]

-----------------------------------------------------------------------------
(* The tree, as functions from one state of the buckets to another.        *)

InTree(B) == {k \in BucketKeys : B[k].st # "absent"}
OpenIn(B) == {k \in BucketKeys : B[k].st = "open"}

AllEmpty(b) == \A c \in Live : b.has[c] = {}
LenIn(b, c) == Cardinality(b.has[c])

\* buckets.delete
Without(B, ks) == [k \in BucketKeys |-> IF k \in ks THEN Absent ELSE B[k]]

\* Variant of Closed: only the trailer of the queue itself.
Closed_Main(b) == [b EXCEPT !.st = "nil", !.trail[Main] = LenIn(b, Main)]

\* A bucket that is closed leaves its trailers behind.
Closed(b) ==
    [b EXCEPT !.st = "nil",
              !.trail = [c \in Consumers |-> IF c \in Live THEN LenIn(b, c) ELSE b.trail[c]]]

\* The order in which closeUnused goes over n buckets: from the middle to both
\* sides in turn.
Visited(n, idx) ==
    IF idx % 2 = 0 THEN n \div 2 + idx \div 2 ELSE n \div 2 - idx \div 2 - 1

\* closeUnused: the first open ones in that order, as many as are too many.
Victims(B, most) ==
    LET n == Cardinality(InTree(B))
        surplus == Cardinality(OpenIn(B)) - most
        OpenAt(i) == {k \in OpenIn(B) :
                         Cardinality({j \in InTree(B) : j < k}) = Visited(n, i)}
    IN  UNION {OpenAt(i) : i \in {j \in 0 .. n - 1 :
            Cardinality(UNION {OpenAt(h) : h \in 0 .. j - 1}) < surplus}}

CloseUnused(B, most) ==
    IF most < 0 THEN B
    ELSE [k \in BucketKeys |-> IF k \in Victims(B, most) THEN Closed(B[k]) ELSE B[k]]

\* Variant of ForKey: no room is made for the bucket that is opened.
ForKey_NoRoom(B, key) ==
    IF B[key].st = "open" THEN B
    ELSE [CloseUnused(B, opts.max) EXCEPT ![key].st = "open"]

\* forKey: the bucket is opened, room being made for it, or created.
ForKey(B, key) ==
    IF B[key].st = "open" THEN B
    ELSE [CloseUnused(B, opts.max - 1) EXCEPT ![key].st = "open"]

-----------------------------------------------------------------------------

Init ==
    \* Options.Validate: a limit of zero switches it off, as a negative one.
    /\ opts \in {IF o.max = 0 THEN [o EXCEPT !.max = -1] ELSE o : o \in Options}
    /\ bucks = [k \in BucketKeys |-> Absent] /\ forks = {}
    /\ pc = "idle" /\ call = NoCall /\ todo = {} /\ dead = {} /\ rd = NoRead /\ batch = <<>>
    /\ nextId = 0 /\ restarts = 0 /\ uncounted = {}

\* The operation is over.
Return == pc' = "idle" /\ call' = NoCall /\ todo' = {} /\ dead' = {} /\ rd' = NoRead

\* The state of the buckets after a step.  A bucket counts again once it is
\* no longer closed.
Update(B) ==
    /\ bucks' = B
    /\ uncounted' = {u \in uncounted : B[u[1]].st = "nil"}

-----------------------------------------------------------------------------
(* Push                                                                    *)

Given(keys) ==
    /\ nextId + Len(keys) <= MaxItems
    /\ nextId' = nextId + Len(keys)
    /\ batch' = SortItems([i \in DOMAIN keys |-> [key |-> keys[i], id |-> nextId + i - 1]])
    /\ pc' = "push"
    /\ UNCHANGED <<opts, bucks, forks, call, todo, dead, rd, restarts, uncounted>>

Push == pc = "idle" /\ \E keys \in Batches : Given(keys)

\* What a careful application does not do: push from the callback of a Read
\* if this may close the bucket being read, or if the Read is not for all
\* items.  (A Read of n counts what it has got by the length of the bucket.)
MayPush == Careful => opts.max < 0 /\ call.n = All

\* tx.Push
TxPush == pc = "callback" /\ MayPush /\ \E keys \in Batches : Given(keys)

\* The items that go to the bucket of the first one (pushSorted).
Part == LET n == Binsplit(batch, SplitFunc(batch[1].key)) IN {batch[i] : i \in 1 .. n}

\* What becomes of the bucket in the hands of Read when the tree becomes B.
ReadAmid(B) ==
    IF \E k \in rd.at : ~rd.stale /\ B[k].st # "open"
    THEN [rd EXCEPT !.stale = TRUE,
                    !.len = Max({LenIn(bucks[k], call.who) : k \in rd.at}),
                    !.empty = \A k \in rd.at : AllEmpty(bucks[k])]
    ELSE rd

\* bucket.Push: every index gets the part, and a record with its new length.
Pushed(b) ==
    LET has == [c \in Consumers |-> IF c \in Live THEN b.has[c] \cup Part ELSE b.has[c]]
    IN  [b EXCEPT !.has = has, !.log = Cardinality(has[Main])]

PushBucket ==
    /\ pc = "push"
    /\ LET key == SplitFunc(batch[1].key)
           B == ForKey(bucks, key)
           rest == SubSeq(batch, Cardinality(Part) + 1, Len(batch))
       IN  /\ Update([B EXCEPT ![key] = Pushed(B[key])])
           /\ rd' = ReadAmid(B)
           /\ batch' = rest
           /\ pc' = IF rest # <<>> THEN "push" ELSE IF rd = NoRead THEN "idle" ELSE "callback"
    /\ UNCHANGED <<opts, forks, call, todo, dead, nextId, restarts>>

-----------------------------------------------------------------------------
(* Read                                                                    *)

\* iter takes the keys of the buckets at the beginning.
Read ==
    /\ pc = "idle" /\ pc' = "iter"
    /\ \E c \in Live, n \in Ns : call' = [NoCall EXCEPT !.who = c, !.n = n, !.count = n]
    /\ todo' = InTree(bucks)
    /\ UNCHANGED <<opts, bucks, forks, dead, rd, batch, nextId, restarts, uncounted>>

\* Variant of Peeked: one more than asked for.
Peeked_OneMore(items, n) ==
    {out \in SUBSET items :
        /\ Cardinality(out) = Min({n + 1, Cardinality(items)})
        /\ \A x \in out, y \in items \ out : x.key <= y.key}

\* What bucket.peek gives: the n items that come first.
Peeked(items, n) ==
    {out \in SUBSET items :
        /\ Cardinality(out) = Min({n, Cardinality(items)})
        /\ \A x \in out, y \in items \ out : x.key <= y.key}

NextBucket == Min(todo)

ReadBucket ==
    /\ pc = "iter" /\ todo # {}
    /\ LET B == ForKey(bucks, NextBucket)
           had == B[NextBucket].has[call.who]
       IN  /\ Update(B)
           /\ \E out \in Peeked(had, call.count) :
                 rd' = [NoRead EXCEPT !.at = {NextBucket}, !.out = out, !.had = had]
    /\ todo' = todo \ {NextBucket} /\ pc' = "callback"
    /\ UNCHANGED <<opts, forks, call, dead, batch, nextId, restarts>>

ReadEnd ==
    /\ pc = "iter" /\ todo = {} /\ Return
    /\ UNCHANGED <<opts, bucks, forks, batch, nextId, restarts, uncounted>>

\* An error of bucket.Read ends the Read, or it goes on with the next bucket.
ReadError ==
    IF opts.abort THEN Return
    ELSE pc' = "iter" /\ rd' = NoRead /\ UNCHANGED <<call, todo, dead>>

\* By how much the bucket got shorter meanwhile.
Counted(B) ==
    Cardinality(rd.had) -
        (IF rd.stale THEN rd.len ELSE Max({LenIn(B[k], call.who) : k \in rd.at}))

\* What the consumer no longer has of it when the tree becomes B.
Consumed(B) == UNION {bucks[k].has[call.who] \ B[k].has[call.who] : k \in rd.at}

\* The callback returned without an error; the count is brought up to date.
Served(B) ==
    /\ call' = [call EXCEPT !.count = @ - Counted(B), !.popped = @ \cup Consumed(B)]
    /\ pc' = "reap"
    /\ UNCHANGED <<todo, dead, rd>>

\* popSync: the last record of the consumer's index log has its new length.
Popped(b) ==
    LET left == b.has[call.who] \ rd.out
    IN  [b EXCEPT !.has[call.who] = left,
                  !.log = IF call.who = Main /\ rd.out # {} THEN Cardinality(left) ELSE @]

\* The callback returns ReadOpPop.  popSync fails if the bucket was closed.
Pop ==
    /\ pc = "callback"
    /\ LET B == [k \in BucketKeys |-> IF k \in rd.at THEN Popped(bucks[k]) ELSE bucks[k]]
       IN  IF rd.stale /\ rd.out # {} THEN ReadError /\ UNCHANGED <<bucks, uncounted>>
           ELSE IF rd.stale THEN Served(bucks) /\ UNCHANGED <<bucks, uncounted>>
           ELSE Served(B) /\ Update(B)
    /\ UNCHANGED <<opts, forks, batch, nextId, restarts>>

\* The callback returns ReadOpPeek.
Peek ==
    /\ pc = "callback" /\ Served(bucks)
    /\ UNCHANGED <<opts, bucks, forks, batch, nextId, restarts, uncounted>>

\* The callback returns an error.
CallbackErr ==
    /\ pc = "callback" /\ ReadError
    /\ UNCHANGED <<opts, bucks, forks, batch, nextId, restarts, uncounted>>

\* Variant of Drained: only the consumer that reads is looked at.
Drained_One(k) == bucks[k].has[call.who] = {}

\* b.AllEmpty(), of the bucket that Read has in its hands.
Drained(k) == IF rd.stale THEN rd.empty ELSE AllEmpty(bucks[k])

\* A drained bucket goes; the Read is over when it has got enough.
Reap ==
    /\ pc = "reap"
    /\ Update(Without(bucks, {k \in rd.at : Drained(k)}))
    /\ IF call.count <= 0 THEN Return
       ELSE pc' = "iter" /\ rd' = NoRead /\ UNCHANGED <<call, todo, dead>>
    /\ UNCHANGED <<opts, forks, batch, nextId, restarts>>

-----------------------------------------------------------------------------
(* Delete, Clear                                                           *)

\* Variant of InRange: every key in between, whether there is a bucket or not.
InRange_All(lo, hi) == SplitFunc(lo) .. SplitFunc(hi)

\* The buckets from that of the lower end to that of the upper end.
InRange(lo, hi) == {k \in InTree(bucks) : SplitFunc(lo) <= k /\ k <= SplitFunc(hi)}

Delete ==
    /\ pc = "idle" /\ pc' = "delete"
    /\ \E c \in Live, r \in Ranges :
          /\ call' = [NoCall EXCEPT !.who = c, !.lo = r[1], !.hi = r[2]]
          /\ todo' = InRange(r[1], r[2])
    /\ UNCHANGED <<opts, bucks, forks, dead, rd, batch, nextId, restarts, uncounted>>

Hit(x) == call.lo <= x.key /\ x.key <= call.hi

\* bucket.Delete does nothing if the key k of the bucket is above the range.
\* If it hits something, the last record it logs has the old length less what
\* it hits.
Deleted(b, k) ==
    LET hits == {x \in b.has[call.who] : Hit(x)}
    IN  IF k > call.hi THEN b
        ELSE [b EXCEPT !.has[call.who] = {x \in b.has[call.who] : ~Hit(x)},
                       !.log = IF call.who = Main /\ hits # {}
                               THEN LenIn(b, Main) - Cardinality(hits) ELSE @]

DeleteBucket ==
    /\ pc = "delete" /\ todo # {}
    /\ LET k == Min(todo)
           B == ForKey(bucks, k)
           C == [B EXCEPT ![k] = Deleted(B[k], k)]
       IN  /\ Update(C)
           /\ dead' = IF AllEmpty(C[k]) THEN dead \cup {k} ELSE dead
           /\ todo' = todo \ {k}
    /\ UNCHANGED <<opts, forks, pc, call, rd, batch, nextId, restarts>>

DeleteEnd ==
    /\ pc = "delete" /\ todo = {}
    /\ Update(Without(bucks, dead)) /\ Return
    /\ UNCHANGED <<opts, forks, batch, nextId, restarts>>

Clear ==
    /\ pc = "idle" /\ pc' = "clear" /\ todo' = InTree(bucks)
    /\ UNCHANGED <<opts, bucks, forks, call, dead, rd, batch, nextId, restarts, uncounted>>

ClearBucket ==
    /\ pc = "clear" /\ todo # {}
    /\ Update(Without(bucks, {Min(todo)})) /\ todo' = todo \ {Min(todo)}
    /\ UNCHANGED <<opts, forks, pc, call, dead, rd, batch, nextId, restarts>>

ClearEnd ==
    /\ pc = "clear" /\ todo = {} /\ Return
    /\ UNCHANGED <<opts, bucks, forks, batch, nextId, restarts, uncounted>>

-----------------------------------------------------------------------------
(* Forks                                                                   *)

\* bucket.Fork, or forkOffline, which copies the index log and no trailer.
Forked(b, src, dst) ==
    IF b.st = "absent" THEN b ELSE [b EXCEPT !.has[dst] = b.has[src]]

Fork ==
    /\ pc = "idle"
    /\ \E src \in Live, dst \in Forks \ forks :
          /\ bucks' = [k \in BucketKeys |-> Forked(bucks[k], src, dst)]
          /\ forks' = forks \cup {dst}
          /\ uncounted' = uncounted \cup {<<k, dst>> : k \in InTree(bucks) \ OpenIn(bucks)}
    /\ UNCHANGED <<opts, pc, call, todo, dead, rd, batch, nextId, restarts>>

\* An open bucket that nobody needs any more goes; a closed one stays, and so
\* does the trailer of the fork.
RemoveFork ==
    /\ pc = "idle"
    /\ \E f \in forks :
          LET B == [k \in BucketKeys |-> [bucks[k] EXCEPT !.has[f] = {}]]
              gone == {k \in OpenIn(B) : \A c \in Live \ {f} : B[k].has[c] = {}}
          IN  /\ bucks' = Without(B, gone)
              /\ forks' = forks \ {f}
              /\ uncounted' = {u \in uncounted : u[2] # f}
    /\ UNCHANGED <<opts, pc, call, todo, dead, rd, batch, nextId, restarts>>

-----------------------------------------------------------------------------
(* Close and Open, of a queue without forks.  (What becomes of forks is    *)
(* shown by Bucket.)                                                       *)

\* ReadTrailers: the length that the last record of idx.log has.
OnDisk(b) ==
    IF b.st = "absent" THEN b
    ELSE [b EXCEPT !.st = "nil",
                   !.trail = [c \in Consumers |-> IF c = Main THEN b.log ELSE NoTrailer]]

\* loadAllBuckets knows all buckets, and opens the first to look for forks.
Restart ==
    /\ pc = "idle" /\ forks = {} /\ restarts < MaxRestarts /\ restarts' = restarts + 1
    /\ LET B == [k \in BucketKeys |-> OnDisk(bucks[k])]
       IN  Update(IF InTree(B) = {} THEN B ELSE ForKey(B, Min(InTree(B))))
    /\ UNCHANGED <<opts, forks, pc, call, todo, dead, rd, batch, nextId>>

-----------------------------------------------------------------------------

Next ==
    \/ Push \/ TxPush \/ PushBucket
    \/ Read \/ ReadBucket \/ ReadEnd \/ Pop \/ Peek \/ CallbackErr \/ Reap
    \/ Delete \/ DeleteBucket \/ DeleteEnd \/ Clear \/ ClearBucket \/ ClearEnd
    \/ Fork \/ RemoveFork \/ Restart

Spec == Init /\ [][Next]_vars

-----------------------------------------------------------------------------

\* What a consumer can get.
Content(c) == UNION {bucks[k].has[c] : k \in BucketKeys}

Bucket == [st : {"absent", "nil", "open"}, has : [Consumers -> SUBSET Item],
           trail : [Consumers -> Nat \cup {NoTrailer}], log : Nat]

TypeOK ==
    /\ opts \in [max : Int, abort : BOOLEAN] /\ bucks \in [BucketKeys -> Bucket] /\ forks \subseteq Forks
    /\ pc \in {"idle", "push", "iter", "callback", "reap", "delete", "clear"}
    /\ call \in [who : Consumers, n : Nat, count : Int, lo : Int, hi : Int, popped : SUBSET Item]
    /\ todo \subseteq BucketKeys /\ dead \subseteq BucketKeys
    /\ rd \in [at : SUBSET BucketKeys, out : SUBSET Item, had : SUBSET Item,
               stale : BOOLEAN, len : Nat, empty : BOOLEAN]
    /\ batch \in Seq(Item) /\ nextId \in 0 .. MaxItems /\ restarts \in 0 .. MaxRestarts
    /\ uncounted \subseteq BucketKeys \X Forks

\* There are never more open buckets than MaxParallelOpenBuckets, whatever
\* order they are used in (forKey, closeUnused).
OpenLimit == opts.max >= 0 => Cardinality(OpenIn(bucks)) <= opts.max

\* Every item is in the bucket that the split function assigns to its key,
\* where Read and Delete look for it, and reopening the queue finds keys that
\* fit the split function (pushSorted, binsplit, ValidateBucketKeys).
InPlace ==
    \A k \in InTree(bucks) :
        SplitFunc(k) = k /\ \A c \in Consumers : \A x \in bucks[k].has[c] : SplitFunc(x.key) = k

\* buckets.Len
LenOf(c) ==
    LET LenAt(k) == CASE bucks[k].st = "open" -> LenIn(bucks[k], c)
                      [] bucks[k].st = "nil" /\ bucks[k].trail[c] # NoTrailer -> bucks[k].trail[c]
                      [] OTHER -> 0
    IN  FoldSet(LAMBDA k, n : LenAt(k) + n, 0, InTree(bucks))

\* Len is the number of items that a consumer can get, although most of it is
\* taken from the trailers of closed buckets: those they had in memory when
\* they were closed, and after reopening those that Push, popSync and Delete
\* wrote last.  The exception are buckets that were closed when the fork was
\* made and not opened since.
LenAgrees ==
    pc = "idle" => \A c \in Live :
        (\A k \in BucketKeys : <<k, c>> \notin uncounted) => LenOf(c) = Cardinality(Content(c))

\* A Read of n items never pops more than n over all buckets, and the items
\* its callback is given next would not take it past n either, however its
\* earlier callbacks returned (Queue.Read).  What a callback only looked at
\* does not count, so the callbacks together may see more than n; and a Read
\* of all items may also be given those its callback pushes meanwhile.
PopsUpTo == call.n # All => Cardinality(call.popped \cup rd.out) <= call.n

-----------------------------------------------------------------------------
(* The queue as its users see it: a Push, a Delete and a RemoveFork happen *)
(* when they are called, a Fork at its end.                                *)

Pending == {batch[i] : i \in DOMAIN batch}

ContentSeen ==
    [c \in Consumers |->
        IF c \notin Live \/ pc = "clear" THEN {}
        ELSE LET held == Content(c) \cup Pending
             IN  IF pc = "delete" /\ c = call.who
                 THEN {x \in held : ~(Hit(x) /\ SplitFunc(x.key) \in todo)} ELSE held]

ViewSeen ==
    IF call.count <= 0 THEN {}
    ELSE (IF pc = "reap" THEN {} ELSE rd.had)
         \cup (UNION {bucks[k].has[call.who] : k \in todo})
         \cup {x \in Pending : SplitFunc(x.key) \in todo}

OpSeen ==
    [name |-> IF rd # NoRead \/ pc \in {"iter", "callback", "reap"} THEN "read" ELSE pc,
     who |-> call.who, lo |-> call.lo, hi |-> call.hi]

Seen == INSTANCE Queue WITH op <- OpSeen, content <- ContentSeen, view <- ViewSeen

\* The tree of buckets implements the abstract queue: nothing is lost,
\* duplicated, served out of order or to the wrong consumer by buckets being
\* opened, closed and removed, and each operation is atomic to the others.
ImplementsQueue == Seen!Spec

-----------------------------------------------------------------------------
(* A claim that the code does not meet.                                    *)

\* The callback of a Read may use the items it was given until it returns,
\* also after a tx.Push (api.go, Queue.Read).
ItemsStayMapped == pc = "callback" /\ rd.out # {} => ~rd.stale
=============================================================================
