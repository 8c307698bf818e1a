---------------------------- MODULE Bucket_proofs ----------------------------
(***************************************************************************)
(* Theorems about Bucket, for any forks, batches, ranges and bounds.       *)
(***************************************************************************)
EXTENDS Bucket, Iters_proofs

\* The process is loading indexes.
Loading ==
    \/ pc \in {"openNext", "loaded", "regenerated", "rewritten"}
    \/ pc = "journal" /\ then \in {"loaded", "regenerated", "rewritten"}

\* The process is busy with one of them.
LoadingOne == Loading /\ pc # "openNext"

\* The process is forking a bucket.
Forking == pc = "forked" \/ (pc = "journal" /\ then = "forked")

\* Where the program is, as far as the indexes of the bucket depend on it.
Control ==
    /\ after \in {"idle", "push", "read", "delete"}
    /\ then \in {"idle", "open", "loaded", "regenerated", "rewritten", "pushed", "popped",
                 "deleted", "failed", "forked"}
    /\ pc = "journal" => then \notin {"idle", "open"}
    /\ pc \in {"down", "open", "rmIdx", "rmMain", "rmDir"} => tree # "open"
    /\ Loading => tree # "open"

\* The indexes in memory are those of the queue's consumers, as many of them
\* as have been loaded while the bucket is being opened, all of them when it is
\* open and none otherwise.
Indexes ==
    /\ forks \subseteq Forks
    /\ loaded \subseteq forks \cup {Main}
    /\ tree # "open" /\ ~Loading => loaded = {}
    /\ LoadingOne => cur \in forks \cup {Main}
    /\ Forking => cur \in Forks
    /\ ForksOpen

OpenInv == Control /\ Indexes

-----------------------------------------------------------------------------

LEMMA InitOpen == Init => OpenInv
  BY DEF Init, OpenInv, Control, Indexes, Loading, LoadingOne, Forking, ForksOpen

\* Steps of the queue as a whole.
LEMMA QueueOpen ==
    ASSUME OpenInv, Start \/ Close \/ Crash \/ CloseUnused
    PROVE  OpenInv'
<1> USE DEF OpenInv, Control, Indexes, Loading, LoadingOne, Forking, ForksOpen
<1>1. CASE Start
  BY <1>1 DEF Start, index, oper
<1>2. CASE Stop
  BY <1>2 DEF Stop, Forget, Return
<1>3. CASE CloseUnused
  BY <1>3 DEF CloseUnused, Forget, oper
<1> QED BY <1>1, <1>2, <1>3 DEF Close, Crash

\* Steps of openBucket.
LEMMA OpeningOpen ==
    ASSUME OpenInv,
           \/ Open \/ LoadIndex \/ Loaded \/ Recover \/ Rewrite \/ Rewritten \/ Reinit \/ Opened
    PROVE  OpenInv'
<1> USE BucketAssumption DEF OpenInv, Control, Indexes, Loading, LoadingOne, Forking, ForksOpen
<1>1. CASE Open
  BY <1>1 DEF Open, queue, oper
<1>2. CASE LoadIndex
  BY <1>2 DEF LoadIndex, ToLoad, Write, queue
<1>3. CASE Loaded
  BY <1>3 DEF Loaded, queue
<1>4. CASE Recover
  BY <1>4 DEF Recover, Write, index, queue
<1>5. CASE Rewrite
  BY <1>5 DEF Rewrite, Write, index, queue
<1>6. CASE Rewritten
  BY <1>6 DEF Rewritten, queue
<1>7. CASE Reinit
  BY <1>7 DEF Reinit, Forget, queue
<1>8. CASE Opened
  BY <1>8 DEF Opened, ToLoad, FetchedForks, index
<1> QED BY <1>1, <1>2, <1>3, <1>4, <1>5, <1>6, <1>7, <1>8

\* Steps of removeBucketDir.
LEMMA RemovingOpen ==
    ASSUME OpenInv, RmIndex \/ RmDat \/ RmMain \/ RmDir \/ RmDirFails
    PROVE  OpenInv'
<1> USE DEF OpenInv, Control, Indexes, Loading, LoadingOne, Forking, ForksOpen
<1>1. CASE RmIndex \/ RmDat \/ RmMain
  BY <1>1 DEF RmIndex, RmDat, RmMain, index, queue, oper
<1>2. CASE RmDir
  BY <1>2 DEF RmDir, Return, index, queue
<1>3. CASE RmDirFails
  BY <1>3 DEF RmDirFails, OpenFails, Forget, Return, index, queue
<1> QED BY <1>1, <1>2, <1>3

\* Edits of the indexes.
LEMMA JournalOpen ==
    ASSUME OpenInv, Journal \/ JournalEnd \/ FailWrite \/ Failed
    PROVE  OpenInv'
<1> USE DEF OpenInv, Control, Indexes, Loading, LoadingOne, Forking, ForksOpen
<1>1. CASE Journal
  BY <1>1 DEF Journal, EditMem, queue
<1>2. CASE JournalEnd
  BY <1>2 DEF JournalEnd, index, queue, oper
<1>3. CASE FailWrite
  <2>1. CASE then = "pushed" /\ EditMem(Head(todo)) /\ PushOver /\ UNCHANGED queue
    BY <1>3, <2>1 DEF EditMem, PushOver, queue, FailWrite
  <2>2. CASE /\ then \in {"popped", "forked"} /\ EditMem(Head(todo))
             /\ Return("idle") /\ UNCHANGED queue
    BY <1>3, <2>2 DEF EditMem, Return, queue, FailWrite
  <2>3. CASE then = "rewritten" /\ OpenFails
    BY <1>3, <2>3 DEF OpenFails, Forget, Return, queue, FailWrite
  <2>4. CASE /\ then \in {"deleted", "failed"} /\ EditMem(Head(todo))
             /\ todo' = Tail(todo) /\ then' = "failed"
             /\ UNCHANGED <<pc, after, cur, call, batch, wrote, rd, reading, queue>>
    BY <1>3, <2>4 DEF EditMem, queue, FailWrite
  <2> QED BY <1>3, <2>1, <2>2, <2>3, <2>4 DEF FailWrite
<1>4. CASE Failed
  BY <1>4 DEF Failed, Return, index, queue
<1> QED BY <1>1, <1>2, <1>3, <1>4

\* Push and Read.
LEMMA TrafficOpen ==
    ASSUME OpenInv,
           \/ Push \/ TxPush \/ WriteItem \/ PushIndex \/ PushDone
           \/ Read \/ ReadFirst \/ ReadNext \/ ReadServe
           \/ Pop \/ Popped \/ PeekOnly \/ CallbackErr \/ Reap
    PROVE  OpenInv'
<1> USE DEF OpenInv, Control, Indexes, Loading, LoadingOne, Forking, ForksOpen
<1>1. CASE Push \/ Read
  BY <1>1 DEF Push, Read, WhenOpen, index, queue
<1>2. CASE TxPush \/ WriteItem
  BY <1>2 DEF TxPush, WriteItem, index, queue
<1>3. CASE PushIndex
  BY <1>3 DEF PushIndex, Write, queue
<1>4. CASE PushDone
  BY <1>4 DEF PushDone, PushOver, index, queue
<1>5. CASE ReadFirst \/ ReadNext \/ ReadServe
  BY <1>5 DEF ReadFirst, ReadNext, ReadServe, index, queue
<1>6. CASE Pop
  BY <1>6 DEF Pop, Write, index, queue
<1>7. CASE Popped \/ PeekOnly
  BY <1>7 DEF Popped, PeekOnly, index, queue, oper
<1>8. CASE CallbackErr
  BY <1>8 DEF CallbackErr, Return, index, queue
<1>9. CASE Reap
  BY <1>9 DEF Reap, DropBucket, Forget, Return, index, queue
<1> QED BY <1>1, <1>2, <1>3, <1>4, <1>5, <1>6, <1>7, <1>8, <1>9

\* Delete, Clear and forks.
LEMMA ForksStayOpen ==
    ASSUME OpenInv,
           Delete \/ DeleteBegin \/ Deleted \/ Clear \/ ForkListed \/ Fork \/ Forked \/ RemoveFork
    PROVE  OpenInv'
<1> USE BucketAssumption DEF OpenInv, Control, Indexes, Loading, LoadingOne, Forking, ForksOpen
<1>1. CASE Delete
  BY <1>1 DEF Delete, WhenOpen, index, queue
<1>2. CASE DeleteBegin
  BY <1>2 DEF DeleteBegin, Write, index, queue
<1>3. CASE Deleted
  BY <1>3 DEF Deleted, index, queue, oper
<1>4. CASE Clear
  BY <1>4 DEF Clear, DropBucket, Forget, Return
<1>5. CASE ForkListed
  BY <1>5 DEF ForkListed, ForkMade, index, oper
<1>6. CASE Fork
  BY <1>6 DEF Fork, Write, index, queue
<1>7. CASE Forked
  BY <1>7 DEF Forked, ForkMade, Return
<1>8. CASE RemoveFork
  BY <1>8 DEF RemoveFork, DropBucket, Forget, Return, index, oper
<1> QED BY <1>1, <1>2, <1>3, <1>4, <1>5, <1>6, <1>7, <1>8

LEMMA OpenStep == OpenInv /\ [Next]_vars => OpenInv'
<1>1. CASE UNCHANGED vars
  BY <1>1 DEF vars, index, queue, oper, OpenInv, Control, Indexes, Loading, LoadingOne,
              Forking, ForksOpen
<1> QED BY <1>1, QueueOpen, OpeningOpen, RemovingOpen, JournalOpen, TrafficOpen, ForksStayOpen
        DEF Next, Step, Environment

\* An open bucket has an index in memory for the queue and for each of its
\* forks, and no other: no Push misses a consumer and no removed fork keeps a
\* bucket alive.  This holds for any set of forks, through crashes, failing
\* writes, closed buckets and openings that fail (buckets.forks, bucket.indexes).
THEOREM EveryForkIsOpen == Spec => []ForksOpen
<1>1. OpenInv => ForksOpen
  BY DEF OpenInv, Indexes
<1> QED BY InitOpen, OpenStep, <1>1, PTL DEF Spec

-----------------------------------------------------------------------------
(* Types: no location is computed with a negative offset or length,        *)
(* nothing is read past the end of the value log, of a batch or of an      *)
(* index.                                                                  *)

-----------------------------------------------------------------------------
(* What the operators on items, locations and iterators return.            *)

LEMMA IndexSetType ==
  ASSUME NEW idx \in Seq(Location), NEW loc \in Location
  PROVE  IndexSet(idx, loc) \in Seq(Location)
<1> DEFINE v(j) == IF j <= Len(idx) /\ idx[j].key <= loc.key THEN idx[j]
                   ELSE IF j > 1 /\ idx[j - 1].key > loc.key THEN idx[j - 1]
                   ELSE loc
<1>1. \A j \in 1 .. Len(idx) + 1 : v(j) \in Location
  OBVIOUS
<1>2. IndexSet(idx, loc) = [j \in 1 .. Len(idx) + 1 |-> v(j)]
  BY DEF IndexSet
<1>3. Len(idx) + 1 \in Nat
  OBVIOUS
<1> HIDE DEF v
<1> QED BY <1>1, <1>2, <1>3

LEMMA IndexDeleteType ==
  ASSUME NEW idx \in Seq(Location), NEW k \in Keys
  PROVE  IndexDelete(idx, k) \in Seq(Location)
<1> DEFINE v(j) == IF \E i \in 1 .. j : idx[i].key = k THEN idx[j + 1] ELSE idx[j]
<1>1. CASE k \in IndexKeys(idx)
  <2>1. Len(idx) - 1 \in Nat
    BY <1>1 DEF IndexKeys
  <2>2. \A j \in 1 .. Len(idx) - 1 : idx[j] \in Location /\ idx[j + 1] \in Location
    OBVIOUS
  <2>3. \A j \in 1 .. Len(idx) - 1 : v(j) \in Location
    BY <2>2
  <2>4. IndexDelete(idx, k) = [j \in 1 .. Len(idx) - 1 |-> v(j)]
    BY <1>1 DEF IndexDelete
  <2> HIDE DEF v
  <2> QED BY <2>1, <2>3, <2>4
<1> QED BY <1>1 DEF IndexDelete

LEMMA IndexApplyType ==
  ASSUME NEW idx \in Seq(Location), NEW loc \in Location
  PROVE  IndexApply(idx, loc) \in Seq(Location)
BY IndexSetType, IndexDeleteType, LocFields DEF IndexApply

LEMMA DeadLocType ==
  ASSUME NEW k \in Keys
  PROVE  DeadLoc(k) \in Location
BY DEF DeadLoc, Location

LEMMA CurrentLocationType ==
  ASSUME NEW it \in Iter
  PROVE  CurrentLocation(it) \in Location
BY DEF CurrentLocation, Location, Iter

\* A run of FromVlog.
LEMMA RunAtType ==
  ASSUME NEW L \in Seq(Item), NEW p \in 1 .. Len(L)
  PROVE  RunAt(L, p) \in Location
<1> DEFINE T == {q \in p .. Len(L) : \A r \in (p + 1) .. q : ~RunStart(L, r)}
<1>1. IsFiniteSet(p .. Len(L))
  BY FS_Interval
<1>2. T \in SUBSET (p .. Len(L))
  OBVIOUS
<1>3. IsFiniteSet(T)
  BY <1>1, <1>2, FS_Subset
<1>4. Cardinality(T) \in Nat
  BY <1>3, FS_CardinalityType
<1>5. L[p].key \in Keys /\ p - 1 \in Nat
  BY ItemKey
<1>6. RunAt(L, p) = [key |-> L[p].key, off |-> p - 1, len |-> Cardinality(T)]
  BY DEF RunAt
<1> HIDE DEF T
<1> QED BY <1>4, <1>5, <1>6 DEF Location

-----------------------------------------------------------------------------
(* Edits.                                                                  *)

LEMMA EditType ==
  ASSUME NEW on \in SUBSET {"mem", "log"}, NEW c \in Consumers, NEW loc \in Location
  PROVE  EditOf(on, c, loc) \in Edit
BY DEF EditOf, Edit

LEMMA EditsOfType ==
  ASSUME NEW on \in SUBSET {"mem", "log"}, NEW c \in Consumers, NEW locs \in Seq(Location)
  PROVE  EditsOf(on, c, locs) \in Seq(Edit)
<1>1. \A i \in 1 .. Len(locs) : EditOf(on, c, locs[i]) \in Edit
  BY EditType
<1> QED BY <1>1 DEF EditsOf

\* The halves of a list of pairs.
LEMMA Pairs ==
  ASSUME NEW m \in Nat, NEW j \in 1 .. 2 * m
  PROVE  (j + 1) \div 2 \in 1 .. m
OBVIOUS

LEMMA PopEditsType ==
  ASSUME NEW c \in Consumers, NEW h \in Seq(Iter)
  PROVE  PopEdits(c, h) \in Seq(Edit)
<1> DEFINE it(j) == h[(j + 1) \div 2]
           v(j) == IF j % 2 = 0 THEN EditOf(Both, c, DeadLoc(it(j).first))
                   ELSE EditOf(IF it(j).exh THEN {} ELSE Both, c, CurrentLocation(it(j)))
<1>1. Len(h) \in Nat /\ 2 * Len(h) \in Nat
  OBVIOUS
<1>2. ASSUME NEW j \in 1 .. 2 * Len(h) PROVE v(j) \in Edit
  <2>1. it(j) \in Iter
    BY <1>1, Pairs
  <2>2. DeadLoc(it(j).first) \in Location /\ CurrentLocation(it(j)) \in Location
    BY <2>1, IterFields, DeadLocType, CurrentLocationType
  <2> HIDE DEF it
  <2>3. Both \in SUBSET {"mem", "log"} /\ (IF it(j).exh THEN {} ELSE Both) \in SUBSET {"mem", "log"}
    BY DEF Both
  <2> QED BY <2>2, <2>3, EditType
<1>3. PopEdits(c, h) = [j \in 1 .. 2 * Len(h) |-> v(j)]
  BY DEF PopEdits
<1> HIDE DEF v
<1> QED BY <1>1, <1>2, <1>3

LEMMA RegenerateEditsType ==
  ASSUME NEW c \in Consumers, vlog \in Seq(Item)
  PROVE  RegenerateEdits(c) \in Seq(Edit)
<1> DEFINE on(p) == IF RunStart(vlog, p) THEN {"mem"} ELSE {}
<1>1. ASSUME NEW p \in 1 .. Len(vlog) PROVE EditOf(on(p), c, RunAt(vlog, p)) \in Edit
  <2>1. RunAt(vlog, p) \in Location
    BY RunAtType
  <2>2. on(p) \in SUBSET {"mem", "log"}
    OBVIOUS
  <2> HIDE DEF on
  <2> QED BY <2>1, <2>2, EditType
<1>2. RegenerateEdits(c) = [p \in 1 .. Len(vlog) |-> EditOf(on(p), c, RunAt(vlog, p))]
  BY DEF RegenerateEdits
<1> HIDE DEF on
<1> QED BY <1>1, <1>2

\* The parts that Delete leaves of a batch.
LEMMA PartsType ==
  ASSUME vlog \in Seq(Item), NEW loc \in Location, NEW lo \in Nat, NEW hi \in Nat
  PROVE  LeftPart(loc, lo) \in Location /\ RightPart(loc, hi) \in Location
<1>1. loc.key \in Keys /\ loc.off \in Nat /\ loc.len \in Nat
  BY LocFields
<1>2. LeftPart(loc, lo) \in Location
  <2> DEFINE T == {s \in LocSlots(loc) \cap DOMAIN vlog : vlog[s].key < lo}
  <2>1. IsFiniteSet(1 .. Len(vlog)) /\ T \in SUBSET (1 .. Len(vlog))
    BY FS_Interval
  <2>2. Cardinality(T) \in Nat
    BY <2>1, FS_Subset, FS_CardinalityType
  <2>3. LeftPart(loc, lo) = [loc EXCEPT !.len = Cardinality(T)]
    BY DEF LeftPart
  <2> HIDE DEF T
  <2> QED BY <2>2, <2>3 DEF Location
<1>3. RightPart(loc, hi) \in Location
  <2> DEFINE above == {s \in LocSlots(loc) \cap DOMAIN vlog : vlog[s].key > hi}
             m == Min(above)
  <2>1. CASE above = {}
    BY <1>1, <2>1, DeadLocType DEF RightPart
  <2>2. CASE above # {}
    <3>1. above \subseteq 1 .. Len(vlog) /\ above \subseteq LocSlots(loc)
      OBVIOUS
    <3>2. above \subseteq Nat
      BY <3>1
    <3> HIDE DEF above
    <3>3. \E x \in above : \A y \in above : x <= y
      BY <2>2, <3>2, LeastNat
    <3>4. m \in above
      BY <3>3 DEF Min
    <3> HIDE DEF m
    <3>5. m \in 1 .. Len(vlog) /\ m >= loc.off + 1 /\ m <= loc.off + loc.len
      BY <1>1, <3>1, <3>4 DEF LocSlots
    <3>6. vlog[m].key \in Keys
      BY <3>5, ItemKey
    <3>7. m - 1 \in Nat /\ loc.off + loc.len - m + 1 \in Nat
      BY <1>1, <3>5
    <3>8. RightPart(loc, hi) = [key |-> vlog[m].key, off |-> m - 1,
                                len |-> loc.off + loc.len - m + 1]
      BY <2>2 DEF RightPart, above, m
    <3> QED BY <3>6, <3>7, <3>8 DEF Location
  <2> QED BY <2>1, <2>2
<1> QED BY <1>2, <1>3

LEMMA PartEditsType ==
  ASSUME vlog \in Seq(Item), mem \in [Consumers -> Seq(Location)],
         NEW c \in Consumers, NEW lo \in Nat, NEW hi \in Nat, NEW on \in SUBSET {"mem", "log"}
  PROVE  PartEdits(c, lo, hi, on) \in Seq(Edit)
<1> DEFINE loc(j) == mem[c][(j + 1) \div 2]
           part(j) == IF j % 2 = 1 THEN LeftPart(loc(j), lo) ELSE RightPart(loc(j), hi)
           use(j) == IF Affected(loc(j), lo, hi) /\ part(j).len > 0 THEN on ELSE {}
<1>1. mem[c] \in Seq(Location) /\ Len(mem[c]) \in Nat /\ 2 * Len(mem[c]) \in Nat
  OBVIOUS
<1>2. ASSUME NEW j \in 1 .. 2 * Len(mem[c]) PROVE EditOf(use(j), c, part(j)) \in Edit
  <2>1. loc(j) \in Location
    BY <1>1, Pairs
  <2> HIDE DEF loc
  <2>2. LeftPart(loc(j), lo) \in Location /\ RightPart(loc(j), hi) \in Location
    BY <2>1, PartsType
  <2>3. part(j) \in Location
    BY <2>2
  <2>4. use(j) \in SUBSET {"mem", "log"}
    OBVIOUS
  <2> HIDE DEF part, use
  <2> QED BY <2>3, <2>4, EditType
<1>3. PartEdits(c, lo, hi, on) = [j \in 1 .. 2 * Len(mem[c]) |-> EditOf(use(j), c, part(j))]
  BY DEF PartEdits
<1> HIDE DEF use, part
<1> QED BY <1>1, <1>2, <1>3

LEMMA EndEditsType ==
  ASSUME mem \in [Consumers -> Seq(Location)],
         NEW c \in Consumers, NEW lo \in Nat, NEW hi \in Nat
  PROVE  EndEdits(c, lo, hi) \in Seq(Edit)
<1> DEFINE use(j) == IF Affected(mem[c][j], lo, hi) THEN Both ELSE {}
<1>1. mem[c] \in Seq(Location)
  OBVIOUS
<1>2. ASSUME NEW j \in 1 .. Len(mem[c])
      PROVE  EditOf(use(j), c, DeadLoc(mem[c][j].key)) \in Edit
  <2>1. mem[c][j] \in Location
    BY <1>1
  <2>2. DeadLoc(mem[c][j].key) \in Location
    BY <2>1, LocFields, DeadLocType
  <2>3. use(j) \in SUBSET {"mem", "log"}
    BY DEF Both
  <2> HIDE DEF use
  <2> QED BY <2>2, <2>3, EditType
<1>3. EndEdits(c, lo, hi) =
          [j \in 1 .. Len(mem[c]) |-> EditOf(use(j), c, DeadLoc(mem[c][j].key))]
  BY DEF EndEdits
<1> HIDE DEF use
<1> QED BY <1>1, <1>2, <1>3

LEMMA DeleteEditsType ==
  ASSUME vlog \in Seq(Item), mem \in [Consumers -> Seq(Location)],
         NEW c \in Consumers, NEW lo \in Nat, NEW hi \in Nat
  PROVE  DeleteEdits(c, lo, hi) \in Seq(Edit)
<1>1. PartEdits(c, lo, hi, {"log"}) \in Seq(Edit) /\ PartEdits(c, lo, hi, {"mem"}) \in Seq(Edit)
  BY PartEditsType
<1>2. EndEdits(c, lo, hi) \in Seq(Edit)
  BY EndEditsType
<1> QED BY <1>1, <1>2 DEF DeleteEdits

-----------------------------------------------------------------------------
(* The steps of peek.                                                      *)

\* Every iterator stands on an item of the log.
Inside(L, h) == \A k \in DOMAIN h : h[k].off < Len(L)

LEMMA AddIterType ==
  ASSUME NEW L \in Seq(Item), NEW X \in Seq(Location), NEW h \in Seq(Iter),
         HeapOrder(h), Inside(L, h), NEW p \in 1 .. Len(X), NEW r \in AddIter(L, X, h, p)
  PROVE  /\ r[1] \in Seq(Iter) /\ HeapOrder(r[1]) /\ Inside(L, r[1])
         /\ r[2] \in Nat /\ r[2] >= 1
<1>1. CASE ~Readable(L, X[p])
  <2>1. r = <<h, p>>
    BY <1>1 DEF AddIter
  <2> QED BY <2>1
<1>2. CASE Readable(L, X[p])
  <2> DEFINE i == IterAt(L, X[p])
  <2>1. PICK g \in Pushed(h, i) : r = <<g, p + 1>>
    BY <1>2 DEF AddIter
  <2>2. X[p] \in Location /\ X[p].key \in Keys /\ X[p].off \in Nat /\ X[p].len \in Nat
    BY LocFields
  <2>3. X[p].off < Len(L) /\ X[p].off + 1 \in 1 .. Len(L)
    BY <1>2, <2>2 DEF Readable
  <2>4. L[X[p].off + 1].key \in Keys
    BY <2>3, ItemKey
  <2>5. i \in Iter /\ i.off = X[p].off
    BY <2>2, <2>4 DEF IterAt, Iter
  <2> HIDE DEF i
  <2>6. /\ g \in Seq(Iter) /\ HeapOrder(g)
        /\ \A k \in DOMAIN g : g[k] = i \/ \E j \in DOMAIN h : g[k] = h[j]
    BY <2>1, <2>5, PushedIsHeap
  <2>7. Inside(L, g)
    BY <2>3, <2>5, <2>6 DEF Inside
  <2> QED BY <2>1, <2>6, <2>7
<1> QED BY <1>1, <1>2

LEMMA PeekFirstType ==
  ASSUME NEW L \in Seq(Item), NEW X \in Seq(Location), NEW r \in PeekFirst(L, X)
  PROVE  /\ r[1] \in Seq(Iter) /\ HeapOrder(r[1]) /\ Inside(L, r[1])
         /\ r[2] \in Nat /\ r[2] >= 1
<1> DEFINE e == <<>>
<1>1. e \in Seq(Iter) /\ HeapOrder(e) /\ Inside(L, e)
  BY DEF HeapOrder, Inside
<1>2. CASE X = <<>>
  <2>1. r = <<e, 1>>
    BY <1>2 DEF PeekFirst
  <2> HIDE DEF e
  <2> QED BY <1>1, <2>1
<1>3. CASE X # <<>>
  <2>1. r \in AddIter(L, X, e, 1) /\ 1 \in 1 .. Len(X)
    BY <1>3 DEF PeekFirst
  <2> HIDE DEF e
  <2> QED BY <1>1, <2>1, AddIterType
<1> QED BY <1>2, <1>3

LEMMA IterNextType ==
  ASSUME NEW L \in Seq(Item), NEW it \in Iter, it.off < Len(L)
  PROVE  IterNext(L, it) \in Iter /\ IterNext(L, it).off < Len(L)
<1>1. it.first \in Keys /\ it.key \in Keys /\ it.off \in Nat /\ it.len \in Nat /\ it.exh \in BOOLEAN
  BY DEF Iter
<1>2. CASE it.len <= 1 \/ it.off + 1 >= Len(L)
  BY <1>1, <1>2 DEF IterNext, Iter
<1>3. CASE ~(it.len <= 1 \/ it.off + 1 >= Len(L))
  <2>1. it.off + 2 \in 1 .. Len(L) /\ it.len - 1 \in Nat /\ it.off + 1 \in Nat /\ it.off + 1 < Len(L)
    BY <1>1, <1>3
  <2>2. L[it.off + 2].key \in Keys
    BY <2>1, ItemKey
  <2>3. IterNext(L, it) =
            [it EXCEPT !.key = L[it.off + 2].key, !.off = it.off + 1, !.len = it.len - 1]
    BY <1>3 DEF IterNext
  <2> QED BY <1>1, <2>1, <2>2, <2>3 DEF Iter
<1> QED BY <1>2, <1>3

LEMMA PeekNextType ==
  ASSUME NEW L \in Seq(Item), NEW X \in Seq(Location), NEW h \in Seq(Iter),
         h # <<>>, HeapOrder(h), Inside(L, h),
         NEW p \in Nat, p >= 1, NEW r \in PeekNext(L, X, h, p)
  PROVE  /\ r[1] \in Seq(Iter) /\ HeapOrder(r[1]) /\ Inside(L, r[1])
         /\ r[2] \in Nat /\ r[2] >= 1
<1> DEFINE it == IterNext(L, h[1])
           f == [h EXCEPT ![1] = it]
<1>1. 1 \in DOMAIN h /\ h[1] \in Iter /\ h[1].off < Len(L)
  BY DEF Inside
<1>2. it \in Iter /\ it.off < Len(L)
  BY <1>1, IterNextType
<1>3. PICK g \in Fixed(f) :
          r \in (IF MustAdd(X, p, it) THEN AddIter(L, X, g, p) ELSE {<<g, p>>})
  BY DEF PeekNext
<1> HIDE DEF it
<1>4. /\ f \in Seq(Iter) /\ Len(f) = Len(h) /\ DOMAIN f = DOMAIN h /\ f # <<>>
      /\ f[1] = it /\ \A k \in DOMAIN f : k # 1 => f[k] = h[k]
  BY <1>1, <1>2
<1> HIDE DEF f
<1>5. \A k \in DOMAIN f : k \div 2 > 1 => ~Less(f[k], f[k \div 2])
  <2> SUFFICES ASSUME NEW k \in DOMAIN f, k \div 2 > 1 PROVE ~Less(f[k], f[k \div 2])
    OBVIOUS
  <2>1. k \in Nat /\ k > 1 /\ k <= Len(h) /\ DOMAIN f = 1 .. Len(h) /\ Len(h) \in Nat
    BY <1>4
  <2>2. k \div 2 \in Nat /\ k \div 2 < k
    BY <2>1, Parent
  <2>3. k \div 2 \in DOMAIN f
    BY <2>1, <2>2
  <2>4. ~Less(h[k], h[k \div 2])
    BY <1>4, <2>1 DEF HeapOrder
  <2> QED BY <1>4, <2>1, <2>3, <2>4
<1>6. /\ g \in Seq(Iter) /\ HeapOrder(g)
      /\ \A k \in DOMAIN g : \E j \in DOMAIN f : g[k] = f[j]
  BY <1>3, <1>4, <1>5, FixedIsHeap
<1>7. Inside(L, g)
  <2>1. \A j \in DOMAIN f : f[j].off < Len(L)
    BY <1>2, <1>4 DEF Inside
  <2> QED BY <1>6, <2>1 DEF Inside
<1>8. CASE MustAdd(X, p, it)
  <2>1. p \in 1 .. Len(X)
    BY <1>8 DEF MustAdd
  <2>2. r \in AddIter(L, X, g, p)
    BY <1>3, <1>8
  <2> QED BY <1>6, <1>7, <2>1, <2>2, AddIterType
<1>9. CASE ~MustAdd(X, p, it)
  <2>1. r = <<g, p>>
    BY <1>3, <1>9
  <2> QED BY <1>6, <1>7, <2>1
<1> QED BY <1>8, <1>9

-----------------------------------------------------------------------------
(* The inductive invariant.                                                *)

\* The bucket is being opened on behalf of an operation.
Opening ==
    \/ pc \in {"open", "openNext", "loaded", "regenerated", "rewritten",
               "rmIdx", "rmMain", "rmDir"}
    \/ pc = "journal" /\ then \in {"loaded", "regenerated", "rewritten"}

\* Items of a Push are being written, or were and are not indexed everywhere.
Pushing == pc \in {"push", "pushed"} \/ (pc = "journal" /\ then = "pushed")

\* What the types rest on: where control can go, that a Push has items, which
\* are in the value log once written, and that peek stands inside of it.
Phase ==
    /\ after \in {"idle", "push", "read", "delete"}
    /\ then \in {"idle", "open", "loaded", "regenerated", "rewritten", "pushed", "popped",
                 "deleted", "failed", "forked"}
    /\ after # "idle" => Opening
    /\ pc = "push" \/ after = "push" => batch # <<>>
    /\ ~Pushing => wrote = 0
    /\ wrote <= Len(vlog)
    /\ pc = "peek" => HeapOrder(rd.iters) /\ rd.pos >= 1 /\ Inside(vlog, rd.iters)

TypeInv == TypeOK /\ Phase

LEMMA ItemsOfType ==
  ASSUME NEW q \in Seq(Item)
  PROVE  ItemsOf(q) \subseteq Item
BY DEF ItemsOf

LEMMA NoneType ==
  /\ NoCall \in [who : Consumers, n : Nat, lo : Nat, hi : Nat]
  /\ NoRead \in [iters : Seq(Iter), pos : Nat, out : Seq(Item)]
  /\ [c \in Consumers |-> <<>>] \in [Consumers -> Seq(Location)]
  /\ <<>> \in Seq(Item) /\ 0 \in 0 .. Len(<<>>) /\ <<>> \in Seq(Edit)
  /\ Main \in Consumers
BY DEF NoCall, NoRead, Consumers

\* TypeOK by groups of variables.
DiskT ==
    /\ dir \in BOOLEAN /\ dat \in BOOLEAN /\ vlog \in Seq(Item)
    /\ exist \subseteq Consumers /\ file \in [Consumers -> Seq(Location)]

IndexT ==
    /\ loaded \subseteq Consumers /\ mem \in [Consumers -> Seq(Location)]
    /\ seen \subseteq Consumers /\ blank \in BOOLEAN

QueueT == forks \subseteq Forks /\ tree \in {"absent", "nil", "open"}

OperT ==
    /\ after \in Places /\ then \in Places /\ cur \in Consumers
    /\ call \in [who : Consumers, n : Nat, lo : Nat, hi : Nat]
    /\ batch \in Seq(Item) /\ wrote \in 0 .. Len(batch)
    /\ rd \in [iters : Seq(Iter), pos : Nat, out : Seq(Item)] /\ reading \in BOOLEAN
    /\ todo \in Seq(Edit)

CountT ==
    /\ nextId \in 0 .. MaxItems /\ stops \in 0 .. MaxStops
    /\ closes \in 0 .. MaxCloses /\ fails \in 0 .. MaxFails

HistoryT ==
    /\ must \in [Consumers -> SUBSET Item] /\ may \in [Consumers -> SUBSET Item]
    /\ made \subseteq Forks /\ crashed \in BOOLEAN /\ known \subseteq Reasons

LEMMA Groups ==
  TypeOK <=> DiskT /\ IndexT /\ QueueT /\ pc \in Places /\ OperT /\ CountT /\ HistoryT
BY DEF TypeOK, DiskT, IndexT, QueueT, OperT, CountT, HistoryT

LEMMA Regrouped ==
  ASSUME DiskT', IndexT', QueueT', (pc \in Places)', OperT', CountT', HistoryT', Phase'
  PROVE  TypeInv'
BY DEF TypeInv, TypeOK, DiskT, IndexT, QueueT, OperT, CountT, HistoryT

\* The types of what a step leaves alone.
LEMMA Kept ==
  /\ DiskT /\ UNCHANGED disk => DiskT'
  /\ IndexT /\ UNCHANGED index => IndexT'
  /\ QueueT /\ UNCHANGED queue => QueueT'
  /\ OperT /\ UNCHANGED oper => OperT'
  /\ CountT /\ UNCHANGED counters => CountT'
  /\ HistoryT /\ UNCHANGED history => HistoryT'
BY DEF DiskT, IndexT, QueueT, OperT, CountT, HistoryT, disk, index, queue, oper, counters, history

\* The variables of an operation that is over, and the indexes of a bucket
\* that is closed.
LEMMA ReturnTypes ==
  ASSUME NEW p \in {"idle", "down", "rmIdx"}, Return(p)
  PROVE  OperT' /\ pc' \in Places
<1>1. OperT'
  BY NoneType DEF Return, OperT, Places
<1>2. pc' \in Places
  BY DEF Return, Places
<1> QED BY <1>1, <1>2

LEMMA ReturnPhase ==
  ASSUME NEW p \in {"idle", "down", "rmIdx"}, Return(p), DiskT'
  PROVE  Phase'
BY DEF Return, DiskT, Phase, Opening, Pushing

LEMMA ForgetTypes == Forget => IndexT'
BY NoneType DEF Forget, IndexT

LEMMA InitTypes == Init => TypeInv
<1> SUFFICES ASSUME Init PROVE TypeInv
  OBVIOUS
<1>1. DiskT /\ IndexT
  BY NoneType DEF Init, DiskT, IndexT
<1>2. OperT
  BY NoneType DEF Init, OperT, Places
<1>3. CountT
  BY BucketAssumption DEF Init, CountT
<1>4. HistoryT /\ QueueT /\ pc \in Places
  BY DEF Init, HistoryT, QueueT, Places
<1>5. Phase
  BY <1>1 DEF Init, Phase, Opening, Pushing, DiskT
<1> QED BY <1>1, <1>2, <1>3, <1>4, <1>5, Groups DEF TypeInv

\* Steps of the queue as a whole.
LEMMA QueueTypes ==
    ASSUME TypeInv, Start \/ Close \/ Crash \/ CloseUnused
    PROVE  TypeInv'
<1>1. /\ DiskT /\ IndexT /\ QueueT /\ pc \in Places /\ OperT /\ CountT /\ HistoryT /\ Phase
  BY Groups DEF TypeInv
<1>2. CASE Start
  <2>1. DiskT' /\ IndexT' /\ OperT' /\ CountT'
    BY <1>1, <1>2, Kept DEF Start
  <2>2. QueueT' /\ (pc \in Places)' /\ HistoryT'
    BY <1>1, <1>2 DEF Start, QueueT, Places, HistoryT, Reasons
  <2>3. Phase'
    BY <1>1, <1>2 DEF Start, Phase, Opening, Pushing, disk, oper
  <2> QED BY <2>1, <2>2, <2>3, Regrouped
<1>3. CASE Stop /\ HistoryT'
  <2>1. DiskT' /\ IndexT'
    BY <1>1, <1>3, Kept, ForgetTypes DEF Stop
  <2>2. OperT' /\ (pc \in Places)' /\ Phase'
    BY <1>3, <2>1, ReturnTypes, ReturnPhase DEF Stop
  <2>3. QueueT' /\ CountT'
    BY <1>1, <1>3, BucketAssumption DEF Stop, QueueT, CountT
  <2> QED BY <1>3, <2>1, <2>2, <2>3, Regrouped
<1>4. CASE CloseUnused
  <2>1. DiskT' /\ IndexT' /\ OperT' /\ HistoryT'
    BY <1>1, <1>4, Kept, ForgetTypes DEF CloseUnused
  <2>2. QueueT' /\ (pc \in Places)' /\ CountT'
    BY <1>1, <1>4, BucketAssumption DEF CloseUnused, QueueT, CountT
  <2>3. Phase'
    BY <1>1, <1>4 DEF CloseUnused, Phase, Opening, Pushing, disk, oper
  <2> QED BY <2>1, <2>2, <2>3, Regrouped
<1>5. CASE Close
  BY <1>1, <1>3, <1>5 DEF Close, Stop, HistoryT
<1>6. CASE Crash
  <2>1. known' \subseteq Reasons
    BY <1>1, <1>6 DEF Crash, Cut, HistoryT, Reasons
  <2> QED BY <1>1, <1>3, <1>6, <2>1 DEF Crash, Stop, HistoryT
<1> QED BY <1>2, <1>4, <1>5, <1>6

\* Steps of openBucket.
LEMMA OpeningTypes ==
    ASSUME TypeInv,
           \/ Open \/ LoadIndex \/ Loaded \/ Recover \/ Rewrite \/ Rewritten \/ Reinit \/ Opened
    PROVE  TypeInv'
<1>1. /\ DiskT /\ IndexT /\ QueueT /\ pc \in Places /\ OperT /\ CountT /\ HistoryT /\ Phase
  BY Groups DEF TypeInv
<1>2. CASE Open
  <2>1. QueueT' /\ OperT' /\ CountT' /\ HistoryT'
    BY <1>1, <1>2, Kept DEF Open
  <2>2. DiskT' /\ IndexT' /\ (pc \in Places)'
    BY <1>1, <1>2 DEF Open, DiskT, IndexT, Places
  <2>3. Phase'
    BY <1>1, <1>2 DEF Open, Phase, Opening, Pushing, oper
  <2> QED BY <2>1, <2>2, <2>3, Regrouped
<1>3. CASE LoadIndex
  <2>1. PICK c \in ToLoad : /\ cur' = c /\ exist' = exist \cup {c}
                            /\ mem' = [mem EXCEPT ![c] = <<>>]
                            /\ Write(EditsOf({"mem"}, c, file[c]), "loaded")
    BY <1>3 DEF LoadIndex
  <2>2. c \in Consumers
    BY <1>1 DEF ToLoad, Consumers, QueueT
  <2>3. EditsOf({"mem"}, c, file[c]) \in Seq(Edit)
    BY <1>1, <2>2, EditsOfType DEF DiskT
  <2>4. QueueT' /\ CountT' /\ HistoryT'
    BY <1>1, <1>3, Kept DEF LoadIndex
  <2>5. DiskT' /\ IndexT' /\ (pc \in Places)'
    BY <1>1, <1>3, <2>1, <2>2 DEF LoadIndex, Write, DiskT, IndexT, Places
  <2>6. OperT'
    BY <1>1, <1>3, <2>1, <2>2, <2>3 DEF LoadIndex, Write, OperT, Places
  <2>7. Phase'
    BY <1>1, <1>3, <2>1 DEF LoadIndex, Write, Phase, Opening, Pushing
  <2> QED BY <2>4, <2>5, <2>6, <2>7, Regrouped
<1>4. CASE Loaded \/ Rewritten
  <2>1. DiskT' /\ QueueT' /\ CountT' /\ HistoryT'
    BY <1>1, <1>4, Kept DEF Loaded, Rewritten
  <2>2. IndexT' /\ OperT' /\ (pc \in Places)'
    BY <1>1, <1>4, NoneType DEF Loaded, Rewritten, IndexT, OperT, Places
  <2>3. Phase'
    BY <1>1, <1>4 DEF Loaded, Rewritten, Phase, Opening, Pushing, disk
  <2> QED BY <2>1, <2>2, <2>3, Regrouped
<1>5. CASE Recover
  <2>1. RegenerateEdits(cur) \in Seq(Edit)
    BY <1>1, RegenerateEditsType DEF DiskT, OperT
  <2>2. DiskT' /\ IndexT' /\ QueueT' /\ CountT'
    BY <1>1, <1>5, Kept DEF Recover
  <2>3. OperT' /\ (pc \in Places)'
    BY <1>1, <1>5, <2>1 DEF Recover, Write, OperT, Places
  <2>4. ItemsOf(vlog) \subseteq Item
    BY <1>1, ItemsOfType DEF DiskT
  <2>5. HistoryT'
    BY <1>1, <1>5, <2>4 DEF Recover, HistoryT, OperT
  <2>6. Phase'
    BY <1>1, <1>5 DEF Recover, Write, Phase, Opening, Pushing, disk
  <2> QED BY <2>2, <2>3, <2>5, <2>6, Regrouped
<1>6. CASE Rewrite
  <2>1. EditsOf({"log"}, cur, mem[cur]) \in Seq(Edit)
    BY <1>1, EditsOfType DEF IndexT, OperT
  <2>2. IndexT' /\ QueueT' /\ CountT' /\ HistoryT'
    BY <1>1, <1>6, Kept DEF Rewrite
  <2>3. OperT' /\ DiskT' /\ (pc \in Places)'
    BY <1>1, <1>6, <2>1 DEF Rewrite, Write, OperT, Places, DiskT
  <2>4. Phase'
    BY <1>1, <1>6 DEF Rewrite, Write, Phase, Opening, Pushing
  <2> QED BY <2>2, <2>3, <2>4, Regrouped
<1>7. CASE Reinit
  <2>1. DiskT' /\ IndexT' /\ QueueT' /\ CountT' /\ HistoryT'
    BY <1>1, <1>7, Kept, ForgetTypes DEF Reinit
  <2>2. OperT' /\ (pc \in Places)'
    BY <1>1, <1>7 DEF Reinit, OperT, Places
  <2>3. Phase'
    BY <1>1, <1>7 DEF Reinit, Phase, Opening, Pushing, disk
  <2> QED BY <2>1, <2>2, <2>3, Regrouped
<1>8. CASE Opened
  <2>1. DiskT' /\ IndexT' /\ CountT' /\ HistoryT'
    BY <1>1, <1>8, Kept DEF Opened
  <2>2. QueueT'
    BY <1>1, <1>8 DEF Opened, QueueT, FetchedForks, IndexT, Consumers
  <2>3. OperT' /\ (pc \in Places)'
    BY <1>1, <1>8 DEF Opened, OperT, Places
  <2>4. Phase'
    BY <1>1, <1>8 DEF Opened, Phase, Opening, Pushing, disk
  <2> QED BY <2>1, <2>2, <2>3, <2>4, Regrouped
<1> QED BY <1>2, <1>3, <1>4, <1>5, <1>6, <1>7, <1>8

\* Steps of removeBucketDir.
LEMMA RemovingTypes ==
    ASSUME TypeInv, RmIndex \/ RmDat \/ RmMain \/ RmDir \/ RmDirFails
    PROVE  TypeInv'
<1>1. /\ DiskT /\ IndexT /\ QueueT /\ pc \in Places /\ OperT /\ CountT /\ HistoryT /\ Phase
  BY Groups DEF TypeInv
<1>2. CASE RmIndex \/ RmMain
  <2>1. IndexT' /\ QueueT' /\ OperT' /\ CountT' /\ HistoryT'
    BY <1>1, <1>2, Kept DEF RmIndex, RmMain
  <2>2. PICK c \in Consumers : RmIndexLog(c)
    BY <1>1, <1>2, NoneType DEF RmIndex, RmMain, Named, DiskT
  <2>3. DiskT' /\ (pc \in Places)'
    BY <1>1, <1>2, <2>2 DEF RmIndex, RmMain, RmIndexLog, DiskT, Places
  <2>4. Phase'
    BY <1>1, <1>2 DEF RmIndex, RmMain, Phase, Opening, Pushing, oper
  <2> QED BY <2>1, <2>3, <2>4, Regrouped
<1>3. CASE RmDat
  <2>1. IndexT' /\ QueueT' /\ OperT' /\ CountT'
    BY <1>1, <1>3, Kept DEF RmDat
  <2>2. DiskT' /\ (pc \in Places)' /\ HistoryT'
    BY <1>1, <1>3, NoneType DEF RmDat, DiskT, Places, HistoryT
  <2>3. Phase'
    BY <1>1, <1>3, <2>2 DEF RmDat, Phase, Opening, Pushing, oper, DiskT
  <2> QED BY <2>1, <2>2, <2>3, Regrouped
<1>4. CASE RmDir
  <2>1. IndexT' /\ QueueT' /\ CountT' /\ HistoryT'
    BY <1>1, <1>4, Kept DEF RmDir
  <2>2. DiskT'
    BY <1>1, <1>4 DEF RmDir, DiskT
  <2>3. CASE Return("idle")
    BY <2>1, <2>2, <2>3, ReturnTypes, ReturnPhase, Regrouped
  <2>4. CASE then = "open" /\ pc' = "open" /\ then' = "idle"
             /\ UNCHANGED <<after, cur, call, batch, wrote, rd, reading, todo>>
    <3>1. OperT' /\ (pc \in Places)'
      BY <1>1, <2>4 DEF OperT, Places
    <3>2. Phase'
      BY <1>1, <1>4, <2>4 DEF RmDir, Phase, Opening, Pushing
    <3> QED BY <2>1, <2>2, <3>1, <3>2, Regrouped
  <2> QED BY <1>4, <2>3, <2>4 DEF RmDir
<1>5. CASE RmDirFails
  <2>1. DiskT' /\ CountT' /\ HistoryT'
    BY <1>1, <1>5, Kept DEF RmDirFails
  <2>2. IndexT' /\ QueueT' /\ (Return("idle") \/ Return("down"))
    BY <1>1, <1>5, Kept, ForgetTypes DEF RmDirFails, OpenFails, QueueT
  <2> QED BY <2>1, <2>2, ReturnTypes, ReturnPhase, Regrouped
<1> QED BY <1>2, <1>3, <1>4, <1>5

LEMMA EditMemTypes ==
  ASSUME IndexT, NEW e \in Edit, EditMem(e)
  PROVE  IndexT'
<1>1. e.to \in Consumers /\ e.loc \in Location
  BY DEF Edit
<1>2. mem[e.to] \in Seq(Location)
  BY <1>1 DEF IndexT
<1>3. IndexApply(mem[e.to], e.loc) \in Seq(Location)
  BY <1>1, <1>2, IndexApplyType
<1>4. mem' \in [Consumers -> Seq(Location)]
  BY <1>3 DEF EditMem, IndexT
<1> QED BY <1>1, <1>4 DEF EditMem, IndexT

\* Edits of the indexes.
LEMMA JournalTypes ==
    ASSUME TypeInv, Journal \/ JournalEnd \/ FailWrite \/ Failed
    PROVE  TypeInv'
<1>1. /\ DiskT /\ IndexT /\ QueueT /\ pc \in Places /\ OperT /\ CountT /\ HistoryT /\ Phase
  BY Groups DEF TypeInv
<1>2. ASSUME todo # <<>> PROVE Head(todo) \in Edit /\ Tail(todo) \in Seq(Edit)
  BY <1>1, <1>2 DEF OperT
<1>3. CASE Journal
  <2>1. QueueT' /\ CountT' /\ HistoryT'
    BY <1>1, <1>3, Kept DEF Journal
  <2>2. IndexT'
    BY <1>1, <1>2, <1>3, EditMemTypes DEF Journal
  <2>3. Head(todo).to \in Consumers /\ Head(todo).loc \in Location
    BY <1>2, <1>3 DEF Journal, Edit
  <2>4. DiskT'
    BY <1>1, <1>3, <2>3 DEF Journal, DiskT
  <2>5. OperT' /\ (pc \in Places)'
    BY <1>1, <1>2, <1>3 DEF Journal, OperT
  <2>6. Phase'
    BY <1>1, <1>3 DEF Journal, Phase, Opening, Pushing
  <2> QED BY <2>1, <2>2, <2>4, <2>5, <2>6, Regrouped
<1>4. CASE JournalEnd
  <2>1. DiskT' /\ IndexT' /\ QueueT' /\ OperT' /\ CountT' /\ HistoryT'
    BY <1>1, <1>4, Kept DEF JournalEnd
  <2>2. (pc \in Places)'
    BY <1>1, <1>4 DEF JournalEnd, OperT
  <2>3. Phase'
    BY <1>1, <1>4 DEF JournalEnd, Phase, Opening, Pushing, disk, oper
  <2> QED BY <2>1, <2>2, <2>3, Regrouped
<1>5. CASE FailWrite
  <2>1. DiskT'
    BY <1>1, <1>5, Kept DEF FailWrite
  <2>2. CountT' /\ HistoryT'
    <3>1. CountT'
      BY <1>1, <1>5, BucketAssumption DEF FailWrite, CountT
    <3>2. Cut \subseteq Reasons
      BY DEF Cut, Reasons
    <3>3. known' = known \cup Cut \cup {IF then = "forked" THEN "failedFork" ELSE "failedWrite"}
      BY <1>5 DEF FailWrite
    <3>4. known' \subseteq Reasons
      BY <1>1, <3>2, <3>3 DEF HistoryT, Reasons
    <3>5. HistoryT'
      BY <1>1, <1>5, <3>4 DEF FailWrite, HistoryT
    <3> QED BY <3>1, <3>5
  <2>3. todo # <<>> /\ pc = "journal"
    BY <1>5 DEF FailWrite
  <2>4. EditMem(Head(todo)) => IndexT'
    BY <1>1, <1>2, <2>3, EditMemTypes
  <2>5. CASE then = "pushed" /\ EditMem(Head(todo)) /\ PushOver /\ UNCHANGED queue
    <3>1. OperT' /\ (pc \in Places)' /\ QueueT'
      BY <1>1, <2>5, Kept, NoneType DEF PushOver, OperT, Places
    <3>2. Phase'
      BY <1>1, <2>1, <2>3, <2>5 DEF PushOver, Phase, Opening, Pushing, DiskT
    <3> QED BY <2>1, <2>2, <2>4, <2>5, <3>1, <3>2, Regrouped
  <2>6. CASE EditMem(Head(todo)) /\ Return("idle") /\ UNCHANGED queue
    BY <1>1, <2>1, <2>2, <2>4, <2>6, Kept, ReturnTypes, ReturnPhase, Regrouped
  <2>7. CASE OpenFails
    <3>1. IndexT' /\ QueueT' /\ (Return("idle") \/ Return("down"))
      BY <1>1, <2>7, Kept, ForgetTypes DEF OpenFails, QueueT
    <3> QED BY <2>1, <2>2, <3>1, ReturnTypes, ReturnPhase, Regrouped
  <2>8. CASE /\ then \in {"deleted", "failed"} /\ EditMem(Head(todo))
             /\ todo' = Tail(todo) /\ then' = "failed"
             /\ UNCHANGED <<pc, after, cur, call, batch, wrote, rd, reading, queue>>
    <3>1. OperT' /\ (pc \in Places)' /\ QueueT'
      BY <1>1, <1>2, <2>3, <2>8, Kept DEF OperT, Places
    <3>2. Phase'
      BY <1>1, <1>5, <2>3, <2>8 DEF FailWrite, Phase, Opening, Pushing, disk
    <3> QED BY <2>1, <2>2, <2>4, <2>8, <3>1, <3>2, Regrouped
  <2> QED BY <1>5, <2>5, <2>6, <2>7, <2>8 DEF FailWrite
<1>6. CASE Failed
  <2>1. DiskT' /\ IndexT' /\ QueueT' /\ CountT' /\ HistoryT'
    BY <1>1, <1>6, Kept DEF Failed
  <2> QED BY <1>6, <2>1, ReturnTypes, ReturnPhase, Regrouped DEF Failed
<1> QED BY <1>3, <1>4, <1>5, <1>6

\* The arguments of a Push.
LEMMA GivenTypes ==
  ASSUME CountT, NEW b \in Batches, Given(b)
  PROVE  batch' \in Seq(Item) /\ batch' # <<>> /\ nextId' \in 0 .. MaxItems
<1>1. b \in Seq(Keys) /\ b # <<>> /\ Len(b) \in Nat
  BY BucketAssumption
<1>2. nextId \in Nat /\ MaxItems \in Nat
  BY BucketAssumption DEF CountT
<1>3. ASSUME NEW i \in 1 .. Len(b) PROVE [key |-> b[i], id |-> nextId + i - 1] \in Item
  <2>1. b[i] \in Keys /\ nextId + i - 1 \in Nat
    BY <1>1, <1>2
  <2> QED BY <2>1 DEF Item
<1>4. batch' \in Seq(Item) /\ Len(batch') = Len(b)
  BY <1>1, <1>3 DEF Given
<1> QED BY <1>1, <1>2, <1>4 DEF Given

\* The location of the items of a Push, and the edits that it leads to.
LEMMA PushLocType ==
  ASSUME DiskT, OperT, Phase, pc = "push", wrote = Len(batch)
  PROVE  PushLoc \in Location
<1>1. batch \in Seq(Item) /\ vlog \in Seq(Item) /\ batch # <<>> /\ Len(batch) <= Len(vlog)
  BY DEF DiskT, OperT, Phase
<1>2. 1 \in 1 .. Len(batch)
  BY <1>1
<1>3. batch[1].key \in Keys
  BY <1>1, <1>2, ItemKey
<1>4. Len(vlog) - Len(batch) \in Nat /\ Len(batch) \in Nat
  BY <1>1
<1> QED BY <1>3, <1>4 DEF PushLoc, Location

LEMMA PushEditsType ==
  ASSUME IndexT, PushLoc \in Location, NEW q \in SetToSeqs(Receivers)
  PROVE  [i \in 1 .. Len(q) |-> EditOf(Both, q[i], PushLoc)] \in Seq(Edit)
<1>1. IsFiniteSet(Consumers)
  BY BucketAssumption, FS_AddElement DEF Consumers
<1>2. loaded \in SUBSET Consumers
  BY DEF IndexT
<1>3. IsFiniteSet(loaded)
  BY <1>1, <1>2, FS_Subset
<1>4. Cardinality(loaded) \in Nat
  BY <1>3, FS_CardinalityType
<1>5. q \in [1 .. Cardinality(loaded) -> loaded]
  BY DEF SetToSeqs, Receivers
<1>6. Len(q) \in Nat /\ \A i \in 1 .. Len(q) : q[i] \in Consumers
  BY <1>2, <1>4, <1>5
<1>7. Both \in SUBSET {"mem", "log"}
  BY DEF Both
<1>8. \A i \in 1 .. Len(q) : EditOf(Both, q[i], PushLoc) \in Edit
  BY <1>6, <1>7, EditType
<1> QED BY <1>6, <1>8

\* Push.
LEMMA PushTypes ==
    ASSUME TypeInv, Push \/ TxPush \/ WriteItem \/ PushIndex \/ PushDone
    PROVE  TypeInv'
<1>1. /\ DiskT /\ IndexT /\ QueueT /\ pc \in Places /\ OperT /\ CountT /\ HistoryT /\ Phase
  BY Groups DEF TypeInv
<1>2. CASE Push \/ TxPush
  <2>1. DiskT' /\ IndexT' /\ QueueT' /\ HistoryT'
    BY <1>1, <1>2, Kept DEF Push, TxPush
  <2>2. PICK b \in Batches : Given(b)
    BY <1>2 DEF Push, TxPush
  <2>3. batch' \in Seq(Item) /\ batch' # <<>> /\ nextId' \in 0 .. MaxItems
    BY <1>1, <2>2, GivenTypes
  <2>4. CountT'
    BY <1>1, <1>2, <2>3 DEF Push, TxPush, CountT
  <2>5. wrote = 0 /\ wrote' = 0
    BY <1>1, <1>2 DEF Push, TxPush, Phase, Pushing
  <2>6. /\ after' \in {"idle", "push"} /\ pc' \in {"push", "open"}
        /\ after' = "push" => pc' = "open"
    BY <1>1, <1>2 DEF Push, TxPush, WhenOpen, Phase, Opening
  <2>7. wrote' \in 0 .. Len(batch') /\ wrote' <= Len(vlog')
    BY <2>1, <2>3, <2>5 DEF DiskT
  <2>8. OperT' /\ (pc \in Places)'
    BY <1>1, <1>2, <2>3, <2>6, <2>7 DEF Push, TxPush, OperT, Places
  <2>9. then' = then
    BY <1>2 DEF Push, TxPush
  <2>10. Phase'
    BY <1>1, <2>3, <2>5, <2>6, <2>7, <2>9 DEF Phase, Opening, Pushing
  <2> QED BY <2>1, <2>4, <2>8, <2>10, Regrouped
<1>3. CASE WriteItem
  <2>1. IndexT' /\ QueueT' /\ CountT'
    BY <1>1, <1>3, Kept DEF WriteItem
  <2>2. batch \in Seq(Item) /\ wrote \in 0 .. Len(batch) /\ wrote < Len(batch)
    BY <1>1, <1>3 DEF WriteItem, OperT
  <2>3. wrote + 1 \in 1 .. Len(batch)
    BY <2>2
  <2>4. batch[wrote + 1] \in Item
    BY <2>2, <2>3, ItemKey
  <2>5. DiskT' /\ Len(vlog') = Len(vlog) + 1
    BY <1>1, <1>3, <2>4 DEF WriteItem, DiskT
  <2>6. OperT' /\ (pc \in Places)'
    BY <1>1, <1>3, <2>2, <2>3 DEF WriteItem, OperT
  <2>7. may' \in [Consumers -> SUBSET Item]
    BY <1>1, <1>3, <2>4 DEF WriteItem, HistoryT
  <2>8. HistoryT'
    BY <1>1, <1>3, <2>7 DEF WriteItem, HistoryT
  <2>9. wrote' <= Len(vlog')
    BY <1>1, <1>3, <2>2, <2>5 DEF WriteItem, Phase, DiskT
  <2>10. Phase'
    BY <1>1, <1>3, <2>9 DEF WriteItem, Phase, Opening, Pushing
  <2> QED BY <2>1, <2>5, <2>6, <2>8, <2>10, Regrouped
<1>4. CASE PushIndex
  <2>1. DiskT' /\ QueueT' /\ CountT' /\ HistoryT'
    BY <1>1, <1>4, Kept DEF PushIndex
  <2>2. PushLoc \in Location
    BY <1>1, <1>4, PushLocType DEF PushIndex
  <2>3. \E q \in SetToSeqs(Receivers) :
            Write([i \in 1 .. Len(q) |-> EditOf(Both, q[i], PushLoc)], "pushed")
    BY <1>4 DEF PushIndex
  <2>4. todo' \in Seq(Edit) /\ then' = "pushed" /\ pc' = "journal"
    BY <1>1, <2>2, <2>3, PushEditsType DEF Write
  <2>5. IndexT' /\ OperT' /\ (pc \in Places)'
    BY <1>1, <1>4, <2>4 DEF PushIndex, IndexT, OperT, Places
  <2>6. Phase'
    BY <1>1, <1>4, <2>4 DEF PushIndex, Phase, Opening, Pushing, disk
  <2> QED BY <2>1, <2>5, <2>6, Regrouped
<1>5. CASE PushDone
  <2>1. DiskT' /\ IndexT' /\ QueueT' /\ CountT'
    BY <1>1, <1>5, Kept DEF PushDone
  <2>2. OperT' /\ (pc \in Places)'
    BY <1>1, <1>5, NoneType DEF PushDone, PushOver, OperT, Places
  <2>3. ItemsOf(batch) \subseteq Item
    BY <1>1, ItemsOfType DEF OperT
  <2>4. HistoryT'
    BY <1>1, <1>5, <2>3 DEF PushDone, HistoryT
  <2>5. Phase'
    BY <1>1, <1>5, <2>1 DEF PushDone, PushOver, Phase, Opening, Pushing, DiskT
  <2> QED BY <2>1, <2>2, <2>4, <2>5, Regrouped
<1> QED BY <1>2, <1>3, <1>4, <1>5

\* Read.
LEMMA ReadTypes ==
    ASSUME TypeInv,
           \/ Read \/ ReadFirst \/ ReadNext \/ ReadServe
           \/ Pop \/ Popped \/ PeekOnly \/ CallbackErr \/ Reap
    PROVE  TypeInv'
<1>1. /\ DiskT /\ IndexT /\ QueueT /\ pc \in Places /\ OperT /\ CountT /\ HistoryT /\ Phase
  BY Groups DEF TypeInv
<1>2. call.who \in Consumers /\ call.n \in Nat /\ rd.out \in Seq(Item) /\ rd.iters \in Seq(Iter)
      /\ rd.pos \in Nat
  BY <1>1 DEF OperT
<1>3. ItemsOf(rd.out) \subseteq Item
  BY <1>2, ItemsOfType
<1>4. CASE Read
  <2>1. DiskT' /\ IndexT' /\ QueueT' /\ CountT' /\ HistoryT'
    BY <1>1, <1>4, Kept DEF Read
  <2>2. call' \in [who : Consumers, n : Nat, lo : Nat, hi : Nat]
    <3>1. PICK c \in forks \cup {Main}, n \in 1 .. MaxRead :
              call' = [NoCall EXCEPT !.who = c, !.n = n]
      BY <1>4 DEF Read
    <3>2. c \in Consumers /\ n \in Nat
      BY <1>1, BucketAssumption DEF QueueT, Consumers
    <3> QED BY <3>1, <3>2, NoneType
  <2>3. /\ after' \in {"idle", "read"} /\ pc' \in {"read", "open"}
        /\ after' = "read" => pc' = "open"
    BY <1>1, <1>4 DEF Read, WhenOpen, Phase, Opening
  <2>4. OperT' /\ (pc \in Places)'
    BY <1>1, <1>4, <2>2, <2>3 DEF Read, OperT, Places
  <2>5. Phase'
    BY <1>1, <1>4, <2>3 DEF Read, Phase, Opening, Pushing, disk
  <2> QED BY <2>1, <2>4, <2>5, Regrouped
<1>5. CASE ReadFirst
  <2>1. DiskT' /\ IndexT' /\ QueueT' /\ CountT' /\ HistoryT'
    BY <1>1, <1>5, Kept DEF ReadFirst
  <2>2. PICK r \in PeekFirst(vlog, mem[call.who]) :
            rd' = [NoRead EXCEPT !.iters = r[1], !.pos = r[2]]
    BY <1>5 DEF ReadFirst
  <2>3. vlog \in Seq(Item) /\ mem[call.who] \in Seq(Location)
    BY <1>1, <1>2 DEF DiskT, IndexT
  <2>4. /\ r[1] \in Seq(Iter) /\ HeapOrder(r[1]) /\ Inside(vlog, r[1])
        /\ r[2] \in Nat /\ r[2] >= 1
    BY <2>3, PeekFirstType
  <2>5. rd' = [iters |-> r[1], pos |-> r[2], out |-> <<>>]
    BY <2>2 DEF NoRead
  <2>6. rd' \in [iters : Seq(Iter), pos : Nat, out : Seq(Item)]
    BY <2>4, <2>5, NoneType
  <2>7. OperT' /\ (pc \in Places)'
    BY <1>1, <1>5, <2>6 DEF ReadFirst, OperT, Places
  <2>8. rd'.iters = r[1] /\ rd'.pos = r[2] /\ vlog' = vlog
    BY <1>5, <2>5 DEF ReadFirst, disk
  <2>9. HeapOrder(rd'.iters) /\ rd'.pos >= 1 /\ Inside(vlog', rd'.iters)
    BY <2>4, <2>8
  <2>10. Phase'
    BY <1>1, <1>5, <2>8, <2>9 DEF ReadFirst, Phase, Opening, Pushing
  <2> QED BY <2>1, <2>7, <2>10, Regrouped
<1>6. CASE ReadNext
  <2>1. DiskT' /\ IndexT' /\ QueueT' /\ CountT' /\ HistoryT'
    BY <1>1, <1>6, Kept DEF ReadNext
  <2>2. PICK r \in PeekNext(vlog, mem[call.who], rd.iters, rd.pos) :
            rd' = [iters |-> r[1], pos |-> r[2],
                   out |-> Append(rd.out, vlog[rd.iters[1].off + 1])]
    BY <1>6 DEF ReadNext
  <2>3. vlog \in Seq(Item) /\ mem[call.who] \in Seq(Location)
    BY <1>1, <1>2 DEF DiskT, IndexT
  <2>4. /\ rd.iters # <<>> /\ HeapOrder(rd.iters) /\ rd.pos >= 1 /\ Inside(vlog, rd.iters)
    BY <1>1, <1>6 DEF ReadNext, PeekMore, Phase
  <2>5. /\ r[1] \in Seq(Iter) /\ HeapOrder(r[1]) /\ Inside(vlog, r[1])
        /\ r[2] \in Nat /\ r[2] >= 1
    BY <1>2, <2>3, <2>4, PeekNextType
  <2>6. rd.iters[1].off + 1 \in 1 .. Len(vlog)
    <3>1. 1 \in DOMAIN rd.iters /\ rd.iters[1] \in Iter
      BY <1>2, <2>4
    <3>2. rd.iters[1].off \in Nat /\ rd.iters[1].off < Len(vlog)
      BY <2>4, <3>1, IterFields DEF Inside
    <3> QED BY <2>3, <3>2
  <2>7. vlog[rd.iters[1].off + 1] \in Item
    BY <2>3, <2>6, ItemKey
  <2>8. rd' \in [iters : Seq(Iter), pos : Nat, out : Seq(Item)]
    BY <1>2, <2>2, <2>5, <2>7
  <2>9. OperT' /\ (pc \in Places)'
    BY <1>1, <1>6, <2>8 DEF ReadNext, OperT
  <2>10. rd'.iters = r[1] /\ rd'.pos = r[2] /\ vlog' = vlog
    BY <1>6, <2>2 DEF ReadNext, disk
  <2>11. HeapOrder(rd'.iters) /\ rd'.pos >= 1 /\ Inside(vlog', rd'.iters)
    BY <2>5, <2>10
  <2>12. Phase'
    BY <1>1, <1>6, <2>10, <2>11 DEF ReadNext, Phase, Opening, Pushing
  <2> QED BY <2>1, <2>9, <2>12, Regrouped
<1>7. CASE ReadServe
  <2>1. DiskT' /\ IndexT' /\ QueueT' /\ CountT' /\ HistoryT'
    BY <1>1, <1>7, Kept DEF ReadServe
  <2>2. OperT' /\ (pc \in Places)'
    BY <1>1, <1>7 DEF ReadServe, OperT, Places
  <2>3. Phase'
    BY <1>1, <1>7 DEF ReadServe, Phase, Opening, Pushing, disk
  <2> QED BY <2>1, <2>2, <2>3, Regrouped
<1>8. CASE Pop
  <2>1. DiskT' /\ IndexT' /\ QueueT' /\ CountT'
    BY <1>1, <1>8, Kept DEF Pop
  <2>2. PopEdits(call.who, rd.iters) \in Seq(Edit)
    BY <1>2, PopEditsType
  <2>3. OperT' /\ (pc \in Places)'
    BY <1>1, <1>8, <2>2 DEF Pop, Write, OperT, Places
  <2>4. HistoryT'
    BY <1>1, <1>2, <1>3, <1>8 DEF Pop, HistoryT
  <2>5. Phase'
    BY <1>1, <1>8 DEF Pop, Write, Phase, Opening, Pushing, disk
  <2> QED BY <2>1, <2>3, <2>4, <2>5, Regrouped
<1>9. CASE Popped \/ PeekOnly
  <2>1. DiskT' /\ IndexT' /\ QueueT' /\ OperT' /\ CountT'
    BY <1>1, <1>9, Kept DEF Popped, PeekOnly
  <2>2. HistoryT' /\ (pc \in Places)'
    BY <1>1, <1>9 DEF Popped, PeekOnly, history, HistoryT, Places
  <2>3. Phase'
    BY <1>1, <1>9 DEF Popped, PeekOnly, Phase, Opening, Pushing, disk, oper
  <2> QED BY <2>1, <2>2, <2>3, Regrouped
<1>10. CASE CallbackErr
  <2>1. DiskT' /\ IndexT' /\ QueueT' /\ CountT' /\ HistoryT'
    BY <1>1, <1>10, Kept DEF CallbackErr
  <2> QED BY <1>10, <2>1, ReturnTypes, ReturnPhase, Regrouped DEF CallbackErr
<1>11. CASE Reap
  <2>1. DiskT' /\ CountT' /\ HistoryT'
    BY <1>1, <1>11, Kept DEF Reap
  <2>2. IndexT' /\ QueueT' /\ (Return("idle") \/ Return("rmIdx"))
    BY <1>1, <1>11, Kept, ForgetTypes DEF Reap, DropBucket, QueueT, queue
  <2> QED BY <2>1, <2>2, ReturnTypes, ReturnPhase, Regrouped
<1> QED BY <1>4, <1>5, <1>6, <1>7, <1>8, <1>9, <1>10, <1>11

\* Delete and Clear.
LEMMA DeleteTypes ==
    ASSUME TypeInv, Delete \/ DeleteBegin \/ Deleted \/ Clear
    PROVE  TypeInv'
<1>1. /\ DiskT /\ IndexT /\ QueueT /\ pc \in Places /\ OperT /\ CountT /\ HistoryT /\ Phase
  BY Groups DEF TypeInv
<1>2. call.who \in Consumers /\ call.lo \in Nat /\ call.hi \in Nat
  BY <1>1 DEF OperT
<1>3. CASE Delete
  <2>1. DiskT' /\ IndexT' /\ QueueT' /\ CountT' /\ HistoryT'
    BY <1>1, <1>3, Kept DEF Delete
  <2>2. call' \in [who : Consumers, n : Nat, lo : Nat, hi : Nat]
    <3>1. PICK c \in forks \cup {Main}, r \in Ranges :
              call' = [NoCall EXCEPT !.who = c, !.lo = r[1], !.hi = r[2]]
      BY <1>3 DEF Delete
    <3>2. c \in Consumers /\ r[1] \in Nat /\ r[2] \in Nat
      BY <1>1, BucketAssumption DEF QueueT, Consumers
    <3> QED BY <3>1, <3>2, NoneType
  <2>3. /\ after' \in {"idle", "delete"} /\ pc' \in {"delete", "open"}
        /\ after' = "delete" => pc' = "open"
    BY <1>1, <1>3 DEF Delete, WhenOpen, Phase, Opening
  <2>4. OperT' /\ (pc \in Places)'
    BY <1>1, <1>3, <2>2, <2>3 DEF Delete, OperT, Places
  <2>5. Phase'
    BY <1>1, <1>3, <2>3 DEF Delete, Phase, Opening, Pushing, disk
  <2> QED BY <2>1, <2>4, <2>5, Regrouped
<1>4. CASE DeleteBegin
  <2>1. DiskT' /\ IndexT' /\ QueueT' /\ CountT'
    BY <1>1, <1>4, Kept DEF DeleteBegin
  <2>2. DeleteEdits(call.who, call.lo, call.hi) \in Seq(Edit)
    BY <1>1, <1>2, DeleteEditsType DEF DiskT, IndexT
  <2>3. OperT' /\ (pc \in Places)'
    BY <1>1, <1>4, <2>2 DEF DeleteBegin, Write, OperT, Places
  <2>4. HistoryT'
    BY <1>1, <1>2, <1>4 DEF DeleteBegin, HistoryT, Reasons
  <2>5. Phase'
    BY <1>1, <1>4 DEF DeleteBegin, Write, Phase, Opening, Pushing, disk
  <2> QED BY <2>1, <2>3, <2>4, <2>5, Regrouped
<1>5. CASE Deleted
  <2>1. DiskT' /\ IndexT' /\ QueueT' /\ OperT' /\ CountT'
    BY <1>1, <1>5, Kept DEF Deleted
  <2>2. HistoryT' /\ (pc \in Places)'
    BY <1>1, <1>5 DEF Deleted, HistoryT, Places
  <2>3. Phase'
    BY <1>1, <1>5 DEF Deleted, Phase, Opening, Pushing, disk, oper
  <2> QED BY <2>1, <2>2, <2>3, Regrouped
<1>6. CASE Clear
  <2>1. DiskT' /\ IndexT' /\ CountT' /\ Return("rmIdx")
    BY <1>1, <1>6, Kept, ForgetTypes DEF Clear, DropBucket
  <2>2. QueueT' /\ HistoryT'
    BY <1>1, <1>6 DEF Clear, DropBucket, QueueT, HistoryT
  <2> QED BY <2>1, <2>2, ReturnTypes, ReturnPhase, Regrouped
<1> QED BY <1>3, <1>4, <1>5, <1>6

LEMMA ForkMadeTypes ==
  ASSUME HistoryT, forks \subseteq Forks, NEW src \in Consumers, NEW dst \in Forks,
         ForkMade(src, dst)
  PROVE  /\ forks' \subseteq Forks /\ made' \subseteq Forks
         /\ must' \in [Consumers -> SUBSET Item] /\ may' \in [Consumers -> SUBSET Item]
BY DEF ForkMade, HistoryT, Consumers

\* Forks.
LEMMA ForkTypes ==
    ASSUME TypeInv, ForkListed \/ Fork \/ Forked \/ RemoveFork, OpenInv
    PROVE  TypeInv'
<1>1. /\ DiskT /\ IndexT /\ QueueT /\ pc \in Places /\ OperT /\ CountT /\ HistoryT /\ Phase
  BY Groups DEF TypeInv
<1>2. CASE ForkListed
  <2>1. DiskT' /\ IndexT' /\ OperT' /\ CountT'
    BY <1>1, <1>2, Kept DEF ForkListed
  <2>2. PICK src \in forks \cup {Main}, dst \in Forks \ forks : ForkMade(src, dst)
    BY <1>2 DEF ForkListed
  <2>3. src \in Consumers
    BY <1>1 DEF QueueT, Consumers
  <2>4. QueueT' /\ HistoryT' /\ (pc \in Places)'
    BY <1>1, <1>2, <2>2, <2>3, ForkMadeTypes DEF ForkListed, QueueT, HistoryT
  <2>5. Phase'
    BY <1>1, <1>2 DEF ForkListed, Phase, Opening, Pushing, disk, oper
  <2> QED BY <2>1, <2>4, <2>5, Regrouped
<1>3. CASE Fork
  <2>1. IndexT' /\ QueueT' /\ CountT' /\ HistoryT'
    BY <1>1, <1>3, Kept DEF Fork
  <2>2. PICK src \in forks \cup {Main}, dst \in Forks \ forks :
            /\ call' = [NoCall EXCEPT !.who = src] /\ cur' = dst
            /\ exist' = exist \cup {dst}
            /\ \/ tree = "open" /\ Write(EditsOf({"log"}, dst, mem[src]), "forked")
               \/ /\ tree = "nil" /\ dst \notin exist /\ src \in exist
                  /\ Write(EditsOf({"log"}, dst, file[src]), "forked")
    BY <1>3 DEF Fork
  <2>3. src \in Consumers /\ dst \in Consumers
    BY <1>1 DEF QueueT, Consumers
  <2>4. call' \in [who : Consumers, n : Nat, lo : Nat, hi : Nat]
    BY <2>2, <2>3, NoneType
  <2>5. /\ EditsOf({"log"}, dst, mem[src]) \in Seq(Edit)
        /\ EditsOf({"log"}, dst, file[src]) \in Seq(Edit)
    BY <1>1, <2>3, EditsOfType DEF DiskT, IndexT
  <2>6. todo' \in Seq(Edit) /\ then' = "forked" /\ pc' = "journal"
    BY <2>2, <2>5 DEF Write
  <2>7. DiskT' /\ (pc \in Places)'
    BY <1>1, <1>3, <2>2, <2>3, <2>6 DEF Fork, DiskT, Places
  <2>8. OperT'
    BY <1>1, <1>3, <2>2, <2>3, <2>4, <2>6 DEF Fork, OperT, Places
  <2>9. Phase'
    BY <1>1, <1>3, <2>6 DEF Fork, Phase, Opening, Pushing
  <2> QED BY <2>1, <2>7, <2>8, <2>9, Regrouped
<1>4. CASE Forked
  <2>1. cur \in Forks
    BY <1>4 DEF Forked, OpenInv, Indexes, Forking
  <2>2. cur \in Consumers /\ call.who \in Consumers
    BY <1>1 DEF OperT
  <2>3. DiskT' /\ CountT' /\ OperT' /\ (pc \in Places)' /\ Phase'
    BY <1>1, <1>4, Kept, ReturnTypes, ReturnPhase DEF Forked
  <2>4. IndexT'
    BY <1>1, <1>4, <2>2 DEF Forked, IndexT
  <2>5. known' \subseteq Reasons
    BY <1>1, <1>4 DEF Forked, HistoryT, Reasons
  <2>6. QueueT' /\ HistoryT'
    BY <1>1, <1>4, <2>1, <2>2, <2>5, ForkMadeTypes DEF Forked, QueueT, HistoryT
  <2> QED BY <2>3, <2>4, <2>6, Regrouped
<1>5. CASE RemoveFork
  <2>1. PICK f \in forks :
          /\ forks' = forks \ {f} /\ made' = made \ {f}
          /\ must' = [must EXCEPT ![f] = {}] /\ may' = [may EXCEPT ![f] = {}]
          /\ \/ /\ tree = "absent" /\ UNCHANGED <<exist, file, index, tree, pc, oper>>
             \/ /\ tree # "absent"
                /\ RmIndexLog(f)
                /\ \/ tree = "open" /\ AllEmpty(loaded \ {f}) /\ DropBucket
                   \/ /\ tree = "open" /\ ~AllEmpty(loaded \ {f})
                      /\ loaded' = loaded \ {f} /\ seen' = seen \ {f}
                      /\ mem' = [mem EXCEPT ![f] = <<>>]
                      /\ UNCHANGED <<blank, tree, pc, oper>>
                   \/ tree = "nil" /\ UNCHANGED <<index, tree, pc, oper>>
    BY <1>5 DEF RemoveFork
  <2>2. CountT' /\ dir' = dir /\ dat' = dat /\ vlog' = vlog /\ crashed' = crashed /\ known' = known
        /\ pc = "idle"
    BY <1>1, <1>5, Kept DEF RemoveFork
  <2>3. DiskT'
    <3>1. UNCHANGED <<exist, file>> \/ RmIndexLog(f)
      BY <2>1
    <3>2. f \in Consumers
      BY <1>1 DEF QueueT, Consumers
    <3>3. exist' \subseteq Consumers
      BY <1>1, <3>1 DEF RmIndexLog, DiskT
    <3>4. file' \in [Consumers -> Seq(Location)]
      <4>1. CASE file' = file
        BY <1>1, <4>1 DEF DiskT
      <4>2. CASE file' = [file EXCEPT ![f] = <<>>]
        BY <1>1, <3>2, <4>2 DEF DiskT
      <4> QED BY <3>1, <4>1, <4>2 DEF RmIndexLog
    <3> QED BY <1>1, <2>2, <3>3, <3>4 DEF DiskT
  <2>4. HistoryT'
    BY <1>1, <2>1, <2>2 DEF HistoryT
  <2>5. QueueT'
    BY <1>1, <2>1 DEF QueueT, DropBucket
  <2>6. IndexT'
    <3>1. CASE UNCHANGED index
      BY <1>1, <3>1, Kept
    <3>2. CASE DropBucket
      BY <3>2, ForgetTypes DEF DropBucket
    <3>3. CASE /\ loaded' = loaded \ {f} /\ seen' = seen \ {f}
               /\ mem' = [mem EXCEPT ![f] = <<>>] /\ UNCHANGED blank
      <4>1. f \in Consumers
        BY <1>1 DEF QueueT, Consumers
      <4> QED BY <1>1, <3>3, <4>1 DEF IndexT
    <3> QED BY <2>1, <3>1, <3>2, <3>3
  <2>7. CASE DropBucket
    BY <2>2, <2>3, <2>4, <2>5, <2>6, <2>7, ReturnTypes, ReturnPhase, Regrouped DEF DropBucket
  <2>8. CASE UNCHANGED <<pc, oper>>
    <3>1. OperT' /\ (pc \in Places)'
      BY <1>1, <2>8, Kept
    <3>2. Phase'
      BY <1>1, <2>2, <2>8 DEF Phase, Opening, Pushing, oper
    <3> QED BY <2>2, <2>3, <2>4, <2>5, <2>6, <3>1, <3>2, Regrouped
  <2> QED BY <2>1, <2>7, <2>8
<1> QED BY <1>2, <1>3, <1>4, <1>5

-----------------------------------------------------------------------------

LEMMA TypeStep == TypeInv /\ OpenInv /\ [Next]_vars => TypeInv'
<1> SUFFICES ASSUME TypeInv, OpenInv, [Next]_vars PROVE TypeInv'
  OBVIOUS
<1>1. CASE UNCHANGED vars
  <2>1. DiskT /\ IndexT /\ QueueT /\ pc \in Places /\ OperT /\ CountT /\ HistoryT /\ Phase
    BY Groups DEF TypeInv
  <2>2. /\ UNCHANGED disk /\ UNCHANGED index /\ UNCHANGED queue /\ pc' = pc /\ UNCHANGED oper
        /\ UNCHANGED counters /\ UNCHANGED history
    BY <1>1 DEF vars
  <2>3. Phase'
    BY <2>1, <2>2 DEF Phase, Opening, Pushing, disk, oper
  <2> QED BY <2>1, <2>2, <2>3, Kept, Regrouped
<1> QED BY <1>1, QueueTypes, OpeningTypes, RemovingTypes, JournalTypes, PushTypes, ReadTypes,
           DeleteTypes, ForkTypes
        DEF Next, Step, Environment

\* Every variable of a bucket has its type in every behaviour.  This is where
\* the code could compute a location before the value log, index the log past
\* its end (peek) or subtract lengths below zero (Delete), for any forks,
\* batches, ranges and interruptions.
THEOREM BucketTypes == Spec => []TypeOK
<1>1. Init => TypeInv /\ OpenInv
  BY InitTypes, InitOpen
<1>2. TypeInv => TypeOK
  BY DEF TypeInv
<1> QED BY <1>1, <1>2, TypeStep, OpenStep, PTL DEF Spec

-----------------------------------------------------------------------------
(* Where the program is, and what then is on disk and in memory.           *)

\* The edits of p are being made, or are made.
Doing(p) == pc = p \/ (pc = "journal" /\ then = p)

\* An operation is at work on the open bucket.
Working ==
    \/ pc \in {"push", "pushed", "read", "peek", "callback", "popped", "reap", "delete",
               "deleted", "failed"}
    \/ pc = "journal" /\ then \in {"pushed", "popped", "deleted", "failed"}

\* An operation on behalf of the consumer call.who is in progress.
Serving ==
    \/ pc \in {"read", "peek", "callback", "popped", "delete", "deleted", "failed"}
    \/ pc = "journal" /\ then \in {"popped", "deleted", "failed"}
    \/ Pushing /\ reading
    \/ after \in {"read", "delete"}

Program ==
    /\ Working => tree = "open"
    /\ Forking => tree # "absent"
    /\ Serving \/ Forking => call.who \in forks \cup {Main}
    /\ pc = "failed" \/ then = "failed" => fails > 0
    /\ Forking => cur \notin forks
    /\ reading => Working
    /\ after # "idle" => tree # "open" /\ pc \notin {"down", "idle"}
    /\ pc \in {"down", "idle", "open", "openNext"} => then = "idle" /\ todo = <<>>
    /\ pc \in {"rmIdx", "rmMain", "rmDir"} => todo = <<>>
    /\ pc \in {"loaded", "regenerated", "rewritten", "pushed", "popped", "deleted", "failed",
              "forked"} => todo = <<>> /\ then = pc

LEMMA InitProgram == Init => Program
BY DEF Init, Working, Serving, Forking, Pushing, Program

LEMMA QueueProgram ==
    ASSUME OpenInv, Program, fails \in Nat, Main \notin Forks,
           Start \/ Close \/ Crash \/ CloseUnused
    PROVE  Program'
<1> USE DEF OpenInv, Control, Indexes, Loading, LoadingOne, Forking, ForksOpen, Pushing, Doing, Working, Serving, Program
<1>1. CASE Start
  BY <1>1 DEF Start, disk, index, queue, oper, counters, history
<1>2. CASE Close
  BY <1>2 DEF Close, Stop, Forget, Return, disk, index, queue, oper, counters, history
<1>3. CASE Crash
  BY <1>3 DEF Crash, Stop, Forget, Return, disk, index, queue, oper, counters, history
<1>4. CASE CloseUnused
  BY <1>4 DEF CloseUnused, Forget, disk, index, queue, oper, counters, history
<1> QED BY <1>1, <1>2, <1>3, <1>4

LEMMA OpeningProgram ==
    ASSUME OpenInv, Program, fails \in Nat, Main \notin Forks,
           Open \/ LoadIndex \/ Loaded \/ Recover \/ Rewrite \/ Rewritten \/ Reinit \/ Opened
    PROVE  Program'
<1> USE DEF OpenInv, Control, Indexes, Loading, LoadingOne, Forking, ForksOpen, Pushing, Doing, Working, Serving, Program
<1>1. CASE Open
  BY <1>1 DEF Open, disk, index, queue, oper, counters, history
<1>2. CASE LoadIndex
  BY <1>2 DEF LoadIndex, ToLoad, Write, disk, index, queue, oper, counters, history
<1>3. CASE Loaded
  BY <1>3 DEF Loaded, disk, index, queue, oper, counters, history
<1>4. CASE Recover
  BY <1>4 DEF Recover, Write, disk, index, queue, oper, counters, history
<1>5. CASE Rewrite
  BY <1>5 DEF Rewrite, Write, disk, index, queue, oper, counters, history
<1>6. CASE Rewritten
  BY <1>6 DEF Rewritten, disk, index, queue, oper, counters, history
<1>7. CASE Reinit
  BY <1>7 DEF Reinit, Forget, disk, index, queue, oper, counters, history
<1>8. CASE Opened
  BY <1>8 DEF Opened, ToLoad, FetchedForks, disk, index, queue, oper, counters, history
<1> QED BY <1>1, <1>2, <1>3, <1>4, <1>5, <1>6, <1>7, <1>8

LEMMA RemovingProgram ==
    ASSUME OpenInv, Program, fails \in Nat, Main \notin Forks,
           RmIndex \/ RmDat \/ RmMain \/ RmDir \/ RmDirFails
    PROVE  Program'
<1> USE DEF OpenInv, Control, Indexes, Loading, LoadingOne, Forking, ForksOpen, Pushing, Doing, Working, Serving, Program
<1>1. CASE RmIndex
  BY <1>1 DEF RmIndex, Named, RmIndexLog, disk, index, queue, oper, counters, history
<1>2. CASE RmDat
  BY <1>2 DEF RmDat, Named, disk, index, queue, oper, counters, history
<1>3. CASE RmMain
  BY <1>3 DEF RmMain, RmIndexLog, disk, index, queue, oper, counters, history
<1>4. CASE RmDir
  BY <1>4 DEF RmDir, Return, disk, index, queue, oper, counters, history
<1>5. CASE RmDirFails
  BY <1>5 DEF RmDirFails, OpenFails, Forget, Return, disk, index, queue, oper, counters, history
<1> QED BY <1>1, <1>2, <1>3, <1>4, <1>5

LEMMA JournalProgram ==
    ASSUME OpenInv, Program, fails \in Nat, Main \notin Forks,
           Journal \/ JournalEnd \/ FailWrite \/ Failed
    PROVE  Program'
<1> USE DEF OpenInv, Control, Indexes, Loading, LoadingOne, Forking, ForksOpen, Pushing, Doing, Working, Serving, Program
<1>1. CASE Journal
  BY <1>1 DEF Journal, EditMem, disk, index, queue, oper, counters, history
<1>2. CASE JournalEnd
  BY <1>2 DEF JournalEnd, disk, index, queue, oper, counters, history
<1>3. CASE FailWrite
  <2>1. CASE then = "pushed" /\ EditMem(Head(todo)) /\ PushOver /\ UNCHANGED queue
    BY <1>3, <2>1 DEF FailWrite, EditMem, PushOver, queue, disk, counters
  <2>2. CASE then \in {"popped", "forked"} /\ EditMem(Head(todo)) /\ Return("idle") /\ UNCHANGED queue
    BY <1>3, <2>2 DEF FailWrite, EditMem, Return, queue, disk, counters
  <2>3. CASE then = "rewritten" /\ OpenFails
    BY <1>3, <2>3 DEF FailWrite, OpenFails, Forget, Return, queue, disk, counters
  <2>4. CASE /\ then \in {"deleted", "failed"} /\ EditMem(Head(todo))
             /\ todo' = Tail(todo) /\ then' = "failed"
             /\ UNCHANGED <<pc, after, cur, call, batch, wrote, rd, reading, queue>>
    BY <1>3, <2>4 DEF FailWrite, EditMem, queue, disk, counters
  <2> HIDE DEF OpenInv, Control, Indexes, Loading, LoadingOne, Forking, ForksOpen, Pushing, Doing, Working, Serving, Program
  <2> QED BY <1>3, <2>1, <2>2, <2>3, <2>4 DEF FailWrite
<1>4. CASE Failed
  BY <1>4 DEF Failed, Return, disk, index, queue, oper, counters, history
<1> QED BY <1>1, <1>2, <1>3, <1>4

LEMMA PushProgram ==
    ASSUME OpenInv, Program, fails \in Nat, Main \notin Forks,
           Push \/ TxPush \/ WriteItem \/ PushIndex \/ PushDone
    PROVE  Program'
<1> USE DEF OpenInv, Control, Indexes, Loading, LoadingOne, Forking, ForksOpen, Pushing, Doing, Working, Serving, Program
<1>1. CASE Push
  BY <1>1 DEF Push, Given, WhenOpen, disk, index, queue, oper, counters, history
<1>2. CASE TxPush
  BY <1>2 DEF TxPush, Given, disk, index, queue, oper, counters, history
<1>3. CASE WriteItem
  BY <1>3 DEF WriteItem, disk, index, queue, oper, counters, history
<1>4. CASE PushIndex
  BY <1>4 DEF PushIndex, Write, disk, index, queue, oper, counters, history
<1>5. CASE PushDone
  BY <1>5 DEF PushDone, PushOver, disk, index, queue, oper, counters, history
<1> QED BY <1>1, <1>2, <1>3, <1>4, <1>5

LEMMA ReadProgram ==
    ASSUME OpenInv, Program, fails \in Nat, Main \notin Forks,
           Read \/ ReadFirst \/ ReadNext \/ ReadServe \/ Pop \/ Popped \/ PeekOnly \/ CallbackErr \/ Reap
    PROVE  Program'
<1> USE DEF OpenInv, Control, Indexes, Loading, LoadingOne, Forking, ForksOpen, Pushing, Doing, Working, Serving, Program
<1>1. CASE Read
  BY <1>1 DEF Read, WhenOpen, NoCall, disk, index, queue, oper, counters, history
<1>2. CASE ReadFirst
  BY <1>2 DEF ReadFirst, disk, index, queue, oper, counters, history
<1>3. CASE ReadNext
  BY <1>3 DEF ReadNext, disk, index, queue, oper, counters, history
<1>4. CASE ReadServe
  BY <1>4 DEF ReadServe, disk, index, queue, oper, counters, history
<1>5. CASE Pop
  BY <1>5 DEF Pop, Write, disk, index, queue, oper, counters, history
<1>6. CASE Popped
  BY <1>6 DEF Popped, disk, index, queue, oper, counters, history
<1>7. CASE PeekOnly
  BY <1>7 DEF PeekOnly, disk, index, queue, oper, counters, history
<1>8. CASE CallbackErr
  BY <1>8 DEF CallbackErr, Return, disk, index, queue, oper, counters, history
<1>9. CASE Reap
  BY <1>9 DEF Reap, DropBucket, Forget, Return, disk, index, queue, oper, counters, history
<1> QED BY <1>1, <1>2, <1>3, <1>4, <1>5, <1>6, <1>7, <1>8, <1>9

LEMMA ForksProgram ==
    ASSUME OpenInv, Program, fails \in Nat, Main \notin Forks,
           Delete \/ DeleteBegin \/ Deleted \/ Clear \/ ForkListed \/ Fork \/ Forked \/ RemoveFork
    PROVE  Program'
<1> USE DEF OpenInv, Control, Indexes, Loading, LoadingOne, Forking, ForksOpen, Pushing, Doing, Working, Serving, Program
<1>1. CASE Delete
  BY <1>1 DEF Delete, WhenOpen, NoCall, disk, index, queue, oper, counters, history
<1>2. CASE DeleteBegin
  BY <1>2 DEF DeleteBegin, Write, disk, index, queue, oper, counters, history
<1>3. CASE Deleted
  BY <1>3 DEF Deleted, disk, index, queue, oper, counters, history
<1>4. CASE Clear
  BY <1>4 DEF Clear, DropBucket, Forget, Return, disk, index, queue, oper, counters, history
<1>5. CASE ForkListed
  BY <1>5 DEF ForkListed, ForkMade, disk, index, queue, oper, counters, history
<1>6. CASE Fork
  BY <1>6 DEF Fork, Write, NoCall, disk, index, queue, oper, counters, history
<1>7. CASE Forked
  BY <1>7 DEF Forked, ForkMade, Return, disk, index, queue, oper, counters, history
<1>8. CASE RemoveFork
  BY <1>8 DEF RemoveFork, RmIndexLog, DropBucket, Forget, Return, disk, index, queue, oper, counters, history
<1> QED BY <1>1, <1>2, <1>3, <1>4, <1>5, <1>6, <1>7, <1>8

\* The directory, its files, and when they are known not to be there; a value
\* log that isEmpty calls empty is so, until the first items come.
OnDisk ==
    /\ ~dir => ~dat /\ exist = {}
    /\ ~dat => vlog = <<>>
    /\ tree = "open" \/ Loading => dir /\ dat
    /\ pc \in {"rmMain", "rmDir"} => ~dat
    /\ tree = "absent" /\ pc \in {"idle", "open"} => ~dat /\ Main \notin exist
    /\ pc = "rmDir" => Main \notin exist
    /\ tree = "absent" /\ Loading => blank
    /\ Doing("regenerated") \/ Doing("rewritten") \/ Doing("pushed") => ~blank
    /\ tree # "open" /\ ~Loading => ~blank
    /\ blank /\ ~Pushing => vlog = <<>>
    /\ loaded \subseteq exist /\ (LoadingOne \/ Forking => cur \in exist)
    /\ \A c \in Consumers \ exist : file[c] = <<>>

\* An index that is not in use is empty.
InMemory ==
    /\ LoadingOne => cur \notin loaded
    /\ \A c \in Consumers :
          c \notin loaded /\ ~(LoadingOne /\ c = cur) => mem[c] = <<>> /\ c \notin seen

\* The indexes that the edits of an operation are for.
Targets ==
    pc = "journal" =>
        \A j \in DOMAIN todo :
            /\ then \in {"loaded", "regenerated"} =>
                  todo[j].to = cur /\ todo[j].on \subseteq {"mem"}
            /\ then \in {"rewritten", "forked"} => todo[j].to = cur /\ todo[j].on = {"log"}
            /\ then \in {"popped", "deleted", "failed"} => todo[j].to = call.who
            /\ then = "pushed" =>
                  todo[j].to \in loaded /\ todo[j].on = Both /\ todo[j].loc.len > 0

LEMMA InitOnDisk == Init => OnDisk /\ InMemory /\ Targets
BY DEF Init, OnDisk, InMemory, Targets, Loading, LoadingOne, Forking, Doing, Pushing

LEMMA QueueOnDisk ==
    ASSUME OpenInv, Program, OnDisk, Main \in Consumers, Main \notin Forks, forks \subseteq Consumers,
           Forks \subseteq Consumers, file \in [Consumers -> Seq(Location)],
           Start \/ Close \/ Crash \/ CloseUnused
    PROVE  OnDisk'
<1> USE DEF OpenInv, Control, Indexes, Loading, LoadingOne, Forking, ForksOpen, Pushing, Doing, Working, Serving, Program, OnDisk
<1>1. CASE Start
  BY <1>1 DEF Start, disk, index, queue, oper, counters, history
<1>2. CASE Close
  BY <1>2 DEF Close, Stop, Forget, Return, disk, index, queue, oper, counters, history
<1>3. CASE Crash
  BY <1>3 DEF Crash, Stop, Forget, Return, disk, index, queue, oper, counters, history
<1>4. CASE CloseUnused
  BY <1>4 DEF CloseUnused, Forget, disk, index, queue, oper, counters, history
<1> QED BY <1>1, <1>2, <1>3, <1>4

LEMMA OpeningOnDisk ==
    ASSUME OpenInv, Program, OnDisk, Main \in Consumers, Main \notin Forks, forks \subseteq Consumers,
           Forks \subseteq Consumers, file \in [Consumers -> Seq(Location)],
           Open \/ LoadIndex \/ Loaded \/ Recover \/ Rewrite \/ Rewritten \/ Reinit \/ Opened
    PROVE  OnDisk'
<1> USE DEF OpenInv, Control, Indexes, Loading, LoadingOne, Forking, ForksOpen, Pushing, Doing, Working, Serving, Program, OnDisk
<1>1. CASE Open
  BY <1>1 DEF Open, disk, index, queue, oper, counters, history
<1>2. CASE LoadIndex
  BY <1>2 DEF LoadIndex, ToLoad, Write, disk, index, queue, oper, counters, history
<1>3. CASE Loaded
  BY <1>3 DEF Loaded, disk, index, queue, oper, counters, history
<1>4. CASE Recover
  BY <1>4 DEF Recover, Write, disk, index, queue, oper, counters, history
<1>5. CASE Rewrite
  BY <1>5 DEF Rewrite, Write, disk, index, queue, oper, counters, history
<1>6. CASE Rewritten
  BY <1>6 DEF Rewritten, disk, index, queue, oper, counters, history
<1>7. CASE Reinit
  BY <1>7 DEF Reinit, Forget, disk, index, queue, oper, counters, history
<1>8. CASE Opened
  BY <1>8 DEF Opened, ToLoad, FetchedForks, disk, index, queue, oper, counters, history
<1> QED BY <1>1, <1>2, <1>3, <1>4, <1>5, <1>6, <1>7, <1>8

LEMMA RemovingOnDisk ==
    ASSUME OpenInv, Program, OnDisk, Main \in Consumers, Main \notin Forks, forks \subseteq Consumers,
           Forks \subseteq Consumers, file \in [Consumers -> Seq(Location)],
           RmIndex \/ RmDat \/ RmMain \/ RmDir \/ RmDirFails
    PROVE  OnDisk'
<1> USE DEF OpenInv, Control, Indexes, Loading, LoadingOne, Forking, ForksOpen, Pushing, Doing, Working, Serving, Program, OnDisk
<1>1. CASE RmIndex
  BY <1>1 DEF RmIndex, Named, RmIndexLog, disk, index, queue, oper, counters, history
<1>2. CASE RmDat
  BY <1>2 DEF RmDat, Named, disk, index, queue, oper, counters, history
<1>3. CASE RmMain
  BY <1>3 DEF RmMain, RmIndexLog, disk, index, queue, oper, counters, history
<1>4. CASE RmDir
  BY <1>4 DEF RmDir, Return, disk, index, queue, oper, counters, history
<1>5. CASE RmDirFails
  BY <1>5 DEF RmDirFails, OpenFails, Forget, Return, disk, index, queue, oper, counters, history
<1> QED BY <1>1, <1>2, <1>3, <1>4, <1>5

LEMMA JournalOnDisk ==
    ASSUME OpenInv, Program, OnDisk, Main \in Consumers, Main \notin Forks, forks \subseteq Consumers,
           Forks \subseteq Consumers, file \in [Consumers -> Seq(Location)],
           JournalEnd \/ FailWrite \/ Failed
    PROVE  OnDisk'
<1> USE DEF OpenInv, Control, Indexes, Loading, LoadingOne, Forking, ForksOpen, Pushing, Doing, Working, Serving, Program, OnDisk
<1>1. CASE JournalEnd
  BY <1>1 DEF JournalEnd, disk, index, queue, oper, counters, history
<1>2. CASE FailWrite
  <2>1. CASE then = "pushed" /\ EditMem(Head(todo)) /\ PushOver /\ UNCHANGED queue
    BY <1>2, <2>1 DEF FailWrite, EditMem, PushOver, queue, disk, counters
  <2>2. CASE then \in {"popped", "forked"} /\ EditMem(Head(todo)) /\ Return("idle") /\ UNCHANGED queue
    BY <1>2, <2>2 DEF FailWrite, EditMem, Return, queue, disk, counters
  <2>3. CASE then = "rewritten" /\ OpenFails
    BY <1>2, <2>3 DEF FailWrite, OpenFails, Forget, Return, queue, disk, counters
  <2>4. CASE /\ then \in {"deleted", "failed"} /\ EditMem(Head(todo))
             /\ todo' = Tail(todo) /\ then' = "failed"
             /\ UNCHANGED <<pc, after, cur, call, batch, wrote, rd, reading, queue>>
    BY <1>2, <2>4 DEF FailWrite, EditMem, queue, disk, counters
  <2> HIDE DEF OpenInv, Control, Indexes, Loading, LoadingOne, Forking, ForksOpen, Pushing, Doing, Working, Serving, Program, OnDisk
  <2> QED BY <1>2, <2>1, <2>2, <2>3, <2>4 DEF FailWrite
<1>3. CASE Failed
  BY <1>3 DEF Failed, Return, disk, index, queue, oper, counters, history
<1> QED BY <1>1, <1>2, <1>3

LEMMA PushOnDisk ==
    ASSUME OpenInv, Program, OnDisk, Main \in Consumers, Main \notin Forks, forks \subseteq Consumers,
           Forks \subseteq Consumers, file \in [Consumers -> Seq(Location)],
           Push \/ TxPush \/ WriteItem \/ PushIndex \/ PushDone
    PROVE  OnDisk'
<1> USE DEF OpenInv, Control, Indexes, Loading, LoadingOne, Forking, ForksOpen, Pushing, Doing, Working, Serving, Program, OnDisk
<1>1. CASE Push
  BY <1>1 DEF Push, Given, WhenOpen, disk, index, queue, oper, counters, history
<1>2. CASE TxPush
  BY <1>2 DEF TxPush, Given, disk, index, queue, oper, counters, history
<1>3. CASE WriteItem
  BY <1>3 DEF WriteItem, disk, index, queue, oper, counters, history
<1>4. CASE PushIndex
  BY <1>4 DEF PushIndex, Write, disk, index, queue, oper, counters, history
<1>5. CASE PushDone
  BY <1>5 DEF PushDone, PushOver, disk, index, queue, oper, counters, history
<1> QED BY <1>1, <1>2, <1>3, <1>4, <1>5

LEMMA ReadOnDisk ==
    ASSUME OpenInv, Program, OnDisk, Main \in Consumers, Main \notin Forks, forks \subseteq Consumers,
           Forks \subseteq Consumers, file \in [Consumers -> Seq(Location)],
           Read \/ ReadFirst \/ ReadNext \/ ReadServe \/ Pop \/ Popped \/ PeekOnly \/ CallbackErr \/ Reap
    PROVE  OnDisk'
<1> USE DEF OpenInv, Control, Indexes, Loading, LoadingOne, Forking, ForksOpen, Pushing, Doing, Working, Serving, Program, OnDisk
<1>1. CASE Read
  BY <1>1 DEF Read, WhenOpen, NoCall, disk, index, queue, oper, counters, history
<1>2. CASE ReadFirst
  BY <1>2 DEF ReadFirst, disk, index, queue, oper, counters, history
<1>3. CASE ReadNext
  BY <1>3 DEF ReadNext, disk, index, queue, oper, counters, history
<1>4. CASE ReadServe
  BY <1>4 DEF ReadServe, disk, index, queue, oper, counters, history
<1>5. CASE Pop
  BY <1>5 DEF Pop, Write, disk, index, queue, oper, counters, history
<1>6. CASE Popped
  BY <1>6 DEF Popped, disk, index, queue, oper, counters, history
<1>7. CASE PeekOnly
  BY <1>7 DEF PeekOnly, disk, index, queue, oper, counters, history
<1>8. CASE CallbackErr
  BY <1>8 DEF CallbackErr, Return, disk, index, queue, oper, counters, history
<1>9. CASE Reap
  BY <1>9 DEF Reap, DropBucket, Forget, Return, disk, index, queue, oper, counters, history
<1> QED BY <1>1, <1>2, <1>3, <1>4, <1>5, <1>6, <1>7, <1>8, <1>9

LEMMA ForksOnDisk ==
    ASSUME OpenInv, Program, OnDisk, Main \in Consumers, Main \notin Forks, forks \subseteq Consumers,
           Forks \subseteq Consumers, file \in [Consumers -> Seq(Location)],
           Delete \/ DeleteBegin \/ Deleted \/ Clear \/ ForkListed \/ Fork \/ Forked \/ RemoveFork
    PROVE  OnDisk'
<1> USE DEF OpenInv, Control, Indexes, Loading, LoadingOne, Forking, ForksOpen, Pushing, Doing, Working, Serving, Program, OnDisk
<1>1. CASE Delete
  BY <1>1 DEF Delete, WhenOpen, NoCall, disk, index, queue, oper, counters, history
<1>2. CASE DeleteBegin
  BY <1>2 DEF DeleteBegin, Write, disk, index, queue, oper, counters, history
<1>3. CASE Deleted
  BY <1>3 DEF Deleted, disk, index, queue, oper, counters, history
<1>4. CASE Clear
  BY <1>4 DEF Clear, DropBucket, Forget, Return, disk, index, queue, oper, counters, history
<1>5. CASE ForkListed
  BY <1>5 DEF ForkListed, ForkMade, disk, index, queue, oper, counters, history
<1>6. CASE Fork
  BY <1>6 DEF Fork, Write, NoCall, disk, index, queue, oper, counters, history
<1>7. CASE Forked
  BY <1>7 DEF Forked, ForkMade, Return, disk, index, queue, oper, counters, history
<1>8. CASE RemoveFork
  BY <1>8 DEF RemoveFork, RmIndexLog, DropBucket, Forget, Return, disk, index, queue, oper, counters, history
<1> QED BY <1>1, <1>2, <1>3, <1>4, <1>5, <1>6, <1>7, <1>8

LEMMA JournalKeepsDisk ==
    ASSUME OpenInv, Program, OnDisk, Targets, Journal, todo \in Seq(Edit),
           file \in [Consumers -> Seq(Location)]
    PROVE  OnDisk'
<1>1. /\ Head(todo) = todo[1] /\ 1 \in DOMAIN todo /\ pc = "journal" /\ UNCHANGED <<dir, dat, vlog, exist, loaded, blank>>
      /\ UNCHANGED <<queue, pc, then, cur, call>>
      /\ \/ file' = [file EXCEPT ![Head(todo).to] = Append(@, Head(todo).loc)] /\ "log" \in Head(todo).on
         \/ file' = file
  BY DEF Journal, EditMem
<1>2. "log" \in Head(todo).on => Head(todo).to \in exist
  BY <1>1 DEF Targets, OpenInv, Control, Indexes, Loading, LoadingOne, Forking, ForksOpen, Working, Serving,
              Program, OnDisk
<1>3. \A c \in Consumers \ exist : file'[c] = <<>>
  BY <1>1, <1>2 DEF OnDisk
<1> QED BY <1>1, <1>3 DEF OnDisk, Loading, LoadingOne, Forking, Doing, Pushing, queue

LEMMA QueueInMemory ==
    ASSUME OpenInv, Program, OnDisk, InMemory, Targets, Main \in Consumers, Main \notin Forks, todo \in Seq(Edit),
           forks \subseteq Consumers, Forks \subseteq Consumers, mem \in [Consumers -> Seq(Location)],
           Start \/ Close \/ Crash \/ CloseUnused
    PROVE  InMemory'
<1> USE DEF OpenInv, Control, Indexes, Loading, LoadingOne, Forking, ForksOpen, Pushing, Doing, Working, Serving, Program, InMemory
<1>1. CASE Start
  BY <1>1 DEF Start, disk, index, queue, oper, counters, history
<1>2. CASE Close
  BY <1>2 DEF Close, Stop, Forget, Return, disk, index, queue, oper, counters, history
<1>3. CASE Crash
  BY <1>3 DEF Crash, Stop, Forget, Return, disk, index, queue, oper, counters, history
<1>4. CASE CloseUnused
  BY <1>4 DEF CloseUnused, Forget, disk, index, queue, oper, counters, history
<1> QED BY <1>1, <1>2, <1>3, <1>4

LEMMA OpeningInMemory ==
    ASSUME OpenInv, Program, OnDisk, InMemory, Targets, Main \in Consumers, Main \notin Forks, todo \in Seq(Edit),
           forks \subseteq Consumers, Forks \subseteq Consumers, mem \in [Consumers -> Seq(Location)],
           Open \/ LoadIndex \/ Loaded \/ Recover \/ Rewrite \/ Rewritten \/ Reinit \/ Opened
    PROVE  InMemory'
<1> USE DEF OpenInv, Control, Indexes, Loading, LoadingOne, Forking, ForksOpen, Pushing, Doing, Working, Serving, Program, InMemory
<1>1. CASE Open
  BY <1>1 DEF Open, disk, index, queue, oper, counters, history
<1>2. CASE LoadIndex
  BY <1>2 DEF LoadIndex, ToLoad, Write, disk, index, queue, oper, counters, history
<1>3. CASE Loaded
  BY <1>3 DEF Loaded, disk, index, queue, oper, counters, history
<1>4. CASE Recover
  BY <1>4 DEF Recover, Write, disk, index, queue, oper, counters, history
<1>5. CASE Rewrite
  BY <1>5 DEF Rewrite, Write, disk, index, queue, oper, counters, history
<1>6. CASE Rewritten
  BY <1>6 DEF Rewritten, disk, index, queue, oper, counters, history
<1>7. CASE Reinit
  BY <1>7 DEF Reinit, Forget, disk, index, queue, oper, counters, history
<1>8. CASE Opened
  BY <1>8 DEF Opened, ToLoad, FetchedForks, disk, index, queue, oper, counters, history
<1> QED BY <1>1, <1>2, <1>3, <1>4, <1>5, <1>6, <1>7, <1>8

LEMMA RemovingInMemory ==
    ASSUME OpenInv, Program, OnDisk, InMemory, Targets, Main \in Consumers, Main \notin Forks, todo \in Seq(Edit),
           forks \subseteq Consumers, Forks \subseteq Consumers, mem \in [Consumers -> Seq(Location)],
           RmIndex \/ RmDat \/ RmMain \/ RmDir \/ RmDirFails
    PROVE  InMemory'
<1> USE DEF OpenInv, Control, Indexes, Loading, LoadingOne, Forking, ForksOpen, Pushing, Doing, Working, Serving, Program, InMemory
<1>1. CASE RmIndex
  BY <1>1 DEF RmIndex, Named, RmIndexLog, disk, index, queue, oper, counters, history
<1>2. CASE RmDat
  BY <1>2 DEF RmDat, Named, disk, index, queue, oper, counters, history
<1>3. CASE RmMain
  BY <1>3 DEF RmMain, RmIndexLog, disk, index, queue, oper, counters, history
<1>4. CASE RmDir
  BY <1>4 DEF RmDir, Return, disk, index, queue, oper, counters, history
<1>5. CASE RmDirFails
  BY <1>5 DEF RmDirFails, OpenFails, Forget, Return, disk, index, queue, oper, counters, history
<1> QED BY <1>1, <1>2, <1>3, <1>4, <1>5

LEMMA JournalInMemory ==
    ASSUME OpenInv, Program, OnDisk, InMemory, Targets, Main \in Consumers, Main \notin Forks, todo \in Seq(Edit),
           forks \subseteq Consumers, Forks \subseteq Consumers, mem \in [Consumers -> Seq(Location)],
           JournalEnd \/ Failed
    PROVE  InMemory'
<1> USE DEF OpenInv, Control, Indexes, Loading, LoadingOne, Forking, ForksOpen, Pushing, Doing, Working, Serving, Program, InMemory
<1>1. CASE JournalEnd
  BY <1>1 DEF JournalEnd, disk, index, queue, oper, counters, history
<1>2. CASE Failed
  BY <1>2 DEF Failed, Return, disk, index, queue, oper, counters, history
<1> QED BY <1>1, <1>2

LEMMA PushInMemory ==
    ASSUME OpenInv, Program, OnDisk, InMemory, Targets, Main \in Consumers, Main \notin Forks, todo \in Seq(Edit),
           forks \subseteq Consumers, Forks \subseteq Consumers, mem \in [Consumers -> Seq(Location)],
           Push \/ TxPush \/ WriteItem \/ PushIndex \/ PushDone
    PROVE  InMemory'
<1> USE DEF OpenInv, Control, Indexes, Loading, LoadingOne, Forking, ForksOpen, Pushing, Doing, Working, Serving, Program, InMemory
<1>1. CASE Push
  BY <1>1 DEF Push, Given, WhenOpen, disk, index, queue, oper, counters, history
<1>2. CASE TxPush
  BY <1>2 DEF TxPush, Given, disk, index, queue, oper, counters, history
<1>3. CASE WriteItem
  BY <1>3 DEF WriteItem, disk, index, queue, oper, counters, history
<1>4. CASE PushIndex
  BY <1>4 DEF PushIndex, Write, disk, index, queue, oper, counters, history
<1>5. CASE PushDone
  BY <1>5 DEF PushDone, PushOver, disk, index, queue, oper, counters, history
<1> QED BY <1>1, <1>2, <1>3, <1>4, <1>5

LEMMA ReadInMemory ==
    ASSUME OpenInv, Program, OnDisk, InMemory, Targets, Main \in Consumers, Main \notin Forks, todo \in Seq(Edit),
           forks \subseteq Consumers, Forks \subseteq Consumers, mem \in [Consumers -> Seq(Location)],
           Read \/ ReadFirst \/ ReadNext \/ ReadServe \/ Pop \/ Popped \/ PeekOnly \/ CallbackErr \/ Reap
    PROVE  InMemory'
<1> USE DEF OpenInv, Control, Indexes, Loading, LoadingOne, Forking, ForksOpen, Pushing, Doing, Working, Serving, Program, InMemory
<1>1. CASE Read
  BY <1>1 DEF Read, WhenOpen, NoCall, disk, index, queue, oper, counters, history
<1>2. CASE ReadFirst
  BY <1>2 DEF ReadFirst, disk, index, queue, oper, counters, history
<1>3. CASE ReadNext
  BY <1>3 DEF ReadNext, disk, index, queue, oper, counters, history
<1>4. CASE ReadServe
  BY <1>4 DEF ReadServe, disk, index, queue, oper, counters, history
<1>5. CASE Pop
  BY <1>5 DEF Pop, Write, disk, index, queue, oper, counters, history
<1>6. CASE Popped
  BY <1>6 DEF Popped, disk, index, queue, oper, counters, history
<1>7. CASE PeekOnly
  BY <1>7 DEF PeekOnly, disk, index, queue, oper, counters, history
<1>8. CASE CallbackErr
  BY <1>8 DEF CallbackErr, Return, disk, index, queue, oper, counters, history
<1>9. CASE Reap
  BY <1>9 DEF Reap, DropBucket, Forget, Return, disk, index, queue, oper, counters, history
<1> QED BY <1>1, <1>2, <1>3, <1>4, <1>5, <1>6, <1>7, <1>8, <1>9

LEMMA ForksInMemory ==
    ASSUME OpenInv, Program, OnDisk, InMemory, Targets, Main \in Consumers, Main \notin Forks, todo \in Seq(Edit),
           forks \subseteq Consumers, Forks \subseteq Consumers, mem \in [Consumers -> Seq(Location)],
           Delete \/ DeleteBegin \/ Deleted \/ Clear \/ ForkListed \/ Fork \/ Forked \/ RemoveFork
    PROVE  InMemory'
<1> USE DEF OpenInv, Control, Indexes, Loading, LoadingOne, Forking, ForksOpen, Pushing, Doing, Working, Serving, Program, InMemory
<1>1. CASE Delete
  BY <1>1 DEF Delete, WhenOpen, NoCall, disk, index, queue, oper, counters, history
<1>2. CASE DeleteBegin
  BY <1>2 DEF DeleteBegin, Write, disk, index, queue, oper, counters, history
<1>3. CASE Deleted
  BY <1>3 DEF Deleted, disk, index, queue, oper, counters, history
<1>4. CASE Clear
  BY <1>4 DEF Clear, DropBucket, Forget, Return, disk, index, queue, oper, counters, history
<1>5. CASE ForkListed
  BY <1>5 DEF ForkListed, ForkMade, disk, index, queue, oper, counters, history
<1>6. CASE Fork
  BY <1>6 DEF Fork, Write, NoCall, disk, index, queue, oper, counters, history
<1>7. CASE Forked
  BY <1>7 DEF Forked, ForkMade, Return, disk, index, queue, oper, counters, history
<1>8. CASE RemoveFork
  BY <1>8 DEF RemoveFork, RmIndexLog, DropBucket, Forget, Return, disk, index, queue, oper, counters, history
<1> QED BY <1>1, <1>2, <1>3, <1>4, <1>5, <1>6, <1>7, <1>8

\* An edit in memory is made on an index that is in use.
LEMMA EditsInUse ==
    ASSUME OpenInv, Program, InMemory, Targets, pc = "journal", todo # <<>>, todo \in Seq(Edit),
           EditMem(Head(todo)), mem \in [Consumers -> Seq(Location)]
    PROVE  \A c \in Consumers :
               c \notin loaded /\ ~(LoadingOne /\ c = cur) => mem'[c] = <<>> /\ c \notin seen'
<1>1. /\ Head(todo) = todo[1] /\ 1 \in DOMAIN todo
      /\ \A c \in Consumers : c # Head(todo).to \/ "mem" \notin Head(todo).on => mem'[c] = mem[c]
      /\ \A c \in Consumers : c # Head(todo).to \/ "mem" \notin Head(todo).on =>
            (c \in seen' => c \in seen)
  BY DEF EditMem
<1>2. "mem" \in Head(todo).on =>
          Head(todo).to \in loaded \/ (LoadingOne /\ Head(todo).to = cur)
  BY <1>1 DEF Targets, OpenInv, Control, Indexes, Loading, LoadingOne, ForksOpen, Working,
              Serving, Program
<1> QED BY <1>1, <1>2 DEF InMemory

LEMMA JournalKeepsMemory ==
    ASSUME OpenInv, Program, InMemory, Targets, Journal \/ FailWrite, todo \in Seq(Edit),
           mem \in [Consumers -> Seq(Location)]
    PROVE  InMemory'
<1>1. CASE Forget /\ FailWrite
  BY <1>1 DEF Forget, FailWrite, OpenFails, Return, InMemory, LoadingOne, Loading
<1>2. CASE EditMem(Head(todo))
  <2>1. pc = "journal" /\ todo # <<>> /\ loaded' = loaded
    BY <1>2 DEF Journal, FailWrite, EditMem
  <2>2. \A c \in Consumers :
               c \notin loaded /\ ~(LoadingOne /\ c = cur) => mem'[c] = <<>> /\ c \notin seen'
    BY <1>2, <2>1, EditsInUse
  <2>3. CASE Journal \/ then \in {"deleted", "failed"}
    <3>1. cur' = cur /\ (LoadingOne' <=> LoadingOne)
      BY <2>1, <2>3 DEF Journal, FailWrite, LoadingOne, Loading
    <3> QED BY <2>1, <2>2, <3>1 DEF InMemory
  <2>4. CASE FailWrite /\ then \notin {"deleted", "failed", "rewritten"}
    <3>1. ~LoadingOne /\ ~LoadingOne'
      BY <2>1, <2>4 DEF FailWrite, PushOver, Return, LoadingOne, Loading
    <3> QED BY <2>1, <2>2, <3>1 DEF InMemory
  <2>5. CASE FailWrite /\ then = "rewritten"
    BY <1>1, <2>5 DEF FailWrite, OpenFails
  <2> QED BY <2>3, <2>4, <2>5
<1> QED BY <1>1, <1>2 DEF Journal, FailWrite, OpenFails

-----------------------------------------------------------------------------
(* The edits of the operations, one by one.                                *)

LEMMA EditOfIs ==
  ASSUME NEW on, NEW c, NEW loc
  PROVE  /\ EditOf(on, c, loc).on = on /\ EditOf(on, c, loc).to = c
         /\ EditOf(on, c, loc).loc = loc
BY DEF EditOf

LEMMA EditsOfAt ==
  ASSUME NEW on, NEW c, NEW locs \in Seq(Location)
  PROVE  /\ DOMAIN EditsOf(on, c, locs) = 1 .. Len(locs)
         /\ Len(EditsOf(on, c, locs)) = Len(locs)
         /\ \A j \in 1 .. Len(locs) :
               /\ EditsOf(on, c, locs)[j] = EditOf(on, c, locs[j])
               /\ EditsOf(on, c, locs)[j].on = on
               /\ EditsOf(on, c, locs)[j].to = c
               /\ EditsOf(on, c, locs)[j].loc = locs[j]
<1>1. Len(locs) \in Nat
  OBVIOUS
<1>2. EditsOf(on, c, locs) = [i \in 1 .. Len(locs) |-> EditOf(on, c, locs[i])]
  BY DEF EditsOf
<1>3. \A j \in 1 .. Len(locs) : EditsOf(on, c, locs)[j] = EditOf(on, c, locs[j])
  BY <1>2
<1>4. DOMAIN EditsOf(on, c, locs) = 1 .. Len(locs) /\ Len(EditsOf(on, c, locs)) = Len(locs)
  BY <1>1, <1>2
<1> QED BY <1>3, <1>4, EditOfIs

\* The two halves of a list of pairs.
LEMMA PairAt ==
  ASSUME NEW m \in Nat
  PROVE  /\ \A k \in 1 .. m : /\ 2 * k - 1 \in 1 .. 2 * m /\ 2 * k \in 1 .. 2 * m
                              /\ (2 * k - 1 + 1) \div 2 = k /\ (2 * k + 1) \div 2 = k
                              /\ (2 * k - 1) % 2 = 1 /\ (2 * k) % 2 = 0
         /\ \A j \in 1 .. 2 * m : \E k \in 1 .. m : j = 2 * k - 1 \/ j = 2 * k
<1>1. ASSUME NEW k \in 1 .. m
      PROVE  /\ 2 * k - 1 \in 1 .. 2 * m /\ 2 * k \in 1 .. 2 * m
             /\ (2 * k - 1 + 1) \div 2 = k /\ (2 * k + 1) \div 2 = k
             /\ (2 * k - 1) % 2 = 1 /\ (2 * k) % 2 = 0
  OBVIOUS
<1>2. ASSUME NEW j \in 1 .. 2 * m PROVE \E k \in 1 .. m : j = 2 * k - 1 \/ j = 2 * k
  <2>1. (j + 1) \div 2 \in 1 .. m /\ (j = 2 * ((j + 1) \div 2) - 1 \/ j = 2 * ((j + 1) \div 2))
    OBVIOUS
  <2> QED BY <2>1
<1> QED BY <1>1, <1>2

LEMMA PopEditsAt ==
  ASSUME NEW c, NEW h \in Seq(Iter)
  PROVE  /\ DOMAIN PopEdits(c, h) = 1 .. 2 * Len(h)
         /\ Len(PopEdits(c, h)) = 2 * Len(h)
         /\ \A k \in 1 .. Len(h) :
               /\ PopEdits(c, h)[2 * k - 1] =
                      EditOf(IF h[k].exh THEN {} ELSE Both, c, CurrentLocation(h[k]))
               /\ PopEdits(c, h)[2 * k] = EditOf(Both, c, DeadLoc(h[k].first))
         /\ \A j \in 1 .. 2 * Len(h) : PopEdits(c, h)[j].to = c
<1>1. Len(h) \in Nat
  OBVIOUS
<1> DEFINE v(j) == IF j % 2 = 0 THEN EditOf(Both, c, DeadLoc(h[(j + 1) \div 2].first))
                   ELSE EditOf(IF h[(j + 1) \div 2].exh THEN {} ELSE Both, c,
                               CurrentLocation(h[(j + 1) \div 2]))
<1>2. PopEdits(c, h) = [j \in 1 .. 2 * Len(h) |-> v(j)]
  BY DEF PopEdits
<1>3. ASSUME NEW k \in 1 .. Len(h)
      PROVE  /\ v(2 * k - 1) = EditOf(IF h[k].exh THEN {} ELSE Both, c, CurrentLocation(h[k]))
             /\ v(2 * k) = EditOf(Both, c, DeadLoc(h[k].first))
  BY <1>1, PairAt
<1>4. \A j : v(j).to = c
  BY EditOfIs
<1> HIDE DEF v
<1>5. \A j \in 1 .. 2 * Len(h) : PopEdits(c, h)[j] = v(j)
  BY <1>2
<1>6. DOMAIN PopEdits(c, h) = 1 .. 2 * Len(h) /\ Len(PopEdits(c, h)) = 2 * Len(h)
  BY <1>1, <1>2
<1>7. \A k \in 1 .. Len(h) : 2 * k - 1 \in 1 .. 2 * Len(h) /\ 2 * k \in 1 .. 2 * Len(h)
  BY <1>1
<1> QED BY <1>3, <1>4, <1>5, <1>6, <1>7

LEMMA RegenerateEditsAt ==
  ASSUME NEW c, vlog \in Seq(Item)
  PROVE  /\ DOMAIN RegenerateEdits(c) = 1 .. Len(vlog)
         /\ Len(RegenerateEdits(c)) = Len(vlog)
         /\ \A p \in 1 .. Len(vlog) :
               /\ RegenerateEdits(c)[p].on = (IF RunStart(vlog, p) THEN {"mem"} ELSE {})
               /\ RegenerateEdits(c)[p].to = c
               /\ RegenerateEdits(c)[p].loc = RunAt(vlog, p)
<1> DEFINE v(p) == EditOf(IF RunStart(vlog, p) THEN {"mem"} ELSE {}, c, RunAt(vlog, p))
<1>1. RegenerateEdits(c) = [p \in 1 .. Len(vlog) |-> v(p)] /\ Len(vlog) \in Nat
  BY DEF RegenerateEdits
<1>2. \A p : /\ v(p).on = (IF RunStart(vlog, p) THEN {"mem"} ELSE {})
             /\ v(p).to = c /\ v(p).loc = RunAt(vlog, p)
  BY EditOfIs
<1> HIDE DEF v
<1> QED BY <1>1, <1>2

LEMMA PartEditsAt ==
  ASSUME NEW c \in Consumers, NEW lo, NEW hi, NEW on, mem \in [Consumers -> Seq(Location)]
  PROVE  /\ DOMAIN PartEdits(c, lo, hi, on) = 1 .. 2 * Len(mem[c])
         /\ Len(PartEdits(c, lo, hi, on)) = 2 * Len(mem[c])
         /\ \A k \in 1 .. Len(mem[c]) :
               /\ PartEdits(c, lo, hi, on)[2 * k - 1] =
                      EditOf(IF Affected(mem[c][k], lo, hi) /\ LeftPart(mem[c][k], lo).len > 0
                             THEN on ELSE {}, c, LeftPart(mem[c][k], lo))
               /\ PartEdits(c, lo, hi, on)[2 * k] =
                      EditOf(IF Affected(mem[c][k], lo, hi) /\ RightPart(mem[c][k], hi).len > 0
                             THEN on ELSE {}, c, RightPart(mem[c][k], hi))
         /\ \A j \in 1 .. 2 * Len(mem[c]) : PartEdits(c, lo, hi, on)[j].to = c
<1>1. PICK n \in Nat : n = Len(mem[c])
  OBVIOUS
<1> DEFINE loc(j) == mem[c][(j + 1) \div 2]
           part(j) == IF j % 2 = 1 THEN LeftPart(loc(j), lo) ELSE RightPart(loc(j), hi)
           v(j) == EditOf(IF Affected(loc(j), lo, hi) /\ part(j).len > 0 THEN on ELSE {}, c, part(j))
           E == PartEdits(c, lo, hi, on)
<1>2. E = [j \in 1 .. 2 * n |-> v(j)]
  BY <1>1 DEF PartEdits
<1>3. ASSUME NEW k \in 1 .. n
      PROVE  /\ v(2 * k - 1) = EditOf(IF Affected(mem[c][k], lo, hi) /\ LeftPart(mem[c][k], lo).len > 0
                                      THEN on ELSE {}, c, LeftPart(mem[c][k], lo))
             /\ v(2 * k) = EditOf(IF Affected(mem[c][k], lo, hi) /\ RightPart(mem[c][k], hi).len > 0
                                  THEN on ELSE {}, c, RightPart(mem[c][k], hi))
  <2>1. loc(2 * k - 1) = mem[c][k] /\ loc(2 * k) = mem[c][k]
    BY PairAt
  <2>2. part(2 * k - 1) = LeftPart(mem[c][k], lo) /\ part(2 * k) = RightPart(mem[c][k], hi)
    BY <2>1, PairAt
  <2> QED BY <2>1, <2>2
<1>4. \A j : v(j).to = c
  BY EditOfIs
<1> HIDE DEF v, E
<1>5. DOMAIN E = 1 .. 2 * n /\ Len(E) = 2 * n /\ \A j \in 1 .. 2 * n : E[j] = v(j)
  BY <1>2
<1>7. \A k \in 1 .. n : 2 * k - 1 \in 1 .. 2 * n /\ 2 * k \in 1 .. 2 * n
  OBVIOUS
<1> QED BY <1>1, <1>3, <1>4, <1>5, <1>7 DEF E

LEMMA PartAt ==
  ASSUME NEW c \in Consumers, NEW lo, NEW hi, NEW on, mem \in [Consumers -> Seq(Location)],
         NEW k \in 1 .. Len(mem[c])
  PROVE  /\ PartEdits(c, lo, hi, on)[2 * k - 1] =
                EditOf(IF Affected(mem[c][k], lo, hi) /\ LeftPart(mem[c][k], lo).len > 0
                       THEN on ELSE {}, c, LeftPart(mem[c][k], lo))
         /\ PartEdits(c, lo, hi, on)[2 * k] =
                EditOf(IF Affected(mem[c][k], lo, hi) /\ RightPart(mem[c][k], hi).len > 0
                       THEN on ELSE {}, c, RightPart(mem[c][k], hi))
<1>1. PICK P : P = PartEdits(c, lo, hi, on)
  OBVIOUS
<1>2. \A i \in 1 .. Len(mem[c]) :
        /\ P[2 * i - 1] = EditOf(IF Affected(mem[c][i], lo, hi) /\ LeftPart(mem[c][i], lo).len > 0
                                 THEN on ELSE {}, c, LeftPart(mem[c][i], lo))
        /\ P[2 * i] = EditOf(IF Affected(mem[c][i], lo, hi) /\ RightPart(mem[c][i], hi).len > 0
                             THEN on ELSE {}, c, RightPart(mem[c][i], hi))
  BY <1>1, PartEditsAt
<1> QED BY <1>1, <1>2

LEMMA EndEditsAt ==
  ASSUME NEW c \in Consumers, NEW lo, NEW hi, mem \in [Consumers -> Seq(Location)]
  PROVE  /\ DOMAIN EndEdits(c, lo, hi) = 1 .. Len(mem[c])
         /\ Len(EndEdits(c, lo, hi)) = Len(mem[c])
         /\ \A j \in 1 .. Len(mem[c]) :
               /\ EndEdits(c, lo, hi)[j] =
                      EditOf(IF Affected(mem[c][j], lo, hi) THEN Both ELSE {}, c,
                             DeadLoc(mem[c][j].key))
               /\ EndEdits(c, lo, hi)[j].to = c
<1> DEFINE v(j) == EditOf(IF Affected(mem[c][j], lo, hi) THEN Both ELSE {}, c,
                          DeadLoc(mem[c][j].key))
           E == EndEdits(c, lo, hi)
<1>1. E = [j \in 1 .. Len(mem[c]) |-> v(j)] /\ Len(mem[c]) \in Nat
  BY DEF EndEdits
<1>2. \A j : v(j).to = c
  BY EditOfIs
<1>3. \A j \in 1 .. Len(mem[c]) : E[j] = EditOf(IF Affected(mem[c][j], lo, hi) THEN Both ELSE {}, c,
                                               DeadLoc(mem[c][j].key))
  BY <1>1
<1> HIDE DEF v, E
<1>4. DOMAIN E = 1 .. Len(mem[c]) /\ Len(E) = Len(mem[c])
  BY <1>1
<1>5. \A j \in 1 .. Len(mem[c]) : E[j].to = c
  BY <1>1, <1>2
<1> QED BY <1>3, <1>4, <1>5 DEF E

\* F is A followed by B.
Joins(F, A, B) ==
    /\ Len(F) = Len(A) + Len(B)
    /\ \A j \in 1 .. Len(A) : F[j] = A[j]
    /\ \A j \in 1 .. Len(B) : F[Len(A) + j] = B[j]

LEMMA Joined ==
  ASSUME NEW S, NEW A \in Seq(S), NEW B \in Seq(S)
  PROVE  A \o B \in Seq(S) /\ Joins(A \o B, A, B)
<1>1. A \o B \in Seq(S) /\ Len(A \o B) = Len(A) + Len(B)
  OBVIOUS
<1>2. \A j \in 1 .. Len(A) : (A \o B)[j] = A[j]
  OBVIOUS
<1>3. \A j \in 1 .. Len(B) : (A \o B)[Len(A) + j] = B[j]
  OBVIOUS
<1> QED BY <1>1, <1>2, <1>3 DEF Joins

\* Delete: the parts to the log, the ends, the parts to memory.
DeleteEditsAre(E, c, lo, hi, n) ==
    /\ DOMAIN E = 1 .. 5 * n
    /\ Len(E) = 5 * n
    /\ \A j \in 1 .. 2 * n :
          E[j] = PartEdits(c, lo, hi, {"log"})[j] /\ E[3 * n + j] = PartEdits(c, lo, hi, {"mem"})[j]
    /\ \A j \in 1 .. n : E[2 * n + j] = EndEdits(c, lo, hi)[j]
    /\ \A j \in 1 .. 5 * n : E[j].to = c

LEMMA DeleteEditsAt ==
  ASSUME NEW c \in Consumers, NEW lo \in Nat, NEW hi \in Nat, vlog \in Seq(Item),
         mem \in [Consumers -> Seq(Location)]
  PROVE  DeleteEditsAre(DeleteEdits(c, lo, hi), c, lo, hi, Len(mem[c]))
<1>0. PICK n \in Nat : n = Len(mem[c])
  OBVIOUS
<1>1. PICK A : A = PartEdits(c, lo, hi, {"log"})
  OBVIOUS
<1>2. PICK B : B = EndEdits(c, lo, hi)
  OBVIOUS
<1>3. PICK C : C = PartEdits(c, lo, hi, {"mem"})
  OBVIOUS
<1>4. Len(A) = 2 * n /\ A \in Seq(Edit) /\ \A j \in 1 .. 2 * n : A[j].to = c
  BY <1>0, <1>1, PartEditsAt, PartEditsType
<1>5. Len(B) = n /\ B \in Seq(Edit) /\ \A j \in 1 .. n : B[j].to = c
  <2>1. B \in Seq(Edit)
    BY <1>2, EndEditsType
  <2> QED BY <1>0, <1>2, <2>1, EndEditsAt
<1>6. Len(C) = 2 * n /\ C \in Seq(Edit) /\ \A j \in 1 .. 2 * n : C[j].to = c
  BY <1>0, <1>3, PartEditsAt, PartEditsType
<1>9. PICK D : D = A \o B \o C
  OBVIOUS
<1>10. /\ Len(D) = 5 * n /\ DOMAIN D = 1 .. 5 * n
       /\ \A j \in 1 .. 2 * n : D[j] = A[j] /\ D[3 * n + j] = C[j]
       /\ \A j \in 1 .. n : D[2 * n + j] = B[j]
  <2>1. PICK F : F = A \o B
    OBVIOUS
  <2>2. /\ F \in Seq(Edit) /\ Len(F) = 3 * n /\ \A j \in 1 .. 2 * n : F[j] = A[j]
        /\ \A j \in 1 .. n : F[2 * n + j] = B[j]
    <3>1. F \in Seq(Edit) /\ Joins(F, A, B)
      BY <1>4, <1>5, <2>1, Joined
    <3>2. PICK m \in Nat : m = 2 * n /\ m + n = 3 * n
      OBVIOUS
    <3> QED BY <1>4, <1>5, <3>1, <3>2 DEF Joins
  <2>3. D = F \o C
    BY <1>9, <2>1
  <2>4. /\ Len(D) = 5 * n /\ DOMAIN D = 1 .. 5 * n /\ \A j \in 1 .. 3 * n : D[j] = F[j]
        /\ \A j \in 1 .. 2 * n : D[3 * n + j] = C[j]
    <3>1. D \in Seq(Edit) /\ Joins(D, F, C)
      BY <1>6, <2>2, <2>3, Joined
    <3>2. PICK k \in Nat, m \in Nat : m = 2 * n /\ k = 3 * n /\ k + m = 5 * n
      OBVIOUS
    <3>3. Len(D) = k + m /\ (\A j \in 1 .. k : D[j] = F[j]) /\ \A j \in 1 .. m : D[k + j] = C[j]
      BY <1>6, <2>2, <3>1, <3>2 DEF Joins
    <3> QED BY <3>1, <3>2, <3>3
  <2>5. \A j \in 1 .. 2 * n : j \in 1 .. 3 * n
    OBVIOUS
  <2>6. \A j \in 1 .. n : 2 * n + j \in 1 .. 3 * n
    OBVIOUS
  <2> QED BY <2>2, <2>4, <2>5, <2>6
<1>11. D = DeleteEdits(c, lo, hi)
  BY <1>1, <1>2, <1>3, <1>9 DEF DeleteEdits
<1>12. \A j \in 1 .. 5 * n : D[j].to = c
  <2> SUFFICES ASSUME NEW j \in 1 .. 5 * n PROVE D[j].to = c
    OBVIOUS
  <2>1. CASE j <= 2 * n
    BY <1>4, <1>10, <2>1
  <2>2. CASE j > 2 * n /\ j <= 3 * n
    <3>1. j - 2 * n \in 1 .. n /\ 2 * n + (j - 2 * n) = j
      BY <2>2
    <3>2. D[2 * n + (j - 2 * n)] = B[j - 2 * n]
      BY <1>10, <3>1
    <3> QED BY <1>5, <3>1, <3>2
  <2>3. CASE j > 3 * n
    <3>1. j - 3 * n \in 1 .. 2 * n /\ 3 * n + (j - 3 * n) = j
      BY <2>3
    <3>2. D[3 * n + (j - 3 * n)] = C[j - 3 * n]
      BY <1>10, <3>1
    <3> QED BY <1>6, <3>1, <3>2
  <2> QED BY <2>1, <2>2, <2>3
<1>13. DeleteEditsAre(D, c, lo, hi, n)
  BY <1>1, <1>2, <1>3, <1>10, <1>12 DEF DeleteEditsAre
<1> QED BY <1>0, <1>11, <1>13

\* Push: one edit for each consumer, in some order.
LEMMA PushEditsAt ==
  ASSUME IndexT, NEW q \in SetToSeqs(Receivers), NEW E,
         E = [i \in 1 .. Len(q) |-> EditOf(Both, q[i], PushLoc)]
  PROVE  /\ Len(E) = Len(q) /\ DOMAIN E = 1 .. Len(q) /\ Len(q) \in Nat
         /\ \A i \in 1 .. Len(q) :
               /\ q[i] \in loaded /\ E[i].to = q[i] /\ E[i].on = Both /\ E[i].loc = PushLoc
         /\ \A c \in loaded : \E i \in 1 .. Len(q) : q[i] = c
         /\ \A i, j \in 1 .. Len(q) : q[i] = q[j] => i = j
<1>1. IsFiniteSet(Consumers)
  BY BucketAssumption, FS_AddElement DEF Consumers
<1>2. IsFiniteSet(loaded)
  BY <1>1, FS_Subset DEF IndexT
<1>3. PICK n \in Nat : n = Cardinality(loaded)
  BY <1>2, FS_CardinalityType
<1>4. q \in [1 .. n -> loaded] /\ \A i, j \in 1 .. n : i # j => q[i] # q[j]
  BY <1>3 DEF SetToSeqs, Receivers
<1>5. Len(q) = n /\ \A i \in 1 .. n : q[i] \in loaded
  BY <1>4
<1>6. \A i, j \in 1 .. n : q[i] = q[j] => i = j
  BY <1>4
<1>7. q \in Surjection(1 .. n, loaded)
  <2>1. IsFiniteSet(1 .. n) /\ Cardinality(1 .. n) = n
    BY FS_Interval
  <2>2. q \in Injection(1 .. n, loaded)
    BY <1>4, <1>6 DEF Injection, IsInjective
  <2> QED BY <1>2, <1>3, <2>1, <2>2, FS_Injection, FS_SameCardinalityBij
<1>8. \A c \in loaded : \E i \in 1 .. n : q[i] = c
  BY <1>7 DEF Surjection
<1>9. \A i \in 1 .. n : E[i] = EditOf(Both, q[i], PushLoc)
  BY <1>5
<1>10. Len(E) = n /\ DOMAIN E = 1 .. n
  BY <1>5
<1> QED BY <1>5, <1>6, <1>8, <1>9, <1>10, EditOfIs

LEMMA PushIndexEdits ==
  ASSUME IndexT, PushIndex
  PROVE  \A j \in DOMAIN todo' :
             todo'[j].to \in loaded /\ todo'[j].on = Both /\ todo'[j].loc = PushLoc
<1>1. PICK q \in SetToSeqs(Receivers) : todo' = [i \in 1 .. Len(q) |-> EditOf(Both, q[i], PushLoc)]
  BY DEF PushIndex, Write
<1>2. PICK E : E = [i \in 1 .. Len(q) |-> EditOf(Both, q[i], PushLoc)]
  OBVIOUS
<1>3. /\ DOMAIN E = 1 .. Len(q)
      /\ \A i \in 1 .. Len(q) :
               /\ q[i] \in loaded /\ E[i].to = q[i] /\ E[i].on = Both /\ E[i].loc = PushLoc
  BY <1>2, PushEditsAt
<1>4. todo' = E
  BY <1>1, <1>2
<1> QED BY <1>3, <1>4

-----------------------------------------------------------------------------
(* What the edits are for, in every step.                                  *)

LEMMA QueueElsewhere ==
    ASSUME OpenInv,
           Start \/ Close \/ Crash \/ CloseUnused
    PROVE  (pc # "journal")'
<1> USE DEF OpenInv, Control
<1>1. CASE Start
  BY <1>1 DEF Start, disk, index, queue, oper, counters, history
<1>2. CASE Close
  BY <1>2 DEF Close, Stop, Forget, Return, disk, index, queue, oper, counters, history
<1>3. CASE Crash
  BY <1>3 DEF Crash, Stop, Forget, Return, disk, index, queue, oper, counters, history
<1>4. CASE CloseUnused
  BY <1>4 DEF CloseUnused, Forget, disk, index, queue, oper, counters, history
<1> QED BY <1>1, <1>2, <1>3, <1>4

LEMMA OpeningElsewhere ==
    ASSUME OpenInv,
           Open \/ Loaded \/ Rewritten \/ Reinit \/ Opened
    PROVE  (pc # "journal")'
<1> USE DEF OpenInv, Control
<1>1. CASE Open
  BY <1>1 DEF Open, disk, index, queue, oper, counters, history
<1>2. CASE Loaded
  BY <1>2 DEF Loaded, disk, index, queue, oper, counters, history
<1>3. CASE Rewritten
  BY <1>3 DEF Rewritten, disk, index, queue, oper, counters, history
<1>4. CASE Reinit
  BY <1>4 DEF Reinit, Forget, disk, index, queue, oper, counters, history
<1>5. CASE Opened
  BY <1>5 DEF Opened, ToLoad, FetchedForks, disk, index, queue, oper, counters, history
<1> QED BY <1>1, <1>2, <1>3, <1>4, <1>5

LEMMA RemovingElsewhere ==
    ASSUME OpenInv,
           RmIndex \/ RmDat \/ RmMain \/ RmDir \/ RmDirFails
    PROVE  (pc # "journal")'
<1> USE DEF OpenInv, Control
<1>1. CASE RmIndex
  BY <1>1 DEF RmIndex, Named, RmIndexLog, disk, index, queue, oper, counters, history
<1>2. CASE RmDat
  BY <1>2 DEF RmDat, Named, disk, index, queue, oper, counters, history
<1>3. CASE RmMain
  BY <1>3 DEF RmMain, RmIndexLog, disk, index, queue, oper, counters, history
<1>4. CASE RmDir
  BY <1>4 DEF RmDir, Return, disk, index, queue, oper, counters, history
<1>5. CASE RmDirFails
  BY <1>5 DEF RmDirFails, OpenFails, Forget, Return, disk, index, queue, oper, counters, history
<1> QED BY <1>1, <1>2, <1>3, <1>4, <1>5

LEMMA JournalElsewhere ==
    ASSUME OpenInv,
           JournalEnd \/ Failed
    PROVE  (pc # "journal")'
<1> USE DEF OpenInv, Control
<1>1. CASE JournalEnd
  BY <1>1 DEF JournalEnd, disk, index, queue, oper, counters, history
<1>2. CASE Failed
  BY <1>2 DEF Failed, Return, disk, index, queue, oper, counters, history
<1> QED BY <1>1, <1>2

LEMMA PushElsewhere ==
    ASSUME OpenInv,
           Push \/ TxPush \/ WriteItem \/ PushDone
    PROVE  (pc # "journal")'
<1> USE DEF OpenInv, Control
<1>1. CASE Push
  BY <1>1 DEF Push, Given, WhenOpen, disk, index, queue, oper, counters, history
<1>2. CASE TxPush
  BY <1>2 DEF TxPush, Given, disk, index, queue, oper, counters, history
<1>3. CASE WriteItem
  BY <1>3 DEF WriteItem, disk, index, queue, oper, counters, history
<1>4. CASE PushDone
  BY <1>4 DEF PushDone, PushOver, disk, index, queue, oper, counters, history
<1> QED BY <1>1, <1>2, <1>3, <1>4

LEMMA ReadElsewhere ==
    ASSUME OpenInv,
           Read \/ ReadFirst \/ ReadNext \/ ReadServe \/ Popped \/ PeekOnly \/ CallbackErr \/ Reap
    PROVE  (pc # "journal")'
<1> USE DEF OpenInv, Control
<1>1. CASE Read
  BY <1>1 DEF Read, WhenOpen, NoCall, disk, index, queue, oper, counters, history
<1>2. CASE ReadFirst
  BY <1>2 DEF ReadFirst, disk, index, queue, oper, counters, history
<1>3. CASE ReadNext
  BY <1>3 DEF ReadNext, disk, index, queue, oper, counters, history
<1>4. CASE ReadServe
  BY <1>4 DEF ReadServe, disk, index, queue, oper, counters, history
<1>5. CASE Popped
  BY <1>5 DEF Popped, disk, index, queue, oper, counters, history
<1>6. CASE PeekOnly
  BY <1>6 DEF PeekOnly, disk, index, queue, oper, counters, history
<1>7. CASE CallbackErr
  BY <1>7 DEF CallbackErr, Return, disk, index, queue, oper, counters, history
<1>8. CASE Reap
  BY <1>8 DEF Reap, DropBucket, Forget, Return, disk, index, queue, oper, counters, history
<1> QED BY <1>1, <1>2, <1>3, <1>4, <1>5, <1>6, <1>7, <1>8

LEMMA ForksElsewhere ==
    ASSUME OpenInv,
           Delete \/ Deleted \/ Clear \/ ForkListed \/ Forked \/ RemoveFork
    PROVE  (pc # "journal")'
<1> USE DEF OpenInv, Control
<1>1. CASE Delete
  BY <1>1 DEF Delete, WhenOpen, NoCall, disk, index, queue, oper, counters, history
<1>2. CASE Deleted
  BY <1>2 DEF Deleted, disk, index, queue, oper, counters, history
<1>3. CASE Clear
  BY <1>3 DEF Clear, DropBucket, Forget, Return, disk, index, queue, oper, counters, history
<1>4. CASE ForkListed
  BY <1>4 DEF ForkListed, ForkMade, disk, index, queue, oper, counters, history
<1>5. CASE Forked
  BY <1>5 DEF Forked, ForkMade, Return, disk, index, queue, oper, counters, history
<1>6. CASE RemoveFork
  BY <1>6 DEF RemoveFork, RmIndexLog, DropBucket, Forget, Return, disk, index, queue, oper, counters, history
<1> QED BY <1>1, <1>2, <1>3, <1>4, <1>5, <1>6

\* The rest of the edits, after the first is made.
LEMMA TailAt ==
  ASSUME NEW S, NEW s \in Seq(S), s # <<>>
  PROVE  /\ Tail(s) \in Seq(S) /\ Len(Tail(s)) = Len(s) - 1 /\ Head(s) = s[1] /\ 1 \in DOMAIN s
         /\ Len(s) >= 1 /\ Len(s) \in Nat
         /\ \A j \in DOMAIN Tail(s) : j + 1 \in DOMAIN s /\ Tail(s)[j] = s[j + 1]
OBVIOUS

LEMMA JournalTargets ==
    ASSUME OpenInv, Program, Targets, Journal \/ FailWrite, todo \in Seq(Edit)
    PROVE  Targets'
<1>1. /\ pc = "journal" /\ todo # <<>>
      /\ \/ pc' # "journal"
         \/ /\ todo' = Tail(todo) /\ UNCHANGED <<pc, cur, call, loaded>>
            /\ then' = then \/ (then \in {"deleted", "failed"} /\ then' = "failed")
  BY DEF Journal, FailWrite, EditMem, PushOver, OpenFails, Return, OpenInv, Control
<1>2. CASE pc' # "journal"
  BY <1>2 DEF Targets
<1>3. CASE /\ todo' = Tail(todo) /\ UNCHANGED <<pc, cur, call, loaded>>
           /\ then' = then \/ (then \in {"deleted", "failed"} /\ then' = "failed")
  <2>1. \A j \in DOMAIN todo' : j + 1 \in DOMAIN todo /\ todo'[j] = todo[j + 1]
    BY <1>1, <1>3, TailAt
  <2> QED BY <1>1, <1>3, <2>1 DEF Targets
<1> QED BY <1>1, <1>2, <1>3

LEMMA WriteTargets ==
    ASSUME OpenInv, TypeInv, Program, InMemory, Targets,
           LoadIndex \/ Recover \/ Rewrite \/ PushIndex \/ Pop \/ DeleteBegin \/ Fork
    PROVE  Targets'
<1>0. /\ vlog \in Seq(Item) /\ file \in [Consumers -> Seq(Location)] /\ mem \in [Consumers -> Seq(Location)]
      /\ cur \in Consumers /\ rd.iters \in Seq(Iter) /\ call.who \in Consumers
      /\ call.lo \in Nat /\ call.hi \in Nat /\ forks \subseteq Consumers /\ Main \in Consumers
      /\ Forks \subseteq Consumers /\ IndexT
  BY Groups DEF TypeInv, DiskT, IndexT, QueueT, OperT, Consumers
<1>1. CASE LoadIndex
  <2>1. PICK c \in ToLoad : cur' = c /\ Write(EditsOf({"mem"}, c, file[c]), "loaded")
    BY <1>1 DEF LoadIndex
  <2>2. file[c] \in Seq(Location)
    BY <1>0, <2>1 DEF ToLoad
  <2>3. \A j \in DOMAIN todo' : todo'[j].to = c /\ todo'[j].on = {"mem"}
    BY <2>1, <2>2, EditsOfAt DEF Write
  <2> QED BY <2>1, <2>3 DEF Targets, Write
<1>2. CASE Recover
  <2>1. \A j \in DOMAIN todo' : todo'[j].to = cur /\ todo'[j].on \subseteq {"mem"}
    BY <1>0, <1>2, RegenerateEditsAt DEF Recover, Write
  <2> QED BY <1>2, <2>1 DEF Targets, Write, Recover
<1>3. CASE Rewrite
  <2>1. mem[cur] \in Seq(Location)
    BY <1>0
  <2>2. \A j \in DOMAIN todo' : todo'[j].to = cur /\ todo'[j].on = {"log"}
    BY <1>3, <2>1, EditsOfAt DEF Rewrite, Write
  <2> QED BY <1>3, <2>2 DEF Targets, Write, Rewrite
<1>4. CASE PushIndex
  <2>1. then' = "pushed" /\ pc' = "journal" /\ UNCHANGED <<loaded, cur, call>>
    BY <1>4 DEF PushIndex, Write
  <2>2. \A j \in DOMAIN todo' : todo'[j].to \in loaded /\ todo'[j].on = Both /\ todo'[j].loc = PushLoc
    BY <1>0, <1>4, PushIndexEdits
  <2>3. PushLoc.len > 0
    <3>1. batch \in Seq(Item) /\ batch # <<>>
      BY <1>4, Groups DEF TypeInv, OperT, Phase, PushIndex
    <3> QED BY <3>1 DEF PushLoc
  <2> QED BY <1>4, <2>1, <2>2, <2>3 DEF Targets, Write, PushIndex
<1>5. CASE Pop
  <2>1. \A j \in DOMAIN todo' : todo'[j].to = call.who
    BY <1>0, <1>5, PopEditsAt DEF Pop, Write
  <2> QED BY <1>5, <2>1 DEF Targets, Write, Pop
<1>6. CASE DeleteBegin
  <2>1. PICK n \in Nat : n = Len(mem[call.who])
    BY <1>0
  <2>2. PICK c \in Consumers, lo \in Nat, hi \in Nat : c = call.who /\ lo = call.lo /\ hi = call.hi
    BY <1>0
  <2> DEFINE es == DeleteEdits(c, lo, hi)
  <2>3. n = Len(mem[c])
    BY <2>1, <2>2
  <2>5. DOMAIN es = 1 .. 5 * n /\ \A j \in 1 .. 5 * n : es[j].to = c
    <3>1. DeleteEditsAre(es, c, lo, hi, n)
      BY <1>0, <2>3, DeleteEditsAt
    <3> QED BY <3>1 DEF DeleteEditsAre
  <2>4. \A j \in DOMAIN todo' : todo'[j].to = call.who
    BY <1>6, <2>2, <2>5 DEF DeleteBegin, Write
  <2> QED BY <1>6, <2>4 DEF Targets, Write, DeleteBegin
<1>7. CASE Fork
  <2>1. PICK src \in forks \cup {Main}, dst \in Forks \ forks :
          /\ cur' = dst
          /\ \/ Write(EditsOf({"log"}, dst, mem[src]), "forked")
             \/ Write(EditsOf({"log"}, dst, file[src]), "forked")
    BY <1>7 DEF Fork
  <2>2. mem[src] \in Seq(Location) /\ file[src] \in Seq(Location)
    BY <1>0
  <2>3. \A j \in DOMAIN todo' : todo'[j].to = dst /\ todo'[j].on = {"log"}
    BY <2>1, <2>2, EditsOfAt DEF Write
  <2> QED BY <2>1, <2>3 DEF Targets, Write
<1> QED BY <1>1, <1>2, <1>3, <1>4, <1>5, <1>6, <1>7

-----------------------------------------------------------------------------
(* The index, position by position.                                        *)

\* r is idx with loc put at position p, behind all keys up to its own.
SetAt(r, idx, loc, p) ==
    /\ p \in 1 .. Len(idx) + 1 /\ Len(r) = Len(idx) + 1 /\ r[p] = loc
    /\ \A j \in 1 .. p - 1 : r[j] = idx[j] /\ idx[j].key <= loc.key
    /\ \A j \in p .. Len(idx) : r[j + 1] = idx[j] /\ idx[j].key > loc.key

\* r is idx without its position p, which is the first one of the key k.
DeletedAt(r, idx, k, p) ==
    /\ p \in 1 .. Len(idx) /\ Len(r) = Len(idx) - 1 /\ idx[p].key = k
    /\ \A j \in 1 .. p - 1 : r[j] = idx[j] /\ idx[j].key # k
    /\ \A j \in p .. Len(idx) - 1 : r[j] = idx[j + 1]

\* An index in memory: sorted, and without empty batches.
Tidy(idx) == IndexSorted(idx) /\ \A i \in DOMAIN idx : idx[i].len > 0

LEMMA LocNumbers ==
  ASSUME NEW loc \in Location
  PROVE  loc.key \in Nat /\ loc.off \in Nat /\ loc.len \in Nat /\ loc.key \in Keys
BY LocFields, KeysAssumption

LEMMA IndexSetAt ==
  ASSUME NEW idx \in Seq(Location), IndexSorted(idx), NEW loc \in Location
  PROVE  \E p \in 1 .. Len(idx) + 1 : SetAt(IndexSet(idx, loc), idx, loc, p)
<1> DEFINE n == Len(idx)
           r == IndexSet(idx, loc)
           T == {j \in 1 .. n + 1 : j = n + 1 \/ idx[j].key > loc.key}
<1>1. n \in Nat /\ DOMAIN idx = 1 .. n /\ \A j \in 1 .. n : idx[j].key \in Nat
  BY LocNumbers
<1>2. loc.key \in Nat
  BY LocNumbers
<1>3. T \subseteq Nat /\ T # {}
  BY <1>1
<1>4. PICK p \in T : \A j \in T : p <= j
  BY <1>3, LeastNat
<1>5. p \in 1 .. n + 1 /\ \A j \in 1 .. p - 1 : idx[j].key <= loc.key
  BY <1>1, <1>2, <1>4
<1>6. \A j \in p .. n : idx[j].key > loc.key
  <2> SUFFICES ASSUME NEW j \in p .. n PROVE idx[j].key > loc.key
    OBVIOUS
  <2>1. p \in 1 .. n /\ j \in 1 .. n /\ idx[p].key > loc.key
    BY <1>1, <1>4, <1>5
  <2>2. j = p \/ idx[p].key <= idx[j].key
    BY <1>1, <2>1 DEF IndexSorted
  <2> QED BY <1>1, <1>2, <2>1, <2>2
<1> HIDE DEF T
<1> DEFINE v(j) == IF j <= n /\ idx[j].key <= loc.key THEN idx[j]
                   ELSE IF j > 1 /\ idx[j - 1].key > loc.key THEN idx[j - 1] ELSE loc
<1>7. r = [j \in 1 .. n + 1 |-> v(j)]
  BY DEF IndexSet
<1>8. ASSUME NEW j \in 1 .. p - 1 PROVE v(j) = idx[j] /\ j \in 1 .. n + 1
  BY <1>1, <1>5
<1>9. v(p) = loc
  <2>1. ~(p <= n /\ idx[p].key <= loc.key)
    BY <1>1, <1>2, <1>5, <1>6
  <2>2. ~(p > 1 /\ idx[p - 1].key > loc.key)
    BY <1>1, <1>2, <1>5
  <2> QED BY <2>1, <2>2
<1>10. ASSUME NEW j \in p .. n PROVE v(j + 1) = idx[j] /\ j + 1 \in 1 .. n + 1
  <2>1. ~(j + 1 <= n /\ idx[j + 1].key <= loc.key)
    BY <1>1, <1>2, <1>5, <1>6
  <2>2. j + 1 > 1 /\ j + 1 - 1 = j /\ idx[j].key > loc.key
    BY <1>1, <1>5, <1>6
  <2> QED BY <1>1, <1>5, <2>1, <2>2
<1> HIDE DEF v, r
<1>11. Len(r) = n + 1 /\ \A j \in 1 .. n + 1 : r[j] = v(j)
  BY <1>1, <1>7
<1> HIDE DEF n
<1>12. SetAt(r, idx, loc, p)
  BY <1>1, <1>5, <1>6, <1>8, <1>9, <1>10, <1>11 DEF SetAt, n
<1> QED BY <1>5, <1>12 DEF r, n

LEMMA IndexDeleteAt ==
  ASSUME NEW idx \in Seq(Location), NEW k \in IndexKeys(idx)
  PROVE  \E p \in 1 .. Len(idx) : DeletedAt(IndexDelete(idx, k), idx, k, p)
<1> DEFINE n == Len(idx)
           r == IndexDelete(idx, k)
           T == {j \in 1 .. n : idx[j].key = k}
<1>1. n \in Nat /\ DOMAIN idx = 1 .. n
  OBVIOUS
<1>3. T \subseteq Nat /\ T # {}
  BY <1>1 DEF IndexKeys
<1>4. PICK p \in T : \A j \in T : p <= j
  BY <1>3, LeastNat
<1>5. p \in 1 .. n /\ idx[p].key = k /\ \A j \in 1 .. p - 1 : idx[j].key # k
  BY <1>1, <1>4
<1> HIDE DEF T
<1> DEFINE v(j) == IF \E i \in 1 .. j : idx[i].key = k THEN idx[j + 1] ELSE idx[j]
<1>6. r = [j \in 1 .. n - 1 |-> v(j)] /\ n - 1 \in Nat
  BY <1>1, <1>5 DEF IndexDelete
<1>7. ASSUME NEW j \in 1 .. p - 1 PROVE v(j) = idx[j] /\ j \in 1 .. n - 1
  BY <1>1, <1>5
<1>8. ASSUME NEW j \in p .. n - 1 PROVE v(j) = idx[j + 1] /\ j \in 1 .. n - 1
  BY <1>1, <1>5
<1> HIDE DEF v, r
<1>9. Len(r) = n - 1 /\ \A j \in 1 .. n - 1 : r[j] = v(j)
  BY <1>1, <1>6
<1> HIDE DEF n
<1>10. DeletedAt(r, idx, k, p)
  BY <1>1, <1>5, <1>7, <1>8, <1>9 DEF DeletedAt, n
<1> QED BY <1>5, <1>10 DEF r, n

LEMMA IndexSetTidy ==
  ASSUME NEW idx \in Seq(Location), Tidy(idx), NEW loc \in Location, loc.len > 0
  PROVE  Tidy(IndexSet(idx, loc))
<1>1. PICK r \in Seq(Location) : r = IndexSet(idx, loc)
  BY IndexSetType
<1>2. PICK p \in 1 .. Len(idx) + 1 : SetAt(r, idx, loc, p)
  BY <1>1, IndexSetAt DEF Tidy
<1>3. PICK n \in Nat : n = Len(idx) /\ DOMAIN idx = 1 .. n /\ DOMAIN r = 1 .. n + 1
  BY <1>2 DEF SetAt
<1>4. /\ p \in 1 .. n + 1 /\ r[p] = loc
      /\ \A j \in 1 .. p - 1 : r[j] = idx[j] /\ idx[j].key <= loc.key
      /\ \A j \in p .. n : r[j + 1] = idx[j] /\ idx[j].key > loc.key
  BY <1>2, <1>3 DEF SetAt
<1>5. loc.key \in Nat /\ \A j \in 1 .. n : idx[j].key \in Nat /\ idx[j].len > 0
  BY <1>3, LocNumbers DEF Tidy
<1>6. \A i, j \in 1 .. n : i < j => idx[i].key <= idx[j].key
  BY <1>3 DEF Tidy, IndexSorted
\* Where an entry of r comes from.
<1>7. ASSUME NEW j \in 1 .. n + 1
      PROVE  \/ j = p
             \/ j < p /\ j \in 1 .. n /\ r[j] = idx[j]
             \/ j > p /\ j - 1 \in p .. n /\ r[j] = idx[j - 1]
  <2>1. CASE j < p
    BY <1>3, <1>4, <2>1
  <2>2. CASE j > p
    <3>1. j - 1 \in p .. n /\ (j - 1) + 1 = j
      BY <1>4, <2>2
    <3>2. r[(j - 1) + 1] = idx[j - 1]
      BY <1>4, <3>1
    <3> QED BY <2>2, <3>1, <3>2
  <2> QED BY <1>4, <2>1, <2>2
<1>8. ASSUME NEW j \in 1 .. n + 1 PROVE r[j].len > 0
  <2>1. r[j] = loc \/ \E i \in 1 .. n : r[j] = idx[i]
    BY <1>4, <1>7
  <2> QED BY <1>5, <2>1
<1>9. ASSUME NEW i \in 1 .. n + 1, NEW j \in 1 .. n + 1, i < j PROVE r[i].key <= r[j].key
  <2>1. CASE i < p /\ j < p
    BY <1>6, <1>7, <1>9, <2>1
  <2>2. CASE i < p /\ j = p
    BY <1>4, <1>7, <2>2
  <2>3. CASE i < p /\ j > p
    <3>2. i \in 1 .. n /\ r[i] = idx[i]
      BY <1>4, <1>7, <2>3
    <3>3. j - 1 \in p .. n /\ r[j] = idx[j - 1]
      BY <1>4, <1>7, <2>3
    <3>1. i \in 1 .. n /\ j - 1 \in 1 .. n /\ i < j - 1 /\ r[i] = idx[i] /\ r[j] = idx[j - 1]
      BY <1>4, <2>3, <3>2, <3>3
    <3> QED BY <1>6, <3>1
  <2>4. CASE i = p /\ j > p
    <3>1. j - 1 \in p .. n /\ r[j] = idx[j - 1]
      BY <1>7, <2>4
    <3>2. idx[j - 1].key > loc.key /\ idx[j - 1].key \in Nat
      BY <1>4, <1>5, <3>1
    <3> QED BY <1>4, <1>5, <2>4, <3>1, <3>2
  <2>5. CASE i > p /\ j > p
    <3>1. i - 1 \in 1 .. n /\ j - 1 \in 1 .. n /\ i - 1 < j - 1 /\ r[i] = idx[i - 1] /\ r[j] = idx[j - 1]
      BY <1>4, <1>7, <1>9, <2>5
    <3> QED BY <1>6, <3>1
  <2> QED BY <1>4, <1>9, <2>1, <2>2, <2>3, <2>4, <2>5
<1> QED BY <1>1, <1>3, <1>8, <1>9 DEF Tidy, IndexSorted

LEMMA IndexDeleteTidy ==
  ASSUME NEW idx \in Seq(Location), Tidy(idx), NEW k \in Keys
  PROVE  Tidy(IndexDelete(idx, k))
<1>1. CASE k \notin IndexKeys(idx)
  BY <1>1 DEF IndexDelete
<1>2. CASE k \in IndexKeys(idx)
  <2>1. PICK r \in Seq(Location) : r = IndexDelete(idx, k)
    BY IndexDeleteType
  <2>2. PICK p \in 1 .. Len(idx) : DeletedAt(r, idx, k, p)
    BY <1>2, <2>1, IndexDeleteAt
  <2>3. PICK n \in Nat : n = Len(idx) /\ DOMAIN idx = 1 .. n /\ DOMAIN r = 1 .. n - 1
    BY <2>2 DEF DeletedAt
  <2>4. /\ p \in 1 .. n
        /\ \A j \in 1 .. p - 1 : r[j] = idx[j]
        /\ \A j \in p .. n - 1 : r[j] = idx[j + 1]
    BY <2>2, <2>3 DEF DeletedAt
  <2>5. \A i, j \in 1 .. n : i < j => idx[i].key <= idx[j].key
    BY <2>3 DEF Tidy, IndexSorted
  <2>6. \A j \in 1 .. n : idx[j].len > 0
    BY <2>3 DEF Tidy
  <2>7. ASSUME NEW j \in 1 .. n - 1
        PROVE  j \in 1 .. n /\ j + 1 \in 1 .. n /\ ((j < p /\ r[j] = idx[j]) \/ (j >= p /\ r[j] = idx[j + 1]))
    BY <2>4
  <2>8. ASSUME NEW i \in 1 .. n - 1, NEW j \in 1 .. n - 1, i < j PROVE r[i].key <= r[j].key
    <3>1. \E a, b \in 1 .. n : a < b /\ r[i] = idx[a] /\ r[j] = idx[b]
      <4>1. CASE i < p /\ j < p
        <5>1. r[i] = idx[i] /\ r[j] = idx[j] /\ i \in 1 .. n /\ j \in 1 .. n
          BY <2>4, <2>7, <4>1
        <5> QED BY <2>8, <5>1
      <4>2. CASE i < p /\ j >= p
        <5>1. r[i] = idx[i] /\ r[j] = idx[j + 1] /\ i \in 1 .. n /\ j + 1 \in 1 .. n /\ i < j + 1
          BY <2>4, <2>7, <2>8, <4>2
        <5> QED BY <5>1
      <4>3. CASE i >= p /\ j >= p
        <5>1. r[i] = idx[i + 1] /\ r[j] = idx[j + 1] /\ i + 1 \in 1 .. n /\ j + 1 \in 1 .. n /\ i + 1 < j + 1
          BY <2>4, <2>7, <2>8, <4>3
        <5> QED BY <5>1
      <4> QED BY <2>4, <2>8, <4>1, <4>2, <4>3
    <3> QED BY <2>5, <3>1
  <2>9. \A j \in 1 .. n - 1 : r[j].len > 0
    BY <2>6, <2>7
  <2> QED BY <2>1, <2>3, <2>8, <2>9 DEF Tidy, IndexSorted
<1> QED BY <1>1, <1>2

LEMMA IndexApplyTidy ==
  ASSUME NEW idx \in Seq(Location), Tidy(idx), NEW loc \in Location
  PROVE  Tidy(IndexApply(idx, loc))
<1>1. loc.len \in Nat /\ loc.key \in Keys
  BY LocNumbers
<1>2. CASE loc.len = 0
  BY <1>1, <1>2, IndexDeleteTidy DEF IndexApply
<1>3. CASE loc.len > 0
  BY <1>1, <1>3, IndexSetTidy DEF IndexApply
<1> QED BY <1>1, <1>2, <1>3

LEMMA NoneTidy == Tidy(<<>>)
BY DEF Tidy, IndexSorted

\* Len() = 0 is no batch at all.
LEMMA TidyEmpty ==
  ASSUME NEW idx \in Seq(Location), Tidy(idx)
  PROVE  IndexEmpty(idx) <=> idx = <<>>
<1>1. ASSUME idx # <<>> PROVE ~IndexEmpty(idx)
  <2>1. 1 \in DOMAIN idx /\ idx[1].len > 0
    BY <1>1 DEF Tidy
  <2> QED BY <2>1 DEF IndexEmpty
<1>2. ASSUME idx = <<>> PROVE IndexEmpty(idx)
  BY <1>2 DEF IndexEmpty
<1> QED BY <1>1, <1>2

-----------------------------------------------------------------------------
(* The indexes in memory are tidy.                                         *)

\* The ways in which a step changes the indexes in memory.
MemoryStep ==
    \/ mem' = mem
    \/ mem' = [c \in Consumers |-> <<>>]
    \/ \E c \in Consumers : mem' = [mem EXCEPT ![c] = <<>>]
    \/ pc = "forked" /\ mem' = [mem EXCEPT ![cur] = mem[call.who]]
    \/ (Journal \/ FailWrite) /\ pc = "journal" /\ todo # <<>> /\ EditMem(Head(todo))

LEMMA QueueMemory ==
    ASSUME forks \subseteq Consumers, Main \in Consumers,
           Start \/ Close \/ Crash \/ CloseUnused
    PROVE  MemoryStep
<1> USE DEF MemoryStep
<1>1. CASE Start
  BY <1>1 DEF Start, disk, index, queue, oper, counters, history
<1>2. CASE Close
  BY <1>2 DEF Close, Stop, Forget, Return, disk, index, queue, oper, counters, history
<1>3. CASE Crash
  BY <1>3 DEF Crash, Stop, Forget, Return, disk, index, queue, oper, counters, history
<1>4. CASE CloseUnused
  BY <1>4 DEF CloseUnused, Forget, disk, index, queue, oper, counters, history
<1> QED BY <1>1, <1>2, <1>3, <1>4

LEMMA OpeningMemory ==
    ASSUME forks \subseteq Consumers, Main \in Consumers,
           Open \/ LoadIndex \/ Loaded \/ Recover \/ Rewrite \/ Rewritten \/ Reinit \/ Opened
    PROVE  MemoryStep
<1> USE DEF MemoryStep
<1>1. CASE Open
  BY <1>1 DEF Open, disk, index, queue, oper, counters, history
<1>2. CASE LoadIndex
  BY <1>2 DEF LoadIndex, ToLoad, Write, disk, index, queue, oper, counters, history
<1>3. CASE Loaded
  BY <1>3 DEF Loaded, disk, index, queue, oper, counters, history
<1>4. CASE Recover
  BY <1>4 DEF Recover, Write, disk, index, queue, oper, counters, history
<1>5. CASE Rewrite
  BY <1>5 DEF Rewrite, Write, disk, index, queue, oper, counters, history
<1>6. CASE Rewritten
  BY <1>6 DEF Rewritten, disk, index, queue, oper, counters, history
<1>7. CASE Reinit
  BY <1>7 DEF Reinit, Forget, disk, index, queue, oper, counters, history
<1>8. CASE Opened
  BY <1>8 DEF Opened, ToLoad, FetchedForks, disk, index, queue, oper, counters, history
<1> QED BY <1>1, <1>2, <1>3, <1>4, <1>5, <1>6, <1>7, <1>8

LEMMA RemovingMemory ==
    ASSUME forks \subseteq Consumers, Main \in Consumers,
           RmIndex \/ RmDat \/ RmMain \/ RmDir \/ RmDirFails
    PROVE  MemoryStep
<1> USE DEF MemoryStep
<1>1. CASE RmIndex
  BY <1>1 DEF RmIndex, Named, RmIndexLog, disk, index, queue, oper, counters, history
<1>2. CASE RmDat
  BY <1>2 DEF RmDat, Named, disk, index, queue, oper, counters, history
<1>3. CASE RmMain
  BY <1>3 DEF RmMain, RmIndexLog, disk, index, queue, oper, counters, history
<1>4. CASE RmDir
  BY <1>4 DEF RmDir, Return, disk, index, queue, oper, counters, history
<1>5. CASE RmDirFails
  BY <1>5 DEF RmDirFails, OpenFails, Forget, Return, disk, index, queue, oper, counters, history
<1> QED BY <1>1, <1>2, <1>3, <1>4, <1>5

LEMMA JournalMemory ==
    ASSUME forks \subseteq Consumers, Main \in Consumers,
           Journal \/ JournalEnd \/ FailWrite \/ Failed
    PROVE  MemoryStep
<1> USE DEF MemoryStep
<1>1. CASE Journal
  BY <1>1 DEF Journal, EditMem, disk, index, queue, oper, counters, history
<1>2. CASE JournalEnd
  BY <1>2 DEF JournalEnd, disk, index, queue, oper, counters, history
<1>3. CASE FailWrite
  <2>1. CASE then = "pushed" /\ EditMem(Head(todo)) /\ PushOver /\ UNCHANGED queue
    BY <1>3, <2>1 DEF FailWrite, EditMem, PushOver, queue, disk, counters
  <2>2. CASE then \in {"popped", "forked"} /\ EditMem(Head(todo)) /\ Return("idle") /\ UNCHANGED queue
    BY <1>3, <2>2 DEF FailWrite, EditMem, Return, queue, disk, counters
  <2>3. CASE then = "rewritten" /\ OpenFails
    BY <1>3, <2>3 DEF FailWrite, OpenFails, Forget, Return, queue, disk, counters
  <2>4. CASE /\ then \in {"deleted", "failed"} /\ EditMem(Head(todo))
             /\ todo' = Tail(todo) /\ then' = "failed"
             /\ UNCHANGED <<pc, after, cur, call, batch, wrote, rd, reading, queue>>
    BY <1>3, <2>4 DEF FailWrite, EditMem, queue, disk, counters
  <2> HIDE DEF MemoryStep
  <2> QED BY <1>3, <2>1, <2>2, <2>3, <2>4 DEF FailWrite
<1>4. CASE Failed
  BY <1>4 DEF Failed, Return, disk, index, queue, oper, counters, history
<1> QED BY <1>1, <1>2, <1>3, <1>4

LEMMA PushMemory ==
    ASSUME forks \subseteq Consumers, Main \in Consumers,
           Push \/ TxPush \/ WriteItem \/ PushIndex \/ PushDone
    PROVE  MemoryStep
<1> USE DEF MemoryStep
<1>1. CASE Push
  BY <1>1 DEF Push, Given, WhenOpen, disk, index, queue, oper, counters, history
<1>2. CASE TxPush
  BY <1>2 DEF TxPush, Given, disk, index, queue, oper, counters, history
<1>3. CASE WriteItem
  BY <1>3 DEF WriteItem, disk, index, queue, oper, counters, history
<1>4. CASE PushIndex
  BY <1>4 DEF PushIndex, Write, disk, index, queue, oper, counters, history
<1>5. CASE PushDone
  BY <1>5 DEF PushDone, PushOver, disk, index, queue, oper, counters, history
<1> QED BY <1>1, <1>2, <1>3, <1>4, <1>5

LEMMA ReadMemory ==
    ASSUME forks \subseteq Consumers, Main \in Consumers,
           Read \/ ReadFirst \/ ReadNext \/ ReadServe \/ Pop \/ Popped \/ PeekOnly \/ CallbackErr \/ Reap
    PROVE  MemoryStep
<1> USE DEF MemoryStep
<1>1. CASE Read
  BY <1>1 DEF Read, WhenOpen, NoCall, disk, index, queue, oper, counters, history
<1>2. CASE ReadFirst
  BY <1>2 DEF ReadFirst, disk, index, queue, oper, counters, history
<1>3. CASE ReadNext
  BY <1>3 DEF ReadNext, disk, index, queue, oper, counters, history
<1>4. CASE ReadServe
  BY <1>4 DEF ReadServe, disk, index, queue, oper, counters, history
<1>5. CASE Pop
  BY <1>5 DEF Pop, Write, disk, index, queue, oper, counters, history
<1>6. CASE Popped
  BY <1>6 DEF Popped, disk, index, queue, oper, counters, history
<1>7. CASE PeekOnly
  BY <1>7 DEF PeekOnly, disk, index, queue, oper, counters, history
<1>8. CASE CallbackErr
  BY <1>8 DEF CallbackErr, Return, disk, index, queue, oper, counters, history
<1>9. CASE Reap
  BY <1>9 DEF Reap, DropBucket, Forget, Return, disk, index, queue, oper, counters, history
<1> QED BY <1>1, <1>2, <1>3, <1>4, <1>5, <1>6, <1>7, <1>8, <1>9

LEMMA ForksMemory ==
    ASSUME forks \subseteq Consumers, Main \in Consumers,
           Delete \/ DeleteBegin \/ Deleted \/ Clear \/ ForkListed \/ Fork \/ Forked \/ RemoveFork
    PROVE  MemoryStep
<1> USE DEF MemoryStep
<1>1. CASE Delete
  BY <1>1 DEF Delete, WhenOpen, NoCall, disk, index, queue, oper, counters, history
<1>2. CASE DeleteBegin
  BY <1>2 DEF DeleteBegin, Write, disk, index, queue, oper, counters, history
<1>3. CASE Deleted
  BY <1>3 DEF Deleted, disk, index, queue, oper, counters, history
<1>4. CASE Clear
  BY <1>4 DEF Clear, DropBucket, Forget, Return, disk, index, queue, oper, counters, history
<1>5. CASE ForkListed
  BY <1>5 DEF ForkListed, ForkMade, disk, index, queue, oper, counters, history
<1>6. CASE Fork
  BY <1>6 DEF Fork, Write, NoCall, disk, index, queue, oper, counters, history
<1>7. CASE Forked
  BY <1>7 DEF Forked, ForkMade, Return, disk, index, queue, oper, counters, history
<1>8. CASE RemoveFork
  BY <1>8 DEF RemoveFork, RmIndexLog, DropBucket, Forget, Return, disk, index, queue, oper, counters, history
<1> QED BY <1>1, <1>2, <1>3, <1>4, <1>5, <1>6, <1>7, <1>8

AllTidy == \A c \in Consumers : Tidy(mem[c])

LEMMA MemoryTidy ==
    ASSUME TypeInv, AllTidy, MemoryStep
    PROVE  AllTidy'
<1>0. /\ mem \in [Consumers -> Seq(Location)] /\ todo \in Seq(Edit)
      /\ call.who \in Consumers /\ cur \in Consumers
  BY Groups DEF TypeInv, IndexT, OperT
<1>1. CASE mem' = mem
  BY <1>1 DEF AllTidy
<1>2. CASE mem' = [c \in Consumers |-> <<>>]
  BY <1>2, NoneTidy DEF AllTidy
<1>3. CASE \E c \in Consumers : mem' = [mem EXCEPT ![c] = <<>>]
  BY <1>0, <1>3, NoneTidy DEF AllTidy
<1>4. CASE mem' = [mem EXCEPT ![cur] = mem[call.who]]
  BY <1>0, <1>4 DEF AllTidy
<1>5. CASE todo # <<>> /\ EditMem(Head(todo))
  <2>1. PICK e \in Edit : e = Head(todo)
    BY <1>0, <1>5
  <2>2. e.to \in Consumers /\ e.loc \in Location
    BY DEF Edit
  <2>3. mem' = mem \/ mem' = [mem EXCEPT ![e.to] = IndexApply(mem[e.to], e.loc)]
    BY <1>5, <2>1 DEF EditMem
  <2>4. Tidy(IndexApply(mem[e.to], e.loc))
    BY <1>0, <2>2, IndexApplyTidy DEF AllTidy
  <2> QED BY <1>0, <2>2, <2>3, <2>4 DEF AllTidy
<1> QED BY <1>1, <1>2, <1>3, <1>4, <1>5 DEF MemoryStep

LEMMA InitTidy == Init => AllTidy
BY NoneTidy DEF Init, AllTidy

-----------------------------------------------------------------------------
(* A drained bucket goes.                                                  *)

LEMMA RunAtLen ==
  ASSUME NEW L \in Seq(Item), NEW p \in 1 .. Len(L)
  PROVE  RunAt(L, p).len > 0
<1> DEFINE T == {q \in p .. Len(L) : \A r \in (p + 1) .. q : ~RunStart(L, r)}
<1>1. p \in T
  OBVIOUS
<1>2. IsFiniteSet(p .. Len(L)) /\ T \subseteq p .. Len(L)
  BY FS_Interval
<1> HIDE DEF T
<1>3. IsFiniteSet(T)
  BY <1>2, FS_Subset
<1>4. Cardinality(T) \in Nat /\ Cardinality(T) # 0
  BY <1>1, <1>3, FS_CardinalityType, FS_EmptySet
<1> QED BY <1>4 DEF RunAt, T

\* While it is being opened: an index that was loaded has had entries, as the
\* value log is replayed into one that had none, unless there is no item.
Replayed ==
    /\ Loading => \A c \in loaded : c \in seen \/ vlog = <<>>
    /\ Doing("rewritten") \/ pc = "regenerated" => cur \in seen \/ vlog = <<>>
    /\ pc = "journal" /\ then = "regenerated" =>
          \/ cur \in seen \/ vlog = <<>>
          \/ todo # <<>> /\ "mem" \in todo[1].on /\ todo[1].loc.len > 0

\* Once it is open: some index has a batch, except while an operation that
\* looks for the end of the bucket, or fills it, is in progress.
HasBatch ==
    /\ fails = 0 /\ tree = "open"
    /\ ~Doing("popped") /\ ~Doing("deleted") /\ pc \notin {"push", "reap"}
    => \/ \E c \in loaded : mem[c] # <<>>
       \/ vlog = <<>>
       \/ Doing("pushed") /\ todo # <<>>

LEMMA InitReplayed == Init => Replayed /\ HasBatch
BY DEF Init, Replayed, HasBatch, Loading, Doing

LEMMA QueueReplayed ==
    ASSUME OpenInv, Program, OnDisk, Replayed,
           Start \/ Close \/ Crash \/ CloseUnused
    PROVE  Replayed'
<1> USE DEF OpenInv, Control, Indexes, Loading, LoadingOne, Forking, ForksOpen, Pushing, Doing, Working, Serving, Program, OnDisk, Replayed
<1>1. CASE Start
  BY <1>1 DEF Start, disk, index, queue, oper, counters, history
<1>2. CASE Close
  BY <1>2 DEF Close, Stop, Forget, Return, disk, index, queue, oper, counters, history
<1>3. CASE Crash
  BY <1>3 DEF Crash, Stop, Forget, Return, disk, index, queue, oper, counters, history
<1>4. CASE CloseUnused
  BY <1>4 DEF CloseUnused, Forget, disk, index, queue, oper, counters, history
<1> QED BY <1>1, <1>2, <1>3, <1>4

LEMMA OpeningReplayed ==
    ASSUME OpenInv, Program, OnDisk, Replayed,
           Open \/ LoadIndex \/ Loaded \/ Rewrite \/ Rewritten \/ Reinit \/ Opened
    PROVE  Replayed'
<1> USE DEF OpenInv, Control, Indexes, Loading, LoadingOne, Forking, ForksOpen, Pushing, Doing, Working, Serving, Program, OnDisk, Replayed
<1>1. CASE Open
  BY <1>1 DEF Open, disk, index, queue, oper, counters, history
<1>2. CASE LoadIndex
  BY <1>2 DEF LoadIndex, ToLoad, Write, disk, index, queue, oper, counters, history
<1>3. CASE Loaded
  BY <1>3 DEF Loaded, disk, index, queue, oper, counters, history
<1>4. CASE Rewrite
  BY <1>4 DEF Rewrite, Write, disk, index, queue, oper, counters, history
<1>5. CASE Rewritten
  BY <1>5 DEF Rewritten, disk, index, queue, oper, counters, history
<1>6. CASE Reinit
  BY <1>6 DEF Reinit, Forget, disk, index, queue, oper, counters, history
<1>7. CASE Opened
  BY <1>7 DEF Opened, ToLoad, FetchedForks, disk, index, queue, oper, counters, history
<1> QED BY <1>1, <1>2, <1>3, <1>4, <1>5, <1>6, <1>7

LEMMA RemovingReplayed ==
    ASSUME OpenInv, Program, OnDisk, Replayed,
           RmIndex \/ RmDat \/ RmMain \/ RmDir \/ RmDirFails
    PROVE  Replayed'
<1> USE DEF OpenInv, Control, Indexes, Loading, LoadingOne, Forking, ForksOpen, Pushing, Doing, Working, Serving, Program, OnDisk, Replayed
<1>1. CASE RmIndex
  BY <1>1 DEF RmIndex, Named, RmIndexLog, disk, index, queue, oper, counters, history
<1>2. CASE RmDat
  BY <1>2 DEF RmDat, Named, disk, index, queue, oper, counters, history
<1>3. CASE RmMain
  BY <1>3 DEF RmMain, RmIndexLog, disk, index, queue, oper, counters, history
<1>4. CASE RmDir
  BY <1>4 DEF RmDir, Return, disk, index, queue, oper, counters, history
<1>5. CASE RmDirFails
  BY <1>5 DEF RmDirFails, OpenFails, Forget, Return, disk, index, queue, oper, counters, history
<1> QED BY <1>1, <1>2, <1>3, <1>4, <1>5

LEMMA JournalReplayed ==
    ASSUME OpenInv, Program, OnDisk, Replayed,
           JournalEnd \/ Failed
    PROVE  Replayed'
<1> USE DEF OpenInv, Control, Indexes, Loading, LoadingOne, Forking, ForksOpen, Pushing, Doing, Working, Serving, Program, OnDisk, Replayed
<1>1. CASE JournalEnd
  BY <1>1 DEF JournalEnd, disk, index, queue, oper, counters, history
<1>2. CASE Failed
  BY <1>2 DEF Failed, Return, disk, index, queue, oper, counters, history
<1> QED BY <1>1, <1>2

LEMMA PushReplayed ==
    ASSUME OpenInv, Program, OnDisk, Replayed,
           Push \/ TxPush \/ WriteItem \/ PushIndex \/ PushDone
    PROVE  Replayed'
<1> USE DEF OpenInv, Control, Indexes, Loading, LoadingOne, Forking, ForksOpen, Pushing, Doing, Working, Serving, Program, OnDisk, Replayed
<1>1. CASE Push
  BY <1>1 DEF Push, Given, WhenOpen, disk, index, queue, oper, counters, history
<1>2. CASE TxPush
  BY <1>2 DEF TxPush, Given, disk, index, queue, oper, counters, history
<1>3. CASE WriteItem
  BY <1>3 DEF WriteItem, disk, index, queue, oper, counters, history
<1>4. CASE PushIndex
  BY <1>4 DEF PushIndex, Write, disk, index, queue, oper, counters, history
<1>5. CASE PushDone
  BY <1>5 DEF PushDone, PushOver, disk, index, queue, oper, counters, history
<1> QED BY <1>1, <1>2, <1>3, <1>4, <1>5

LEMMA ReadReplayed ==
    ASSUME OpenInv, Program, OnDisk, Replayed,
           Read \/ ReadFirst \/ ReadNext \/ ReadServe \/ Pop \/ Popped \/ PeekOnly \/ CallbackErr \/ Reap
    PROVE  Replayed'
<1> USE DEF OpenInv, Control, Indexes, Loading, LoadingOne, Forking, ForksOpen, Pushing, Doing, Working, Serving, Program, OnDisk, Replayed
<1>1. CASE Read
  BY <1>1 DEF Read, WhenOpen, NoCall, disk, index, queue, oper, counters, history
<1>2. CASE ReadFirst
  BY <1>2 DEF ReadFirst, disk, index, queue, oper, counters, history
<1>3. CASE ReadNext
  BY <1>3 DEF ReadNext, disk, index, queue, oper, counters, history
<1>4. CASE ReadServe
  BY <1>4 DEF ReadServe, disk, index, queue, oper, counters, history
<1>5. CASE Pop
  BY <1>5 DEF Pop, Write, disk, index, queue, oper, counters, history
<1>6. CASE Popped
  BY <1>6 DEF Popped, disk, index, queue, oper, counters, history
<1>7. CASE PeekOnly
  BY <1>7 DEF PeekOnly, disk, index, queue, oper, counters, history
<1>8. CASE CallbackErr
  BY <1>8 DEF CallbackErr, Return, disk, index, queue, oper, counters, history
<1>9. CASE Reap
  BY <1>9 DEF Reap, DropBucket, Forget, Return, disk, index, queue, oper, counters, history
<1> QED BY <1>1, <1>2, <1>3, <1>4, <1>5, <1>6, <1>7, <1>8, <1>9

LEMMA ForksReplayed ==
    ASSUME OpenInv, Program, OnDisk, Replayed,
           Delete \/ DeleteBegin \/ Deleted \/ Clear \/ ForkListed \/ Fork \/ Forked \/ RemoveFork
    PROVE  Replayed'
<1> USE DEF OpenInv, Control, Indexes, Loading, LoadingOne, Forking, ForksOpen, Pushing, Doing, Working, Serving, Program, OnDisk, Replayed
<1>1. CASE Delete
  BY <1>1 DEF Delete, WhenOpen, NoCall, disk, index, queue, oper, counters, history
<1>2. CASE DeleteBegin
  BY <1>2 DEF DeleteBegin, Write, disk, index, queue, oper, counters, history
<1>3. CASE Deleted
  BY <1>3 DEF Deleted, disk, index, queue, oper, counters, history
<1>4. CASE Clear
  BY <1>4 DEF Clear, DropBucket, Forget, Return, disk, index, queue, oper, counters, history
<1>5. CASE ForkListed
  BY <1>5 DEF ForkListed, ForkMade, disk, index, queue, oper, counters, history
<1>6. CASE Fork
  BY <1>6 DEF Fork, Write, NoCall, disk, index, queue, oper, counters, history
<1>7. CASE Forked
  BY <1>7 DEF Forked, ForkMade, Return, disk, index, queue, oper, counters, history
<1>8. CASE RemoveFork
  BY <1>8 DEF RemoveFork, RmIndexLog, DropBucket, Forget, Return, disk, index, queue, oper, counters, history
<1> QED BY <1>1, <1>2, <1>3, <1>4, <1>5, <1>6, <1>7, <1>8

LEMMA RecoverReplayed ==
    ASSUME TypeInv, OpenInv, Program, Replayed, Recover
    PROVE  Replayed'
<1>1. vlog \in Seq(Item)
  BY Groups DEF TypeInv, DiskT
<1>2. /\ pc' = "journal" /\ then' = "regenerated" /\ todo' = RegenerateEdits(cur) /\ pc = "loaded"
      /\ UNCHANGED <<vlog, loaded, seen, cur>>
  BY DEF Recover, Write, disk, index
<1>3. vlog # <<>> => 1 \in 1 .. Len(vlog) /\ RunStart(vlog, 1)
  BY <1>1 DEF RunStart
<1>4. vlog # <<>> => todo' # <<>> /\ "mem" \in todo'[1].on /\ todo'[1].loc.len > 0
  <2> SUFFICES ASSUME vlog # <<>> PROVE todo' # <<>> /\ "mem" \in todo'[1].on /\ todo'[1].loc.len > 0
    OBVIOUS
  <2>1. RunAt(vlog, 1).len > 0
    BY <1>1, <1>3, RunAtLen
  <2>2. todo'[1].on = {"mem"} /\ todo'[1].loc = RunAt(vlog, 1) /\ DOMAIN todo' = 1 .. Len(vlog)
    BY <1>1, <1>2, <1>3, RegenerateEditsAt
  <2> QED BY <1>3, <2>1, <2>2
<1> QED BY <1>2, <1>4 DEF Replayed, Loading, Doing

LEMMA JournalKeepsReplayed ==
    ASSUME TypeInv, OpenInv, Program, Targets, Replayed, Journal \/ FailWrite
    PROVE  Replayed'
<1>1. todo \in Seq(Edit)
  BY Groups DEF TypeInv, OperT
<1>2. CASE Journal
  <2>1. /\ UNCHANGED <<pc, then, vlog, loaded, cur>> /\ pc = "journal" /\ todo # <<>>
        /\ \A c \in seen : c \in seen'
        /\ Head(todo) = todo[1] /\ 1 \in DOMAIN todo
        /\ "mem" \in todo[1].on /\ todo[1].loc.len > 0 => todo[1].to \in seen'
    BY <1>1, <1>2 DEF Journal, EditMem, Counts
  <2>2. then = "regenerated" => todo[1].to = cur
    BY <2>1 DEF Targets
  <2> QED BY <2>1, <2>2 DEF Replayed, Loading, Doing
<1>3. CASE FailWrite
  <2>1. pc = "journal" /\ todo # <<>> /\ "log" \in todo[1].on /\ 1 \in DOMAIN todo
    BY <1>1, <1>3 DEF FailWrite
  <2>2. then \notin {"loaded", "regenerated"}
    BY <2>1 DEF Targets
  <2>3. ~Loading' /\ ~Doing("rewritten")' /\ pc' # "regenerated" /\ then' # "regenerated"
    BY <1>3, <2>1, <2>2 DEF FailWrite, PushOver, OpenFails, Return, Loading, Doing
  <2> QED BY <2>3 DEF Replayed
<1> QED BY <1>2, <1>3

LEMMA QueueHasBatch ==
    ASSUME OpenInv, Program, OnDisk, Replayed, HasBatch, fails \in Nat,
           \A c \in loaded : IndexEmpty(mem[c]) <=> mem[c] = <<>>, forks \subseteq Consumers,
           mem \in [Consumers -> Seq(Location)], Main \notin Forks, Main \in Consumers, cur \in Consumers,
           Start \/ Close \/ Crash \/ CloseUnused
    PROVE  HasBatch'
<1> USE DEF OpenInv, Control, Indexes, Loading, LoadingOne, Forking, ForksOpen, Pushing, Doing, Working, Serving, Program, OnDisk, HasBatch
<1>1. CASE Start
  BY <1>1 DEF Start, disk, index, queue, oper, counters, history
<1>2. CASE Close
  BY <1>2 DEF Close, Stop, Forget, Return, disk, index, queue, oper, counters, history
<1>3. CASE Crash
  BY <1>3 DEF Crash, Stop, Forget, Return, disk, index, queue, oper, counters, history
<1>4. CASE CloseUnused
  BY <1>4 DEF CloseUnused, Forget, disk, index, queue, oper, counters, history
<1> QED BY <1>1, <1>2, <1>3, <1>4

LEMMA OpeningHasBatch ==
    ASSUME OpenInv, Program, OnDisk, Replayed, HasBatch, fails \in Nat,
           \A c \in loaded : IndexEmpty(mem[c]) <=> mem[c] = <<>>, forks \subseteq Consumers,
           mem \in [Consumers -> Seq(Location)], Main \notin Forks, Main \in Consumers, cur \in Consumers,
           Open \/ LoadIndex \/ Loaded \/ Recover \/ Rewrite \/ Rewritten \/ Reinit \/ Opened
    PROVE  HasBatch'
<1> USE DEF OpenInv, Control, Indexes, Loading, LoadingOne, Forking, ForksOpen, Pushing, Doing, Working, Serving, Program, OnDisk, HasBatch
<1>1. CASE Open
  BY <1>1 DEF Open, disk, index, queue, oper, counters, history
<1>2. CASE LoadIndex
  BY <1>2 DEF LoadIndex, ToLoad, Write, disk, index, queue, oper, counters, history
<1>3. CASE Loaded
  BY <1>3 DEF Loaded, disk, index, queue, oper, counters, history
<1>4. CASE Recover
  BY <1>4 DEF Recover, Write, disk, index, queue, oper, counters, history
<1>5. CASE Rewrite
  BY <1>5 DEF Rewrite, Write, disk, index, queue, oper, counters, history
<1>6. CASE Rewritten
  BY <1>6 DEF Rewritten, disk, index, queue, oper, counters, history
<1>7. CASE Reinit
  BY <1>7 DEF Reinit, Forget, disk, index, queue, oper, counters, history
<1>8. CASE Opened
  BY <1>8 DEF Opened, ToLoad, FetchedForks, disk, index, queue, oper, counters, history, Replayed, AllEmpty
<1> QED BY <1>1, <1>2, <1>3, <1>4, <1>5, <1>6, <1>7, <1>8

LEMMA RemovingHasBatch ==
    ASSUME OpenInv, Program, OnDisk, Replayed, HasBatch, fails \in Nat,
           \A c \in loaded : IndexEmpty(mem[c]) <=> mem[c] = <<>>, forks \subseteq Consumers,
           mem \in [Consumers -> Seq(Location)], Main \notin Forks, Main \in Consumers, cur \in Consumers,
           RmIndex \/ RmDat \/ RmMain \/ RmDir \/ RmDirFails
    PROVE  HasBatch'
<1> USE DEF OpenInv, Control, Indexes, Loading, LoadingOne, Forking, ForksOpen, Pushing, Doing, Working, Serving, Program, OnDisk, HasBatch
<1>1. CASE RmIndex
  BY <1>1 DEF RmIndex, Named, RmIndexLog, disk, index, queue, oper, counters, history
<1>2. CASE RmDat
  BY <1>2 DEF RmDat, Named, disk, index, queue, oper, counters, history
<1>3. CASE RmMain
  BY <1>3 DEF RmMain, RmIndexLog, disk, index, queue, oper, counters, history
<1>4. CASE RmDir
  BY <1>4 DEF RmDir, Return, disk, index, queue, oper, counters, history
<1>5. CASE RmDirFails
  BY <1>5 DEF RmDirFails, OpenFails, Forget, Return, disk, index, queue, oper, counters, history
<1> QED BY <1>1, <1>2, <1>3, <1>4, <1>5

LEMMA JournalHasBatch ==
    ASSUME OpenInv, Program, OnDisk, Replayed, HasBatch, fails \in Nat,
           \A c \in loaded : IndexEmpty(mem[c]) <=> mem[c] = <<>>, forks \subseteq Consumers,
           mem \in [Consumers -> Seq(Location)], Main \notin Forks, Main \in Consumers, cur \in Consumers,
           JournalEnd \/ Failed
    PROVE  HasBatch'
<1> USE DEF OpenInv, Control, Indexes, Loading, LoadingOne, Forking, ForksOpen, Pushing, Doing, Working, Serving, Program, OnDisk, HasBatch
<1>1. CASE JournalEnd
  BY <1>1 DEF JournalEnd, disk, index, queue, oper, counters, history
<1>2. CASE Failed
  BY <1>2 DEF Failed, Return, disk, index, queue, oper, counters, history
<1> QED BY <1>1, <1>2

LEMMA PushHasBatch ==
    ASSUME OpenInv, Program, OnDisk, Replayed, HasBatch, fails \in Nat,
           \A c \in loaded : IndexEmpty(mem[c]) <=> mem[c] = <<>>, forks \subseteq Consumers,
           mem \in [Consumers -> Seq(Location)], Main \notin Forks, Main \in Consumers, cur \in Consumers,
           Push \/ TxPush \/ WriteItem \/ PushDone
    PROVE  HasBatch'
<1> USE DEF OpenInv, Control, Indexes, Loading, LoadingOne, Forking, ForksOpen, Pushing, Doing, Working, Serving, Program, OnDisk, HasBatch
<1>1. CASE Push
  BY <1>1 DEF Push, Given, WhenOpen, disk, index, queue, oper, counters, history
<1>2. CASE TxPush
  BY <1>2 DEF TxPush, Given, disk, index, queue, oper, counters, history
<1>3. CASE WriteItem
  BY <1>3 DEF WriteItem, disk, index, queue, oper, counters, history
<1>4. CASE PushDone
  BY <1>4 DEF PushDone, PushOver, disk, index, queue, oper, counters, history
<1> QED BY <1>1, <1>2, <1>3, <1>4

LEMMA ReadHasBatch ==
    ASSUME OpenInv, Program, OnDisk, Replayed, HasBatch, fails \in Nat,
           \A c \in loaded : IndexEmpty(mem[c]) <=> mem[c] = <<>>, forks \subseteq Consumers,
           mem \in [Consumers -> Seq(Location)], Main \notin Forks, Main \in Consumers, cur \in Consumers,
           Read \/ ReadFirst \/ ReadNext \/ ReadServe \/ Pop \/ Popped \/ PeekOnly \/ CallbackErr \/ Reap
    PROVE  HasBatch'
<1> USE DEF OpenInv, Control, Indexes, Loading, LoadingOne, Forking, ForksOpen, Pushing, Doing, Working, Serving, Program, OnDisk, HasBatch
<1>1. CASE Read
  BY <1>1 DEF Read, WhenOpen, NoCall, disk, index, queue, oper, counters, history
<1>2. CASE ReadFirst
  BY <1>2 DEF ReadFirst, disk, index, queue, oper, counters, history
<1>3. CASE ReadNext
  BY <1>3 DEF ReadNext, disk, index, queue, oper, counters, history
<1>4. CASE ReadServe
  BY <1>4 DEF ReadServe, disk, index, queue, oper, counters, history
<1>5. CASE Pop
  BY <1>5 DEF Pop, Write, disk, index, queue, oper, counters, history
<1>6. CASE Popped
  BY <1>6 DEF Popped, disk, index, queue, oper, counters, history
<1>7. CASE PeekOnly
  BY <1>7 DEF PeekOnly, disk, index, queue, oper, counters, history
<1>8. CASE CallbackErr
  BY <1>8 DEF CallbackErr, Return, disk, index, queue, oper, counters, history
<1>9. CASE Reap
  BY <1>9 DEF Reap, DropBucket, Forget, Return, disk, index, queue, oper, counters, history, AllEmpty
<1> QED BY <1>1, <1>2, <1>3, <1>4, <1>5, <1>6, <1>7, <1>8, <1>9

LEMMA ForksHasBatch ==
    ASSUME OpenInv, Program, OnDisk, Replayed, HasBatch, fails \in Nat,
           \A c \in loaded : IndexEmpty(mem[c]) <=> mem[c] = <<>>, forks \subseteq Consumers,
           mem \in [Consumers -> Seq(Location)], Main \notin Forks, Main \in Consumers, cur \in Consumers,
           Delete \/ DeleteBegin \/ Deleted \/ Clear \/ ForkListed \/ Fork \/ Forked \/ RemoveFork
    PROVE  HasBatch'
<1> USE DEF OpenInv, Control, Indexes, Loading, LoadingOne, Forking, ForksOpen, Pushing, Doing, Working, Serving, Program, OnDisk, HasBatch
<1>1. CASE Delete
  BY <1>1 DEF Delete, WhenOpen, NoCall, disk, index, queue, oper, counters, history
<1>2. CASE DeleteBegin
  BY <1>2 DEF DeleteBegin, Write, disk, index, queue, oper, counters, history
<1>3. CASE Deleted
  BY <1>3 DEF Deleted, disk, index, queue, oper, counters, history
<1>4. CASE Clear
  BY <1>4 DEF Clear, DropBucket, Forget, Return, disk, index, queue, oper, counters, history
<1>5. CASE ForkListed
  BY <1>5 DEF ForkListed, ForkMade, disk, index, queue, oper, counters, history
<1>6. CASE Fork
  BY <1>6 DEF Fork, Write, NoCall, disk, index, queue, oper, counters, history
<1>7. CASE Forked
  BY <1>7 DEF Forked, ForkMade, Return, disk, index, queue, oper, counters, history
<1>8. CASE RemoveFork
  BY <1>8 DEF RemoveFork, RmIndexLog, DropBucket, Forget, Return, disk, index, queue, oper, counters, history, AllEmpty
<1> QED BY <1>1, <1>2, <1>3, <1>4, <1>5, <1>6, <1>7, <1>8

LEMMA JournalKeepsBatch ==
    ASSUME TypeInv, OpenInv, Program, Targets, AllTidy, HasBatch, Journal \/ FailWrite
    PROVE  HasBatch'
<1>1. /\ todo \in Seq(Edit) /\ fails \in Nat /\ mem \in [Consumers -> Seq(Location)]
      /\ loaded \subseteq Consumers
  BY Groups DEF TypeInv, OperT, CountT, IndexT
<1>2. CASE Journal
  <2>1. /\ UNCHANGED <<pc, then, vlog, loaded, tree, fails>> /\ pc = "journal" /\ todo # <<>>
        /\ 1 \in DOMAIN todo /\ EditMem(todo[1])
    <3>1. Head(todo) = todo[1] /\ 1 \in DOMAIN todo
      BY <1>1, <1>2 DEF Journal
    <3>2. EditMem(todo[1])
      BY <1>2, <3>1 DEF Journal
    <3> QED BY <1>2, <3>1, <3>2 DEF Journal, EditMem, queue, counters
  <2>2. CASE then = "pushed"
    <3>1. PICK e \in Edit : e = todo[1]
      BY <1>1, <2>1
    <3>2. e.to \in loaded /\ e.on = {"mem", "log"} /\ e.loc.len > 0 /\ e.loc \in Location
      BY <2>1, <2>2, <3>1 DEF Targets, Both, Edit
    <3>3. mem'[e.to] = IndexSet(mem[e.to], e.loc)
      <4>1. mem' = [mem EXCEPT ![e.to] = IndexApply(@, e.loc)]
        BY <2>1, <3>1, <3>2 DEF EditMem
      <4> QED BY <1>1, <3>2, <4>1, LocNumbers DEF IndexApply
    <3>4. Len(IndexSet(mem[e.to], e.loc)) = Len(mem[e.to]) + 1 /\ mem[e.to] \in Seq(Location)
      <4>1. IndexSorted(mem[e.to]) /\ mem[e.to] \in Seq(Location)
        BY <1>1, <3>2 DEF AllTidy, Tidy
      <4> QED BY <3>2, <4>1, IndexSetAt DEF SetAt
    <3>5. mem'[e.to] # <<>>
      BY <3>3, <3>4
    <3> QED BY <2>1, <3>2, <3>5 DEF HasBatch
  <2>3. CASE then \in {"loaded", "regenerated", "rewritten"}
    BY <2>1, <2>3 DEF HasBatch, OpenInv, Control, Loading
  <2>4. CASE then = "forked"
    <3>1. mem' = mem
      BY <2>1, <2>4 DEF EditMem, Targets
    <3> QED BY <2>1, <2>4, <3>1 DEF HasBatch, Doing
  <2>5. CASE then \in {"popped", "deleted", "failed"}
    BY <2>1, <2>5 DEF HasBatch, Doing, Program
  <2> QED BY <2>1, <2>2, <2>3, <2>4, <2>5 DEF OpenInv, Control
<1>3. CASE FailWrite
  BY <1>1, <1>3 DEF FailWrite, HasBatch
<1> QED BY <1>2, <1>3

LEMMA PushIndexHasBatch ==
    ASSUME TypeInv, OpenInv, Program, PushIndex
    PROVE  HasBatch'
<1>1. PICK q \in SetToSeqs(Receivers) :
         Write([i \in 1 .. Len(q) |-> EditOf(Both, q[i], PushLoc)], "pushed")
  BY DEF PushIndex
<1>2. IndexT /\ Main \in loaded
  BY Groups DEF TypeInv, PushIndex, OpenInv, Indexes, ForksOpen, Program, Working
<1>3. DOMAIN todo' = 1 .. Len(q) /\ \E i \in 1 .. Len(q) : q[i] = Main
  BY <1>1, <1>2, PushEditsAt DEF Write
<1>4. todo' # <<>>
  BY <1>3
<1> QED BY <1>1, <1>4 DEF HasBatch, Write, Doing

-----------------------------------------------------------------------------
(* These invariants together.                                              *)

Base ==
    /\ TypeInv /\ OpenInv /\ Program /\ OnDisk /\ InMemory /\ Targets /\ AllTidy
    /\ Replayed /\ HasBatch

\* What Base says of the types.
LEMMA BaseTypes ==
  ASSUME Base
  PROVE  /\ vlog \in Seq(Item) /\ file \in [Consumers -> Seq(Location)]
         /\ mem \in [Consumers -> Seq(Location)] /\ todo \in Seq(Edit)
         /\ cur \in Consumers /\ call.who \in Consumers /\ call.lo \in Nat /\ call.hi \in Nat
         /\ forks \subseteq Forks /\ forks \subseteq Consumers /\ Forks \subseteq Consumers
         /\ Main \in Consumers /\ Main \notin Forks /\ loaded \subseteq Consumers
         /\ rd.iters \in Seq(Iter) /\ rd.out \in Seq(Item) /\ rd.pos \in Nat
         /\ batch \in Seq(Item) /\ wrote \in Nat /\ fails \in Nat /\ stops \in Nat /\ closes \in Nat
         /\ IndexT
<1>1. DiskT /\ IndexT /\ QueueT /\ OperT /\ CountT
  BY Groups DEF Base, TypeInv
<1>2. MaxFails \in Nat /\ MaxStops \in Nat /\ MaxCloses \in Nat /\ Main \notin Forks
  BY BucketAssumption
<1>3. Len(batch) \in Nat
  BY <1>1 DEF OperT
<1> QED BY <1>1, <1>2, <1>3 DEF DiskT, IndexT, QueueT, OperT, CountT, Consumers

LEMMA InitBase == Init => Base
BY InitTypes, InitOpen, InitProgram, InitOnDisk, InitTidy, InitReplayed DEF Base

LEMMA ProgramStep ==
  ASSUME Base, Next
  PROVE  Program'
BY BaseTypes, QueueProgram, OpeningProgram, RemovingProgram, JournalProgram, PushProgram,
   ReadProgram, ForksProgram DEF Base, Next, Step, Environment

LEMMA DiskStep ==
  ASSUME Base, Next
  PROVE  OnDisk'
BY BaseTypes, QueueOnDisk, OpeningOnDisk, RemovingOnDisk, JournalOnDisk, PushOnDisk, ReadOnDisk,
   ForksOnDisk, JournalKeepsDisk DEF Base, Next, Step, Environment

LEMMA InMemoryStep ==
  ASSUME Base, Next
  PROVE  InMemory'
BY BaseTypes, QueueInMemory, OpeningInMemory, RemovingInMemory, JournalInMemory, PushInMemory,
   ReadInMemory, ForksInMemory, JournalKeepsMemory DEF Base, Next, Step, Environment

LEMMA TargetsStep ==
  ASSUME Base, Next
  PROVE  Targets'
<1>1. CASE Journal \/ FailWrite
  BY <1>1, BaseTypes, JournalTargets DEF Base
<1>2. CASE LoadIndex \/ Recover \/ Rewrite \/ PushIndex \/ Pop \/ DeleteBegin \/ Fork
  BY <1>2, WriteTargets DEF Base
<1>3. CASE pc' # "journal"
  BY <1>3 DEF Targets
<1> QED BY <1>1, <1>2, <1>3, QueueElsewhere, OpeningElsewhere, RemovingElsewhere,
           JournalElsewhere, PushElsewhere, ReadElsewhere, ForksElsewhere
        DEF Base, Next, Step, Environment

LEMMA MemStep ==
  ASSUME Base, Next
  PROVE  MemoryStep
BY BaseTypes, QueueMemory, OpeningMemory, RemovingMemory, JournalMemory, PushMemory, ReadMemory,
   ForksMemory DEF Next, Step, Environment

LEMMA TidyStep ==
  ASSUME Base, Next
  PROVE  AllTidy'
BY MemStep, MemoryTidy DEF Base

LEMMA ReplayedStep ==
  ASSUME Base, Next
  PROVE  Replayed'
BY QueueReplayed, OpeningReplayed, RemovingReplayed, JournalReplayed, PushReplayed, ReadReplayed,
   ForksReplayed, RecoverReplayed, JournalKeepsReplayed DEF Base, Next, Step, Environment

LEMMA HasBatchStep ==
  ASSUME Base, Next
  PROVE  HasBatch'
<1>1. \A c \in loaded : IndexEmpty(mem[c]) <=> mem[c] = <<>>
  BY BaseTypes, TidyEmpty DEF Base, AllTidy
<1> QED BY <1>1, BaseTypes, QueueHasBatch, OpeningHasBatch, RemovingHasBatch, JournalHasBatch,
           PushHasBatch, ReadHasBatch, ForksHasBatch, JournalKeepsBatch, PushIndexHasBatch
        DEF Base, Next, Step, Environment

LEMMA BaseStays ==
  ASSUME Base, UNCHANGED vars
  PROVE  Base'
<1>1. TypeInv' /\ OpenInv'
  BY TypeStep, OpenStep DEF Base
<1>2. /\ UNCHANGED <<dir, dat, vlog, exist, file, loaded, mem, seen, blank, forks, tree, pc, after,
                     then, cur, call, batch, wrote, rd, reading, todo, fails>>
  BY DEF vars, disk, index, queue, oper, counters
<1>3. Program' /\ OnDisk' /\ InMemory' /\ Targets' /\ AllTidy' /\ Replayed' /\ HasBatch'
  BY <1>2 DEF Base, Program, OnDisk, InMemory, Targets, AllTidy, Replayed, HasBatch, Working,
              Serving, Forking, Loading, LoadingOne, Pushing, Doing
<1> QED BY <1>1, <1>3 DEF Base

LEMMA BaseStep == Base /\ [Next]_vars => Base'
<1> SUFFICES ASSUME Base, [Next]_vars PROVE Base'
  OBVIOUS
<1>1. CASE UNCHANGED vars
  BY <1>1, BaseStays
<1>2. CASE Next
  <2>1. TypeInv' /\ OpenInv'
    BY TypeStep, OpenStep DEF Base
  <2> QED BY <1>2, <2>1, ProgramStep, DiskStep, InMemoryStep, TargetsStep, TidyStep,
             ReplayedStep, HasBatchStep DEF Base
<1> QED BY <1>1, <1>2

\* A bucket that all consumers have drained does not stay on disk: once it is
\* open and no operation is in progress, there are no items in its value log if
\* no index has a batch (openBucket, buckets.Read and Delete, RemoveFork).
THEOREM DrainedBucketGoes == Spec => []DrainedGoes
<1>1. Base => DrainedGoes
  <2> SUFFICES ASSUME Base, Settled, tree = "open", fails = 0, \A c \in loaded : mem[c] = <<>>
               PROVE  vlog = <<>>
    BY DEF DrainedGoes
  <2> QED BY DEF Base, HasBatch, Settled, Doing
<1> QED BY InitBase, BaseStep, <1>1, PTL DEF Spec

=============================================================================
