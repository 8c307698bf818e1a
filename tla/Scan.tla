-------------------------------- MODULE Scan --------------------------------
(***************************************************************************)
(* The value log in bytes: reading it from its beginning to regenerate a   *)
(* lost index (FromVlog, vlog.Iter, findNextItem), then a Read of all that *)
(* there is by the locations of that index, or of the index that is loaded *)
(* when the bucket was reopened in between.                                *)
(*                                                                         *)
(* The log is a sequence of pieces: whole items, and at most one fragment  *)
(* of an item whose writing was cut short, behind which later items may    *)
(* follow.  Its size is what shrink has left of it.  A blob has no byte FF, *)
(* and only the beginning of an item is taken for one.                     *)
(***************************************************************************)
EXTENDS Integers, Sequences, SequencesExt

CONSTANTS Keys,       \* the keys of items, negative ones too, of one byte
          Blobs,      \* lengths of blobs
          Fragments,  \* lengths of a fragment
          MaxLog      \* bound on the number of items

HeaderSize == 12
TrailerSize == 2

ASSUME ScanAssumption ==
    /\ Keys \subseteq -256 .. 255 /\ Blobs \subseteq Nat /\ MaxLog \in Nat
    /\ Fragments \subseteq Nat \ {0}

VARIABLES abort,      \* whether ErrorMode is Abort, which is the default
          log,        \* dat.log
          iter,       \* the vlog.Iter
          prev, last, initial,  \* prevLoc, lastLoc and isInitialItem
          index,      \* the index, by the order of its keys
          pc,         \* "scan", "read", "next", "done" or "failed"
          reopened,   \* whether the bucket was opened again before the Read
          todo,       \* the locations still to be read
          served      \* the pieces served from each location read

vars == <<abort, log, iter, prev, last, initial, index, pc, reopened, todo, served>>

\* Item.StorageSize
StorageSize(blob) == HeaderSize + blob + TrailerSize

Whole == {[key |-> k, size |-> StorageSize(n), whole |-> TRUE] : k \in Keys, n \in Blobs}
\* Of the key of a fragment it matters whether it is negative.
Torn == {[key |-> k, size |-> n, whole |-> FALSE] : k \in {-1, 0}, n \in Fragments}

\* The pieces one behind the other: off is where a piece begins.
Laid(pieces) ==
    FoldLeft(LAMBDA q, p : Append(q, [key |-> p.key, size |-> p.size, whole |-> p.whole,
                 off |-> IF q = <<>> THEN 0 ELSE Last(q).off + Last(q).size]), <<>>, pieces)

End(i) == log[i].off + log[i].size
Size == IF log = <<>> THEN 0 ELSE End(Len(log))

\* The piece at an offset; 0 if none begins there.
PieceAt(off) == Max({0} \cup {i \in DOMAIN log : log[i].off = off})

WholeAt(off) == PieceAt(off) # 0 /\ log[PieceAt(off)].whole

\* readItemAt: behind the last header there is nothing to read, which is not
\* an error and leaves the item as it was.
NothingAt(off) == off + HeaderSize >= Size
Bad(off) == ~NothingAt(off) /\ ~WholeAt(off)

\* Behind two bytes FF: the trailer of an item, and the key in its header if
\* that is negative.
MarksOf(i) ==
    (IF log[i].whole THEN {End(i)} ELSE {}) \cup
    {off \in log[i].off + 6 .. log[i].off + (IF log[i].key = -1 THEN 12 ELSE 11) :
        log[i].key < 0 /\ off <= End(i)}

Marks == UNION {MarksOf(i) : i \in DOMAIN log}

\* Variant of FindNextItem: the marker itself is not skipped.
FindNextItem_AtMarker(off) ==
    Min({Size} \cup {m - TrailerSize : m \in {n \in Marks : n - TrailerSize >= off}})

\* findNextItem: the offset behind the next marker.
FindNextItem(off) == Min({Size} \cup {m \in Marks : m - TrailerSize > off})

-----------------------------------------------------------------------------
(* vlog.Iter                                                               *)

\* item: the piece of the current item; 0 is the item of Go's zero value.
At(off, len) == [off |-> off, len |-> len, item |-> 0, exh |-> FALSE]

KeyOf(it) == IF it.item = 0 THEN 0 ELSE log[it.item].key
SizeOf(it) == IF it.item = 0 THEN StorageSize(0) ELSE log[it.item].size

Ended(it) == it.len = 0 \/ it.exh \/ it.off >= Size

\* Variant of IterNext: what is left to read is not counted down.
IterNext_Endless(it) ==
    IF Ended(it) THEN [it EXCEPT !.exh = TRUE]
    ELSE LET at == [it EXCEPT !.item = IF NothingAt(it.off) THEN @ ELSE PieceAt(it.off)]
         IN  [at EXCEPT !.off = @ + SizeOf(at)]

\* Iter.Next, where there is no damage.
IterNext(it) ==
    IF Ended(it) THEN [it EXCEPT !.exh = TRUE]
    ELSE LET at == [it EXCEPT !.item = IF NothingAt(it.off) THEN @ ELSE PieceAt(it.off)]
         IN  [at EXCEPT !.off = @ + SizeOf(at), !.len = @ - 1]

\* The loop of Iter.Next, for an iterator that continues on errors: that of
\* FromVlog, and those of logAt unless ErrorMode is Abort.
Skip ==
    /\ pc = "scan" \/ (pc = "next" /\ ~abort)
    /\ ~Ended(iter) /\ Bad(iter.off)
    /\ iter' = [iter EXCEPT !.off = FindNextItem(@)]
    /\ UNCHANGED <<abort, log, prev, last, initial, index, pc, todo, served, reopened>>

\* Iter.Next returns true, or false.
IterTrue == ~Ended(iter) /\ ~Bad(iter.off) /\ iter' = IterNext(iter)
IterFalse == Ended(iter) /\ iter' = IterNext(iter)

-----------------------------------------------------------------------------
(* FromVlog                                                                *)

Ref == INSTANCE Index

Infinite == MaxLog + 2   \* stands for the largest length

NoLoc == [key |-> 0, off |-> 0, len |-> 0]

Init ==
    /\ \E n \in 0 .. MaxLog : \E items \in [1 .. n -> Whole] :
          \/ log = Laid(items)
          \/ \E t \in Torn, i \in 1 .. n + 1 : log = Laid(InsertAt(items, i, t))
    /\ abort \in BOOLEAN
    /\ iter = At(0, Infinite) /\ prev = NoLoc /\ last = NoLoc /\ initial = TRUE
    /\ index = <<>> /\ pc = "scan" /\ reopened = FALSE /\ todo = <<>> /\ served = <<>>

\* Variant of NewRun: the whole log is one run.
NewRun_Never(it) == FALSE

\* A smaller key begins a new run.  The first key is compared with zero.
NewRun(it) == prev.key > KeyOf(it)

\* Variant of NextRun: the offset behind its first item.
NextRun_Behind(it) ==
    IF NewRun(it) THEN [key |-> KeyOf(it), off |-> prev.off + SizeOf(it), len |-> 1]
    ELSE [last EXCEPT !.len = @ + 1, !.key = IF initial THEN KeyOf(it) ELSE @]

\* The run that the item belongs to.
NextRun(it) ==
    IF NewRun(it)
    THEN [key |-> KeyOf(it), off |-> prev.off, len |-> 1]
    ELSE [last EXCEPT !.len = @ + 1, !.key = IF initial THEN KeyOf(it) ELSE @]

ScanItem ==
    /\ pc = "scan" /\ IterTrue
    /\ index' = IF NewRun(iter') THEN Ref!IndexSet(index, last) ELSE index
    /\ last' = NextRun(iter') /\ initial' = FALSE
    /\ prev' = [prev EXCEPT !.key = KeyOf(iter'), !.off = @ + SizeOf(iter')]
    /\ UNCHANGED <<abort, log, pc, todo, served, reopened>>

\* Variant of ScanEnd: the last run is left out.
ScanEnd_Open ==
    /\ pc = "scan" /\ IterFalse
    /\ index' = index /\ todo' = index' /\ pc' = "read"
    /\ UNCHANGED <<abort, log, prev, last, initial, served, reopened>>

ScanEnd ==
    /\ pc = "scan" /\ IterFalse
    /\ index' = IF last.len > 0 THEN Ref!IndexSet(index, last) ELSE index
    /\ todo' = index' /\ pc' = "read"
    /\ UNCHANGED <<abort, log, prev, last, initial, served, reopened>>

-----------------------------------------------------------------------------
(* A Read of everything, by the locations of the index                     *)

\* The bucket is closed and opened again before the Read: what recovery wrote
\* with WriteIndex is loaded.
Reopen ==
    /\ pc = "read" /\ served = <<>> /\ ~reopened /\ reopened' = TRUE
    /\ LET loaded == FoldLeft(Ref!IndexApply, <<>>, index)
       IN  loaded # index /\ todo' = loaded
    /\ UNCHANGED <<abort, log, iter, prev, last, initial, index, pc, served>>

ReadLocation ==
    /\ pc = "read" /\ todo # <<>>
    /\ iter' = At(todo[1].off, todo[1].len) /\ todo' = Tail(todo)
    /\ served' = Append(served, <<>>) /\ pc' = "next"
    /\ UNCHANGED <<abort, log, prev, last, initial, index, reopened>>

ReadItem ==
    /\ pc = "next" /\ IterTrue
    /\ served' = [served EXCEPT ![Len(served)] = Append(@, iter'.item)]
    /\ UNCHANGED <<abort, log, prev, last, initial, index, pc, todo, reopened>>

\* The location has been read.  If it gave nothing at all, addIter does not
\* advance the iterator of the index: peek comes to no location behind it.
ReadEnd ==
    /\ pc = "next" /\ IterFalse
    /\ pc' = IF Last(served) = <<>> THEN "done" ELSE "read"
    /\ UNCHANGED <<abort, log, prev, last, initial, index, todo, served, reopened>>

\* Damage, if ErrorMode is Abort: peek, and with it the Read, gives nothing.
ReadFails ==
    /\ pc = "next" /\ abort /\ ~Ended(iter) /\ Bad(iter.off)
    /\ pc' = "failed" /\ served' = <<>> /\ iter' = [iter EXCEPT !.exh = TRUE]
    /\ UNCHANGED <<abort, log, prev, last, initial, index, todo, reopened>>

Done ==
    /\ pc = "read" /\ todo = <<>> /\ pc' = "done"
    /\ UNCHANGED <<abort, log, iter, prev, last, initial, index, todo, served, reopened>>

Next ==
    \/ Skip \/ ScanItem \/ ScanEnd \/ Reopen
    \/ ReadLocation \/ ReadItem \/ ReadEnd \/ ReadFails \/ Done

Spec == Init /\ [][Next]_vars /\ WF_vars(Next)

-----------------------------------------------------------------------------

Fragment == {i \in DOMAIN log : ~log[i].whole}
Items == DOMAIN log \ Fragment

\* A fragment at the end that is no longer than a header, and one behind whose
\* negative key there is less than a header.  Iter.Next takes either for an item
\* and yields the one before it again.
Stub == Fragment = {Len(log)} /\ log[Len(log)].size <= HeaderSize
Misread ==
    Fragment = {Len(log)} /\ LET f == log[Len(log)] IN
        f.size > HeaderSize /\ \E m \in MarksOf(Len(log)) : NothingAt(m)

\* How often a piece is served.
Times(i) ==
    FoldLeft(LAMBDA n, q : n + Cardinality({j \in DOMAIN q : q[j] = i}), 0, served)

\* The index that FromVlog makes of an undamaged log is what Bucket takes it
\* for: the ascending runs of the log, by their keys.  The one exception is a
\* run of no items with the key 0, if the first key is negative.
RunsOfTheLog ==
    pc # "scan" /\ Fragment = {} =>
        LET starts == SelectSeq([i \in DOMAIN log |-> i], LAMBDA i : Ref!RunStart(log, i))
            ByRun(idx, i) ==
                Ref!IndexSet(idx, [Ref!RunAt(log, i) EXCEPT !.off = log[i].off])
            none == IF log # <<>> /\ log[1].key < 0 THEN <<NoLoc>> ELSE <<>>
        IN  index = FoldLeft(ByRun, none, starts)

\* An item behind the run of no items, which stops peek: its run has no
\* negative key.
Behind(i) ==
    /\ ~reopened /\ NoLoc \in {index[j] : j \in DOMAIN index}
    /\ log[Max({j \in 1 .. i : Ref!RunStart(log, j)})].key >= 0

\* After a crash that cut short the last item, a Read by the regenerated index
\* serves every whole item once and does not fail.  There are two exceptions.
\* If the first key is negative, items of runs with other keys are not served
\* until the bucket is reopened.  A fragment that is taken for an item makes the
\* one before it come twice, or one with the key 0 if there was none; if it has
\* a negative key, the Read fails with ErrorModeAbort.
WholeItemsOnce ==
    Fragment \subseteq {Len(log)} =>
        /\ pc = "failed" => abort /\ Misread
        /\ pc = "done" =>
            /\ \A i \in Items :
                  Times(i) = IF Behind(i) THEN 0
                             ELSE IF (Stub \/ Misread) /\ i = Len(log) - 1 THEN 2 ELSE 1
            /\ \A i \in Fragment : Times(i) = 0
            /\ Times(0) = (IF (Stub \/ Misread) /\ Items = {} THEN 1 ELSE 0)

\* With a fragment in the middle, a Read serves what was written before it, if
\* it gives anything: with ErrorModeAbort it fails instead of passing over the
\* damage in silence.  (Again but for what is behind the run of no items.)
BeforeFragmentServed ==
    /\ pc = "done" => \A i \in Items, f \in Fragment : i < f => Times(i) >= 1 \/ Behind(i)
    /\ pc = "failed" => abort /\ (Misread \/ \E f \in Fragment : \E i \in Items : f < i)

\* Each location serves its items by ascending keys, which is what peek relies
\* on.  (Not so behind a fragment in the middle: FromVlog adds up the sizes of
\* the items that it has read, so its offsets are too small from there on.)
AscendingRuns ==
    \A j \in DOMAIN served : \A h \in 1 .. Len(served[j]) - 1 :
        Fragment \subseteq {Len(log)} /\ served[j][h] # 0 =>
            log[served[j][h]].key <= log[served[j][h + 1]].key

\* Regenerating an index, and a Read by it, come to an end, whatever the log is like.
ScanTerminates == <>(pc \in {"done", "failed"})
=============================================================================
