------------------------------- MODULE Bucket -------------------------------
(***************************************************************************)
(* A queue with one bucket (bucket.go, and the part of buckets.go around   *)
(* a single bucket): the value log dat.log, one index log per consumer,    *)
(* the indexes in memory, and the operations Push, Read, Delete, Fork,     *)
(* RemoveFork, Clear, Close and Open of the queue, with a crash of the     *)
(* process possible between any two writes.                                *)
(*                                                                         *)
(* The mutex of buckets makes operations sequential, so there is one       *)
(* program counter.  An operation that writes to the index logs does it as *)
(* a list of edits (todo), one per step, so that a crash or a failing      *)
(* write can come between any two of them.                                 *)
(***************************************************************************)
EXTENDS Peek, SequencesExt

CONSTANTS Forks,      \* the names forks may have
          Main,       \* the consumer that is the queue itself, fork name ""
          Batches,    \* the sorted key sequences that may be pushed
          Ranges,     \* the ranges <<from, to>> that may be deleted
          MaxRead,    \* bound on the argument n of Read
          MaxItems,   \* bound on the number of items ever pushed
          MaxStops,   \* bound on how often the queue is closed or crashes
          MaxCloses,  \* bound on closeUnused closing the bucket
          MaxFails    \* bound on failing writes to an index log

Consumers == Forks \cup {Main}

ASSUME BucketAssumption ==
    /\ IsFiniteSet(Forks) /\ Main \notin Forks
    /\ Batches \subseteq Seq(Keys)
    /\ \A b \in Batches : b # <<>> /\ \A i, j \in DOMAIN b : i < j => b[i] <= b[j]
    /\ Ranges \subseteq {r \in Nat \X Nat : r[1] <= r[2]}
    /\ MaxRead \in Nat /\ MaxItems \in Nat /\ MaxStops \in Nat
    /\ MaxCloses \in Nat /\ MaxFails \in Nat

VARIABLES
    \* The disk.
    dir, dat,     \* whether the bucket's directory and its dat.log exist
    vlog,         \* the items in dat.log
    exist,        \* the consumers whose index log exists
    file,         \* the records of the index logs
    \* The process.
    forks,        \* buckets.forks
    tree,         \* the bucket in buckets.tree: "absent", "nil" or "open"
    loaded,       \* the consumers in bucket.indexes
    mem,          \* bucketIndex.Mem
    seen,         \* the consumers with Mem.NEntries() > 0
    blank,        \* vlog.Log.isEmpty
    \* The operation in progress.
    pc, after, then,  \* where it is, what to do once open, and once written
    cur,          \* the consumer whose index is opened or created
    call,         \* the arguments of Read, Delete or Fork
    batch, wrote, \* the items of a Push, and how many are in the value log
    rd,           \* batchIters, idxIter and dst of peek
    reading,      \* whether Read is in its callback
    todo,         \* edits of the indexes still to be made
    \* Counters, for the bounds.
    nextId, stops, closes, fails,
    \* History, for the properties.
    must,         \* what a consumer still has to get: pushed, not consumed
    may,          \* what it may get as well: an operation was interrupted
    made,         \* forks that were created and not removed
    crashed,      \* whether the process ever crashed
    known         \* see Reasons

\* What may have happened that the code is known not to cope with.  The
\* properties are stated for behaviours without it; the README says what each
\* of them leads to.
Reasons == {"forksForgotten",  \* the queue was opened with forks on disk
            "popCut",          \* popSync of batches that share a first key was cut short
            "deleteShared",    \* Delete of one of such batches, not the oldest
            "blankFork",       \* a consumer with nothing to read was forked
            "clearCut",        \* so was the removal of a bucket with items left
            "failedWrite",     \* a write to an index log failed
            "failedFork",      \* so did one while forking
            "unsyncedData"}    \* the power failed after an index of such data was written

disk == <<dir, dat, vlog, exist, file>>
index == <<loaded, mem, seen, blank>>
queue == <<forks, tree>>
oper == <<after, then, cur, call, batch, wrote, rd, reading, todo>>
counters == <<nextId, stops, closes, fails>>
history == <<must, may, made, crashed, known>>
vars == <<disk, index, queue, pc, oper, counters, history>>

-----------------------------------------------------------------------------
(* Edits: a location to be applied to an index in memory, appended to the  *)
(* index log, or both (first in memory).  An edit that the code skips is   *)
(* there with on = {}.                                                     *)

Edit == [on : SUBSET {"mem", "log"}, to : Consumers, loc : Location]

Both == {"mem", "log"}
EditOf(on, c, loc) == [on |-> on, to |-> c, loc |-> loc]
EditsOf(on, c, locs) == [i \in 1 .. Len(locs) |-> EditOf(on, c, locs[i])]

\* Variant of PopEdits: the end of a batch before what is left of it.
PopEdits_EndFirst(c, h) ==
    [j \in 1 .. 2 * Len(h) |->
        LET it == h[(j + 1) \div 2]
        IN  IF j % 2 = 1 THEN EditOf(Both, c, DeadLoc(it.first))
            ELSE EditOf(IF it.exh THEN {} ELSE Both, c, CurrentLocation(it))]

\* Variant of PopEdits: a batch that was read to its end is not ended.
PopEdits_KeepRead(c, h) ==
    [j \in 1 .. 2 * Len(h) |->
        LET it == h[(j + 1) \div 2]
        IN  EditOf(IF it.exh THEN {} ELSE Both, c,
                   IF j % 2 = 0 THEN DeadLoc(it.first) ELSE CurrentLocation(it))]

\* popSync, in the order of the heap: what is left of a batch, then the end
\* of the batch itself.
PopEdits(c, h) ==
    [j \in 1 .. 2 * Len(h) |->
        LET it == h[(j + 1) \div 2]
        IN  IF j % 2 = 0 THEN EditOf(Both, c, DeadLoc(it.first))
            ELSE EditOf(IF it.exh THEN {} ELSE Both, c, CurrentLocation(it))]

\* bucket.Delete: the parts of a batch on either side of the range.  A batch
\* is ascending, so the part to the left is the items below the range.
LeftPart(loc, lo) ==
    [loc EXCEPT !.len = Cardinality({s \in LocSlots(loc) \cap DOMAIN vlog : vlog[s].key < lo})]

RightPart(loc, hi) ==
    LET above == {s \in LocSlots(loc) \cap DOMAIN vlog : vlog[s].key > hi}
    IN  IF above = {} THEN DeadLoc(loc.key)
        ELSE [key |-> vlog[Min(above)].key, off |-> Min(above) - 1,
              len |-> loc.off + loc.len - Min(above) + 1]

Affected(loc, lo, hi) ==
    loc.key <= hi /\ loc.len # LeftPart(loc, lo).len + RightPart(loc, hi).len

\* What is left of the affected batches, and their ends.
PartEdits(c, lo, hi, on) ==
    [j \in 1 .. 2 * Len(mem[c]) |->
        LET loc == mem[c][(j + 1) \div 2]
            part == IF j % 2 = 1 THEN LeftPart(loc, lo) ELSE RightPart(loc, hi)
        IN  EditOf(IF Affected(loc, lo, hi) /\ part.len > 0 THEN on ELSE {}, c, part)]

EndEdits(c, lo, hi) ==
    [j \in 1 .. Len(mem[c]) |->
        EditOf(IF Affected(mem[c][j], lo, hi) THEN Both ELSE {}, c, DeadLoc(mem[c][j].key))]

\* Variants of DeleteEdits: the batches are not ended; what is left of them is
\* not written to the log.
DeleteEdits_NoEnds(c, lo, hi) == PartEdits(c, lo, hi, Both)
DeleteEdits_MemOnly(c, lo, hi) == EndEdits(c, lo, hi) \o PartEdits(c, lo, hi, {"mem"})

\* The parts are written to the log, then the end of each affected batch to
\* memory and log; the parts get into memory last.
DeleteEdits(c, lo, hi) ==
    PartEdits(c, lo, hi, {"log"}) \o EndEdits(c, lo, hi) \o PartEdits(c, lo, hi, {"mem"})

\* FromVlog: one Set per ascending run of the value log.
RegenerateEdits(c) ==
    [p \in 1 .. Len(vlog) |->
        EditOf(IF RunStart(vlog, p) THEN {"mem"} ELSE {}, c, RunAt(vlog, p))]

\* Variants of AllEmpty: some consumer is enough; forks do not count.
AllEmpty_Some(cs) == \E c \in cs : IndexEmpty(mem[c])
AllEmpty_Main(cs) == IndexEmpty(mem[Main])

AllEmpty(cs) == \A c \in cs : IndexEmpty(mem[c])

ItemsOf(q) == {q[i] : i \in DOMAIN q}

-----------------------------------------------------------------------------

NoCall == [who |-> Main, n |-> 0, lo |-> 0, hi |-> 0]
NoRead == [iters |-> <<>>, pos |-> 1, out |-> <<>>]

Init ==
    /\ dir = FALSE /\ dat = FALSE /\ vlog = <<>>
    /\ exist = {} /\ file = [c \in Consumers |-> <<>>]
    /\ forks = {} /\ tree = "absent"
    /\ loaded = {} /\ mem = [c \in Consumers |-> <<>>] /\ seen = {} /\ blank = FALSE
    /\ pc = "down" /\ after = "idle" /\ then = "idle" /\ cur = Main /\ call = NoCall
    /\ batch = <<>> /\ wrote = 0 /\ rd = NoRead /\ reading = FALSE /\ todo = <<>>
    /\ nextId = 0 /\ stops = 0 /\ closes = 0 /\ fails = 0
    /\ must = [c \in Consumers |-> {}] /\ may = [c \in Consumers |-> {}]
    /\ made = {} /\ crashed = FALSE /\ known = {}

\* The operation is over; control is at p.
Return(p) ==
    /\ pc' = p /\ after' = "idle" /\ then' = "idle" /\ cur' = Main /\ call' = NoCall
    /\ batch' = <<>> /\ wrote' = 0 /\ rd' = NoRead /\ reading' = FALSE /\ todo' = <<>>

\* The bucket is closed: its indexes are no longer in memory.
Forget ==
    /\ loaded' = {} /\ seen' = {} /\ blank' = FALSE
    /\ mem' = [c \in Consumers |-> <<>>]

\* Continue with p once the bucket is open (buckets.forKey).
WhenOpen(p) ==
    \/ tree = "open" /\ pc' = p /\ UNCHANGED after
    \/ tree # "open" /\ pc' = "open" /\ after' = p

\* Make the edits es, then continue with p.
Write(es, p) == todo' = es /\ then' = p /\ pc' = "journal"

-----------------------------------------------------------------------------
(* The queue comes and goes.                                               *)

\* loadAllBuckets: a directory that exists is one bucket, and fetchForks
\* opens it without knowing of any fork.
Start ==
    /\ pc = "down"
    /\ forks' = {}
    /\ tree' = IF dir THEN "nil" ELSE "absent"
    /\ pc' = IF dir THEN "open" ELSE "idle"
    /\ known' = IF made # {} \/ exist \ {Main} # {} THEN known \cup {"forksForgotten"} ELSE known
    /\ UNCHANGED <<disk, index, oper, counters, must, may, made, crashed>>

\* Two iterators over batches with the same first key.  popSync tells the
\* index log about them in the order of the heap, the index deletes them in
\* the order they were pushed.
SharedFirst(h) == \E i, j \in DOMAIN h : i # j /\ h[i].first = h[j].first

\* index.Load
Replay(records) ==
    LET load[n \in 0 .. Len(records)] ==
            IF n = 0 THEN <<>> ELSE IndexApply(load[n - 1], records[n])
    IN  load[Len(records)]

\* What it leads to if the operation ends here: the other batch is gone from
\* the index log, or idx.log outlives the dat.log it refers to.
Cut ==
    {r \in {"popCut", "clearCut"} :
        \/ r = "popCut" /\ pc = "journal" /\ then = "popped" /\ SharedFirst(rd.iters)
        \/ r = "clearCut" /\ pc = "rmMain" /\ ~IndexEmpty(Replay(file[Main]))}

Stop ==
    /\ stops < MaxStops /\ stops' = stops + 1
    /\ forks' = {} /\ tree' = "absent" /\ Forget /\ Return("down")
    /\ UNCHANGED <<disk, nextId, closes, fails, must, may, made>>

Close == pc = "idle" /\ Stop /\ UNCHANGED <<crashed, known>>

\* The process ends anywhere.  What it wrote is in the page cache.
Crash == pc # "down" /\ Stop /\ crashed' = TRUE /\ known' = known \cup Cut

\* closeUnused, called for another bucket, closes this one.
CloseUnused ==
    /\ pc = "idle" /\ tree = "open"
    /\ closes < MaxCloses /\ closes' = closes + 1
    /\ tree' = "nil" /\ Forget
    /\ UNCHANGED <<disk, forks, pc, oper, nextId, stops, fails, history>>

-----------------------------------------------------------------------------
(* openBucket                                                              *)

\* The directory and the value log are created if they are not there.
Open ==
    /\ pc = "open"
    /\ dir' = TRUE /\ dat' = TRUE /\ blank' = ~dat
    /\ pc' = "openNext"
    /\ UNCHANGED <<vlog, exist, file, loaded, mem, seen, queue, oper, counters, history>>

\* Variant of ToLoad: an index that is loaded is loaded again.
ToLoad_Again == forks \cup {Main}

ToLoad == (forks \cup {Main}) \ loaded

\* loadIndex of the next consumer; the main one is the last.
LoadIndex ==
    /\ pc = "openNext"
    /\ \E c \in ToLoad :
          /\ c = Main => ToLoad = {Main}
          /\ cur' = c
          /\ exist' = exist \cup {c}
          /\ mem' = [mem EXCEPT ![c] = <<>>]
          /\ Write(EditsOf({"mem"}, c, file[c]), "loaded")
    /\ UNCHANGED <<dir, dat, vlog, file, loaded, seen, blank, queue, after, call,
                   batch, wrote, rd, reading, counters, history>>

Loaded ==
    /\ pc = "loaded" /\ (cur \in seen \/ blank)
    /\ loaded' = loaded \cup {cur} /\ pc' = "openNext" /\ then' = "idle" /\ cur' = Main
    /\ UNCHANGED <<disk, mem, seen, blank, queue, after, call, batch, wrote, rd, reading,
                   todo, counters, history>>

\* recoverIndexFromLog: the index has no entries but the value log is not
\* new.  Every item of the value log comes back.
Recover ==
    /\ pc = "loaded" /\ ~(cur \in seen \/ blank)
    /\ Write(RegenerateEdits(cur), "regenerated")
    /\ may' = IF crashed THEN [may EXCEPT ![cur] = @ \cup ItemsOf(vlog)] ELSE may
    /\ UNCHANGED <<disk, index, queue, after, cur, call, batch, wrote, rd, reading,
                   counters, must, made, crashed, known>>

\* The old index log is removed and written anew.
Rewrite ==
    /\ pc = "regenerated"
    /\ file' = [file EXCEPT ![cur] = <<>>]
    /\ Write(EditsOf({"log"}, cur, mem[cur]), "rewritten")
    /\ UNCHANGED <<dir, dat, vlog, exist, index, queue, after, cur, call, batch, wrote, rd,
                   reading, counters, history>>

Rewritten ==
    /\ pc = "rewritten"
    /\ loaded' = loaded \cup {cur} /\ pc' = "openNext" /\ then' = "idle" /\ cur' = Main
    /\ UNCHANGED <<disk, mem, seen, blank, queue, after, call, batch, wrote, rd, reading,
                   todo, counters, history>>

\* A bucket whose indexes are all empty, but have had entries, is cleaned up
\* and opened anew.
Reinit ==
    /\ pc = "openNext" /\ ToLoad = {}
    /\ AllEmpty(loaded) /\ seen # {}
    /\ Forget /\ pc' = "rmIdx" /\ then' = "open"
    /\ UNCHANGED <<disk, queue, after, cur, call, batch, wrote, rd, reading, todo,
                   counters, history>>

\* openBucket fails, and with it the operation or the opening of the queue.
OpenFails ==
    /\ Forget
    /\ \/ after = "idle" /\ Return("down") /\ forks' = {} /\ tree' = "absent"
       \/ after # "idle" /\ Return("idle") /\ UNCHANGED queue

\* fetchForks: at the start of the queue its forks are those of the bucket.
FetchedForks == IF after = "idle" THEN loaded \ {Main} ELSE forks

Opened ==
    /\ pc = "openNext" /\ ToLoad = {}
    /\ ~(AllEmpty(loaded) /\ seen # {})
    /\ tree' = "open" /\ pc' = after /\ after' = "idle"
    /\ forks' = FetchedForks
    /\ UNCHANGED <<disk, index, then, cur, call, batch, wrote, rd, reading, todo,
                   counters, history>>

-----------------------------------------------------------------------------
(* removeBucketDir, for buckets.delete (then = "idle") and for a new       *)
(* beginning in openBucket (then = "open").                                *)

\* buckets.delete
DropBucket == tree' = "absent" /\ Forget /\ Return("rmIdx")

RmIndexLog(c) == exist' = exist \ {c} /\ file' = [file EXCEPT ![c] = <<>>]

\* The index logs that are removed by name before dat.log.
Named == (IF then = "open" THEN forks \cup {Main} ELSE forks) \cap exist

RmIndex ==
    /\ pc = "rmIdx"
    /\ \E c \in Named : (c = Main => Named = {Main}) /\ RmIndexLog(c)
    /\ UNCHANGED <<dir, dat, vlog, index, queue, pc, oper, counters, history>>

RmDat ==
    /\ pc = "rmIdx" /\ Named = {}
    /\ dat' = FALSE /\ vlog' = <<>> /\ pc' = "rmMain"
    /\ may' = [c \in Consumers |-> {}]
    /\ UNCHANGED <<dir, exist, file, index, queue, oper, counters, must, made, crashed, known>>

\* Variant of RmMain: idx.log stays.
RmMain_Keep ==
    /\ pc = "rmMain" /\ pc' = "rmDir"
    /\ UNCHANGED <<disk, index, queue, oper, counters, history>>

RmMain ==
    /\ pc = "rmMain"
    /\ RmIndexLog(Main) /\ pc' = "rmDir"
    /\ UNCHANGED <<dir, dat, vlog, index, queue, oper, counters, history>>

RmDir ==
    /\ pc = "rmDir" /\ exist = {}
    /\ dir' = FALSE
    /\ \/ then = "idle" /\ Return("idle")
       \/ /\ then = "open" /\ pc' = "open" /\ then' = "idle"
          /\ UNCHANGED <<after, cur, call, batch, wrote, rd, reading, todo>>
    /\ UNCHANGED <<dat, vlog, exist, file, index, queue, counters, history>>

\* A directory that still has files cannot be removed: the operation fails.
RmDirFails ==
    /\ pc = "rmDir" /\ exist # {}
    /\ \/ then = "idle" /\ Return("idle") /\ UNCHANGED <<index, queue>>
       \/ then = "open" /\ OpenFails
    /\ UNCHANGED <<disk, counters, history>>

-----------------------------------------------------------------------------
(* Writing the edits of an operation.                                      *)

\* An edit of the index in memory.
EditMem(e) ==
    /\ mem' = IF "mem" \in e.on THEN [mem EXCEPT ![e.to] = IndexApply(@, e.loc)] ELSE mem
    /\ seen' = IF "mem" \in e.on /\ Counts(mem[e.to], e.loc) THEN seen \cup {e.to} ELSE seen
    /\ UNCHANGED <<loaded, blank>>

\* Then the index log (Writer.Push).
Journal ==
    /\ pc = "journal" /\ todo # <<>>
    /\ LET e == Head(todo)
       IN  /\ EditMem(e)
           /\ file' = IF "log" \in e.on THEN [file EXCEPT ![e.to] = Append(@, e.loc)] ELSE file
    /\ todo' = Tail(todo)
    /\ UNCHANGED <<dir, dat, vlog, exist, queue, pc, after, then, cur, call,
                   batch, wrote, rd, reading, counters, history>>

JournalEnd ==
    /\ pc = "journal" /\ todo = <<>>
    /\ pc' = then
    /\ UNCHANGED <<disk, index, queue, oper, counters, history>>

\* The bucket's part of a Push is over; the Push of a transaction returns to
\* the callback.
PushOver ==
    /\ pc' = (IF reading THEN "callback" ELSE "idle")
    /\ batch' = <<>> /\ wrote' = 0 /\ todo' = <<>> /\ then' = "idle"
    /\ UNCHANGED <<after, cur, call, rd, reading>>

\* A write to an index log fails; the index in memory has changed by then.
FailWrite ==
    /\ pc = "journal" /\ todo # <<>> /\ "log" \in Head(todo).on
    /\ fails < MaxFails /\ fails' = fails + 1
    /\ known' = known \cup Cut \cup {IF then = "forked" THEN "failedFork" ELSE "failedWrite"}
    /\ \/ then = "pushed" /\ EditMem(Head(todo)) /\ PushOver /\ UNCHANGED queue
       \/ then \in {"popped", "forked"} /\ EditMem(Head(todo)) /\ Return("idle") /\ UNCHANGED queue
       \/ then = "rewritten" /\ OpenFails
       \/ \* Delete collects the error and goes on.
          /\ then \in {"deleted", "failed"} /\ EditMem(Head(todo))
          /\ todo' = Tail(todo) /\ then' = "failed"
          /\ UNCHANGED <<pc, after, cur, call, batch, wrote, rd, reading, queue>>
    /\ UNCHANGED <<disk, nextId, stops, closes, must, may, made, crashed>>

\* Delete ends with the errors of its writes.
Failed ==
    /\ pc = "failed" /\ Return("idle")
    /\ UNCHANGED <<disk, index, queue, counters, history>>

-----------------------------------------------------------------------------
(* Push                                                                    *)

\* The arguments of a Push: fresh items, sorted by key.
Given(b) ==
    /\ nextId + Len(b) <= MaxItems
    /\ nextId' = nextId + Len(b)
    /\ batch' = [i \in 1 .. Len(b) |-> [key |-> b[i], id |-> nextId + i - 1]]

Push ==
    /\ pc = "idle" /\ (\E b \in Batches : Given(b)) /\ WhenOpen("push")
    /\ UNCHANGED <<disk, index, queue, then, cur, call, wrote, rd, reading, todo,
                   stops, closes, fails, history>>

\* tx.Push, in the callback of a Read.  The bucket is open.
TxPush ==
    /\ pc = "callback" /\ (\E b \in Batches : Given(b)) /\ pc' = "push"
    /\ UNCHANGED <<disk, index, queue, after, then, cur, call, wrote, rd, reading, todo,
                   stops, closes, fails, history>>

\* vlog.Push copies the items one by one into the memory map.
WriteItem ==
    /\ pc = "push" /\ wrote < Len(batch)
    /\ vlog' = Append(vlog, batch[wrote + 1]) /\ wrote' = wrote + 1
    /\ may' = [c \in Consumers |->
                  IF c \in loaded THEN may[c] \cup {batch[wrote + 1]} ELSE may[c]]
    /\ UNCHANGED <<dir, dat, exist, file, index, queue, pc, after, then, cur, call, batch,
                   rd, reading, todo, counters, must, made, crashed, known>>

\* Variant of PushLoc: the offset is taken after the items were written.
PushLoc_Late == [key |-> batch[1].key, off |-> Len(vlog), len |-> Len(batch)]

\* The location that vlog.Push returns.
PushLoc == [key |-> batch[1].key, off |-> Len(vlog) - Len(batch), len |-> Len(batch)]

\* Variant of Receivers: only the main index.
Receivers_Main == {Main}

\* The indexes that get it: all.
Receivers == loaded

\* They get it in the order of a Go map.
PushIndex ==
    /\ pc = "push" /\ wrote = Len(batch)
    /\ blank' = FALSE
    /\ \E q \in SetToSeqs(Receivers) :
          Write([i \in 1 .. Len(q) |-> EditOf(Both, q[i], PushLoc)], "pushed")
    /\ UNCHANGED <<disk, loaded, mem, seen, queue, after, cur, call, batch, wrote, rd,
                   reading, counters, history>>

PushDone ==
    /\ pc = "pushed" /\ PushOver
    /\ must' = [c \in Consumers |->
                   IF c \in loaded THEN must[c] \cup ItemsOf(batch) ELSE must[c]]
    /\ may' = [c \in Consumers |-> may[c] \ ItemsOf(batch)]
    /\ UNCHANGED <<disk, index, queue, counters, made, crashed, known>>

-----------------------------------------------------------------------------
(* Read                                                                    *)

\* With n <= 0 the bucket is opened and nothing more happens; only n > 0 is
\* modelled.
Read ==
    /\ pc = "idle" /\ tree # "absent"
    /\ \E c \in forks \cup {Main}, n \in 1 .. MaxRead :
          call' = [NoCall EXCEPT !.who = c, !.n = n]
    /\ WhenOpen("read")
    /\ UNCHANGED <<disk, index, queue, then, cur, batch, wrote, rd, reading, todo,
                   counters, history>>

ReadFirst ==
    /\ pc = "read" /\ pc' = "peek"
    /\ \E r \in PeekFirst(vlog, mem[call.who]) : rd' = [NoRead EXCEPT !.iters = r[1], !.pos = r[2]]
    /\ UNCHANGED <<disk, index, queue, after, then, cur, call, batch, wrote, reading, todo,
                   counters, history>>

ReadNext ==
    /\ pc = "peek" /\ PeekMore(rd.iters, Len(rd.out), call.n)
    /\ \E r \in PeekNext(vlog, mem[call.who], rd.iters, rd.pos) :
          rd' = [iters |-> r[1], pos |-> r[2],
                 out |-> Append(rd.out, vlog[rd.iters[1].off + 1])]
    /\ UNCHANGED <<disk, index, queue, pc, after, then, cur, call, batch, wrote, reading,
                   todo, counters, history>>

\* The items are handed to the callback.
ReadServe ==
    /\ pc = "peek" /\ ~PeekMore(rd.iters, Len(rd.out), call.n)
    /\ pc' = "callback" /\ reading' = TRUE
    /\ UNCHANGED <<disk, index, queue, after, then, cur, call, batch, wrote, rd, todo,
                   counters, history>>

\* The callback returns ReadOpPop: popSync.
Pop ==
    /\ pc = "callback"
    /\ LET out == ItemsOf(rd.out)
       IN  /\ must' = [must EXCEPT ![call.who] = @ \ out]
           /\ may' = [may EXCEPT ![call.who] = @ \cup out]
    /\ Write(PopEdits(call.who, rd.iters), "popped")
    /\ UNCHANGED <<disk, index, queue, after, cur, call, batch, wrote, rd, reading,
                   counters, made, crashed, known>>

\* After a crash or a failed write an item may be in the index twice, and be
\* delivered again.
Popped ==
    /\ pc = "popped" /\ pc' = "reap"
    /\ may' = IF crashed \/ fails > 0 THEN may ELSE [may EXCEPT ![call.who] = @ \ ItemsOf(rd.out)]
    /\ UNCHANGED <<disk, index, queue, oper, counters, must, made, crashed, known>>

\* The callback returns ReadOpPeek.
PeekOnly ==
    /\ pc = "callback" /\ pc' = "reap"
    /\ UNCHANGED <<disk, index, queue, oper, counters, history>>

\* The callback returns an error.
CallbackErr ==
    /\ pc = "callback" /\ Return("idle")
    /\ UNCHANGED <<disk, index, queue, counters, history>>

\* Variant of Reap: the drained bucket stays.
Reap_Never ==
    /\ pc = "reap" /\ Return("idle")
    /\ UNCHANGED <<disk, index, queue, counters, history>>

\* After a Read or a Delete, a bucket that all consumers have drained goes.
Reap ==
    /\ pc = "reap"
    /\ \/ ~AllEmpty(loaded) /\ Return("idle") /\ UNCHANGED <<index, queue>>
       \/ AllEmpty(loaded) /\ DropBucket /\ UNCHANGED forks
    /\ UNCHANGED <<disk, counters, history>>

-----------------------------------------------------------------------------
(* Delete, Clear                                                           *)

Delete ==
    /\ pc = "idle" /\ tree # "absent"
    /\ \E c \in forks \cup {Main}, r \in Ranges :
          call' = [NoCall EXCEPT !.who = c, !.lo = r[1], !.hi = r[2]]
    /\ WhenOpen("delete")
    /\ UNCHANGED <<disk, index, queue, then, cur, batch, wrote, rd, reading, todo,
                   counters, history>>

InRange(x) == call.lo <= x.key /\ x.key <= call.hi

\* A batch in the range has an older one of the same key outside of it: then
\* Mem.Delete, which takes the oldest, takes the wrong one.
WrongBatch(idx) ==
    \E i, j \in DOMAIN idx :
        /\ i < j /\ idx[i].key = idx[j].key
        /\ ~Affected(idx[i], call.lo, call.hi) /\ Affected(idx[j], call.lo, call.hi)

\* bucket.Delete.  The bucket's own key is at or below any range.
DeleteBegin ==
    /\ pc = "delete"
    /\ LET c == call.who
           gone == {x \in must[c] : InRange(x)}
       IN  /\ Write(DeleteEdits(c, call.lo, call.hi), "deleted")
           /\ must' = [must EXCEPT ![c] = @ \ gone]
           /\ may' = [may EXCEPT ![c] = @ \cup gone]
           /\ known' = IF WrongBatch(mem[c]) THEN known \cup {"deleteShared"} ELSE known
    /\ UNCHANGED <<disk, index, queue, after, cur, call, batch, wrote, rd, reading,
                   counters, made, crashed>>

Deleted ==
    /\ pc = "deleted" /\ pc' = "reap"
    /\ may' = [may EXCEPT ![call.who] = {x \in @ : ~InRange(x)}]
    /\ UNCHANGED <<disk, index, queue, oper, counters, must, made, crashed, known>>

\* buckets.Clear, for every consumer.
Clear ==
    /\ pc = "idle" /\ tree # "absent" /\ DropBucket
    /\ must' = [c \in Consumers |-> {}]
    /\ may' = [c \in Consumers |-> may[c] \cup must[c]]
    /\ UNCHANGED <<disk, forks, counters, made, crashed, known>>

-----------------------------------------------------------------------------
(* Forks                                                                   *)

\* The fork is there, and gets what its source has still to get.
ForkMade(src, dst) ==
    /\ forks' = forks \cup {dst} /\ made' = made \cup {dst}
    /\ must' = [must EXCEPT ![dst] = must[src]]
    /\ may' = [may EXCEPT ![dst] = may[src]]

\* Without a bucket, or with one that has an index log of that name from
\* before (forkOffline), only the list of forks changes.
ForkListed ==
    /\ pc = "idle"
    /\ \E src \in forks \cup {Main}, dst \in Forks \ forks :
          /\ tree = "absent" \/ (tree = "nil" /\ dst \in exist)
          /\ ForkMade(src, dst)
    /\ UNCHANGED <<disk, index, tree, pc, oper, counters, crashed, known>>

\* WriteIndex for an open bucket, a copy of the index log for a closed one.
Fork ==
    /\ pc = "idle"
    /\ \E src \in forks \cup {Main}, dst \in Forks \ forks :
          /\ call' = [NoCall EXCEPT !.who = src] /\ cur' = dst
          /\ exist' = exist \cup {dst}
          /\ \/ tree = "open" /\ Write(EditsOf({"log"}, dst, mem[src]), "forked")
             \/ /\ tree = "nil" /\ dst \notin exist /\ src \in exist
                /\ Write(EditsOf({"log"}, dst, file[src]), "forked")
    /\ UNCHANGED <<dir, dat, vlog, file, index, queue, after, batch, wrote, rd, reading,
                   counters, history>>

\* Variant of Forked: the open bucket does not get the index of the fork.
Forked_NotOpened ==
    /\ pc = "forked" /\ ForkMade(call.who, cur) /\ Return("idle")
    /\ UNCHANGED <<disk, index, tree, counters, crashed, known>>

\* The fork of a drained consumer has an index log without records.
Forked ==
    /\ pc = "forked" /\ ForkMade(call.who, cur) /\ Return("idle")
    /\ \/ /\ tree = "open"
          /\ mem' = [mem EXCEPT ![cur] = mem[call.who]]
          /\ seen' = IF call.who \in seen THEN seen \cup {cur} ELSE seen
          /\ loaded' = loaded \cup {cur}
          /\ known' = IF mem[call.who] = <<>> /\ ~blank THEN known \cup {"blankFork"} ELSE known
       \/ tree = "nil" /\ UNCHANGED <<mem, seen, loaded, known>>
    /\ UNCHANGED <<disk, tree, blank, counters, crashed>>

RemoveFork ==
    /\ pc = "idle"
    /\ \E f \in forks :
          /\ forks' = forks \ {f} /\ made' = made \ {f}
          /\ must' = [must EXCEPT ![f] = {}] /\ may' = [may EXCEPT ![f] = {}]
          /\ \/ /\ tree = "absent" /\ UNCHANGED <<exist, file, index, tree, pc, oper>>
             \/ /\ tree # "absent"
                /\ RmIndexLog(f)
                /\ \/ tree = "open" /\ AllEmpty(loaded \ {f}) /\ DropBucket
                   \/ /\ tree = "open" /\ ~AllEmpty(loaded \ {f})
                      /\ loaded' = loaded \ {f} /\ seen' = seen \ {f}
                      /\ mem' = [mem EXCEPT ![f] = <<>>]
                      /\ UNCHANGED <<blank, tree, pc, oper>>
                   \/ tree = "nil" /\ UNCHANGED <<index, tree, pc, oper>>
    /\ UNCHANGED <<dir, dat, vlog, counters, crashed, known>>

-----------------------------------------------------------------------------

\* What the process does on its own once an operation is called; a callback
\* returns.
Step ==
    \/ Open \/ LoadIndex \/ Loaded \/ Recover \/ Rewrite \/ Rewritten \/ Reinit \/ Opened
    \/ RmIndex \/ RmDat \/ RmMain \/ RmDir \/ RmDirFails
    \/ Journal \/ JournalEnd \/ Failed
    \/ WriteItem \/ PushIndex \/ PushDone
    \/ ReadFirst \/ ReadNext \/ ReadServe \/ Pop \/ Popped \/ PeekOnly \/ CallbackErr \/ Reap
    \/ DeleteBegin \/ Deleted \/ Forked

\* The calls of the application, failing writes and the end of the process.
Environment ==
    \/ Start \/ Close \/ Crash \/ CloseUnused \/ FailWrite
    \/ Push \/ TxPush \/ Read \/ Delete \/ Clear \/ ForkListed \/ Fork \/ RemoveFork

Next == Step \/ Environment

Spec == Init /\ [][Next]_vars /\ WF_vars(Step)

-----------------------------------------------------------------------------

Places == {"down", "idle", "open", "openNext", "journal", "loaded", "regenerated", "rewritten",
           "rmIdx", "rmMain", "rmDir", "push", "pushed", "read", "peek", "callback",
           "popped", "reap", "delete", "deleted", "failed", "forked"}

TypeOK ==
    /\ dir \in BOOLEAN /\ dat \in BOOLEAN /\ vlog \in Seq(Item)
    /\ exist \subseteq Consumers /\ file \in [Consumers -> Seq(Location)]
    /\ forks \subseteq Forks /\ tree \in {"absent", "nil", "open"}
    /\ loaded \subseteq Consumers /\ mem \in [Consumers -> Seq(Location)]
    /\ seen \subseteq Consumers /\ blank \in BOOLEAN
    /\ pc \in Places /\ after \in Places /\ then \in Places /\ cur \in Consumers
    /\ call \in [who : Consumers, n : Nat, lo : Nat, hi : Nat]
    /\ batch \in Seq(Item) /\ wrote \in 0 .. Len(batch)
    /\ rd \in [iters : Seq(Iter), pos : Nat, out : Seq(Item)] /\ reading \in BOOLEAN
    /\ todo \in Seq(Edit)
    /\ nextId \in 0 .. MaxItems /\ stops \in 0 .. MaxStops
    /\ closes \in 0 .. MaxCloses /\ fails \in 0 .. MaxFails
    /\ must \in [Consumers -> SUBSET Item] /\ may \in [Consumers -> SUBSET Item]
    /\ made \subseteq Forks /\ crashed \in BOOLEAN /\ known \subseteq Reasons

\* What a consumer of the open bucket can read.
Held(c) == {vlog[s] : s \in Slots(mem[c]) \cap DOMAIN vlog}

\* The reasons for which something may be wrong by now.  A failed write shows
\* when the index log is read again.
Trouble == known \ (IF stops = 0 /\ closes = 0 THEN {"failedWrite"} ELSE {})

\* The consumers a property is about: those for which nothing is known to have
\* gone wrong.  The main one is not concerned by forks.
Sound ==
    IF Trouble = {} THEN made \cup {Main}
    ELSE IF Trouble \subseteq {"forksForgotten", "blankFork"} THEN {Main} ELSE {}

Settled == pc = "idle" /\ tree # "nil"

\* Nothing is lost: whatever was pushed and not consumed, by this consumer,
\* can be read, whatever forks, deletions, pops cut short by a crash, reopened
\* or reaped buckets there were in between (bucket.go, buckets.go).
NoLoss == Settled => \A c \in Sound : must[c] \subseteq Held(c)

\* Nothing comes back: a consumer can only read what was pushed for it and is
\* not consumed.  The exception is an operation that a crash has cut short.
NoGhosts == Settled => \A c \in Sound : Held(c) \subseteq must[c] \cup may[c]

\* Without a crash or a failed write, no item is in an index twice: popSync
\* and Delete replace a batch by what is left of it.
NoDuplicates ==
    Settled /\ ~crashed /\ fails = 0 => \A c \in Sound : NoSlotTwice(mem[c])

\* At any time, in the middle of an operation too, the index of a consumer
\* refers to ascending batches inside the value log, which is all that peek
\* needs (see PeekLoop), also if the index was read from a log that a crash
\* cut short, or regenerated.
IndexesFit ==
    \A c \in loaded \cap Sound :
        /\ IndexSorted(mem[c])
        /\ \A i \in DOMAIN mem[c] : BatchFits(vlog, mem[c][i])

\* The index log, read from the beginning, gives the index in memory, although
\* Delete writes them in different orders (index.Load, bucket.Delete).
ReplayAgrees ==
    Settled /\ tree = "open" /\ fails = 0 =>
        \A c \in Sound : Replay(file[c]) = mem[c]

\* The value log is only removed when every consumer has got everything.
KeptWhileNeeded == ~dat => \A c \in Sound : must[c] = {}

\* A bucket that all consumers have drained does not stay on disk, once it
\* was opened or an operation has ended (README, "Buckets get cleaned up").
DrainedGoes ==
    Settled /\ tree = "open" /\ fails = 0 /\ (\A c \in loaded : mem[c] = <<>>) => vlog = <<>>

\* An open bucket has an index for every fork of the queue and no other, so
\* that no consumer misses a Push (buckets.forks and bucket.indexes).
ForksOpen ==
    tree = "open" => loaded = forks \cup {Main}

\* The callback of a Read gets the items with the lowest keys of all that the
\* consumer still has to get, and fewer than it asked for only if these are
\* all.
ReadByPriority ==
    [][pc = "peek" /\ pc' = "callback" =>
          \A c \in {call.who} \cap Sound :
              /\ ItemsOf(rd.out) \subseteq must[c] \cup may[c]
              /\ \A x \in must[c] \ ItemsOf(rd.out) :
                    Len(rd.out) = call.n /\ \A y \in ItemsOf(rd.out) : y.key <= x.key]_vars

\* Every operation ends: opening anew a bucket that is cleaned up on open does
\* not go on for ever, and no callback or missing file leaves the queue stuck.
OperationsEnd == pc \notin {"idle", "down"} ~> pc \in {"idle", "down"}

-----------------------------------------------------------------------------
(* Claims that the code does not meet.                                     *)

\* Delete deletes the items of the range and no other (api.go, Queue.Delete).
DeleteKeepsTheRest ==
    known \subseteq {"deleteShared"} /\ Settled =>
        \A c \in made \cup {Main} : must[c] \subseteq Held(c)

\* The value log stays until all forks are empty, on open too (README).
KeptForForks == known \subseteq {"forksForgotten"} /\ ~dat => \A c \in made : must[c] = {}
=============================================================================
