# TLA+ verification of timeq

timeq is a persistent priority queue in Go. Items have an integer key (the
priority, lowest first) and a blob. They are sorted into *buckets* on disk; a
bucket is an append-only value log (`dat.log`) and one append-only index log per
consumer (`idx.log` for the queue itself, `<fork>.idx.log` for each fork). This
directory holds TLA+ models of the code, TLC configurations and TLAPS proofs.

## 1. Inventory

| Part | Source | State | Operations | What makes it correct |
|---|---|---|---|---|
| Value log | `vlog/vlog.go` | mmapped file, its used size, `isEmpty` | `Open` (shrink), `Push`, `At`, `readItemAt`, `Sync`, `Close` | what was pushed can be read at its location; recovery finds the end |
| Batch iterators | `vlog/iter.go` | position in a batch, exhausted | `Next`, `CurrentLocation`, `FirstKey` | visits every item of the batch once, gets over damaged parts |
| Heap of iterators | `vlog/heap.go` | slice of iterators | `Push`, `Fix(0)` | the least current key is on top, exhausted ones last |
| Index | `index/index.go` | b-tree: first key -> locations; `len`, `nentries` | `Set`, `Delete`, `Load`, `FromVlog`, `Copy`, `Iter` | refers to exactly what the consumer has not read |
| Index log | `index/writer.go`, `index/reader.go` | file of 24 byte records | `Push`, `WriteIndex`, `Reader.Next`, `ReadTrailer(s)` | reading it gives the index in memory |
| Bucket | `bucket.go` | value log, an index and an index log per consumer | open with recovery, `Push`, `Read`/`peek`/`popSync`, `Delete`, `Fork`, `RemoveFork`, removal | nothing lost, nothing twice, by priority, for every consumer on its own |
| Buckets | `buckets.go` | tree key -> open or closed bucket, list of forks, trailers of closed ones, mutex | load, `forKey`, `closeUnused`, `Push` (binsplit), `Read`, `Delete`, `Clear`, `Shovel`, `Len`, `Fork`, `RemoveFork`, `Sync`, `Close` | the tree is one queue; buckets agree on the forks; a bucket is closed or removed only when it may be |
| API | `api.go`, `options.go` | `Queue`, `Fork` handles, options | thin layer over buckets | |
| File moves, command line | `util.go`, `cmd/` | none | | |

How they interact: the API takes the mutex of `buckets` (except `Fork`) and calls
the buckets one by one; a bucket appends to the value log, then to the index of
every consumer, in memory and on disk. `Read` gives slices of the memory map to a
callback, which may push again (`tx.Push`); what the callback returns decides
whether the items are popped. `closeUnused` closes buckets behind the back of
their users; closed buckets are opened again by `forKey`. `Shovel` holds the
mutexes of two queues.

What is hard: the merge of overlapping batches; the order of records in the index
log with a crash or a power failure between any two; recovery of an index from a
value log that may be damaged; clean-up of buckets, on open too; forks made and
removed while buckets are open, closed or not there; writes that fail half way
through; a callback that pushes while the iterators of its `Read` wait for
`popSync`; lengths taken from cached trailers; several goroutines and queues.
`PROJECT.json` lists the hazards with their lines.

## 2. Modules

| Module | Models | Uses |
|---|---|---|
| `Index` | items, locations, the index and its operations, runs of `FromVlog` | |
| `Iters` | batch iterators and the heap | `Index` |
| `Peek` | the steps of `bucket.peek` as operators | `Iters` |
| `PeekLoop` | `bucket.peek` as a state machine, for any log and index | `Peek` |
| `Bucket` | a queue with one bucket: every operation, crash, failing write | `Peek` |
| `Power` | `Bucket` with syncs and power failures | `Bucket` |
| `Scan` | the value log in bytes, damaged ones too: `FromVlog`, `vlog.Iter`, `findNextItem` | `Index` |
| `Slices` | the Go slices behind the b-tree, shared by `Index.Copy` | |
| `Split` | split functions, the sort of `Push`, `binsplit` | |
| `Queue` | what timeq promises: a priority queue with independent consumers | |
| `Buckets` | the tree of several buckets; implements `Queue` | `Split`, `Queue` |
| `Queues` | several queues and goroutines: mutexes, `Shovel`, callbacks, `Fork` | |
| `MC...` | values of the constants for TLC | |
| `Numbers_proofs` | least elements, for the other modules of proofs | |
| `Iters_proofs`, `PeekLoop_proofs`, `Bucket_proofs`, `BucketIndex_proofs`, `BucketItems_proofs` | theorems about the heap, `peek`, the bucket, its indexes and index logs, and its items | each other |
| `Buckets_proofs` | theorems about the sort, `binsplit` and the tree, and that it implements `Queue` | |
| `Queues_proofs` | theorems about several queues | |

The levels abstract from each other. `Bucket` has one bucket with all its files.
`Buckets` and `Queues` have several buckets, each of which is just the set of items
that every consumer has left in it; that this is what a bucket amounts to, also
when it was closed and opened again, is what the properties of `Bucket` say.
`Bucket` counts in whole items; `Scan` shows that on bytes `FromVlog` finds the
same runs (`RunsOfTheLog` uses the very operators of `Index`).

### Bucket

**Data.** An item is its key and an identity; an offset counts items, not bytes;
keys are natural numbers. An index is the sequence of locations in the order
`index.Iter` yields them: by first key and, under one key, in the order they were
set. This determines the b-tree. An index log is the sequence of its records. The
trailer of a record (the length of the queue at that point) is left to `Buckets`.
Copying an index gives a value of its own; `Slices` shows where this is not so.

**Heap.** `down` and `up` swap along a path. `Fixed` and `Pushed` say which slots
the path consists of and shift the iterators along it, without recursion. They
return the set of results, which has exactly one element.

**State.** The disk (`dir`, `dat`, `vlog`, `exist`, `file`), the
process (`forks`, `tree`: is the bucket absent, known but closed (`nil` in the
tree), or open; `loaded`, `mem`, `seen`, `blank`), and the operation in progress.
The mutex makes operations sequential, so there is one program counter. The
steps of an operation are those between which a crash makes a difference: each
item written to the value log, each record written to an index log, each file
removed. Records to be written are the list `todo` of *edits*; an edit says
whether it changes memory, the log or both, and `Journal` makes one of them.

| Code | Actions |
|---|---|
| `loadAllBuckets`, `fetchForks` | `Start`, then the actions of `openBucket` |
| `openBucket`, `loadIndex`, `recoverIndexFromLog` | `Open`, `LoadIndex`, `Loaded` or `Recover`, `Rewrite`, `Rewritten`; `Opened` or `Reinit` |
| `removeBucketDir` | `RmIndex`, `RmDat`, `RmMain`, `RmDir` or `RmDirFails` |
| `Push`, `tx.Push` | `Push`, `TxPush`, `WriteItem`, `PushIndex`, `PushDone` |
| `Read`, `peek`, `popSync` | `Read`, `ReadFirst`, `ReadNext`, `ReadServe`; the callback: `Pop`, `PeekOnly`, `CallbackErr`; `Popped`, `Reap` |
| `Delete`, `Clear` | `Delete`, `DeleteBegin`, `Deleted` or `Failed`, `Reap`; `Clear` |
| `Fork`, `forkOffline`, `RemoveFork`, `removeForkOffline` | `Fork`, `ForkListed`, `Forked`, `RemoveFork` |
| `Close`, `closeUnused` for another bucket | `Close`, `CloseUnused` |
| end of the process, an error of `Writer.Push` | `Crash`, `FailWrite` |

**History.** `must[c]` is what was pushed for consumer `c`, acknowledged, and not
consumed by it; `may[c]` is what it may get in addition, because an operation is
in progress or was cut short. Pops and deletions move items from `must` to `may`
when they begin and out of `may` when they end. `made` are the forks that were
made and not removed, whatever the queue believes. `known` collects events the
code does not cope with (section 5); properties quantify over `Sound`, the
consumers for which none of them happened.

### Power

Each action of `Bucket` is taken together with what it syncs under `SyncFull`:
`vlog.Push` the value log, `popSync` and `Delete` the index log of their consumer,
`Close`, the removal of a bucket and `Queue.Sync` all files. `bucket.Push` and
`WriteIndex` do not sync the index log. `PowerLoss` leaves of each file what was
synced and any beginning of the rest; files are created and removed in order, the
journaling file system that the project's README asks for (README.md:262-264).
So an acknowledged `Push` may be lost by a power failure if nothing synced its
index log since; `firm` is what a consumer had to get at the last such sync, and
only that has to survive. `loose` is the time after a crash in the middle of a
`Push`: the items are in the page cache, recovery wrote an index for them, and
nothing has synced `dat.log`.

### Scan

A log is a sequence of whole items with their sizes in bytes and at most one
fragment of an item, anywhere; keys may be negative. `ScanItem`, `ScanEnd` are the
loop of `FromVlog`, `Skip` that of `Iter.Next` over damage. `findNextItem` looks for
two bytes FF; `Marks` are all places behind such a pair, those in the header of an
item or fragment with a negative key included, which are no ends of items.

Then a `Read` of everything goes by the index, or by what `Reopen` loads of it:
`ReadLocation`, `ReadItem`, `ReadEnd`. It follows `peek` where the log or the index is
not as it should be. A location that gives nothing ends the Read, as `addIter` does
not go past it (bucket.go:292-302). `abort` is `ErrorMode`: `logAt` makes iterators
that skip damage only if it is not Abort, the default (bucket.go:286-289);
otherwise `ReadFails`. `WholeItemsOnce` and `BeforeFragmentServed` name what is
then not served, and nothing else is missing. That a fragment's bytes make a valid
header, or that FF FF appears in a blob, is left out.

### Buckets

`bucks` is the tree with the trailers of closed buckets (`trailers`) and the trailer in
the last record of each `idx.log` (`log`), `opts` the options. `Push` and `popSync` log
the length they come to (`Pushed`, `Popped`), `Delete` computes the one it logs
(`Deleted`), and `Restart` has no other length than the logged one until the bucket is
open again. `call.popped` is what a Read has popped, which the code does not keep; it
is there for `PopsUpTo`, which says that a Read of `n` gets `n` items at most. `Push` sorts and `PushBucket` sorts in the part of one bucket; `Read`,
`ReadBucket`, the callback's `Pop`, `Peek`, `CallbackErr`, `TxPush`, then `Reap` for
every bucket; `Delete`, `DeleteBucket`, `DeleteEnd`; `Clear`, `ClearBucket`,
`ClearEnd`; `Fork`, `RemoveFork`; `Restart` is `Close` and `Open`. `ForKey` opens a
bucket and makes room with `CloseUnused`, which `Victims` and `Visited` translate
together with its order from the middle to both sides.

`Seen` maps this to `Queue`: a `Push` and a `Delete` take effect when they are
called (what is not yet sorted in counts as there, what is still to be deleted as
gone), and the view of a `Read` is what is in front of it. `Queue` lets a `Read` that
peeks pass over items, as the code does, and nothing else.

`Careful` says that the application does not push from the callback of a `Read` if
`MaxParallelOpenBuckets` is set, or if the `Read` asks for a limited number: the code
copes with neither (section 5). What a callback peeks at does not count in `PopsUpTo`.

### Queues

Goroutines with a place (`pc`) and local variables (`loc`), a mutex per queue
(`mu`). `Lock` and `Lock2` take the first and second mutex of a call; each bucket is
a step. `Nested` says which queues are used while which others are locked, by
`Shovel` or by a callback; it has no cycle. `Fork` takes no mutex (`CallFork`,
`ForkBucket`, `ForkEnd`), so its steps come between those of others; `raced` are the
forks for which this happened. A Go data race on the map of indexes is not followed
further than the order of these steps.

A Read asks for a number of items and may leave the rest of a bucket, so that `dat.log`
(`log`) has items that were consumed. If `Shovel` moves the directory of such a bucket,
the forks of the destination have no index log there and get one made from `dat.log`:
`again` is what they get for the second time. `RemoveFork` goes over the buckets up to the
first that does not have the fork (`Reached`): an error ends the loop, also that of a
closed bucket without the fork's index log, which `Shovel` leaves behind. The
fork is off the list by then and keeps its index in the buckets behind; it is in `raced`
from there on. `Removable` leaves out steps that would remove a directory which is not empty
(section 6).

## 3. Runs

| Run | Configuration | Shows |
|---|---|---|
| `peek_loop` | all logs of 5 items over 3 keys, all indexes of up to 4 disjoint batches that cover it or none, n in 0, 3, 6 | `LoopInv` (the merge invariant), `MinFirst`, `Ascending`, `ShortOnlyWhenDrained`, `Conserved`, `Terminates` |
| `bucket_forks` | 1 fork, 3 items in batches of up to 2 over 2 keys, all ranges, n up to 2, no restart | `NoLoss`, `NoGhosts`, `NoDuplicates`, `ReplayAgrees`, `ForksOpen`, `KeptWhileNeeded`, `ReadByPriority` |
| `bucket_restart` | 1 fork, 2 items, 1 crash or close, 1 `closeUnused` | `NoLoss`, `IndexesFit`, `KeptWhileNeeded` |
| `bucket_faults` | 1 fork, 2 items of one key, 1 failing write, 1 `closeUnused` | `NoLoss`, `IndexesFit`, `OperationsEnd` |
| `power_loss` | no fork, 3 items in 2 kinds of batches, 2 of: crash, close, power failure | `TypeOK`, `NoLoss`, `NoGhosts`, `IndexesFit`, `DrainedGoes`, `ReplayAgrees`, `IndexAfterData` |
| `scan` | all logs of up to 4 items, 3 keys from -1 to 1, 2 sizes, a fragment of 12, 13 or 25 bytes anywhere, both error modes, reopened before the Read or not | `RunsOfTheLog`, `WholeItemsOnce`, `BeforeFragmentServed`, `AscendingRuns`, `ScanTerminates` |
| `buckets` | 3 buckets of 2 keys (4 keys, one negative), limits off, 1 and 2, both error modes, 1 fork, 3 items, 1 restart | `TypeOK`, `OpenLimit`, `InPlace`, `LenAgrees`, `PopsUpTo`, and `ImplementsQueue` |
| `queues` | 2 goroutines, 2 queues of 2 buckets, 1 fork, 2 batches, Reads of 1 or 4 items | `Delivered`, `InOneQueue`, `NoDeadlock` |

`delete_shared_key`, `restart_drops_fork_data`, `tx_push_unmaps_items` and
`fork_shares_slices` expect a violation (section 5).

**Bounds.** Three iterators and more, which the heap needs to have two children,
are the business of `peek_loop` (four batches, five items); the proofs remove the
bounds. In the bucket, three items make two batches of which one has two items:
enough for batches that overlap, share their first key, are cut by a pop or by a
range, and for a push in a callback. Two stops let a crash happen during the
recovery from a crash, and a power failure after the recovery from a crash. Three
buckets have a middle and two sides for `closeUnused`; with a limit of one every
use of another bucket closes one. In `scan` the sizes make offsets in bytes differ
from counts. A fragment of 12 bytes is not longer than a header, which `readItemAt` takes
for the end of the log, one of 13 is, and in one of 25 more than a header follows the key.
A Read of one item leaves the rest of a bucket of two batches, one of four drains it. Two
goroutines and two queues are what a cycle of waiting needs; the theorem has no such
bound. Deadlock is not checked by TLC where the bounds end behaviours; `OperationsEnd`
says that nothing gets stuck in a bucket and `NoDeadlock` that nobody waits for ever
between queues. Symmetry is used in `queues`, for the goroutines, which appear in no
constant; it checks no temporal property.

**Fairness.** `PeekLoop`, `Scan`: a loop that can go on goes on. `Bucket`: `WF(Step)`,
the process goes on with the operation it has begun, and a callback returns. Calls of
the application, crashes and failures are not fair: `Push` in a callback is, like
all of these, something that may or may not happen. `Buckets`, `Power`, `Queues` and
`Queue` state safety only.

## 4. Proofs

`PeekLoop_proofs` proves for every value log, every index that fits it (sorted,
each batch ascending and inside the log, no slot in two batches) and every `n`:

- `LoopInvariant`: `LoopInv` is an invariant. It says that iterators stand inside
  their batches, that they form a heap (`HeapOrder`), that while batches are left
  in the index the top of the heap is not exhausted and not above the next of
  them (`TopBeforeNext`), and that what was delivered is at or below all that is
  left (`OutBelowRest`). None of the properties is inductive without
  `TopBeforeNext`: it is why adding a single batch per iteration is enough.
- `PeekDeliversByPriority` (`MinFirst`) and `PeekAscends` (`Ascending`).
- `PeekShortOnlyWhenDrained`: the loop ends early only when all is delivered.
- `PeekConserves` (`Conserved`): what was delivered and what is left is what the index
  refers to, and the numbers add up, so nothing is delivered twice or skipped. This
  needs that a slot is left in one place only (`Once`): no two iterators have one in
  common, nor an iterator and a batch still in the index. Counting disjoint sets then
  shows that each delivery takes one slot from what is left.

`Iters_proofs` has the lemmas about the heap: the top of a heap is least
(`TopIsLeast`, by well-founded descent along parents), `Fixed` and `Pushed`
restore the heap, and neither loses nor doubles an iterator: they permute the slice
(`FixedPermutes`, `PushedPermutes`). They hold for heaps of any size.

`Bucket_proofs` proves `EveryForkIsOpen` (`Spec => []ForksOpen`) from
`BucketAssumption` only: for any set of forks, any batches and ranges and any
bounds, an open bucket has exactly the indexes of the queue and of its forks.
`ForksOpen` is not inductive, because `loaded` is built one index at a time while
the bucket is not open yet. The inductive invariant `OpenInv` has two parts.
`Control` says where the program can be: a bucket that is being opened or removed
is not "open" in the tree, and what follows a list of edits is one of the places
the code continues at. `Indexes` says what is in `bucket.indexes` at those places:
nothing while the bucket is closed, only indexes of consumers of the queue while it
is being loaded, and that the index being loaded belongs to such a consumer. The
step lemmas have one step per action and are grouped like the sections of `Bucket`;
`Opened` and `Forked` are the steps that need the strengthening.

It also proves `BucketTypes` (`Spec => []TypeOK`) from the same
assumptions and `KeysAssumption`. Types are worth a proof here because offsets and
lengths are natural numbers that the code computes by subtraction: the location of
a Push (`Len(vlog) - Len(batch)`), the part of a batch to the right of a deleted
range, and the slot that `peek` reads. The invariant is `TypeInv`, which adds
`Phase` to `TypeOK`: a Push has items and those counted in `wrote` are in the value
log, nothing is counted outside of a Push, `after` is only set while the bucket is
being opened, and during `peek` the iterators form a heap and stand inside the log
(`Inside`). The heap lemmas of `Iters_proofs` show that `peek` keeps the latter on
any index, fitting or not; `OpenInv` gives that a fork being made has a fork's name.
There is a lemma for every operator that computes locations or edits.

The third theorem is `DrainedBucketGoes` (`DrainedGoes`). The invariant is `Base`. It adds to
the above where the program can be in more detail (`Program`), which files exist then
(`OnDisk`), that an index not in use is empty (`InMemory`), whose index the edits of an
operation are for (`Targets`) and that all indexes are sorted and have no empty batch
(`AllTidy`). Two parts carry the theorem. `HasBatch`: some index of an open bucket has a
batch, or there are no items, except in the middle of popSync, Delete and reap and while a Push
fills the bucket. `Replayed`: while the bucket is being opened, an index that is loaded has had
entries, because the value log is replayed into one that had none; so a bucket that
opens with nothing but empty indexes is found by the test of `openBucket`.

`BucketIndex_proofs` proves about the indexes and their logs, for any forks, batches, ranges
and bounds:

- `IndexesStayFit` (`IndexesFit`): the index of every consumer that nothing is known to
  have gone wrong for has ascending batches inside the value log, at any step of any
  operation. The invariant `Fit` says the same of all that an index can come from: the
  records of the index logs, the edits still to be made, the iterators of a Read, and the
  items of a Push that are already in the value log. The exception is `Stale`: an `idx.log`
  that a crash left behind without its `dat.log` has records of items that are gone, but no
  batch is left in it, and opening the bucket removes it. That needs what a log
  gives when it is read: `LoadProgress` says that the index being loaded is the replay of
  the records read so far, and `Owned` that no other log is left behind.
- `LogsAgree` (`ReplayAgrees`): the index log gives the index in memory. `popSync` and
  `Push` make the same change to both (`PopsBoth`). `Delete` does not: it writes the parts
  of the batches to the log first and puts them into memory last. The invariant `Agree` is
  therefore about where the two will be (`Meet`): the edits that are left lead
  memory and replayed log to the same index. `DeleteMeets` shows this for the edits of a
  Delete that begins, `MeetStep` that every edit keeps it. In `DeleteMeets` the ends of batches
  are moved before the parts (`EndFirst`): setting a location commutes with
  deleting a key that is in the index, also if the keys are equal, because Delete takes
  the oldest batch of the key (`SetDeleteCommute`). For `Fork` and recovery, `Copies` says
  how far the new log has got.

`BucketItems_proofs` proves `NothingIsLost` (`NoLoss`) and `ValueLogIsKept`
(`KeptWhileNeeded`), for any forks, batches, ranges and bounds. `NoLoss` is about moments
between two operations; in the middle of one, an item may be missing in the log and still be in
memory, or the other way round. The inductive invariant `Whole` consists of `Ground` (what
`Bucket_proofs` has), `Fit`, `Copies`, `PopsBoth` and `Agree` of `BucketIndex_proofs`, and

- `Cover`, for behaviours in which nothing happened that the code does not cope with
  (`Sure`): all that is due to a consumer is in its index in memory if that is loaded
  (`CoverMem`), and otherwise in the index that its log gives (`CoverLog`); without a
  bucket nothing is due (`CoverVacant`), nor to a consumer whose index is regenerated from the
  value log (`CoverNew`). In the middle of popSync and Delete, `CoverMid` says so of the index
  that the edits still to be made lead to and, where the process may crash or a write may fail,
  of what is there after each of them (`Rest`);
- `ReadInv`: the iterators of a Read account for every slot of the batches it has taken from
  the index: a slot was delivered, or an iterator stands at or before it. So what popSync
  writes for an iterator is all that was not delivered;
- `Received`: the items of a Push are at the place its location says, and every loaded index
  has got the location or has it among the edits to come;
- `LogCopies`: the log of a fork of a closed bucket is that of its source as far as it is
  written; `Failing`: a failed write is recorded.

Two lemmas carry it. `PopKeeps`: the edits of popSync keep what was not delivered. Under one
key, an index is a queue: `Set` adds at its end, `Delete` takes the oldest away; a batch is
still there if as many older ones of its key are left as there are ends to come (`Room`,
`Ends`), and the batches that were read are the oldest of their keys. If two of them share
their key, this holds at the end but not on the way; that is `popCut`, which `Sure`
leaves out. `DeleteKeeps`: the same for the parts of batches that Delete writes first and the
ends it writes then, unless a batch outside of the range is the oldest of its key
(`deleteShared`).

`Replay` is a recursive function; what it computes is proved from its values one record
apart (`ReplaySteps`) and by least counterexamples.

`Queues_proofs` proves `GoroutinesNeverDeadlock` (`Spec => []NoDeadlock`) from
`QueuesAssumption`, for any number of goroutines, queues, buckets and forks. The
inductive invariant `LockInv` says that a mutex is held by exactly the goroutine whose
place says so (`Held`), and that one that waits for a second mutex, or has it, does so for
a pair in `Nested` (`Control`); `NoDeadlock` alone says nothing about who holds what. In a
group in which all wait for each other, every one waited for is itself at its second mutex,
and among these one has a second queue of least rank: whoever holds that queue waits
for one of a lesser rank. The ranks come from `Nested` having no cycle.

It also proves `ConsumersGetAll` (`Delivered`) and `ItemsInOneQueue` (`InOneQueue`). Both
only speak of queues whose mutex is free; the inductive invariant `QI` says what holds
in the middle of an operation. It gives `Delivered` and what `InOneQueue` says of the queues
themselves. Besides `LockInv` it has

- `GoodQueue`: what a bucket has for the queue itself is exactly what the queue has to get
  of that key, or nothing if a Shovel has moved the bucket already (`Gone`); what it has for
  a fork that was made undisturbed (`Sure`) is enough, with a missing index log read from
  `dat.log`; and it has index logs only of consumers there are or were (`Names`);
- `GoodFork`: a Fork that nobody interfered with is alone with its queue and has got
  through the buckets not in `todo`. Fork takes no mutex, so this is what has to survive
  every step of the others: who locks the queue or begins another Fork puts the fork
  into `raced`;
- `Knows`: what a goroutine concluded under a mutex still holds while it has it: the tree of
  a Shovel's source is as it was, and the bucket of a callback is open;
- `Single`: an item is in the batch of one goroutine or in one queue; new ones have numbers of
  their own.

The argument goes by frames: `Frame` says what a step leaves alone (the queues of which the
goroutine has no mutex and makes no fork, and the other goroutines); `OthersKnow`,
`OthersFork` and `OtherQueues` conclude that what is said of them stays. What is left
for each action is the buckets of its own queues, for which there are lemmas about single
buckets (`AddGood`, `PopGood`, `ReapGood`, `ShovelGood`, `ForkedGood`, `RemoveGood`, ...), and its
own place. A queue that is shovelled away has no forks, which is why `ShovelInto` may
regenerate the missing index logs of the destination's forks.

What `InOneQueue` says of forks, that they get nothing they have consumed but for `again`, is
a bound from above, where `GoodQueue` has one from below. It is the second layer, `BI`: `QI`
and `BoundedInv`. `BoundedQueue` says that a fork finds nothing in a bucket, after a missing log
was regenerated, that it is not due; for this the items of a bucket, those in `dat.log` too,
have its key. `OutHere` says that a callback's items are of the bucket they are popped from,
so that popping from one bucket takes nothing that is due in another, and `ForkedFrom` that an
undisturbed Fork has copied nothing but what the queue itself has. A `RemoveFork` that
ends half way leaves its fork in `raced`; that one that got to all buckets left no index
of the fork behind is what both layers need of it.

`Buckets_proofs` begins with the split functions, the sort of `Push` and `binsplit`. A split
function is monotone and idempotent, `SortItems` returns the same items in order if no
comparison overflows (`SortLemma`), and `Binsplit` returns how many items belong to
the bucket of the first one, if these come first, and never zero (`BinsplitLemma`).
`SortItems` and `Binsplit` are recursive functions; what they compute is proved for every
input by a least counterexample (`LeastNat` of `Numbers_proofs`) in place of an induction
theorem.

It then proves about the tree, for any finite set of keys, any forks, batches,
ranges, limits and options:

- `BucketsTypes` (`TypeOK`), with `BaseInv`: types, finite buckets, and `Shape`, which
  says what `batch`, `todo`, `rd` and `dead` have in them at each place;
- `NeverTooManyOpen` (`OpenLimit`). `closeUnused` visits the buckets from the middle to
  both sides and closes open ones until few enough are left. The order is a
  permutation of the tree, the victims are the first so many open ones in it, and
  `ForKey` therefore opens a bucket only when there is room;
- `ReadsUpToCount` (`PopsUpTo`): what a Read of `n` items popped, together with what
  its callback has got, is at most `n`. The invariant `Few` says that the count is not more
  than what is missing from `n`. The code lowers the count by a difference of lengths and not
  by what was delivered; that the two are the same takes `Asked` (the callback got at most the
  count), `NotClosed` and `GotFirst` (the bucket was neither closed nor pushed to meanwhile, so
  the difference is what was popped), hence the hypothesis `Careful`;
- `ItemsInPlace` (`InPlace`), from the lemmas about `Binsplit`, with the batch in
  progress in order (`PlaceInv`);
- `LenIsRight` (`LenAgrees`), with `Trailers`: the trailer of a closed bucket counts its
  items, except for forks made while it was closed. After a restart these are the trailers
  in the index logs; that Push, popSync and Delete log the right ones is part of `TreeOK`.

It ends with `BucketsImplementQueue`: `Spec => ImplementsQueue`. Initial
states map to initial states of `Queue`, and there is one lemma per action that says
which step of `Queue` it is, or that it is none. The invariant is `AllInv`: `BaseInv`,
`Asked`, `PlaceInv`, and

- `UniqueIds`: no two items have the same number, so that adding and removing sets is
  adding and removing items;
- `NotClosed`: the bucket that the callback reads from stays open (this is where the
  application has to be careful);
- `Onward`: what a Read has still to go to is above where it is, without which an item
  of a later bucket could come before one of an earlier bucket;
- `GotFirst`: what the callback got is first in its bucket, and nothing was added to the
  bucket unless the Read is for all items;
- `Enough`: the count of a Read for all items is above all that it may still come to, so
  it does not end early;
- `ToRemove`: what `Delete` is about to drop is empty, and what `Clear` has to drop is all.

The theorems have hypotheses, which the run `buckets` satisfies:

- `NearKeys` (`ItemsInPlace`, `LenIsRight`, `BucketsImplementQueue`): no difference of two
  keys overflows. The code sorts by the sign of the difference (buckets.go:551); with
  keys 2^63 apart the batch is not in order. Nanoseconds since 1970 satisfy it.
- `SplitsDown` (`BucketsImplementQueue`): no item has a key below that of its bucket. It
  holds for shifts, the default, and for `FixedSizeBucketSplit` with keys of zero and
  above (`SplitDown`). `bucket.Delete` relies on it (section 5).
- `Careful` (`ReadsUpToCount`, `BucketsImplementQueue`): see section 2.

Only model-checked: termination, `OperationsEnd` and `ScanTerminates` (liveness); `NoGhosts`
and `NoDuplicates` of `Bucket`, and `IndexAfterData`; `ReadByPriority`, which is `MinFirst`
for the indexes that `Bucket` reaches, and that no ghosts are among them; the properties of `Scan`, which are about `RECURSIVE` operators on bytes.

## 5. Where the code does not do what it says

Each of the first four has a run that expects a violation.

- `delete_shared_key`: batches with the same first key are not told apart by
  `Index.Delete`; `Delete` removes an item outside of its range.
- `restart_drops_fork_data`: `fetchForks` finds no forks after a restart, so a
  bucket that the queue has drained is removed although a fork needs it.
- `tx_push_unmaps_items`: at the limit `MaxParallelOpenBuckets`, a `tx.Push` may close
  the bucket that is being read, and unmap the items the callback has.
- `fork_shares_slices`: `Index.Copy` copies the b-tree but not the arrays behind its
  slices, so a `Push` to one consumer overwrites a location of the other.

The following are left out of the properties and have no run of their own.

- `popCut`: `popSync` of batches that share their first key, cut short by a crash,
  loses an item, although timeq should "survive crashes without data loss (Push,
  Read)" (README.md:257). If it is not cut short, all is well: the batches read are
  the oldest.
- `blankFork`: an index log without records is taken for a lost one and regenerated,
  so the fork of a drained consumer gets what its source had consumed.
- `clearCut`: `removeBucketDir` removes `dat.log` before `idx.log`; a crash in between
  leaves an index of data that is gone.
- `failedWrite` needs no crash: `bucket.Delete` joins errors and goes on, so the
  record for the rest of a batch can be missing while its end is there; the loss
  shows when the bucket is opened again, which is why `Trouble` tolerates failed
  writes only until then. `failedFork` is the same for the first records of a fork.
- `unsyncedData`: the power fails while `loose`; the index log may then refer to items
  that the value log has lost.
- `raced`: a fork made in the middle of a `Push` can miss buckets that are created
  meanwhile, and does not get what is pushed to them.
- `uncounted`: `Len` of a fork leaves out buckets that were closed when it was made.
- `Queue.Push`, unlike `tx.Push`, in the callback of a `Read` of the same queue waits
  for the mutex that the `Read` holds, although the comment at api.go:84 allows it.
  Two `Shovel`s in opposite directions wait for each other.
- `FixedSizeBucketSplit` divides as Go does, towards zero, so that with size 10 the key -3
  is in bucket 0. `bucket.Delete` takes a bucket whose key is above `to` as out of the range
  (bucket.go:461): `Delete(-5, -1)` leaves -3 where it is, although "Delete deletes all items in
  the range" (api.go:112). The proof of `BucketsImplementQueue` fails there without
  `SplitsDown`, and TLC finds the step of `Delete` that `Queue` does not allow.
- Behind a fragment in the middle of a log, the offsets of `FromVlog` are too small,
  since it adds up sizes of items and not the bytes it skipped.
- A value log whose first key is negative makes `FromVlog` begin with a run of no items and
  the key 0. `addIter` does not go past it, so `peek` comes to none of the runs with keys of
  zero and above: with the keys -1, 1, 0 the last item cannot be read. After the bucket is
  reopened it can: `Load` takes a location without items for the end of a batch.
- With the default `ErrorMode`, a fragment inside of a run that `FromVlog` went over makes the
  `Read` fail; the items before the fragment are not served either. A fragment at the end is
  mostly harmless, but one with a negative key has FF FF in its header, and with little
  behind that it is taken for an item: the Read fails, or serves the last item twice.
- `buckets.RemoveFork` ends at the first bucket whose `RemoveFork` fails (buckets.go:749-769).
  A closed bucket that `Shovel` moved in has no index log of the fork, and `removeForkOffline`
  fails (bucket.go:649-654). The buckets behind keep the fork's index; calling it again fails at the
  same bucket; a fork made again by that name keeps the old index there (bucket.go:602)
  and misses items. `Delivered` holds for all other forks.
- After `Read(1)` and a `Shovel` that moves the directory (buckets.go:373-392), a fork of the
  destination regenerates its index from `dat.log` (bucket.go:112) and gets the item that was
  popped. That is `again`; `InOneQueue` says that nothing else comes back.
- A `Read` may get more than `n` items, although it "fetches up to `n` items" (api.go:89-90): a
  peek does not lower the count (buckets.go:590-634), so every bucket may give `n`; and a
  `tx.Push` to the bucket being read makes the difference of lengths too small.
- `WriteIndex` numbers the trailers of its records from 0 by location (writer.go:63-71). After
  an index was recovered, or copied for the fork of a closed bucket, and the queue is reopened
  before the bucket is written to, `Len` counts one less than the number of its batches. `Buckets`
  has no recovery, and no restart with forks; `LenAgrees` is about the trailers that `Push`,
  `popSync` and `Delete` log.
- "SyncFull syncs both the data and index log" (options.go:27), and timeq should "survive crashes
  without data loss" (README.md:257), but `bucket.Push` syncs `dat.log` and never an
  index log (bucket.go:266, 278). An acknowledged `Push` may be lost by a power failure: the index
  log that survives has records of earlier batches, so nothing is regenerated. In `Power`
  `NoLoss` therefore holds for what is `firm`.

## 6. Not modelled, and what could follow

Not modelled: the command line, formatting and parsing, the encoding of records and
headers in bytes, logging, blobs and their copying; addresses of the memory map
(`Mremap` may move it while a callback has items); sync modes other than `SyncFull`;
a `Shovel` of a fork, and a `Shovel` whose move of a directory fails; in `Bucket`, an index log
that ends in a part of a record, which `loadIndex` answers with a regenerated index
(bucket.go:112); a directory that cannot be removed because a fork not in the list has an
index log in it (bucket.go:682-704), which needs a `Fork` that races with another operation, or a
`RemoveFork` that failed half way, and makes a `Read` fail after its callback and a later `Shovel`
onto that directory fail half way (`Removable` in `Queues`); keys so far
apart that their difference overflows (`Compare` in `Split` wraps around, but no run
has such keys).

What could follow: proofs of `NoGhosts` and `NoDuplicates` for any constants. They need the
other half of `PopKeeps` and `DeleteKeeps`, that the edits leave nothing of what was
delivered or is in the range, each slot once.
