------------------------------- MODULE Queues -------------------------------
(***************************************************************************)
(* Several queues used by several goroutines (api.go, buckets.go): the     *)
(* mutex of each queue, Shovel, which moves all items from one queue to    *)
(* another and holds both mutexes, reads whose callback pushes to another  *)
(* queue, and Fork, which takes no mutex.                                  *)
(*                                                                         *)
(* As in Buckets, a bucket is the set of items that each consumer has left *)
(* in it.  MaxParallelOpenBuckets is off: a closed bucket is one that was  *)
(* moved in by Shovel.  Forks are made of queues that are not shovelled    *)
(* away (ForkQs); a destination may have forks.  A Shovel of a fork is not *)
(* modelled.                                                               *)
(***************************************************************************)
EXTENDS Integers, FiniteSets

CONSTANTS Procs,      \* the goroutines
          Qs,         \* the queues
          Nested,     \* pairs: while the first is locked, the second is used
          Buckets,    \* the keys of buckets
          Forks, Main,  \* the names of forks, and the queue itself
          Free,       \* the holder of a mutex that is not held
          Counts,     \* how many items a Read asks for
          MaxItems    \* bound on the batches pushed

Consumers == Forks \cup {Main}

\* Nested has no cycle: queues have ranks that decrease from the one that is
\* locked first to the one used meanwhile.
ASSUME QueuesAssumption ==
    /\ IsFiniteSet(Qs) /\ Nested \subseteq Qs \X Qs
    /\ IsFiniteSet(Buckets) /\ Buckets \subseteq Int
    /\ \E rank \in [Qs -> 0 .. Cardinality(Qs)] : \A n \in Nested : rank[n[2]] < rank[n[1]]
    /\ Main \notin Forks /\ Free \notin Procs
    /\ Counts \subseteq Nat \ {0} /\ MaxItems \in Nat

VARIABLES
    mu,      \* who holds the mutex of a queue
    bucks,   \* the buckets of a queue
    forks,   \* buckets.forks
    pc, loc, \* where a goroutine is, and its local variables
    nextId,
    must,    \* what a consumer of a queue has still to get
    again,   \* what a fork gets although it was consumed before it was shovelled
    raced    \* the forks made while another goroutine used the queue, or removed
             \* from some of its buckets only

vars == <<mu, bucks, forks, pc, loc, nextId, must, again, raced>>

ForkQs == Qs \ {n[1] : n \in Nested}
Item == [b : Buckets, id : Nat]
Live(q) == forks[q] \cup {Main}

\* st: not in the tree, in the tree but closed, or open; files: the consumers
\* with an index log; idx: those in bucket.indexes; log: dat.log.
NoBucket == [st |-> "absent", files |-> {}, idx |-> {}, log |-> {},
             has |-> [c \in Consumers |-> {}]]

\* The queue and the one locked inside of it, the buckets still to go to, the
\* consumer, the items to push, how many to read, what a callback got and of
\* which bucket.
NoLoc == [op |-> "none", q |-> Free, d |-> Free, todo |-> {}, c |-> Main,
          items |-> {}, n |-> 0, out |-> {}, at |-> {}]

Lowest(S) == CHOOSE k \in S : \A l \in S : k <= l
InTree(q) == {k \in Buckets : bucks[q][k].st # "absent"}

\* Variant of Loaded: a missing index log stays empty.
Loaded_Empty(b, c) == b.has[c]

\* What a consumer gets from a bucket, once it is open: an index log that is
\* missing is regenerated from dat.log (loadIndex).
Loaded(b, c) == IF b.st = "nil" /\ c \notin b.files THEN b.log ELSE b.has[c]

\* forKey.  A bucket without anything left is initialised anew.
ForKey(q, k) ==
    LET b == bucks[q][k]
        has == [c \in Consumers |-> IF c \in Live(q) THEN Loaded(b, c) ELSE b.has[c]]
        drained == \A c \in Live(q) : has[c] = {}
    IN  IF b.st = "open" THEN b
        ELSE [st |-> "open", idx |-> Live(q), files |-> b.files \cup Live(q),
              log |-> IF drained THEN {} ELSE b.log, has |-> has]

-----------------------------------------------------------------------------

Init ==
    /\ mu = [q \in Qs |-> Free]
    /\ bucks = [q \in Qs |-> [k \in Buckets |-> NoBucket]]
    /\ forks = [q \in Qs |-> {}]
    /\ pc = [p \in Procs |-> "idle"] /\ loc = [p \in Procs |-> NoLoc]
    /\ nextId = 0
    /\ must = [q \in Qs |-> [c \in Consumers |-> {}]] /\ again = must
    /\ raced = [q \in Qs |-> {}]

\* Goroutines in the middle of a Fork of q: another one uses it meanwhile.
Forking(q) == {p \in Procs : pc[p] = "fork" /\ loc[p].q = q}
RacedBy(q) == [raced EXCEPT ![q] = @ \cup {loc[p].c : p \in Forking(q)}]

Goto(p, place) == pc' = [pc EXCEPT ![p] = place]
Return(p) == Goto(p, "idle") /\ loc' = [loc EXCEPT ![p] = NoLoc]

\* A call that begins by locking the mutex of q.
Call(p, q, l) ==
    /\ pc[p] = "idle" /\ Goto(p, "lock")
    /\ loc' = [loc EXCEPT ![p] = [l EXCEPT !.q = q]]

\* Items to push, at most one for a bucket.
Fresh(ks) == {[b |-> k, id |-> nextId] : k \in ks}

CallPush(p) ==
    /\ nextId < MaxItems /\ nextId' = nextId + 1
    /\ \E q \in Qs, ks \in (SUBSET Buckets) \ {{}} :
          Call(p, q, [NoLoc EXCEPT !.op = "push", !.items = Fresh(ks)])
    /\ UNCHANGED <<mu, bucks, forks, must, again, raced>>

CallRead(p) ==
    /\ \E q \in Qs, n \in Counts : \E c \in Live(q) :
          Call(p, q, [NoLoc EXCEPT !.op = "read", !.c = c, !.n = n])
    /\ UNCHANGED <<mu, bucks, forks, nextId, must, again, raced>>

CallShovel(p) ==
    /\ \E n \in Nested : Call(p, n[1], [NoLoc EXCEPT !.op = "shovel", !.d = n[2]])
    /\ UNCHANGED <<mu, bucks, forks, nextId, must, again, raced>>

\* Also of a fork that is not there, or no longer.
CallRemoveFork(p) ==
    /\ \E q \in ForkQs, f \in Forks :
          Call(p, q, [NoLoc EXCEPT !.op = "remove", !.c = f])
    /\ UNCHANGED <<mu, bucks, forks, nextId, must, again, raced>>

-----------------------------------------------------------------------------
(* The mutexes                                                             *)

Locked(p, q, place) ==
    /\ mu' = [mu EXCEPT ![q] = p] /\ raced' = RacedBy(q)
    /\ Goto(p, place)
    /\ UNCHANGED <<bucks, forks, nextId, must, again>>

\* bs.mu.Lock.  The keys of the buckets are taken once it is held.
Lock(p) ==
    /\ pc[p] = "lock" /\ mu[loc[p].q] = Free
    /\ Locked(p, loc[p].q, IF loc[p].op = "shovel" THEN "lock2" ELSE loc[p].op)
    /\ loc' = [loc EXCEPT ![p].todo = InTree(loc[p].q)]

\* The mutex of the second queue, while the first one is held.
Lock2(p) ==
    /\ pc[p] = "lock2" /\ mu[loc[p].d] = Free
    /\ Locked(p, loc[p].d, IF loc[p].op = "shovel" THEN "shovel" ELSE "push")
    /\ UNCHANGED loc

Unlock(qs) == mu' = [q \in Qs |-> IF q \in qs THEN Free ELSE mu[q]]

-----------------------------------------------------------------------------
(* Push                                                                    *)

\* The queue that a Push goes to, also one in the callback of a Read.
Target(p) == IF loc[p].op = "push" THEN loc[p].q ELSE loc[p].d

PushBucket(p) ==
    /\ pc[p] = "push" /\ loc[p].items # {}
    /\ LET q == Target(p)
           k == Lowest({x.b : x \in loc[p].items})
           part == {x \in loc[p].items : x.b = k}
           b == ForKey(q, k)
           Add(f, cs) == [c \in Consumers |-> IF c \in cs THEN f[c] \cup part ELSE f[c]]
       IN  /\ bucks' = [bucks EXCEPT ![q][k] =
                           [b EXCEPT !.log = @ \cup part, !.has = Add(@, b.idx)]]
           /\ must' = [must EXCEPT ![q] = Add(@, Live(q) \ raced[q])]
           /\ loc' = [loc EXCEPT ![p].items = @ \ part]
    /\ UNCHANGED <<mu, forks, pc, nextId, again, raced>>

\* Variant of PushEnd: the mutex is kept.
PushEnd_Locked(p) ==
    /\ pc[p] = "push" /\ loc[p].items = {} /\ UNCHANGED mu
    /\ IF loc[p].op = "push" THEN Return(p) ELSE Goto(p, "callback") /\ UNCHANGED loc
    /\ UNCHANGED <<bucks, forks, nextId, must, again, raced>>

PushEnd(p) ==
    /\ pc[p] = "push" /\ loc[p].items = {} /\ Unlock({Target(p)})
    /\ IF loc[p].op = "push" THEN Return(p) ELSE Goto(p, "callback") /\ UNCHANGED loc
    /\ UNCHANGED <<bucks, forks, nextId, must, again, raced>>

-----------------------------------------------------------------------------
(* Read                                                                    *)

\* The items that a Read of at most n gets: those of the lowest keys.
UpTo(n, S) ==
    {out \in SUBSET S : Cardinality(out) = IF n < Cardinality(S) THEN n ELSE Cardinality(S)}

ReadBucket(p) ==
    /\ pc[p] = "read" /\ loc[p].todo # {}
    /\ LET q == loc[p].q
           k == Lowest(loc[p].todo)
           b == ForKey(q, k)
           c == loc[p].c
       IN  /\ bucks' = [bucks EXCEPT ![q][k] = b]
           /\ IF c \in b.idx
              THEN /\ \E out \in UpTo(loc[p].n, b.has[c]) :
                         loc' = [loc EXCEPT ![p].todo = @ \ {k}, ![p].at = {k}, ![p].out = out]
                   /\ Goto(p, "callback") /\ UNCHANGED mu
              ELSE Return(p) /\ Unlock({q})   \* ErrNoSuchFork
    /\ UNCHANGED <<forks, nextId, must, again, raced>>

\* The callback pushes to another queue.
CallbackPush(p) ==
    /\ pc[p] = "callback" /\ Goto(p, "lock2")
    /\ nextId < MaxItems /\ nextId' = nextId + 1
    /\ \E n \in Nested, k \in Buckets :
          /\ n[1] = loc[p].q
          /\ loc' = [loc EXCEPT ![p].d = n[2], ![p].items = Fresh({k})]
    /\ UNCHANGED <<mu, bucks, forks, must, again, raced>>

\* A bucket that nobody in bucket.indexes has anything left in is removed.
Drained(b) == b.st = "open" /\ \A i \in b.idx : b.has[i] = {}
Reaped(b) == IF Drained(b) THEN NoBucket ELSE b

\* Its directory is not empty, and not removed, if it has the index log of a fork
\* that is not in the list; what comes of that error is not followed.
Removable(b, live) == Drained(b) => b.files \subseteq live

\* The callback returns, after which a drained bucket goes.  The Read goes on
\* if it popped less than it asked for.
CallbackReturn(p, popped) ==
    /\ pc[p] = "callback" /\ Goto(p, "read")
    /\ LET q == loc[p].q
           c == loc[p].c
           n == loc[p].n - Cardinality(popped)
           Left(k) == [bucks[q][k] EXCEPT !.has[c] = @ \ popped]
       IN  /\ \A k \in loc[p].at : Removable(Left(k), Live(q))
           /\ bucks' = [bucks EXCEPT ![q] = [k \in Buckets |->
                           IF k \in loc[p].at THEN Reaped(Left(k)) ELSE bucks[q][k]]]
           /\ must' = [must EXCEPT ![q][c] = @ \ popped]
           /\ again' = [again EXCEPT ![q][c] = @ \ popped]
           /\ loc' = [loc EXCEPT ![p].at = {}, ![p].out = {}, ![p].n = n,
                                 ![p].todo = IF n <= 0 THEN {} ELSE @]
    /\ UNCHANGED <<mu, forks, nextId, raced>>

Pop(p) == CallbackReturn(p, loc[p].out)
Peek(p) == CallbackReturn(p, {})

ReadEnd(p) ==
    /\ pc[p] = "read" /\ loc[p].todo = {} /\ Unlock({loc[p].q}) /\ Return(p)
    /\ UNCHANGED <<bucks, forks, nextId, must, again, raced>>

-----------------------------------------------------------------------------
(* Shovel                                                                  *)

\* The directory is moved if the destination has no such bucket; otherwise
\* what is left is read and pushed to all consumers of the destination.
ShovelInto(b, d, k) ==
    IF bucks[d][k].st = "absent" THEN [b EXCEPT !.st = "nil", !.idx = {}]
    ELSE LET to == ForKey(d, k)
             items == Loaded(b, Main)
         IN  [to EXCEPT !.log = @ \cup items,
                        !.has = [c \in Consumers |-> IF c \in to.idx THEN @[c] \cup items ELSE @[c]]]

\* One bucket; what the source has left of it is only removed at the end.  The
\* forks of the destination get all of the dat.log of a directory that is moved,
\* also what was consumed.
ShovelBucket(p) ==
    /\ pc[p] = "shovel" /\ loc[p].todo # {}
    /\ LET q == loc[p].q
           d == loc[p].d
           k == Lowest(loc[p].todo)
           b == bucks[q][k]
           fast == bucks[d][k].st = "absent"
           moved == {x \in must[q][Main] : x.b = k}
           consumed == IF fast THEN b.log \ b.has[Main] ELSE {}
           AddTo(f, cs, S) == [c \in Consumers |-> IF c \in cs THEN f[c] \cup S ELSE f[c]]
       IN  /\ bucks' = [bucks EXCEPT ![d][k] = ShovelInto(b, d, k)]
           /\ loc' = [loc EXCEPT ![p].todo = @ \ {k}]
           /\ must' = [must EXCEPT ![q][Main] = @ \ moved,
                                   ![d] = AddTo(@, Live(d), moved)]
           /\ again' = [again EXCEPT ![d] = AddTo(@, forks[d], consumed)]
    /\ UNCHANGED <<mu, forks, pc, nextId, raced>>

\* Variant of ShovelEnd: the source is not cleared.
ShovelEnd_Keep(p) ==
    /\ pc[p] = "shovel" /\ loc[p].todo = {}
    /\ Unlock({loc[p].q, loc[p].d}) /\ Return(p)
    /\ UNCHANGED <<bucks, forks, nextId, must, again, raced>>

\* The source is cleared.
ShovelEnd(p) ==
    /\ pc[p] = "shovel" /\ loc[p].todo = {}
    /\ bucks' = [bucks EXCEPT ![loc[p].q] = [k \in Buckets |-> NoBucket]]
    /\ Unlock({loc[p].q, loc[p].d}) /\ Return(p)
    /\ UNCHANGED <<forks, nextId, must, again, raced>>

-----------------------------------------------------------------------------
(* Fork, without the mutex, and RemoveFork, with it                        *)

CallFork(p) ==
    /\ pc[p] = "idle" /\ Goto(p, "fork")
    /\ \E q \in ForkQs, f \in Forks :
          /\ f \notin forks[q]
          /\ loc' = [loc EXCEPT ![p] = [NoLoc EXCEPT !.q = q, !.c = f, !.todo = InTree(q)]]
          /\ raced' = IF mu[q] = Free /\ Forking(q) = {} THEN raced
                      ELSE [RacedBy(q) EXCEPT ![q] = @ \cup {f}]
    /\ UNCHANGED <<mu, bucks, forks, nextId, must, again>>

\* bucket.Fork, or forkOffline for a closed bucket.
Forked(b, f) ==
    IF b.st = "absent" \/ f \in (IF b.st = "open" THEN b.idx ELSE b.files) THEN b
    ELSE [b EXCEPT !.files = @ \cup {f}, !.has[f] = b.has[Main],
                   !.idx = IF b.st = "open" THEN @ \cup {f} ELSE @]

ForkBucket(p) ==
    /\ pc[p] = "fork" /\ loc[p].todo # {}
    /\ LET k == Lowest(loc[p].todo)
       IN  /\ bucks' = [bucks EXCEPT ![loc[p].q][k] = Forked(@, loc[p].c)]
           /\ loc' = [loc EXCEPT ![p].todo = @ \ {k}]
    /\ UNCHANGED <<mu, forks, pc, nextId, must, again, raced>>

\* The fork is in the list.  It has to get what the queue had.
ForkEnd(p) ==
    /\ pc[p] = "fork" /\ loc[p].todo = {} /\ Return(p)
    /\ LET q == loc[p].q
           f == loc[p].c
       IN  /\ forks' = [forks EXCEPT ![q] = @ \cup {f}]
           /\ must' = [must EXCEPT ![q][f] = IF f \in raced[q] THEN {} ELSE must[q][Main]]
           /\ again' = [again EXCEPT ![q][f] = {}]
    /\ UNCHANGED <<mu, bucks, nextId, raced>>

\* bucket.RemoveFork, and removeForkOffline for a closed bucket, where the fork's
\* index log may be missing, as Shovel has moved the directory in without it.
Without(b, f) == [b EXCEPT !.idx = @ \ {f}, !.files = @ \ {f}, !.has[f] = {}]
Misses(b, f) == f \notin (IF b.st = "open" THEN b.idx ELSE b.files)

\* The buckets that RemoveFork gets to: it ends at the first that misses the fork.
Reached(q, f) == {k \in InTree(q) : \A j \in InTree(q) : Misses(bucks[q][j], f) => k < j}
Removed(q, f) == [k \in Buckets |->
    IF k \in Reached(q, f) THEN Reaped(Without(bucks[q][k], f)) ELSE bucks[q][k]]

RemoveFork(p) ==
    /\ pc[p] = "remove" /\ Return(p)
    /\ LET q == loc[p].q
           f == loc[p].c
           kept == {k \in Buckets : f \in Removed(q, f)[k].files}
       IN  /\ \A k \in Reached(q, f) : Removable(Without(bucks[q][k], f), Live(q) \ {f})
           /\ forks' = [forks EXCEPT ![q] = @ \ {f}]
           /\ bucks' = [bucks EXCEPT ![q] = Removed(q, f)]
           /\ must' = [must EXCEPT ![q][f] = {}]
           /\ again' = [again EXCEPT ![q][f] = {}]
           /\ raced' = [raced EXCEPT ![q] = IF kept = {} THEN @ ELSE @ \cup {f}]
           /\ Unlock({q})
    /\ UNCHANGED nextId

-----------------------------------------------------------------------------

Next ==
    \E p \in Procs :
        \/ CallPush(p) \/ CallRead(p) \/ CallShovel(p) \/ CallFork(p) \/ CallRemoveFork(p)
        \/ Lock(p) \/ Lock2(p) \/ CallbackPush(p)
        \/ PushBucket(p) \/ PushEnd(p) \/ ReadBucket(p) \/ Pop(p) \/ Peek(p) \/ ReadEnd(p)
        \/ ShovelBucket(p) \/ ShovelEnd(p) \/ ForkBucket(p) \/ ForkEnd(p) \/ RemoveFork(p)

Spec == Init /\ [][Next]_vars

-----------------------------------------------------------------------------

Content(q, c) == UNION {Loaded(bucks[q][k], c) : k \in Buckets}

\* Whenever nobody holds the mutex of a queue, each of its consumers can get
\* what was pushed or shovelled into the queue and it has not consumed,
\* whatever the other goroutines did in between.  (Not so for a fork that was
\* made while others used the queue, nor for one that is made again after
\* RemoveFork failed half way: it keeps the old index in some buckets.)
Delivered ==
    \A q \in Qs : mu[q] = Free =>
        \A c \in Live(q) \ raced[q] : must[q][c] \subseteq Content(q, c)

\* An item is in one queue: what Shovel moves is no longer in the source.  And
\* what a consumer has consumed, be it a part of a bucket, does not come back to
\* it; only the forks of a destination of Shovel get once more what had been
\* consumed from a bucket before its directory was moved.
InOneQueue ==
    \A q \in Qs : mu[q] = Free =>
        /\ Content(q, Main) \subseteq must[q][Main]
        /\ \A r \in Qs \ {q} : Content(q, Main) \cap must[r][Main] = {}
        /\ \A c \in forks[q] \ raced[q] : Content(q, c) \subseteq must[q][c] \cup again[q][c]

\* The goroutines that p waits for.
WaitsFor(p) ==
    (CASE pc[p] = "lock" -> {mu[loc[p].q]}
       [] pc[p] = "lock2" -> {mu[loc[p].d]}
       [] OTHER -> {}) \ {Free}

\* Nobody waits for ever: in any group of goroutines there is one that waits
\* neither for one of the group, itself included, nor for one that has returned
\* and kept a mutex.  So there is no deadlock, although Shovel and callbacks
\* hold one mutex while they wait for another, as Nested has no cycle.
NoDeadlock ==
    \A S \in (SUBSET Procs) \ {{}} :
        \E p \in S : \A r \in WaitsFor(p) : r \notin S /\ pc[r] # "idle"
=============================================================================
