--------------------------- MODULE Queues_proofs ---------------------------
(***************************************************************************)
(* Theorems about Queues, for any number of goroutines, queues, buckets    *)
(* and forks.                                                              *)
(***************************************************************************)
EXTENDS Queues, Numbers_proofs

Fields == {"op", "q", "d", "todo", "c", "items", "n", "out", "at"}

\* The mutexes that a goroutine holds, by its place and its variables: that
\* of its queue once it is locked, and that of the second queue in a Shovel, or
\* in a Push from the callback of a Read.
Held(place, l) ==
    (IF place \in {"lock2", "push", "read", "callback", "shovel", "remove"}
     THEN {l.q} ELSE {})
    \cup (IF place = "shovel" \/ (place = "push" /\ l.op # "push") THEN {l.d} ELSE {})

\* Where a call may be.
Control(place, l) ==
    /\ DOMAIN l = Fields
    /\ place # "idle" => l.q \in Qs
    /\ place = "lock" => l.op \in {"push", "read", "shovel", "remove"}
    /\ place \in {"read", "callback"} => l.op = "read"
    /\ place = "push" => l.op \in {"push", "read"}
    /\ place = "lock2" => l.op \in {"shovel", "read"}
    /\ (\/ place = "lock" /\ l.op = "shovel"
        \/ place \in {"lock2", "shovel"}
        \/ place = "push" /\ l.op = "read") => <<l.q, l.d>> \in Nested

\* A mutex is held by whom its place says so, who will unlock it.
LockInv ==
    /\ mu \in [Qs -> Procs \cup {Free}]
    /\ pc = [p \in Procs |-> pc[p]] /\ loc = [p \in Procs |-> loc[p]]
    /\ \A p \in Procs : Control(pc[p], loc[p])
    /\ \A p \in Procs, q \in Qs : mu[q] = p <=> q \in Held(pc[p], loc[p])

-----------------------------------------------------------------------------

\* No queue is used while it is itself locked.
LEMMA NestedApart ==
  \A n \in Nested : n[1] \in Qs /\ n[2] \in Qs /\ n[1] # n[2]
<1>1. PICK rank \in [Qs -> 0 .. Cardinality(Qs)] : \A n \in Nested : rank[n[2]] < rank[n[1]]
  BY QueuesAssumption
<1>2. Cardinality(Qs) \in Nat
  BY QueuesAssumption, FS_CardinalityType
<1>3. ASSUME NEW n \in Nested PROVE n[1] \in Qs /\ n[2] \in Qs /\ n[1] # n[2]
  <2>1. n[1] \in Qs /\ n[2] \in Qs
    BY QueuesAssumption
  <2>2. rank[n[1]] \in Int /\ rank[n[2]] < rank[n[1]]
    BY <1>1, <1>2, <2>1
  <2> QED BY <2>1, <2>2
<1> QED BY <1>3

LEMMA InitLocks == Init => LockInv
  BY QueuesAssumption DEF Init, LockInv, Control, Held, NoLoc, Fields

\* The functions that EXCEPT is applied to.
LEMMA LocIs ==
  ASSUME LockInv, NEW p \in Procs
  PROVE  /\ pc = [r \in Procs |-> pc[r]] /\ loc = [r \in Procs |-> loc[r]]
         /\ DOMAIN loc[p] = Fields
  BY DEF LockInv, Control

\* What a step of p has to see to: where it takes p, and the mutexes that it
\* locks or unlocks for p.
LEMMA StepOfOne ==
  ASSUME LockInv, NEW p \in Procs, NEW place, NEW l,
         pc' = [pc EXCEPT ![p] = place], loc' = [loc EXCEPT ![p] = l],
         mu' \in [Qs -> Procs \cup {Free}],
         \A q \in Qs : mu'[q] = mu[q] \/ (mu[q] \in {p, Free} /\ mu'[q] \in {p, Free}),
         Control(place, l),
         \A q \in Qs : mu'[q] = p <=> q \in Held(place, l)
  PROVE  LockInv'
<1>1. pc' = [r \in Procs |-> pc'[r]] /\ loc' = [r \in Procs |-> loc'[r]]
  BY DEF LockInv
<1>2. pc'[p] = place /\ loc'[p] = l
  BY DEF LockInv
<1>3. \A r \in Procs \ {p} : pc'[r] = pc[r] /\ loc'[r] = loc[r]
  BY DEF LockInv
<1>4. \A r \in Procs : Control(pc'[r], loc'[r])
  BY <1>2, <1>3 DEF LockInv
<1>5. ASSUME NEW r \in Procs, NEW q \in Qs PROVE mu'[q] = r <=> q \in Held(pc'[r], loc'[r])
  <2>1. CASE r = p
    BY <1>2, <2>1
  <2>2. CASE r # p
    <3>1. mu'[q] = r <=> mu[q] = r
      BY <2>2, QueuesAssumption
    <3>2. mu[q] = r <=> q \in Held(pc[r], loc[r])
      BY DEF LockInv
    <3> QED BY <1>3, <2>2, <3>1, <3>2
  <2> QED BY <2>1, <2>2
<1> QED BY <1>1, <1>4, <1>5 DEF LockInv, Control, Held

\* A step of p that leaves the mutexes alone and p in a place with the same.
LEMMA StepInside ==
  ASSUME LockInv, NEW p \in Procs, NEW place, NEW l,
         pc' = [pc EXCEPT ![p] = place], loc' = [loc EXCEPT ![p] = l], UNCHANGED mu,
         Control(place, l), Held(pc[p], loc[p]) = Held(place, l)
  PROVE  LockInv'
<1>1. mu' \in [Qs -> Procs \cup {Free}] /\ \A q \in Qs : mu'[q] = p <=> q \in Held(place, l)
  BY DEF LockInv
<1> QED BY <1>1, StepOfOne

\* A step of p that unlocks.
LEMMA StepUnlocks ==
  ASSUME LockInv, NEW p \in Procs, NEW place, NEW l, NEW qs,
         pc' = [pc EXCEPT ![p] = place], loc' = [loc EXCEPT ![p] = l], Unlock(qs),
         Control(place, l), qs \subseteq Held(pc[p], loc[p]),
         Held(place, l) = Held(pc[p], loc[p]) \ qs
  PROVE  LockInv'
<1>1. /\ mu' \in [Qs -> Procs \cup {Free}]
      /\ \A q \in Qs : mu'[q] = mu[q] \/ (mu[q] \in {p, Free} /\ mu'[q] \in {p, Free})
  BY DEF LockInv, Unlock
<1>2. ASSUME NEW q \in Qs PROVE mu'[q] = p <=> q \in Held(place, l)
  BY QueuesAssumption DEF LockInv, Unlock
<1> QED BY <1>1, <1>2, StepOfOne

\* A step of p that locks the mutex of q, which was free.
LEMMA StepLocks ==
  ASSUME LockInv, NEW p \in Procs, NEW place, NEW l, NEW q \in Qs,
         pc' = [pc EXCEPT ![p] = place], loc' = [loc EXCEPT ![p] = l],
         mu[q] = Free, mu' = [mu EXCEPT ![q] = p],
         Control(place, l), Held(place, l) = Held(pc[p], loc[p]) \cup {q}
  PROVE  LockInv'
<1>1. /\ mu' \in [Qs -> Procs \cup {Free}]
      /\ \A x \in Qs : mu'[x] = mu[x] \/ (mu[x] \in {p, Free} /\ mu'[x] \in {p, Free})
  BY DEF LockInv
<1>2. ASSUME NEW x \in Qs PROVE mu'[x] = p <=> x \in Held(place, l)
  BY DEF LockInv
<1> QED BY <1>1, <1>2, StepOfOne

-----------------------------------------------------------------------------
(* One lemma per group of actions.                                         *)

\* Calls, which begin without a mutex.
LEMMA CallLocks ==
  ASSUME LockInv, NEW p \in Procs, NEW q \in Qs, NEW l, Call(p, q, l), UNCHANGED mu,
         DOMAIN l = Fields, l.op \in {"push", "read", "shovel", "remove"},
         l.op = "shovel" => <<q, l.d>> \in Nested
  PROVE  LockInv'
<1> DEFINE m == [l EXCEPT !.q = q]
<1>1. DOMAIN m = Fields /\ m.q = q /\ m.op = l.op /\ m.d = l.d
  BY DEF Fields
<1>2. pc[p] = "idle" /\ pc' = [pc EXCEPT ![p] = "lock"] /\ loc' = [loc EXCEPT ![p] = m]
  BY DEF Call, Goto
<1> HIDE DEF m
<1>3. Control("lock", m)
  BY <1>1 DEF Control
<1>4. Held(pc[p], loc[p]) = {} /\ Held("lock", m) = {}
  BY <1>2 DEF Held
<1> QED BY <1>2, <1>3, <1>4, StepInside

LEMMA CallsKeepLocks ==
  ASSUME LockInv, NEW p \in Procs,
         CallPush(p) \/ CallRead(p) \/ CallShovel(p) \/ CallRemoveFork(p)
  PROVE  LockInv'
<1>1. CASE CallPush(p)
  <2>1. PICK q \in Qs, ks \in SUBSET Buckets :
          Call(p, q, [NoLoc EXCEPT !.op = "push", !.items = Fresh(ks)])
    BY <1>1 DEF CallPush
  <2> DEFINE l == [NoLoc EXCEPT !.op = "push", !.items = Fresh(ks)]
  <2>2. DOMAIN l = Fields /\ l.op = "push"
    BY DEF NoLoc, Fields
  <2> HIDE DEF l
  <2> QED BY <1>1, <2>1, <2>2, CallLocks DEF CallPush, l
<1>2. CASE CallRead(p)
  <2>0. PICK q \in Qs, n \in Counts :
          \E c \in Live(q) : Call(p, q, [NoLoc EXCEPT !.op = "read", !.c = c, !.n = n])
    BY <1>2 DEF CallRead
  <2>1. PICK c \in Live(q) : Call(p, q, [NoLoc EXCEPT !.op = "read", !.c = c, !.n = n])
    BY <2>0
  <2> DEFINE l == [NoLoc EXCEPT !.op = "read", !.c = c, !.n = n]
  <2>2. DOMAIN l = Fields /\ l.op = "read"
    BY DEF NoLoc, Fields
  <2> HIDE DEF l
  <2> QED BY <1>2, <2>1, <2>2, CallLocks DEF CallRead, l
<1>3. CASE CallShovel(p)
  <2>1. PICK n \in Nested : Call(p, n[1], [NoLoc EXCEPT !.op = "shovel", !.d = n[2]])
    BY <1>3 DEF CallShovel
  <2> DEFINE l == [NoLoc EXCEPT !.op = "shovel", !.d = n[2]]
  <2>2. DOMAIN l = Fields /\ l.op = "shovel" /\ l.d = n[2]
    BY DEF NoLoc, Fields
  <2>3. n[1] \in Qs /\ <<n[1], n[2]>> \in Nested
    BY QueuesAssumption
  <2> HIDE DEF l
  <2> QED BY <1>3, <2>1, <2>2, <2>3, CallLocks DEF CallShovel, l
<1>4. CASE CallRemoveFork(p)
  <2>1. PICK q \in Qs, f \in Forks : Call(p, q, [NoLoc EXCEPT !.op = "remove", !.c = f])
    BY <1>4 DEF CallRemoveFork, ForkQs
  <2> DEFINE l == [NoLoc EXCEPT !.op = "remove", !.c = f]
  <2>2. DOMAIN l = Fields /\ l.op = "remove"
    BY DEF NoLoc, Fields
  <2> HIDE DEF l
  <2> QED BY <1>4, <2>1, <2>2, CallLocks DEF CallRemoveFork, l
<1> QED BY <1>1, <1>2, <1>3, <1>4

\* Fork, which takes no mutex.
LEMMA ForkKeepsLocks ==
  ASSUME LockInv, NEW p \in Procs, CallFork(p) \/ ForkBucket(p) \/ ForkEnd(p)
  PROVE  LockInv'
<1>1. CASE CallFork(p)
  <2>1. PICK q \in Qs, f \in Forks :
          loc' = [loc EXCEPT ![p] = [NoLoc EXCEPT !.q = q, !.c = f, !.todo = InTree(q)]]
    BY <1>1 DEF CallFork, ForkQs
  <2> DEFINE l == [NoLoc EXCEPT !.q = q, !.c = f, !.todo = InTree(q)]
  <2>2. DOMAIN l = Fields /\ l.q = q
    BY DEF NoLoc, Fields
  <2> HIDE DEF l
  <2>3. Control("fork", l)
    BY <2>2 DEF Control
  <2>4. Held(pc[p], loc[p]) = {} /\ Held("fork", l) = {}
    BY <1>1 DEF CallFork, Held
  <2> QED BY <1>1, <2>1, <2>3, <2>4, StepInside DEF CallFork, Goto, l
<1>2. CASE ForkBucket(p)
  <2> DEFINE l == loc'[p]
  <2>1. loc' = [loc EXCEPT ![p] = l] /\ DOMAIN l = Fields /\ l.q = loc[p].q
    BY <1>2, LocIs DEF ForkBucket, Fields
  <2>2. pc' = [pc EXCEPT ![p] = "fork"] /\ pc[p] = "fork"
    BY <1>2, LocIs DEF ForkBucket
  <2> HIDE DEF l
  <2>3. Control("fork", l) /\ Held(pc[p], loc[p]) = {} /\ Held("fork", l) = {}
    BY <2>1, <2>2 DEF Control, Held, LockInv
  <2> QED BY <1>2, <2>1, <2>2, <2>3, StepInside DEF ForkBucket
<1>3. CASE ForkEnd(p)
  <2>1. Control("idle", NoLoc) /\ Held(pc[p], loc[p]) = {} /\ Held("idle", NoLoc) = {}
    BY <1>3 DEF ForkEnd, Control, Held, NoLoc, Fields
  <2> QED BY <1>3, <2>1, StepInside DEF ForkEnd, Return, Goto
<1> QED BY <1>1, <1>2, <1>3

\* Steps of a call that change other variables of it than op, q and d, or
\* from the callback of a Read on those of a Push.
LEMMA InsideKeepsLocks ==
  ASSUME LockInv, NEW p \in Procs,
         PushBucket(p) \/ CallbackPush(p) \/ Pop(p) \/ Peek(p) \/ ShovelBucket(p)
  PROVE  LockInv'
<1> DEFINE l == loc'[p]
<1>1. CASE PushBucket(p)
  <2>1. loc' = [loc EXCEPT ![p] = l] /\ DOMAIN l = Fields
    BY <1>1, LocIs DEF PushBucket, Fields
  <2>2. l.q = loc[p].q /\ l.op = loc[p].op /\ l.d = loc[p].d
    BY <1>1, LocIs DEF PushBucket, Fields
  <2>3. pc' = [pc EXCEPT ![p] = "push"] /\ pc[p] = "push"
    BY <1>1, LocIs DEF PushBucket
  <2> HIDE DEF l
  <2>4. Control("push", l) /\ Held(pc[p], loc[p]) = Held("push", l)
    BY <2>1, <2>2, <2>3 DEF Control, Held, LockInv
  <2> QED BY <1>1, <2>1, <2>3, <2>4, StepInside DEF PushBucket
<1>2. CASE CallbackPush(p)
  <2>1. PICK n \in Nested, k \in Buckets : /\ n[1] = loc[p].q
                                          /\ loc' = [loc EXCEPT ![p].d = n[2],
                                               ![p].items = Fresh({k})]
    BY <1>2 DEF CallbackPush
  <2>2. loc' = [loc EXCEPT ![p] = l] /\ DOMAIN l = Fields
    BY <2>1, LocIs DEF Fields
  <2>3. l.q = loc[p].q /\ l.op = loc[p].op /\ l.d = n[2]
    BY <2>1, LocIs DEF Fields
  <2>4. n[1] \in Qs /\ <<n[1], n[2]>> \in Nested
    BY QueuesAssumption
  <2>5. pc' = [pc EXCEPT ![p] = "lock2"] /\ pc[p] = "callback" /\ loc[p].op = "read"
    BY <1>2 DEF CallbackPush, Goto, LockInv, Control
  <2> HIDE DEF l
  <2>6. Control("lock2", l)
    BY <2>1, <2>2, <2>3, <2>4, <2>5 DEF Control
  <2>7. Held(pc[p], loc[p]) = Held("lock2", l)
    BY <2>3, <2>5 DEF Held
  <2> QED BY <1>2, <2>2, <2>5, <2>6, <2>7, StepInside DEF CallbackPush
<1>3. CASE Pop(p) \/ Peek(p)
  <2>1. PICK popped : CallbackReturn(p, popped)
    BY <1>3 DEF Pop, Peek
  <2>2. loc' = [loc EXCEPT ![p] = l] /\ DOMAIN l = Fields
    BY <2>1, LocIs DEF CallbackReturn, Fields
  <2>3. l.q = loc[p].q /\ l.op = loc[p].op
    BY <2>1, LocIs DEF CallbackReturn, Fields
  <2>4. pc' = [pc EXCEPT ![p] = "read"] /\ pc[p] = "callback" /\ UNCHANGED mu
    BY <2>1 DEF CallbackReturn, Goto
  <2> HIDE DEF l
  <2>5. Control("read", l) /\ Held(pc[p], loc[p]) = Held("read", l)
    BY <2>2, <2>3, <2>4 DEF Control, Held, LockInv
  <2> QED BY <2>2, <2>4, <2>5, StepInside
<1>4. CASE ShovelBucket(p)
  <2>1. loc' = [loc EXCEPT ![p] = l] /\ DOMAIN l = Fields
    BY <1>4, LocIs DEF ShovelBucket, Fields
  <2>2. l.q = loc[p].q /\ l.op = loc[p].op /\ l.d = loc[p].d
    BY <1>4, LocIs DEF ShovelBucket, Fields
  <2>3. pc' = [pc EXCEPT ![p] = "shovel"] /\ pc[p] = "shovel"
    BY <1>4, LocIs DEF ShovelBucket
  <2> HIDE DEF l
  <2>4. Control("shovel", l) /\ Held(pc[p], loc[p]) = Held("shovel", l)
    BY <2>1, <2>2, <2>3 DEF Control, Held, LockInv
  <2> QED BY <1>4, <2>1, <2>3, <2>4, StepInside DEF ShovelBucket
<1> QED BY <1>1, <1>2, <1>3, <1>4

\* Steps that lock a mutex.
LEMMA LockingKeepsLocks ==
  ASSUME LockInv, NEW p \in Procs, Lock(p) \/ Lock2(p)
  PROVE  LockInv'
<1>1. CASE Lock(p)
  <2> DEFINE l == loc'[p]
             place == IF loc[p].op = "shovel" THEN "lock2" ELSE loc[p].op
  <2>1. loc' = [loc EXCEPT ![p] = l] /\ DOMAIN l = Fields
    BY <1>1, LocIs DEF Lock, Fields
  <2>2. l.q = loc[p].q /\ l.op = loc[p].op /\ l.d = loc[p].d
    BY <1>1, LocIs DEF Lock, Fields
  <2>3. /\ pc' = [pc EXCEPT ![p] = place] /\ pc[p] = "lock"
        /\ mu[loc[p].q] = Free /\ mu' = [mu EXCEPT ![loc[p].q] = p]
    BY <1>1 DEF Lock, Locked, Goto
  <2>4. /\ loc[p].q \in Qs /\ loc[p].op \in {"push", "read", "shovel", "remove"}
        /\ loc[p].op = "shovel" => <<loc[p].q, loc[p].d>> \in Nested
    BY <2>3 DEF LockInv, Control
  <2> HIDE DEF l
  <2>5. Control(place, l)
    BY <2>1, <2>2, <2>4 DEF Control
  <2>6. Held(pc[p], loc[p]) = {} /\ Held(place, l) = {loc[p].q}
    BY <2>2, <2>3, <2>4 DEF Held
  <2> HIDE DEF place
  <2> QED BY <2>1, <2>3, <2>4, <2>5, <2>6, StepLocks
<1>2. CASE Lock2(p)
  <2> DEFINE place == IF loc[p].op = "shovel" THEN "shovel" ELSE "push"
  <2>1. /\ pc' = [pc EXCEPT ![p] = place] /\ pc[p] = "lock2"
        /\ mu[loc[p].d] = Free /\ mu' = [mu EXCEPT ![loc[p].d] = p] /\ loc' = loc
    BY <1>2 DEF Lock2, Locked, Goto
  <2>2. loc' = [loc EXCEPT ![p] = loc[p]]
    <3>1. loc = [loc EXCEPT ![p] = loc[p]]
      BY DEF LockInv
    <3> QED BY <2>1, <3>1
  <2>3. loc[p].op \in {"shovel", "read"} /\ <<loc[p].q, loc[p].d>> \in Nested /\ DOMAIN loc[p] = Fields
    BY <2>1 DEF LockInv, Control
  <2>4. loc[p].q \in Qs /\ loc[p].d \in Qs
    BY <2>3, QueuesAssumption
  <2>5. Control(place, loc[p])
    BY <2>3, <2>4 DEF Control
  <2>6. Held(place, loc[p]) = Held(pc[p], loc[p]) \cup {loc[p].d}
    BY <2>1, <2>3 DEF Held
  <2> HIDE DEF place
  <2> QED BY <2>1, <2>2, <2>4, <2>5, <2>6, StepLocks
<1> QED BY <1>1, <1>2

\* Steps that unlock a mutex.
LEMMA UnlockingKeepsLocks ==
  ASSUME LockInv, NEW p \in Procs,
         PushEnd(p) \/ ReadBucket(p) \/ ReadEnd(p) \/ ShovelEnd(p) \/ RemoveFork(p)
  PROVE  LockInv'
<1>1. Control("idle", NoLoc)
  BY DEF Control, NoLoc, Fields
<1>2. loc = [loc EXCEPT ![p] = loc[p]]
  BY DEF LockInv
\* A call that returns and unlocks all it holds.
<1>3. ASSUME NEW qs, Return(p), Unlock(qs), Held(pc[p], loc[p]) = qs PROVE LockInv'
  <2>1. Held("idle", NoLoc) = Held(pc[p], loc[p]) \ qs
    BY <1>3 DEF Held
  <2> QED BY <1>1, <1>3, <2>1, StepUnlocks DEF Return, Goto
<1>4. CASE PushEnd(p)
  <2>1. CASE loc[p].op = "push"
    <3>1. Held(pc[p], loc[p]) = {Target(p)}
      BY <1>4, <2>1 DEF PushEnd, Held, Target
    <3> QED BY <1>3, <1>4, <2>1, <3>1 DEF PushEnd
  <2>2. CASE loc[p].op # "push"
    <3>1. /\ pc[p] = "push" /\ pc' = [pc EXCEPT ![p] = "callback"] /\ loc' = loc
          /\ Unlock({loc[p].d})
      BY <1>4, <2>2 DEF PushEnd, Goto, Target
    <3>2. Control("callback", loc[p])
      BY <3>1, <2>2 DEF LockInv, Control
    <3>3. <<loc[p].q, loc[p].d>> \in Nested
      BY <3>1, <2>2 DEF LockInv, Control
    <3>4. loc[p].q # loc[p].d
      BY <3>3, NestedApart
    <3>5. /\ {loc[p].d} \subseteq Held(pc[p], loc[p])
          /\ Held("callback", loc[p]) = Held(pc[p], loc[p]) \ {loc[p].d}
      BY <2>2, <3>1, <3>4 DEF Held
    <3> QED BY <1>2, <3>1, <3>2, <3>5, StepUnlocks
  <2> QED BY <2>1, <2>2
<1>5. CASE ReadBucket(p)
  <2>1. pc[p] = "read" /\ Held(pc[p], loc[p]) = {loc[p].q}
    BY <1>5 DEF ReadBucket, Held
  <2>2. CASE Return(p) /\ Unlock({loc[p].q})
    BY <1>3, <2>1, <2>2
  <2>3. CASE ~(Return(p) /\ Unlock({loc[p].q}))
    <3>1. PICK k, out : /\ loc' = [loc EXCEPT ![p].todo = @ \ {k}, ![p].at = {k}, ![p].out = out]
                        /\ pc' = [pc EXCEPT ![p] = "callback"] /\ UNCHANGED mu
      BY <1>5, <2>3 DEF ReadBucket, Goto
    <3> DEFINE l == loc'[p]
    <3>2. loc' = [loc EXCEPT ![p] = l] /\ DOMAIN l = Fields
      BY <3>1, LocIs DEF Fields
    <3>3. l.q = loc[p].q /\ l.op = loc[p].op
      BY <3>1, LocIs DEF Fields
    <3> HIDE DEF l
    <3>4. Control("callback", l) /\ Held(pc[p], loc[p]) = Held("callback", l)
      BY <2>1, <3>2, <3>3 DEF Control, Held, LockInv
    <3> QED BY <3>1, <3>2, <3>4, StepInside
  <2> QED BY <2>2, <2>3
<1>6. CASE ReadEnd(p)
  <2>1. Held(pc[p], loc[p]) = {loc[p].q}
    BY <1>6 DEF ReadEnd, Held
  <2> QED BY <1>3, <1>6, <2>1 DEF ReadEnd
<1>7. CASE ShovelEnd(p)
  <2>1. Held(pc[p], loc[p]) = {loc[p].q, loc[p].d}
    BY <1>7 DEF ShovelEnd, Held
  <2> QED BY <1>3, <1>7, <2>1 DEF ShovelEnd
<1>8. CASE RemoveFork(p)
  <2>1. Held(pc[p], loc[p]) = {loc[p].q}
    BY <1>8 DEF RemoveFork, Held
  <2> QED BY <1>3, <1>8, <2>1 DEF RemoveFork
<1> QED BY <1>4, <1>5, <1>6, <1>7, <1>8

-----------------------------------------------------------------------------

\* Among finitely many ranks in use there is a least one.
LEMMA LeastRank ==
  ASSUME NEW W, NEW rank, W # {}, \A p \in W : rank[loc[p].d] \in Nat
  PROVE  \E p \in W : \A r \in W : rank[loc[p].d] <= rank[loc[r].d]
<1> DEFINE T == {rank[loc[p].d] : p \in W}
<1>1. T \subseteq Nat /\ T # {}
  OBVIOUS
<1>2. PICK m \in T : \A k \in T : m <= k
  <2> HIDE DEF T
  <2> QED BY <1>1, LeastNat
<1>3. PICK p \in W : m = rank[loc[p].d]
  BY <1>2
<1> QED BY <1>2, <1>3

\* In a group of which everyone waits for another one of the group, all those
\* waited for are at their second mutex, and there is one of least rank.
LEMMA LocksAreOrdered == LockInv => NoDeadlock
<1> SUFFICES ASSUME LockInv, NEW S \in SUBSET Procs, S # {},
                    \A p \in S : \E r \in WaitsFor(p) : r \in S \/ pc[r] = "idle"
             PROVE  FALSE
  BY DEF NoDeadlock
<1>1. PICK rank \in [Qs -> 0 .. Cardinality(Qs)] : \A n \in Nested : rank[n[2]] < rank[n[1]]
  BY QueuesAssumption
<1>2. Cardinality(Qs) \in Nat
  BY QueuesAssumption, FS_CardinalityType
<1>3. \A q \in Qs : rank[q] \in Nat
  BY <1>2
<1> DEFINE W == {p \in S : pc[p] = "lock2"}
\* Who waits, waits for one at its second mutex, which holds its first one.
<1>4. ASSUME NEW p \in S
      PROVE  \E r \in W : loc[r].q = (IF pc[p] = "lock" THEN loc[p].q ELSE loc[p].d)
  <2>1. PICK r \in WaitsFor(p) : r \in S \/ pc[r] = "idle"
    OBVIOUS
  <2> DEFINE x == IF pc[p] = "lock" THEN loc[p].q ELSE loc[p].d
  <2>2. pc[p] \in {"lock", "lock2"} /\ r = mu[x] /\ r # Free
    BY <2>1 DEF WaitsFor
  <2>3. x \in Qs
    <3>1. CASE pc[p] = "lock"
      BY <3>1 DEF LockInv, Control
    <3>2. CASE pc[p] = "lock2"
      <4>1. <<loc[p].q, loc[p].d>> \in Nested
        BY <3>2 DEF LockInv, Control
      <4> QED BY <3>2, <4>1, QueuesAssumption
    <3> QED BY <2>2, <3>1, <3>2
  <2>4. r \in Procs
    BY <2>2, <2>3 DEF LockInv
  <2>5. x \in Held(pc[r], loc[r])
    BY <2>2, <2>3, <2>4 DEF LockInv
  <2>6. r \in S
    BY <2>1, <2>5 DEF Held
  <2>7. pc[r] \in {"lock", "lock2"}
    <3>1. PICK s \in WaitsFor(r) : TRUE
      BY <2>6
    <3> QED BY <3>1 DEF WaitsFor
  <2>8. pc[r] = "lock2" /\ x = loc[r].q
    BY <2>5, <2>7 DEF Held
  <2> QED BY <2>6, <2>8
<1>5. W # {}
  BY <1>4
<1>6. \A p \in W : /\ <<loc[p].q, loc[p].d>> \in Nested
                   /\ loc[p].q \in Qs /\ loc[p].d \in Qs
                   /\ rank[loc[p].d] < rank[loc[p].q]
  BY <1>1, QueuesAssumption DEF LockInv, Control
<1>7. \A p \in W : rank[loc[p].d] \in Nat
  BY <1>3, <1>6
<1>8. PICK p \in W : \A r \in W : rank[loc[p].d] <= rank[loc[r].d]
  BY <1>5, <1>7, LeastRank
<1>9. PICK r \in W : loc[r].q = loc[p].d
  BY <1>4, <1>8
<1>10. rank[loc[p].d] \in Nat /\ rank[loc[r].d] \in Nat /\ rank[loc[r].d] < rank[loc[p].d]
  BY <1>6, <1>7, <1>9
<1> QED BY <1>8, <1>10

\* Every step keeps the mutexes with those who hold them.
LEMMA LockStep == LockInv /\ [Next]_vars => LockInv'
<1>1. LockInv /\ UNCHANGED vars => LockInv'
  BY DEF LockInv, vars, Control, Held
<1> QED BY <1>1, CallsKeepLocks, ForkKeepsLocks, InsideKeepsLocks, LockingKeepsLocks,
        UnlockingKeepsLocks DEF Next

\* Shovel and the callbacks of Read, which lock the mutex of a queue while they
\* hold that of another, never make goroutines wait for each other for ever:
\* for any number of goroutines and queues, if no queue is shovelled, directly
\* or through others, back to where it came from.
THEOREM GoroutinesNeverDeadlock == Spec => []NoDeadlock
  BY InitLocks, LockStep, LocksAreOrdered, PTL DEF Spec

-----------------------------------------------------------------------------
(* What was pushed is in one queue, and its consumers get it.              *)

QBucket == [st : {"absent", "nil", "open"}, files : SUBSET Consumers, idx : SUBSET Consumers,
            log : SUBSET Item, has : [Consumers -> SUBSET Item]]

\* The variables have their types; only some queues have forks.
Types ==
    /\ bucks \in [Qs -> [Buckets -> QBucket]]
    /\ forks \in [Qs -> SUBSET Forks] /\ raced \in [Qs -> SUBSET Forks]
    /\ must \in [Qs -> [Consumers -> SUBSET Item]]
    /\ nextId \in Nat
    /\ \A q \in Qs \ ForkQs : forks[q] = {} /\ raced[q] = {}

\* A Read has a bucket, from which the callback got items.
Reading(p) == pc[p] = "callback" \/ (pc[p] \in {"lock2", "push"} /\ loc[p].op = "read")

\* What a goroutine knows by its place.
Knows(p) ==
    LET l == loc[p]
    IN  /\ l.todo \subseteq Buckets /\ l.c \in Consumers /\ l.at \subseteq Buckets
        /\ l.items \subseteq Item /\ l.out \subseteq Item
        /\ pc[p] = "fork" => l.q \in ForkQs /\ l.c \in Forks
        /\ (pc[p] = "lock" /\ l.op = "remove") \/ pc[p] = "remove" => l.q \in ForkQs /\ l.c \in Forks
        /\ pc[p] = "lock2" /\ l.op = "shovel" => l.todo = InTree(l.q)
        /\ pc[p] = "shovel" => l.todo \subseteq InTree(l.q)
        /\ Reading(p) => /\ \A k \in l.at : bucks[l.q][k].st = "open"
                         /\ l.c = Main => \A x \in l.out : x.b \in l.at

\* The consumers that Delivered speaks of, those that a bucket may have an
\* index of, and the buckets that a Shovel has moved already.
Sure(q) == Live(q) \ raced[q]
Names(q) == Live(q) \cup raced[q] \cup {loc[p].c : p \in Forking(q)}
Gone(q) == {k \in Buckets : \E p \in Procs : pc[p] = "shovel" /\ loc[p].q = q /\ k \notin loc[p].todo}

\* A bucket b of key k: what it has for the queue itself is what the queue has
\* to get, and what it has for a consumer in S is enough.
GoodBucket(b, k, S, N, m, gone) ==
    /\ b.st = "absent" => b = NoBucket
    /\ b.st # "absent" => Main \in b.files
    /\ b.st = "nil" => b.idx = {}
    /\ b.st = "open" => S \subseteq b.idx
    /\ b.idx \subseteq b.files /\ b.files \subseteq N
    /\ \A c \in Consumers \ b.files : b.has[c] = {}
    /\ b.has[Main] \subseteq b.log
    /\ {x \in m[Main] : x.b = k} = (IF gone THEN {} ELSE b.has[Main])
    /\ \A c \in S \ {Main} : {x \in m[c] : x.b = k} \subseteq Loaded(b, c)

GoodQueue(q) ==
    \A k \in Buckets :
        GoodBucket(bucks[q][k], k, Sure(q), Names(q), must[q], k \in Gone(q))

\* A Fork that nobody interfered with has got through the buckets that are
\* not in todo.
ForkedIn(b, f) ==
    /\ f \in b.files /\ (b.st = "open" => f \in b.idx)
    /\ b.has[Main] \subseteq b.has[f]

GoodFork(p) ==
    LET q == loc[p].q
        f == loc[p].c
    IN  pc[p] = "fork" /\ f \notin raced[q] =>
            /\ mu[q] = Free /\ Forking(q) = {p}
            /\ f \notin forks[q]
            /\ \A k \in InTree(q) : IF k \in loc[p].todo THEN f \notin bucks[q][k].files
                                    ELSE ForkedIn(bucks[q][k], f)

\* Every item is of its own, to be pushed or in one queue.
Single ==
    /\ \A p \in Procs : \A x \in loc[p].items : x.id < nextId
    /\ \A q \in Qs : \A x \in must[q][Main] : x.id < nextId
    /\ \A p, r \in Procs : p # r => loc[p].items \cap loc[r].items = {}
    /\ \A p \in Procs, q \in Qs : loc[p].items \cap must[q][Main] = {}
    /\ \A q, r \in Qs : q # r => must[q][Main] \cap must[r][Main] = {}

QueueInv ==
    /\ Types /\ Single
    /\ \A p \in Procs : Knows(p) /\ GoodFork(p)
    /\ \A q \in Qs : GoodQueue(q)

Others(p) == \A r \in Procs \ {p} : pc'[r] = pc[r] /\ loc'[r] = loc[r]

\* What a step of p leaves alone: the other goroutines; the queues of which p
\* neither holds the mutex nor makes a fork; and the tree of all of which it
\* does not hold the mutex.  Who gets in the way of a Fork is noticed.
Frame(p) ==
    /\ Others(p)
    /\ \A q \in Qs :
          /\ raced[q] \subseteq raced'[q]
          /\ mu[q] = Free /\ mu'[q] # Free => {loc[r].c : r \in Forking(q)} \subseteq raced'[q]
          /\ pc'[p] = "fork" /\ loc'[p].q = q =>
                \/ pc[p] = "fork" /\ loc[p].q = q
                \/ {loc[r].c : r \in Forking(q)} \subseteq raced'[q]
    /\ \A q \in Qs \ Held(pc[p], loc[p]) :
          /\ \A k \in Buckets : bucks'[q][k].st = bucks[q][k].st
          /\ pc'[p] = "shovel" => loc'[p].q # q
          /\ ~(pc[p] = "fork" /\ loc[p].q = q) =>
                bucks'[q] = bucks[q] /\ must'[q] = must[q] /\ forks'[q] = forks[q]

QI == LockInv /\ QueueInv

\* The least of some keys is one of them.
LEMMA LowestIn ==
  ASSUME NEW S, S \subseteq Buckets, S # {}
  PROVE  Lowest(S) \in S
<1>1. S \subseteq Int /\ IsFiniteSet(S)
  BY QueuesAssumption, FS_Subset
<1>2. \E x \in S : \A y \in S : x <= y
  BY <1>1, LeastOfFinite
<1> QED BY <1>2 DEF Lowest

\* Calls and returns, and steps that only lock or unlock.
LEMMA QuietFrame ==
  ASSUME QI, NEW p \in Procs,
         \/ CallPush(p) \/ CallRead(p) \/ CallShovel(p) \/ CallRemoveFork(p) \/ CallbackPush(p)
         \/ PushEnd(p) \/ ReadEnd(p)
  PROVE  Frame(p) /\ UNCHANGED <<bucks, must, forks, raced>> /\ pc'[p] \notin {"shovel", "fork"}
                  /\ pc[p] \notin {"shovel", "fork"}
<1>1. UNCHANGED <<bucks, must, forks, raced>>
  BY DEF CallPush, CallRead, CallShovel, CallRemoveFork, CallbackPush, PushEnd, ReadEnd
<1>2. Others(p)
  BY LocIs DEF QI, CallPush, CallRead, CallShovel, CallRemoveFork, CallbackPush, PushEnd, ReadEnd,
     Others, Call, Goto, Return
<1>3. pc'[p] \in {"lock", "lock2", "idle", "callback"}
  BY LocIs DEF QI, CallPush, CallRead, CallShovel, CallRemoveFork, CallbackPush, PushEnd, ReadEnd,
     Call, Goto, Return
<1>4. pc[p] \in {"idle", "callback", "push", "read"}
  BY DEF CallPush, CallRead, CallShovel, CallRemoveFork, CallbackPush, PushEnd, ReadEnd, Call
<1>5. \A q \in Qs : mu'[q] \in {mu[q], Free}
  <2>1. CASE UNCHANGED mu
    BY <2>1
  <2>2. CASE PushEnd(p) \/ ReadEnd(p)
    BY <2>2 DEF PushEnd, ReadEnd, Unlock
  <2> QED BY <2>1, <2>2 DEF CallPush, CallRead, CallShovel, CallRemoveFork, CallbackPush
<1> QED BY <1>1, <1>2, <1>3, <1>4, <1>5 DEF Frame

LEMMA LockFrame ==
  ASSUME QI, NEW p \in Procs, Lock(p) \/ Lock2(p)
  PROVE  Frame(p) /\ UNCHANGED <<bucks, must, forks>>
<1> DEFINE q == IF pc[p] = "lock" THEN loc[p].q ELSE loc[p].d
<1>1. UNCHANGED <<bucks, must, forks>>
  BY DEF Lock, Lock2, Locked
<1>2. Others(p)
  BY LocIs DEF QI, Lock, Lock2, Locked, Others, Goto
<1>3. q \in Qs
  BY NestedApart DEF QI, LockInv, Control, Lock, Lock2
<1>4. mu' = [mu EXCEPT ![q] = p] /\ raced' = RacedBy(q)
  BY DEF Lock, Lock2, Locked
<1> HIDE DEF q
<1>5. \A x \in Qs \ {q} : mu'[x] = mu[x] /\ raced'[x] = raced[x]
  BY <1>4 DEF QI, LockInv, QueueInv, Types, RacedBy
<1>6. raced'[q] = raced[q] \cup {loc[r].c : r \in Forking(q)}
  BY <1>3, <1>4 DEF QI, QueueInv, Types, RacedBy
<1>7. pc'[p] # "fork"
  BY LocIs DEF QI, Lock, Lock2, Locked, Goto, LockInv, Control
<1>8. pc'[p] = "shovel" => loc'[p].q \in Held(pc[p], loc[p])
  BY LocIs DEF QI, Lock, Lock2, Locked, Goto, Held, LockInv, Control
<1> QED BY <1>1, <1>2, <1>3, <1>5, <1>6, <1>7, <1>8 DEF Frame

\* Steps of one who holds a mutex and changes nothing but the queues that it
\* holds.
LEMMA HolderFrame ==
  ASSUME QI, NEW p \in Procs, Others(p), \A q \in Qs : raced[q] \subseteq raced'[q],
         pc[p] # "fork", pc'[p] # "fork", pc'[p] = "shovel" => pc[p] = "shovel" /\ loc'[p].q = loc[p].q,
         \A q \in Qs : mu'[q] \in {mu[q], Free},
         \A q \in Qs \ Held(pc[p], loc[p]) :
            bucks'[q] = bucks[q] /\ must'[q] = must[q] /\ forks'[q] = forks[q]
  PROVE  Frame(p)
<1>1. pc'[p] = "shovel" => loc'[p].q \in Held(pc[p], loc[p])
  BY DEF Held
<1> QED BY <1>1 DEF Frame

\* RemoveFork notes a fork that is still in some bucket.
LEMMA RacedMore ==
  ASSUME NEW p, RemoveFork(p)
  PROVE  \E V : /\ raced' = [raced EXCEPT ![loc[p].q] = V]
               /\ V \in {raced[loc[p].q], raced[loc[p].q] \cup {loc[p].c}}
<1>1. PICK S : raced' = [raced EXCEPT ![loc[p].q] = IF S = {} THEN @ ELSE @ \cup {loc[p].c}]
  BY DEF RemoveFork
<1>2. PICK V : V = IF S = {} THEN raced[loc[p].q] ELSE raced[loc[p].q] \cup {loc[p].c}
  OBVIOUS
<1>3. raced' = [raced EXCEPT ![loc[p].q] = V]
  BY <1>1, <1>2
<1> QED BY <1>2, <1>3

LEMMA BusyFrame ==
  ASSUME QI, NEW p \in Procs,
         \/ PushBucket(p) \/ ReadBucket(p) \/ Pop(p) \/ Peek(p)
         \/ ShovelBucket(p) \/ ShovelEnd(p) \/ RemoveFork(p)
  PROVE  Frame(p)
<1>0. Types
  BY DEF QI, QueueInv
<1>1. CASE PushBucket(p)
  <2> DEFINE q == Target(p)
  <2>1. q \in Held(pc[p], loc[p])
    BY <1>1 DEF PushBucket, Target, Held
  <2>2. \A x \in Qs \ {q} : bucks'[x] = bucks[x] /\ must'[x] = must[x] /\ forks'[x] = forks[x]
    BY <1>0, <1>1 DEF PushBucket, Types
  <2>3. Others(p) /\ pc'[p] = "push" /\ pc[p] = "push" /\ UNCHANGED <<raced, mu>>
    BY <1>1, LocIs DEF QI, PushBucket, Others
  <2> QED BY <2>1, <2>2, <2>3, HolderFrame
<1>2. CASE ReadBucket(p)
  <2> DEFINE q == loc[p].q
  <2>1. q \in Held(pc[p], loc[p])
    BY <1>2 DEF ReadBucket, Held
  <2>2. \A x \in Qs \ {q} : bucks'[x] = bucks[x] /\ must'[x] = must[x] /\ forks'[x] = forks[x]
    BY <1>0, <1>2 DEF ReadBucket, Types
  <2>3. Others(p) /\ pc'[p] \in {"callback", "idle"} /\ pc[p] = "read" /\ UNCHANGED raced
    BY <1>2, LocIs DEF QI, ReadBucket, Others, Goto, Return
  <2>4. \A x \in Qs : mu'[x] \in {mu[x], Free}
    BY <1>2 DEF ReadBucket, Unlock
  <2> QED BY <2>1, <2>2, <2>3, <2>4, HolderFrame
<1>3. CASE Pop(p) \/ Peek(p)
  <2> DEFINE q == loc[p].q
  <2>0. PICK popped : CallbackReturn(p, popped)
    BY <1>3 DEF Pop, Peek
  <2>1. q \in Held(pc[p], loc[p])
    BY <2>0 DEF CallbackReturn, Held
  <2>2. \A x \in Qs \ {q} : bucks'[x] = bucks[x] /\ must'[x] = must[x] /\ forks'[x] = forks[x]
    BY <1>0, <2>0 DEF CallbackReturn, Types
  <2>3. Others(p) /\ pc'[p] = "read" /\ pc[p] = "callback" /\ UNCHANGED <<raced, mu>>
    BY <2>0, LocIs DEF QI, CallbackReturn, Others, Goto
  <2> QED BY <2>1, <2>2, <2>3, HolderFrame
<1>4. CASE ShovelBucket(p)
  <2> DEFINE q == loc[p].q
             d == loc[p].d
  <2>1. q \in Held(pc[p], loc[p]) /\ d \in Held(pc[p], loc[p])
    BY <1>4 DEF ShovelBucket, Held
  <2>2. \A x \in Qs \ {q, d} : bucks'[x] = bucks[x] /\ must'[x] = must[x] /\ forks'[x] = forks[x]
    BY <1>0, <1>4 DEF ShovelBucket, Types
  <2>3. /\ Others(p) /\ pc'[p] = "shovel" /\ pc[p] = "shovel" /\ UNCHANGED <<raced, mu>>
        /\ loc'[p].q = loc[p].q
    BY <1>4, LocIs DEF QI, ShovelBucket, Others, Fields
  <2> QED BY <2>1, <2>2, <2>3, HolderFrame
<1>5. CASE ShovelEnd(p)
  <2> DEFINE q == loc[p].q
  <2>1. q \in Held(pc[p], loc[p])
    BY <1>5 DEF ShovelEnd, Held
  <2>2. \A x \in Qs \ {q} : bucks'[x] = bucks[x] /\ must'[x] = must[x] /\ forks'[x] = forks[x]
    BY <1>0, <1>5 DEF ShovelEnd, Types
  <2>3. Others(p) /\ pc'[p] = "idle" /\ pc[p] = "shovel" /\ UNCHANGED raced
    BY <1>5, LocIs DEF QI, ShovelEnd, Others, Goto, Return
  <2>4. \A x \in Qs : mu'[x] \in {mu[x], Free}
    BY <1>5 DEF ShovelEnd, Unlock
  <2> QED BY <2>1, <2>2, <2>3, <2>4, HolderFrame
<1>6. CASE RemoveFork(p)
  <2> DEFINE q == loc[p].q
  <2>1. q \in Held(pc[p], loc[p])
    BY <1>6 DEF RemoveFork, Held
  <2>2. \A x \in Qs \ {q} : bucks'[x] = bucks[x] /\ must'[x] = must[x] /\ forks'[x] = forks[x]
    BY <1>0, <1>6 DEF RemoveFork, Types
  <2>3. Others(p) /\ pc'[p] = "idle" /\ pc[p] = "remove"
    BY <1>6, LocIs DEF QI, RemoveFork, Others, Goto, Return
  <2>5. \A x \in Qs : raced[x] \subseteq raced'[x]
    <3>1. PICK V : /\ raced' = [raced EXCEPT ![q] = V] /\ V \in {raced[q], raced[q] \cup {loc[p].c}}
      BY <1>6, RacedMore
    <3>2. raced[q] \subseteq V
      BY <3>1
    <3> QED BY <1>0, <3>1, <3>2 DEF Types
  <2>4. \A x \in Qs : mu'[x] \in {mu[x], Free}
    BY <1>6 DEF RemoveFork, Unlock
  <2> QED BY <2>1, <2>2, <2>3, <2>4, <2>5, HolderFrame
<1> QED BY <1>1, <1>2, <1>3, <1>4, <1>5, <1>6

LEMMA ForkFrame ==
  ASSUME QI, NEW p \in Procs, CallFork(p) \/ ForkBucket(p) \/ ForkEnd(p)
  PROVE  Frame(p)
<1>0. Types /\ Held(pc[p], loc[p]) = {}
  BY DEF QI, QueueInv, CallFork, ForkBucket, ForkEnd, Held
<1>1. CASE CallFork(p)
  <2>1. Others(p) /\ pc'[p] = "fork" /\ UNCHANGED <<mu, bucks, forks, must>>
    BY <1>1, LocIs DEF QI, CallFork, Goto, Others
  <2>2. PICK q \in Qs, f \in Forks :
          /\ loc' = [loc EXCEPT ![p] = [NoLoc EXCEPT !.q = q, !.c = f, !.todo = InTree(q)]]
          /\ raced' = IF mu[q] = Free /\ Forking(q) = {} THEN raced
                      ELSE [RacedBy(q) EXCEPT ![q] = @ \cup {f}]
    BY <1>1 DEF CallFork, ForkQs
  <2>3. loc'[p].q = q
    BY <2>2, LocIs DEF QI, NoLoc
  <2>4. \A x \in Qs \ {q} : raced'[x] = raced[x]
    BY <1>0, <2>2 DEF Types, RacedBy
  <2>5. raced[q] \subseteq raced'[q] /\ {loc[r].c : r \in Forking(q)} \subseteq raced'[q]
    BY <1>0, <2>2 DEF Types, RacedBy
  <2> QED BY <2>1, <2>3, <2>4, <2>5 DEF Frame
<1>2. CASE ForkBucket(p)
  <2> DEFINE q == loc[p].q
             k == Lowest(loc[p].todo)
  <2>1. /\ Others(p) /\ pc[p] = "fork" /\ pc'[p] = "fork" /\ UNCHANGED <<mu, forks, must, raced>>
        /\ loc'[p].q = q
    BY <1>2, LocIs DEF QI, ForkBucket, Others, Fields
  <2>2. q \in Qs /\ bucks' = [bucks EXCEPT ![q][k] = Forked(bucks[q][k], loc[p].c)]
    BY <1>2 DEF ForkBucket, QI, LockInv, Control
  <2>3. \A x \in Qs \ {q} : bucks'[x] = bucks[x]
    BY <1>0, <2>2 DEF Types
  <2>4. \A j \in Buckets : bucks'[q][j].st = bucks[q][j].st
    <3>1. \A j \in Buckets : bucks[q][j] \in QBucket
      BY <1>0, <2>2 DEF Types
    <3>2. \A b \in QBucket : Forked(b, loc[p].c).st = b.st
      BY DEF Forked, QBucket
    <3>3. \A j \in Buckets : bucks'[q][j] \in {bucks[q][j], Forked(bucks[q][j], loc[p].c)}
      BY <1>0, <2>2 DEF Types
    <3> QED BY <3>1, <3>2, <3>3
  <2> QED BY <2>1, <2>3, <2>4 DEF Frame
<1>3. CASE ForkEnd(p)
  <2> DEFINE q == loc[p].q
  <2>1. Others(p) /\ pc[p] = "fork" /\ pc'[p] = "idle" /\ UNCHANGED <<mu, bucks, raced>>
    BY <1>3, LocIs DEF QI, ForkEnd, Others, Return, Goto
  <2>2. \A x \in Qs \ {q} : must'[x] = must[x] /\ forks'[x] = forks[x]
    BY <1>0, <1>3 DEF ForkEnd, Types
  <2> QED BY <2>1, <2>2 DEF Frame
<1> QED BY <1>1, <1>2, <1>3

-----------------------------------------------------------------------------
(* What others know and have stays.                                        *)

\* What another goroutine knows is about a queue that it has locked.
LEMMA OthersKnow ==
  ASSUME QI, NEW p \in Procs, Frame(p), NEW r \in Procs \ {p}
  PROVE  Knows(r)'
<1>1. pc'[r] = pc[r] /\ loc'[r] = loc[r] /\ Knows(r)
  BY DEF Frame, Others, QI, QueueInv
<1>0. PICK q : q = loc[r].q
  OBVIOUS
<1>2. CASE q \in Held(pc[r], loc[r])
  <2>1. q \in Qs
    BY <1>0, <1>2 DEF QI, LockInv, Control, Held
  <2>2. mu[q] = r /\ q \notin Held(pc[p], loc[p])
    BY <1>2, <2>1 DEF QI, LockInv
  <2>3. \A k \in Buckets : bucks'[q][k].st = bucks[q][k].st
    BY <2>1, <2>2 DEF Frame
  <2>4. InTree(q)' = InTree(q)
    BY <2>3 DEF InTree
  <2>5. Reading(r)' = Reading(r)
    BY <1>1 DEF Reading
  <2> QED BY <1>0, <1>1, <2>3, <2>4, <2>5 DEF Knows
<1>3. CASE q \notin Held(pc[r], loc[r])
  <2>1. pc[r] \notin {"lock2", "shovel", "callback", "push"} /\ ~Reading(r) /\ ~Reading(r)'
    BY <1>0, <1>1, <1>3 DEF Held, Reading
  <2> QED BY <1>1, <2>1 DEF Knows
<1> QED BY <1>2, <1>3

\* A Fork that nobody interferes with is alone with its queue.
LEMMA OthersFork ==
  ASSUME QI, NEW p \in Procs, Frame(p), LockInv', NEW r \in Procs \ {p}
  PROVE  GoodFork(r)'
<1>0. PICK q, f : q = loc[r].q /\ f = loc[r].c
  OBVIOUS
<1>1. pc'[r] = pc[r] /\ loc'[r] = loc[r] /\ GoodFork(r)
  BY DEF Frame, Others, QI, QueueInv
<1> SUFFICES ASSUME pc[r] = "fork", f \notin raced'[q]
             PROVE  /\ mu'[q] = Free /\ Forking(q)' = {r}
                    /\ f \notin forks'[q]
                    /\ \A k \in InTree(q)' : IF k \in loc[r].todo THEN f \notin bucks'[q][k].files
                                             ELSE ForkedIn(bucks'[q][k], f)
  BY <1>0, <1>1 DEF GoodFork
<1>2. q \in Qs
  BY <1>0 DEF QI, LockInv, Control
<1>3. f \notin raced[q]
  BY <1>2 DEF Frame
<1>4. /\ mu[q] = Free /\ Forking(q) = {r}
      /\ f \notin forks[q]
      /\ \A k \in InTree(q) : IF k \in loc[r].todo THEN f \notin bucks[q][k].files
                              ELSE ForkedIn(bucks[q][k], f)
  BY <1>0, <1>1, <1>3 DEF GoodFork
<1>5. f \in {loc[s].c : s \in Forking(q)}
  BY <1>0, <1>4
<1>6. mu'[q] = Free
  BY <1>2, <1>4, <1>5 DEF Frame
<1>7. ~(pc[p] = "fork" /\ loc[p].q = q)
  BY <1>4 DEF Forking
<1>8. ~(pc'[p] = "fork" /\ loc'[p].q = q)
  BY <1>2, <1>5, <1>7 DEF Frame
<1>9. Forking(q)' = {r}
  <2>1. \A s \in Procs \ {p} : s \in Forking(q)' <=> s \in Forking(q)
    BY DEF Frame, Others, Forking
  <2>2. p \notin Forking(q)' /\ r \in Procs
    BY <1>8 DEF Forking
  <2>3. Forking(q)' \subseteq Procs
    BY DEF Forking
  <2> QED BY <1>4, <2>1, <2>2, <2>3
<1>10. q \notin Held(pc[p], loc[p])
  BY <1>2, <1>4, QueuesAssumption DEF QI, LockInv
<1>11. bucks'[q] = bucks[q] /\ forks'[q] = forks[q]
  BY <1>2, <1>7, <1>10 DEF Frame
<1>12. InTree(q)' = InTree(q)
  BY <1>11 DEF InTree
<1> QED BY <1>4, <1>6, <1>9, <1>11, <1>12

\* A bucket stays good for fewer consumers.
LEMMA GoodMono ==
  ASSUME NEW b, NEW k, NEW S, NEW T, NEW N, NEW M, NEW m, NEW gone,
         GoodBucket(b, k, S, N, m, gone), T \subseteq S, N \subseteq M
  PROVE  GoodBucket(b, k, T, M, m, gone)
  BY DEF GoodBucket

\* A queue stays good that a step leaves alone.
LEMMA QueueKept ==
  ASSUME NEW q \in Qs, GoodQueue(q),
         bucks'[q] = bucks[q], must'[q] = must[q],
         Sure(q)' \subseteq Sure(q), Names(q) \subseteq Names(q)', Gone(q)' = Gone(q)
  PROVE  GoodQueue(q)'
<1> SUFFICES ASSUME NEW k \in Buckets
             PROVE  GoodBucket(bucks[q][k], k, Sure(q)', Names(q)', must[q], k \in Gone(q))
  BY DEF GoodQueue
<1>1. GoodBucket(bucks[q][k], k, Sure(q), Names(q), must[q], k \in Gone(q))
  BY DEF GoodQueue
<1> QED BY <1>1, GoodMono

\* The buckets moved by a Shovel, if p begins or goes on with none.
LEMMA GoneKept ==
  ASSUME NEW p \in Procs, Others(p), NEW q,
         ~(pc[p] = "shovel" /\ loc[p].q = q), ~(pc'[p] = "shovel" /\ loc'[p].q = q)
  PROVE  Gone(q)' = Gone(q)
  BY DEF Gone, Others

\* Consumers, if p is not about to make a fork.
LEMMA NamesKept ==
  ASSUME NEW p \in Procs, Others(p), NEW q,
         ~(pc[p] = "fork" /\ loc[p].q = q), forks'[q] = forks[q], raced[q] \subseteq raced'[q]
  PROVE  Names(q) \subseteq Names(q)' /\ Sure(q)' \subseteq Sure(q)
<1>1. \A r \in Forking(q) : r \in Forking(q)' /\ loc'[r].c = loc[r].c
  BY DEF Forking, Others
<1> QED BY <1>1 DEF Names, Sure, Live

\* A queue of which p neither holds the mutex nor makes a fork.
LEMMA OtherQueues ==
  ASSUME QI, NEW p \in Procs, Frame(p), NEW q \in Qs \ Held(pc[p], loc[p]),
         ~(pc[p] = "fork" /\ loc[p].q = q)
  PROVE  GoodQueue(q)'
<1>1. bucks'[q] = bucks[q] /\ must'[q] = must[q] /\ forks'[q] = forks[q] /\ raced[q] \subseteq raced'[q]
  BY DEF Frame
<1>2. ~(pc[p] = "shovel" /\ loc[p].q = q) /\ ~(pc'[p] = "shovel" /\ loc'[p].q = q)
  BY DEF Frame, Held
<1>3. Gone(q)' = Gone(q)
  BY <1>2, GoneKept DEF Frame
<1>4. Names(q) \subseteq Names(q)' /\ Sure(q)' \subseteq Sure(q)
  BY <1>1, NamesKept DEF Frame
<1> QED BY <1>1, <1>3, <1>4, QueueKept DEF QI, QueueInv

-----------------------------------------------------------------------------
(* What the operations make of a bucket.                                   *)

\* The queue itself is a consumer whose index no race can harm.
LEMMA MainSure ==
  ASSUME Types, NEW q \in Qs
  PROVE  /\ Main \in Sure(q) /\ Sure(q) \subseteq Live(q) /\ Live(q) \subseteq Names(q)
         /\ Live(q) \subseteq Consumers
  BY QueuesAssumption DEF Types, Sure, Live, Names, Consumers

\* The index log of the queue itself is never missing.
LEMMA LoadedMain ==
  ASSUME NEW b, NEW k, NEW S, NEW N, NEW m, NEW gone, GoodBucket(b, k, S, N, m, gone)
  PROVE  Loaded(b, Main) = b.has[Main]
  BY DEF GoodBucket, Loaded

\* A bucket that is opened has what its consumers had.
LEMMA ForKeyGood ==
  ASSUME Types, NEW q \in Qs, NEW k \in Buckets, NEW S, NEW N, NEW m, NEW gone,
         GoodBucket(bucks[q][k], k, S, N, m, gone), Main \in S, S \subseteq Live(q), Live(q) \subseteq N
  PROVE  /\ ForKey(q, k) \in QBucket /\ ForKey(q, k).st = "open"
         /\ GoodBucket(ForKey(q, k), k, S, N, m, gone)
         /\ ForKey(q, k).has[Main] = bucks[q][k].has[Main]
<1>1. PICK b : b = bucks[q][k]
  OBVIOUS
<1>2. b \in QBucket /\ GoodBucket(b, k, S, N, m, gone)
  BY <1>1 DEF Types
<1>3. CASE b.st = "open"
  <2>1. ForKey(q, k) = b
    BY <1>1, <1>3 DEF ForKey
  <2> QED BY <1>1, <1>2, <1>3, <2>1
<1>4. CASE b.st # "open"
  <2>1. PICK has : has = [c \in Consumers |-> IF c \in Live(q) THEN Loaded(b, c) ELSE b.has[c]]
    OBVIOUS
  <2>2. PICK log : log = IF \A c \in Live(q) : has[c] = {} THEN {} ELSE b.log
    OBVIOUS
  <2>3. ForKey(q, k) = [st |-> "open", idx |-> Live(q), files |-> b.files \cup Live(q),
                        log |-> log, has |-> has]
    BY <1>1, <1>4, <2>1, <2>2 DEF ForKey
  <2>4. Live(q) \subseteq Consumers /\ Main \in Live(q) /\ Main \in Consumers
    BY MainSure DEF Consumers
  <2>5. \A c \in Consumers : Loaded(b, c) \in SUBSET Item
    BY <1>2 DEF Loaded, QBucket
  <2>6. has \in [Consumers -> SUBSET Item]
    BY <1>2, <2>1, <2>5 DEF QBucket
  <2>7. log \in SUBSET Item
    BY <1>2, <2>2 DEF QBucket
  <2>8. ForKey(q, k) \in QBucket
    BY <1>2, <2>3, <2>4, <2>6, <2>7 DEF QBucket
  <2>9. has[Main] = b.has[Main]
    BY <1>2, <2>1, <2>4, LoadedMain
  <2>10. has[Main] \subseteq log
    BY <1>2, <2>2, <2>4, <2>9 DEF GoodBucket
  <2>11. \A c \in Consumers \ (b.files \cup Live(q)) : has[c] = {}
    BY <1>2, <2>1 DEF GoodBucket
  <2>12. \A c \in S : has[c] = Loaded(b, c)
    BY <2>1, <2>4
  <2>13. GoodBucket(ForKey(q, k), k, S, N, m, gone)
    BY <1>2, <2>3, <2>9, <2>10, <2>11, <2>12 DEF GoodBucket, Loaded
  <2> QED BY <1>1, <2>3, <2>8, <2>9, <2>13
<1> QED BY <1>3, <1>4

\* What is pushed to a bucket goes to all consumers with an index.
Added(b, part) ==
    [b EXCEPT !.log = @ \cup part,
              !.has = [c \in Consumers |-> IF c \in b.idx THEN @[c] \cup part ELSE @[c]]]

\* Items for bucket k.
PartOf(part, k) == part \subseteq Item /\ \A x \in part : x.b = k

\* Consumers have to get part in addition, the queue itself all of it.
Gets(n, m, part, S) ==
    n[Main] = m[Main] \cup part /\ \A c \in S : n[c] \subseteq m[c] \cup part

LEMMA AddGood ==
  ASSUME NEW b \in QBucket, b.st = "open", NEW k, NEW S, NEW N, NEW m, NEW n, NEW new,
         GoodBucket(b, k, S, N, m, FALSE), Main \in S, S \subseteq Consumers,
         NEW part, PartOf(part, k), new = Added(b, part), Gets(n, m, part, S)
  PROVE  new \in QBucket /\ new.st = "open" /\ GoodBucket(new, k, S, N, n, FALSE)
<1>0. part \subseteq Item /\ \A x \in part : x.b = k
  BY DEF PartOf
<1>1. PICK has : has = [c \in Consumers |-> IF c \in b.idx THEN b.has[c] \cup part ELSE b.has[c]]
  OBVIOUS
<1>2. has \in [Consumers -> SUBSET Item]
  BY <1>0, <1>1 DEF QBucket
<1>3. /\ new.st = "open" /\ new.files = b.files /\ new.idx = b.idx
      /\ new.log = b.log \cup part /\ new.has = has
  BY <1>1 DEF QBucket, Added
<1>4. new \in QBucket
  BY <1>0, <1>2, <1>3 DEF QBucket, Added
<1>5. S \subseteq b.idx /\ b.idx \subseteq b.files /\ Main \in Consumers
  BY DEF GoodBucket, Consumers
<1>6. \A c \in S : has[c] = b.has[c] \cup part
  BY <1>1, <1>5
<1>7. \A c \in Consumers \ b.files : has[c] = {}
  BY <1>1, <1>5 DEF GoodBucket
<1>8. {x \in n[Main] : x.b = k} = has[Main]
  <2>1. {x \in n[Main] : x.b = k} = {x \in m[Main] : x.b = k} \cup part
    BY <1>0 DEF Gets
  <2> QED BY <2>1, <1>6 DEF GoodBucket
<1>9. \A c \in S \ {Main} : {x \in n[c] : x.b = k} \subseteq has[c]
  BY <1>6 DEF GoodBucket, Loaded, Gets
<1> QED BY <1>3, <1>4, <1>5, <1>6, <1>7, <1>8, <1>9 DEF GoodBucket, Loaded

\* Items of another bucket make no difference.
LEMMA OtherKey ==
  ASSUME NEW b, NEW k, NEW S, NEW N, NEW m, NEW n, NEW gone, GoodBucket(b, k, S, N, m, gone),
         {x \in n[Main] : x.b = k} = {x \in m[Main] : x.b = k},
         \A c \in S \ {Main} : {x \in n[c] : x.b = k} \subseteq {x \in m[c] : x.b = k}
  PROVE  GoodBucket(b, k, S, N, n, gone)
  BY DEF GoodBucket

\* What a consumer popped, it has no longer to get, nor has the bucket it.
Popped(n, m, c, popped) == n[c] = m[c] \ popped /\ \A e \in Consumers \ {c} : n[e] = m[e]
LeftOf(b, c, popped) == [b EXCEPT !.has[c] = @ \ popped]

LEMMA PopGood ==
  ASSUME NEW b \in QBucket, b.st = "open", NEW k, NEW S, NEW N, NEW m, NEW n, NEW new,
         GoodBucket(b, k, S, N, m, FALSE), Main \in S, S \subseteq Consumers,
         NEW c \in Consumers, NEW popped, new = LeftOf(b, c, popped), Popped(n, m, c, popped)
  PROVE  new \in QBucket /\ new.st = "open" /\ GoodBucket(new, k, S, N, n, FALSE)
<1>1. PICK has : has = [b.has EXCEPT ![c] = @ \ popped]
  OBVIOUS
<1>2. has \in [Consumers -> SUBSET Item]
  BY <1>1 DEF QBucket
<1>3. /\ new.st = "open" /\ new.files = b.files /\ new.idx = b.idx
      /\ new.log = b.log /\ new.has = has
  BY <1>1 DEF QBucket, LeftOf
<1>4. new \in QBucket
  BY <1>2, <1>3 DEF QBucket, LeftOf
<1>5. Main \in Consumers
  BY DEF Consumers
<1>6. \A e \in Consumers : has[e] = IF e = c THEN b.has[e] \ popped ELSE b.has[e]
  BY <1>1 DEF QBucket
<1>7. \A e \in Consumers : n[e] = IF e = c THEN m[e] \ popped ELSE m[e]
  BY DEF Popped
<1>8. {x \in n[Main] : x.b = k} = has[Main]
  <2>1. {x \in m[Main] : x.b = k} = b.has[Main]
    BY DEF GoodBucket
  <2> QED BY <1>5, <1>6, <1>7, <2>1
<1>9. \A e \in S \ {Main} : {x \in n[e] : x.b = k} \subseteq has[e]
  <2>1. \A e \in S \ {Main} : {x \in m[e] : x.b = k} \subseteq b.has[e]
    BY DEF GoodBucket, Loaded
  <2> QED BY <1>6, <1>7, <2>1
<1>10. (\A e \in Consumers \ b.files : has[e] = {}) /\ has[Main] \subseteq b.log
  BY <1>5, <1>6 DEF GoodBucket
<1> QED BY <1>3, <1>4, <1>8, <1>9, <1>10 DEF GoodBucket, Loaded

\* A bucket is removed only when nobody needs it.
LEMMA ReapGood ==
  ASSUME NEW b \in QBucket, b.st = "open", NEW k, NEW S, NEW N, NEW m,
         GoodBucket(b, k, S, N, m, FALSE), Main \in S, S \subseteq Consumers,
         \A i \in b.idx : b.has[i] = {}
  PROVE  NoBucket \in QBucket /\ GoodBucket(NoBucket, k, S, N, m, FALSE)
<1>1. NoBucket \in QBucket
  BY DEF NoBucket, QBucket
<1>2. \A c \in S : b.has[c] = {}
  BY DEF GoodBucket
<1>3. {x \in m[Main] : x.b = k} = {} /\ \A c \in S \ {Main} : {x \in m[c] : x.b = k} = {}
  BY <1>2 DEF GoodBucket, Loaded
<1>4. Main \in Consumers
  BY DEF Consumers
<1> QED BY <1>1, <1>3, <1>4 DEF GoodBucket, Loaded, NoBucket

\* A bucket that a fork was removed from.
LessBy(S, T, N, M, f) == S \subseteq Consumers /\ T \subseteq S \ {f} /\ N \ {f} \subseteq M
SameBut(n, m, f) == \A c \in Consumers \ {f} : n[c] = m[c]

LEMMA RemoveGood ==
  ASSUME NEW b \in QBucket, NEW k, NEW S, NEW N, NEW T, NEW M, NEW m, NEW n, NEW new, NEW f \in Forks,
         GoodBucket(b, k, S, N, m, FALSE), LessBy(S, T, N, M, f),
         new = Without(b, f), SameBut(n, m, f)
  PROVE  new \in QBucket /\ new.st = b.st /\ GoodBucket(new, k, T, M, n, FALSE)
<1>0. S \subseteq Consumers /\ T \subseteq S \ {f} /\ N \ {f} \subseteq M
  BY DEF LessBy
<1>1. PICK has : has = [b.has EXCEPT ![f] = {}]
  OBVIOUS
<1>2. has \in [Consumers -> SUBSET Item]
  BY <1>1 DEF QBucket
<1>3. /\ new.st = b.st /\ new.files = b.files \ {f} /\ new.idx = b.idx \ {f}
      /\ new.log = b.log /\ new.has = has
  BY <1>1 DEF QBucket, Without
<1>4. new \in QBucket
  BY <1>2, <1>3 DEF QBucket, Without
<1>5. Main \in Consumers /\ Main # f /\ f \in Consumers
  BY QueuesAssumption DEF Consumers
<1>6. \A e \in Consumers : has[e] = IF e = f THEN {} ELSE b.has[e]
  BY <1>1 DEF QBucket
<1>7. new.st = "absent" => new = NoBucket
  <2>1. SUFFICES ASSUME b.st = "absent" PROVE new = NoBucket
    BY <1>3
  <2>2. b = NoBucket
    BY <2>1 DEF GoodBucket
  <2>3. has = [c \in Consumers |-> {}]
    BY <1>1, <2>2 DEF NoBucket
  <2> QED BY <1>3, <1>4, <2>2, <2>3 DEF NoBucket, QBucket, Without
<1>8. {x \in n[Main] : x.b = k} = has[Main]
  BY <1>5, <1>6 DEF GoodBucket, SameBut
<1>9. ASSUME NEW c \in T \ {Main} PROVE {x \in n[c] : x.b = k} \subseteq Loaded(new, c)
  <2>1. c \in Consumers \ {f} /\ c \in S \ {Main}
    BY <1>0
  <2>2. Loaded(new, c) = Loaded(b, c)
    BY <1>3, <1>6, <2>1 DEF Loaded
  <2>3. {x \in m[c] : x.b = k} \subseteq Loaded(b, c)
    BY <2>1 DEF GoodBucket
  <2> QED BY <2>1, <2>2, <2>3 DEF SameBut
<1>10. (\A e \in Consumers \ new.files : has[e] = {}) /\ has[Main] \subseteq b.log
  BY <1>3, <1>5, <1>6 DEF GoodBucket
<1>11. /\ new.st # "absent" => Main \in new.files
       /\ new.st = "nil" => new.idx = {}
       /\ new.st = "open" => T \subseteq new.idx
       /\ new.idx \subseteq new.files /\ new.files \subseteq M
  BY <1>0, <1>3, <1>5 DEF GoodBucket
<1> QED BY <1>3, <1>4, <1>7, <1>8, <1>9, <1>10, <1>11 DEF GoodBucket

\* A bucket that a fork was not removed from, as RemoveFork failed before.
LEMMA KeptGood ==
  ASSUME NEW b \in QBucket, NEW k, NEW S, NEW N, NEW T, NEW M, NEW m, NEW n, NEW f \in Forks,
         GoodBucket(b, k, S, N, m, FALSE), LessBy(S, T, N, M, f), SameBut(n, m, f),
         f \in b.files => f \in M
  PROVE  GoodBucket(b, k, T, M, n, FALSE)
<1>1. T \subseteq S \ {f} /\ T \subseteq Consumers /\ b.files \subseteq M
  BY DEF LessBy, GoodBucket
<1>2. Main \in Consumers /\ Main # f
  BY QueuesAssumption DEF Consumers
<1>3. n[Main] = m[Main] /\ \A c \in T : n[c] = m[c]
  BY <1>1, <1>2 DEF SameBut
<1> QED BY <1>1, <1>3 DEF GoodBucket

\* A bucket that a fork was made of.
LEMMA ForkedGood ==
  ASSUME NEW b \in QBucket, NEW k, NEW S, NEW N, NEW m, NEW gone, NEW f \in Forks,
         GoodBucket(b, k, S, N, m, gone), f \notin S, f \in N
  PROVE  Forked(b, f) \in QBucket /\ GoodBucket(Forked(b, f), k, S, N, m, gone)
<1>1. CASE Forked(b, f) = b
  BY <1>1
<1>2. CASE Forked(b, f) # b
  <2>1. PICK new : new = [b EXCEPT !.files = @ \cup {f}, !.has[f] = b.has[Main],
                                   !.idx = IF b.st = "open" THEN @ \cup {f} ELSE @]
    OBVIOUS
  <2>2. Forked(b, f) = new /\ b.st # "absent"
    BY <1>2, <2>1 DEF Forked
  <2>3. PICK has : has = [b.has EXCEPT ![f] = b.has[Main]]
    OBVIOUS
  <2>4. Main \in Consumers /\ Main # f /\ f \in Consumers
    BY QueuesAssumption DEF Consumers
  <2>5. has \in [Consumers -> SUBSET Item]
    BY <2>3, <2>4 DEF QBucket
  <2>6. /\ new.st = b.st /\ new.files = b.files \cup {f}
        /\ new.idx = (IF b.st = "open" THEN b.idx \cup {f} ELSE b.idx)
        /\ new.log = b.log /\ new.has = has
    BY <2>1, <2>3 DEF QBucket
  <2>7. new \in QBucket
    BY <2>1, <2>4, <2>5, <2>6 DEF QBucket
  <2>8. \A e \in Consumers : has[e] = IF e = f THEN b.has[Main] ELSE b.has[e]
    BY <2>3 DEF QBucket
  <2>9. \A c \in S \ {Main} : {x \in m[c] : x.b = k} \subseteq Loaded(new, c)
    <3> SUFFICES ASSUME NEW c \in S \ {Main} PROVE Loaded(new, c) = Loaded(b, c)
      BY DEF GoodBucket
    <3>1. has[c] = b.has[c]
      BY <2>3
    <3> QED BY <2>6, <3>1 DEF Loaded
  <2>10. (\A e \in Consumers \ new.files : has[e] = {}) /\ has[Main] = b.has[Main]
    BY <2>4, <2>6, <2>8 DEF GoodBucket
  <2>11. /\ Main \in new.files
         /\ new.st = "nil" => new.idx = {}
         /\ new.st = "open" => S \subseteq new.idx
         /\ new.idx \subseteq new.files /\ new.files \subseteq N
    BY <2>2, <2>6 DEF GoodBucket
  <2>12. GoodBucket(new, k, S, N, m, gone)
    BY <2>2, <2>6, <2>9, <2>10, <2>11 DEF GoodBucket
  <2> QED BY <2>2, <2>7, <2>12
<1> QED BY <1>1, <1>2

\* A bucket that was moved, or pushed what another queue had in it.
LEMMA ShovelGood ==
  ASSUME Types, NEW d \in Qs, NEW k \in Buckets, NEW b \in QBucket, b.st # "absent",
         NEW N, NEW m, NEW Q, NEW R, GoodBucket(b, k, Q, R, m, FALSE), b.files = {Main},
         GoodBucket(bucks[d][k], k, Sure(d), N, must[d], FALSE), Live(d) \subseteq N, NEW n,
         NEW part, part = {x \in m[Main] : x.b = k}, Gets(n, must[d], part, Sure(d))
  PROVE  /\ ShovelInto(b, d, k) \in QBucket
         /\ GoodBucket(ShovelInto(b, d, k), k, Sure(d), N, n, FALSE)
<1>2. part = b.has[Main] /\ Main \in Consumers
  BY DEF GoodBucket, Consumers
<1>3. /\ Main \in Sure(d) /\ Sure(d) \subseteq Live(d) /\ Live(d) \subseteq Consumers
  BY MainSure
<1>4. CASE bucks[d][k].st = "absent"
  <2>1. PICK new : new = [b EXCEPT !.st = "nil", !.idx = {}]
    OBVIOUS
  <2>2. ShovelInto(b, d, k) = new
    BY <1>4, <2>1 DEF ShovelInto
  <2>3. /\ new.st = "nil" /\ new.idx = {} /\ new.files = {Main} /\ new.log = b.log
        /\ new.has = b.has
    BY <2>1 DEF QBucket
  <2>4. new \in QBucket
    BY <2>1, <2>3 DEF QBucket
  <2>5. bucks[d][k] = NoBucket
    BY <1>4 DEF GoodBucket
  <2>6. /\ {x \in must[d][Main] : x.b = k} = {}
        /\ \A c \in Sure(d) \ {Main} : {x \in must[d][c] : x.b = k} = {}
    BY <1>2, <1>3, <2>5 DEF GoodBucket, NoBucket, Loaded
  <2>7. {x \in n[Main] : x.b = k} = b.has[Main]
    BY <1>2, <2>6 DEF Gets
  <2>8. \A c \in Sure(d) \ {Main} : {x \in n[c] : x.b = k} \subseteq b.log
    BY <1>2, <2>6 DEF GoodBucket, Gets
  <2>9. \A c \in Sure(d) \ {Main} : Loaded(new, c) = b.log
    BY <2>3 DEF Loaded
  <2>10. (\A c \in Consumers \ new.files : new.has[c] = {}) /\ new.has[Main] \subseteq new.log
    BY <2>3 DEF GoodBucket
  <2>11. GoodBucket(new, k, Sure(d), N, n, FALSE)
    BY <1>3, <2>3, <2>7, <2>8, <2>9, <2>10 DEF GoodBucket
  <2> QED BY <2>2, <2>4, <2>11
<1>5. CASE bucks[d][k].st # "absent"
  <2>1. PICK to : to = ForKey(d, k)
    OBVIOUS
  <2>2. to \in QBucket /\ to.st = "open" /\ GoodBucket(to, k, Sure(d), N, must[d], FALSE)
    BY <1>3, <2>1, ForKeyGood
  <2>3. Loaded(b, Main) = part
    BY <1>2, LoadedMain
  <2>0. PICK new : new = ShovelInto(b, d, k)
    OBVIOUS
  <2>4. new = Added(to, part)
    BY <1>5, <2>0, <2>1, <2>3 DEF ShovelInto, Added
  <2>5. PartOf(part, k)
    BY <1>2 DEF QBucket, PartOf
  <2>7. Sure(d) \subseteq Consumers
    BY <1>3
  <2>8. new \in QBucket /\ GoodBucket(new, k, Sure(d), N, n, FALSE)
    BY <1>3, <2>2, <2>4, <2>5, <2>7, AddGood
  <2> QED BY <2>0, <2>8
<1> QED BY <1>4, <1>5

-----------------------------------------------------------------------------
(* Every step leaves the queues good.                                      *)

\* Nobody moves a queue that another one has locked.
LEMMA NotGone ==
  ASSUME QI, NEW p \in Procs, NEW q \in Qs, q \in Held(pc[p], loc[p]),
         ~(pc[p] = "shovel" /\ loc[p].q = q)
  PROVE  Gone(q) = {}
<1> SUFFICES ASSUME NEW r \in Procs, pc[r] = "shovel", loc[r].q = q PROVE FALSE
  BY DEF Gone
<1>1. q \in Held(pc[r], loc[r])
  BY DEF Held
<1>2. mu[q] = p /\ mu[q] = r
  BY <1>1 DEF QI, LockInv
<1> QED BY <1>2

\* A queue that p leaves alone, whether it has locked it or not.
LEMMA QuietQueue ==
  ASSUME QI, NEW p \in Procs, Others(p), NEW q \in Qs,
         bucks'[q] = bucks[q], must'[q] = must[q], forks'[q] = forks[q], raced[q] \subseteq raced'[q],
         ~(pc[p] = "fork" /\ loc[p].q = q),
         ~(pc[p] = "shovel" /\ loc[p].q = q), ~(pc'[p] = "shovel" /\ loc'[p].q = q)
  PROVE  GoodQueue(q)'
<1>1. Gone(q)' = Gone(q)
  BY GoneKept
<1>2. Names(q) \subseteq Names(q)' /\ Sure(q)' \subseteq Sure(q)
  BY NamesKept
<1> QED BY <1>1, <1>2, QueueKept DEF QI, QueueInv

\* A queue of which p changes the buckets.
LEMMA ChangedQueue ==
  ASSUME NEW q \in Qs, NEW G, Gone(q)' = G, Sure(q)' \subseteq Sure(q), Names(q) \subseteq Names(q)',
         \A k \in Buckets :
            GoodBucket(bucks'[q][k], k, Sure(q), Names(q), must'[q], k \in G)
  PROVE  GoodQueue(q)'
<1> SUFFICES ASSUME NEW k \in Buckets
             PROVE  GoodBucket(bucks'[q][k], k, Sure(q)', Names(q)', must'[q], k \in G)
  BY DEF GoodQueue
<1>1. GoodBucket(bucks'[q][k], k, Sure(q), Names(q), must'[q], k \in G)
  OBVIOUS
<1> QED BY <1>1, GoodMono

LEMMA QuietGood ==
  ASSUME QI, NEW p \in Procs,
         \/ CallPush(p) \/ CallRead(p) \/ CallShovel(p) \/ CallRemoveFork(p) \/ CallbackPush(p)
         \/ PushEnd(p) \/ ReadEnd(p),
         NEW q \in Qs
  PROVE  GoodQueue(q)'
<1>1. /\ Frame(p) /\ UNCHANGED <<bucks, must, forks, raced>>
      /\ pc'[p] \notin {"shovel", "fork"} /\ pc[p] \notin {"shovel", "fork"}
  BY QuietFrame
<1> QED BY <1>1, QuietQueue DEF Frame

LEMMA LockGood ==
  ASSUME QI, NEW p \in Procs, Lock(p) \/ Lock2(p), NEW q \in Qs
  PROVE  GoodQueue(q)'
<1>1. Frame(p) /\ UNCHANGED <<bucks, must, forks>>
  BY LockFrame
<1>2. pc[p] \notin {"fork", "shovel"} /\ raced[q] \subseteq raced'[q] /\ Others(p)
  BY <1>1 DEF Lock, Lock2, Frame
<1>3. CASE ~(pc'[p] = "shovel" /\ loc'[p].q = q)
  BY <1>1, <1>2, <1>3, QuietQueue
\* A Shovel that begins finds the other buckets empty.
<1>4. CASE pc'[p] = "shovel" /\ loc'[p].q = q
  <2>1. pc[p] = "lock2" /\ loc[p].op = "shovel" /\ loc' = loc
    BY <1>4, LocIs DEF QI, Lock, Lock2, Locked, Goto, LockInv, Control
  <2>2. loc[p].todo = InTree(q)
    BY <1>4, <2>1 DEF QI, QueueInv, Knows
  <2>3. Names(q) \subseteq Names(q)' /\ Sure(q)' \subseteq Sure(q)
    BY <1>1, <1>2, NamesKept
  <2>4. PICK G : G = Gone(q)'
    OBVIOUS
  <2>5. ASSUME NEW k \in Buckets
        PROVE  GoodBucket(bucks[q][k], k, Sure(q), Names(q), must[q], k \in G)
    <3>1. GoodBucket(bucks[q][k], k, Sure(q), Names(q), must[q], k \in Gone(q))
      BY DEF QI, QueueInv, GoodQueue
    <3>2. k \in Gone(q) => k \in G
      BY <1>2, <2>4 DEF Gone, Others
    <3>3. k \in G => k \in Gone(q) \/ k \notin loc[p].todo
      BY <1>2, <2>1, <2>4 DEF Gone, Others
    <3>4. CASE k \in InTree(q)
      <4>1. (k \in G) = (k \in Gone(q))
        BY <2>2, <3>2, <3>3, <3>4
      <4> QED BY <3>1, <4>1
    <3>5. CASE k \notin InTree(q)
      <4>1. bucks[q][k].st = "absent"
        BY <3>5 DEF InTree
      <4>2. bucks[q][k].has[Main] = {}
        BY <3>1, <4>1 DEF GoodBucket, NoBucket, Consumers
      <4> QED BY <3>1, <4>2 DEF GoodBucket
    <3> QED BY <3>4, <3>5
  <2> QED BY <1>1, <2>3, <2>4, <2>5, ChangedQueue
<1> QED BY <1>3, <1>4

\* Push.
LEMMA PushGood ==
  ASSUME QI, NEW p \in Procs, PushBucket(p), NEW q \in Qs
  PROVE  /\ GoodQueue(q)'
         /\ \A k \in Buckets : bucks'[q][k] \in QBucket
<1>0. Types
  BY DEF QI, QueueInv
<1>1. PICK t, k, part, b :
        /\ t = Target(p) /\ k = Lowest({x.b : x \in loc[p].items})
        /\ part = {x \in loc[p].items : x.b = k} /\ b = ForKey(t, k)
  OBVIOUS
<1>2. /\ Frame(p) /\ pc[p] = "push" /\ UNCHANGED <<forks, raced, pc>> /\ loc[p].items # {}
  BY BusyFrame DEF PushBucket
<1>3. t \in Qs /\ t \in Held(pc[p], loc[p])
  <2>1. loc[p].q \in Qs /\ (loc[p].op # "push" => <<loc[p].q, loc[p].d>> \in Nested)
    BY <1>2 DEF QI, LockInv, Control
  <2>2. loc[p].op # "push" => loc[p].d \in Qs
    BY <2>1, NestedApart
  <2> QED BY <1>1, <1>2, <2>1, <2>2 DEF Target, Held
<1>4. loc[p].items \subseteq Item
  BY DEF QI, QueueInv, Knows
<1>5. k \in Buckets /\ part \subseteq Item /\ \A x \in part : x.b = k
  <2>1. {x.b : x \in loc[p].items} \subseteq Buckets /\ {x.b : x \in loc[p].items} # {}
    BY <1>2, <1>4 DEF Item
  <2>2. k \in {x.b : x \in loc[p].items}
    BY <1>1, <2>1, LowestIn
  <2> QED BY <1>1, <1>4, <2>1, <2>2
<1>6. PICK new : new = Added(b, part)
  OBVIOUS
<1>7. PICK T : T = Live(t) \ raced[t]
  OBVIOUS
<1>8. /\ bucks' = [bucks EXCEPT ![t][k] = new]
      /\ must' = [must EXCEPT ![t] = [c \in Consumers |-> IF c \in T THEN @[c] \cup part ELSE @[c]]]
  BY <1>1, <1>6, <1>7 DEF PushBucket, Added
<1>9. /\ Main \in Sure(t) /\ Sure(t) \subseteq Live(t) /\ Live(t) \subseteq Names(t)
      /\ Live(t) \subseteq Consumers
  BY <1>0, <1>3, MainSure
<1>10. Main \in T /\ Main \in Consumers /\ Sure(t) \subseteq Consumers
  BY <1>7, <1>9 DEF Sure
<1>11. Gone(t) = {}
  BY <1>2, <1>3, NotGone
<1>12. ASSUME NEW j \in Buckets
       PROVE  GoodBucket(bucks[t][j], j, Sure(t), Names(t), must[t], FALSE)
  <2>1. GoodBucket(bucks[t][j], j, Sure(t), Names(t), must[t], j \in Gone(t)) /\ (j \in Gone(t)) = FALSE
    BY <1>3, <1>11 DEF QI, QueueInv, GoodQueue
  <2> QED BY <2>1
<1>13. b \in QBucket /\ b.st = "open" /\ GoodBucket(b, k, Sure(t), Names(t), must[t], FALSE)
  BY <1>0, <1>1, <1>3, <1>5, <1>9, <1>12, ForKeyGood
<1>14. \A c \in Consumers : must'[t][c] = IF c \in T THEN must[t][c] \cup part ELSE must[t][c]
  BY <1>0, <1>3, <1>8 DEF Types
<1>15. /\ must'[t][Main] = must[t][Main] \cup part
       /\ \A c \in Sure(t) : must'[t][c] \subseteq must[t][c] \cup part
  BY <1>10, <1>14
<1>15a. Gets(must'[t], must[t], part, Sure(t)) /\ PartOf(part, k)
  BY <1>5, <1>15 DEF Gets, PartOf
<1>16. new \in QBucket /\ GoodBucket(new, k, Sure(t), Names(t), must'[t], FALSE)
  BY <1>15a, <1>5, <1>6, <1>9, <1>10, <1>13, AddGood
<1>17. bucks'[t][k] = new /\ \A j \in Buckets \ {k} : bucks'[t][j] = bucks[t][j]
  BY <1>0, <1>3, <1>5, <1>8 DEF Types
<1>18. ASSUME NEW j \in Buckets
       PROVE  GoodBucket(bucks'[t][j], j, Sure(t), Names(t), must'[t], FALSE)
  <2>1. CASE j = k
    BY <1>16, <1>17, <2>1
  <2>2. CASE j # k
    <3>1. {x \in must'[t][Main] : x.b = j} = {x \in must[t][Main] : x.b = j}
      BY <1>5, <1>15, <2>2
    <3>2. \A c \in Sure(t) \ {Main} : {x \in must'[t][c] : x.b = j} \subseteq {x \in must[t][c] : x.b = j}
      BY <1>5, <1>15, <2>2
    <3>3. GoodBucket(bucks[t][j], j, Sure(t), Names(t), must'[t], FALSE)
      BY <1>12, <3>1, <3>2, OtherKey
    <3> QED BY <1>17, <2>2, <3>3
  <2> QED BY <2>1, <2>2
<1>19. CASE q = t
  <2>1. Gone(t)' = {}
    BY <1>2, <1>11, GoneKept DEF Frame
  <2>2. Names(t) \subseteq Names(t)' /\ Sure(t)' \subseteq Sure(t)
    BY <1>2, NamesKept DEF Frame
  <2>3. \A j \in Buckets : GoodBucket(bucks'[t][j], j, Sure(t), Names(t), must'[t], j \in {})
    <3>1. \A j \in Buckets : (j \in {}) = FALSE
      OBVIOUS
    <3> QED BY <1>18, <3>1
  <2>4. GoodQueue(t)'
    BY <1>3, <2>1, <2>2, <2>3, ChangedQueue
  <2>5. \A j \in Buckets : bucks'[t][j] \in QBucket
    BY <1>0, <1>3, <1>16, <1>17 DEF Types
  <2> QED BY <1>19, <2>4, <2>5
<1>20. CASE q # t
  <2>1. bucks'[q] = bucks[q] /\ must'[q] = must[q]
    BY <1>0, <1>8, <1>20 DEF Types
  <2>2. GoodQueue(q)'
    BY <1>2, <2>1, QuietQueue DEF Frame
  <2> QED BY <1>0, <2>1, <2>2 DEF Types
<1> QED BY <1>19, <1>20

\* The buckets of a queue that is not being moved.
LEMMA GoodNow ==
  ASSUME QI, NEW q \in Qs, Gone(q) = {}, NEW k \in Buckets
  PROVE  bucks[q][k] \in QBucket /\ GoodBucket(bucks[q][k], k, Sure(q), Names(q), must[q], FALSE)
<1>1. GoodBucket(bucks[q][k], k, Sure(q), Names(q), must[q], k \in Gone(q)) /\ (k \in Gone(q)) = FALSE
  BY DEF QI, QueueInv, GoodQueue
<1>2. bucks[q][k] \in QBucket
  BY DEF QI, QueueInv, Types
<1> QED BY <1>1, <1>2

\* They stay good, if p does not move them.
LEMMA GoodThen ==
  ASSUME NEW q \in Qs, Gone(q)' = {}, Sure(q)' \subseteq Sure(q), Names(q) \subseteq Names(q)',
         \A k \in Buckets : GoodBucket(bucks'[q][k], k, Sure(q), Names(q), must'[q], FALSE)
  PROVE  GoodQueue(q)'
<1>1. \A k \in Buckets : (k \in {}) = FALSE
  OBVIOUS
<1>2. \A k \in Buckets : GoodBucket(bucks'[q][k], k, Sure(q), Names(q), must'[q], k \in {})
  BY <1>1
<1> QED BY <1>2, ChangedQueue

\* Read opens a bucket.
LEMMA ReadGood ==
  ASSUME QI, NEW p \in Procs, ReadBucket(p), NEW q \in Qs
  PROVE  /\ GoodQueue(q)'
         /\ \A k \in Buckets : bucks'[q][k] \in QBucket
<1>0. Types
  BY DEF QI, QueueInv
<1>1. PICK t, k : t = loc[p].q /\ k = Lowest(loc[p].todo)
  OBVIOUS
<1>2. /\ Frame(p) /\ pc[p] = "read" /\ UNCHANGED <<forks, must, raced>> /\ loc[p].todo # {}
      /\ bucks' = [bucks EXCEPT ![t][k] = ForKey(t, k)]
  BY <1>1, BusyFrame DEF ReadBucket
<1>3. pc'[p] \in {"callback", "idle"}
  BY LocIs DEF ReadBucket, Goto, Return, QI
<1>4. t \in Qs /\ t \in Held(pc[p], loc[p])
  BY <1>1, <1>2 DEF QI, LockInv, Control, Held
<1>5. k \in Buckets
  BY <1>1, <1>2, LowestIn DEF QI, QueueInv, Knows
<1>6. Gone(t) = {} /\ Gone(t)' = {}
  BY <1>2, <1>3, <1>4, NotGone, GoneKept DEF Frame
<1>7. Names(t) \subseteq Names(t)' /\ Sure(t)' \subseteq Sure(t)
  BY <1>2, NamesKept DEF Frame
<1>8. ForKey(t, k) \in QBucket /\ GoodBucket(ForKey(t, k), k, Sure(t), Names(t), must[t], FALSE)
  <2>1. GoodBucket(bucks[t][k], k, Sure(t), Names(t), must[t], FALSE)
    BY <1>4, <1>5, <1>6, GoodNow
  <2>2. Main \in Sure(t) /\ Sure(t) \subseteq Live(t) /\ Live(t) \subseteq Names(t)
    BY <1>0, <1>4, MainSure
  <2> QED BY <1>0, <1>4, <1>5, <2>1, <2>2, ForKeyGood
<1>9. bucks'[t][k] = ForKey(t, k) /\ \A j \in Buckets \ {k} : bucks'[t][j] = bucks[t][j]
  BY <1>0, <1>2, <1>4, <1>5 DEF Types
<1>10. \A j \in Buckets :
          /\ bucks'[t][j] \in QBucket
          /\ GoodBucket(bucks'[t][j], j, Sure(t), Names(t), must'[t], FALSE)
  <2> SUFFICES ASSUME NEW j \in Buckets
               PROVE  /\ bucks'[t][j] \in QBucket
                      /\ GoodBucket(bucks'[t][j], j, Sure(t), Names(t), must[t], FALSE)
    BY <1>2
  <2>1. bucks[t][j] \in QBucket /\ GoodBucket(bucks[t][j], j, Sure(t), Names(t), must[t], FALSE)
    BY <1>4, <1>6, GoodNow
  <2> QED BY <1>8, <1>9, <2>1
<1>11. CASE q = t
  BY <1>4, <1>6, <1>7, <1>10, <1>11, GoodThen
<1>12. CASE q # t
  <2>1. bucks'[q] = bucks[q]
    BY <1>0, <1>2, <1>12 DEF Types
  <2>2. GoodQueue(q)'
    BY <1>2, <1>3, <2>1, QuietQueue DEF Frame
  <2> QED BY <1>0, <2>1, <2>2 DEF Types
<1> QED BY <1>11, <1>12

\* The end of a callback.
LEMMA ReturnGood ==
  ASSUME QI, NEW p \in Procs, NEW popped, CallbackReturn(p, popped), popped \subseteq loc[p].out,
         Pop(p) \/ Peek(p), NEW q \in Qs
  PROVE  /\ GoodQueue(q)'
         /\ \A k \in Buckets : bucks'[q][k] \in QBucket
<1>0. Types
  BY DEF QI, QueueInv
<1>1. PICK t, c : t = loc[p].q /\ c = loc[p].c
  OBVIOUS
<1>2. /\ Frame(p) /\ pc[p] = "callback" /\ UNCHANGED <<forks, raced>>
      /\ must' = [must EXCEPT ![t][c] = @ \ popped]
  BY <1>1, BusyFrame DEF CallbackReturn
<1>3. pc'[p] = "read"
  BY LocIs DEF CallbackReturn, Goto, QI
<1>4. t \in Qs /\ t \in Held(pc[p], loc[p])
  BY <1>1, <1>2 DEF QI, LockInv, Control, Held
<1>5. /\ c \in Consumers /\ loc[p].at \subseteq Buckets
      /\ \A k \in loc[p].at : bucks[t][k].st = "open"
      /\ c = Main => \A x \in popped : x.b \in loc[p].at
  BY <1>1, <1>2 DEF QI, QueueInv, Knows, Reading
<1>6. Gone(t) = {} /\ Gone(t)' = {}
  BY <1>2, <1>3, <1>4, NotGone, GoneKept DEF Frame
<1>7. Names(t) \subseteq Names(t)' /\ Sure(t)' \subseteq Sure(t)
  BY <1>2, NamesKept DEF Frame
<1>8. Main \in Sure(t) /\ Sure(t) \subseteq Consumers
  BY <1>0, <1>4, MainSure
<1>9. must'[t][c] = must[t][c] \ popped /\ \A e \in Consumers \ {c} : must'[t][e] = must[t][e]
  BY <1>0, <1>2, <1>4, <1>5 DEF Types
<1> DEFINE Left(k) == [bucks[t][k] EXCEPT !.has[c] = @ \ popped]
<1>10. \A k \in Buckets : bucks'[t][k] = IF k \in loc[p].at THEN Reaped(Left(k)) ELSE bucks[t][k]
  BY <1>0, <1>1, <1>4 DEF CallbackReturn, Types
<1>11. ASSUME NEW k \in Buckets
       PROVE  /\ bucks'[t][k] \in QBucket
              /\ GoodBucket(bucks'[t][k], k, Sure(t), Names(t), must'[t], FALSE)
  <2>1. bucks[t][k] \in QBucket /\ GoodBucket(bucks[t][k], k, Sure(t), Names(t), must[t], FALSE)
    BY <1>4, <1>6, GoodNow
  <2>2. CASE k \in loc[p].at
    <3>0. PICK n, b, m, S, N : /\ n = must'[t] /\ b = bucks[t][k] /\ m = must[t]
                              /\ S = Sure(t) /\ N = Names(t)
      OBVIOUS
    <3>1. PICK new : new = LeftOf(b, c, popped)
      OBVIOUS
    <3>a. Popped(n, m, c, popped)
      BY <1>9, <3>0 DEF Popped
    <3>b. b \in QBucket /\ b.st = "open" /\ GoodBucket(b, k, S, N, m, FALSE)
      BY <1>5, <2>1, <2>2, <3>0
    <3>c. Main \in S /\ S \subseteq Consumers /\ c \in Consumers
      BY <1>5, <1>8, <3>0
    <3>2. new \in QBucket /\ new.st = "open" /\ GoodBucket(new, k, S, N, n, FALSE)
      BY <3>1, <3>a, <3>b, <3>c, PopGood
    <3>3. bucks'[t][k] = Reaped(new)
      BY <1>10, <2>2, <3>0, <3>1 DEF LeftOf
    <3>4. CASE Drained(new)
      <4>1. NoBucket \in QBucket /\ GoodBucket(NoBucket, k, S, N, n, FALSE)
        BY <3>2, <3>4, <3>c, ReapGood DEF Drained
      <4> QED BY <3>0, <3>3, <3>4, <4>1 DEF Reaped
    <3>5. CASE ~Drained(new)
      BY <3>0, <3>2, <3>3, <3>5 DEF Reaped
    <3> QED BY <3>4, <3>5
  <2>3. CASE k \notin loc[p].at
    <3>1. {x \in must'[t][Main] : x.b = k} = {x \in must[t][Main] : x.b = k}
      BY <1>5, <1>8, <1>9, <2>3
    <3>2. \A e \in Sure(t) \ {Main} : {x \in must'[t][e] : x.b = k} \subseteq {x \in must[t][e] : x.b = k}
      BY <1>8, <1>9
    <3>3. GoodBucket(bucks[t][k], k, Sure(t), Names(t), must'[t], FALSE)
      BY <2>1, <3>1, <3>2, OtherKey
    <3> QED BY <1>10, <2>1, <2>3, <3>3
  <2> QED BY <2>2, <2>3
<1>12. CASE q = t
  BY <1>4, <1>6, <1>7, <1>11, <1>12, GoodThen
<1>13. CASE q # t
  <2>1. bucks'[q] = bucks[q] /\ must'[q] = must[q]
    BY <1>0, <1>1, <1>2, <1>13 DEF Types, CallbackReturn
  <2>2. GoodQueue(q)'
    BY <1>2, <1>3, <2>1, QuietQueue DEF Frame
  <2> QED BY <1>0, <2>1, <2>2 DEF Types
<1> QED BY <1>12, <1>13

\* RemoveFork takes the fork from a bucket, or notes that it is still there.
LEMMA RemovedFrom ==
  ASSUME QI, NEW p \in Procs, RemoveFork(p), NEW t \in Qs, NEW f, t = loc[p].q, f = loc[p].c
  PROVE  /\ bucks' = [bucks EXCEPT ![t] = bucks'[t]] /\ bucks'[t] = [k \in Buckets |-> bucks'[t][k]]
         /\ \A k \in Buckets :
               /\ bucks'[t][k] \in {bucks[t][k], Reaped(Without(bucks[t][k], f))}
               /\ f \in bucks'[t][k].files => f \in raced'[t]
<1>0. Types
  BY DEF QI, QueueInv
<1>1. PICK new : /\ bucks' = [bucks EXCEPT ![t] = new] /\ new = Removed(t, f)
  BY DEF RemoveFork
<1>2. bucks'[t] = new
  BY <1>0, <1>1 DEF Types
<1>3. bucks' = [bucks EXCEPT ![t] = bucks'[t]] /\ new = [k \in Buckets |-> new[k]]
  BY <1>1, <1>2 DEF Removed
<1>4. \A k \in Buckets : new[k] \in {bucks[t][k], Reaped(Without(bucks[t][k], f))}
  BY <1>1 DEF Removed
<1>5. ASSUME NEW k \in Buckets, f \in new[k].files PROVE f \in raced'[t]
  <2>1. raced' = [raced EXCEPT ![t] = IF {j \in Buckets : f \in new[j].files} = {} THEN @ ELSE @ \cup {f}]
    BY <1>1 DEF RemoveFork
  <2>2. {j \in Buckets : f \in new[j].files} # {}
    BY <1>5
  <2>3. raced' = [raced EXCEPT ![t] = @ \cup {f}]
    BY <2>1, <2>2
  <2> QED BY <1>0, <2>3 DEF Types
<1> QED BY <1>2, <1>3, <1>4, <1>5

\* RemoveFork.
LEMMA RemoveForkGood ==
  ASSUME QI, NEW p \in Procs, RemoveFork(p), NEW q \in Qs
  PROVE  /\ GoodQueue(q)'
         /\ \A k \in Buckets : bucks'[q][k] \in QBucket
<1>0. Types
  BY DEF QI, QueueInv
<1>1. PICK t, f : t = loc[p].q /\ f = loc[p].c
  OBVIOUS
<1>2. /\ Frame(p) /\ pc[p] = "remove"
      /\ forks' = [forks EXCEPT ![t] = @ \ {f}] /\ must' = [must EXCEPT ![t][f] = {}]
  BY <1>1, BusyFrame DEF RemoveFork
<1>3. pc'[p] = "idle"
  BY LocIs DEF RemoveFork, Return, Goto, QI
<1>4. t \in Qs /\ t \in Held(pc[p], loc[p]) /\ f \in Forks
  BY <1>1, <1>2 DEF QI, LockInv, Control, Held, QueueInv, Knows
<1>5. Gone(t) = {} /\ Gone(t)' = {}
  BY <1>2, <1>3, <1>4, NotGone, GoneKept DEF Frame
<1>6. Main \in Sure(t) /\ Sure(t) \subseteq Consumers /\ Main # f
  BY <1>0, <1>4, MainSure, QueuesAssumption
<1>7. forks'[t] = forks[t] \ {f} /\ raced[t] \subseteq raced'[t] /\ raced'[t] \subseteq raced[t] \cup {f}
  <2>1. PICK V : raced' = [raced EXCEPT ![t] = V] /\ V \in {raced[t], raced[t] \cup {f}}
    BY <1>1, RacedMore
  <2>2. forks'[t] = forks[t] \ {f}
    BY <1>0, <1>2, <1>4 DEF Types
  <2>3. raced'[t] = V
    BY <1>0, <1>4, <2>1 DEF Types
  <2> QED BY <2>1, <2>2, <2>3
<1>8. PICK T, M : T = Sure(t)' /\ M = Names(t)'
  OBVIOUS
<1>9. T \subseteq Sure(t) \ {f} /\ Main \in T
  <2>1. Main \notin raced'[t]
    BY <1>6, <1>7 DEF Sure
  <2> QED BY <1>6, <1>7, <1>8, <2>1 DEF Sure, Live
<1>10. Names(t) \ {f} \subseteq M
  <2>1. \A r \in Forking(t) : r \in Forking(t)' /\ loc'[r].c = loc[r].c
    BY <1>2 DEF Forking, Frame, Others
  <2> QED BY <1>7, <1>8, <2>1 DEF Names, Live
<1>11. PICK m, n : m = must[t] /\ n = must'[t]
  OBVIOUS
<1>12. SameBut(n, m, f)
  BY <1>0, <1>2, <1>4, <1>11 DEF Types, SameBut
<1>13. ASSUME NEW k \in Buckets
       PROVE  /\ bucks'[t][k] \in {bucks[t][k], Reaped(Without(bucks[t][k], f))}
              /\ f \in bucks'[t][k].files => f \in raced'[t]
  BY <1>1, <1>4, RemovedFrom
<1>14. ASSUME NEW k \in Buckets
       PROVE  bucks'[t][k] \in QBucket /\ GoodBucket(bucks'[t][k], k, T, M, n, FALSE)
  <2>1. PICK b, S, N, new : /\ b = bucks[t][k] /\ S = Sure(t) /\ N = Names(t)
                            /\ new = Without(bucks[t][k], f)
    OBVIOUS
  <2>2. b \in QBucket /\ GoodBucket(b, k, S, N, m, FALSE)
    BY <1>4, <1>5, <1>11, <2>1, GoodNow
  <2>3. LessBy(S, T, N, M, f) /\ new = Without(b, f) /\ T \subseteq Consumers
    BY <1>6, <1>9, <1>10, <2>1 DEF LessBy
  <2>4. CASE bucks'[t][k] = b
    <3>1. f \in b.files => f \in M
      BY <1>8, <1>13, <2>4 DEF Names
    <3>2. GoodBucket(b, k, T, M, n, FALSE)
      BY <1>4, <1>12, <2>2, <2>3, <3>1, KeptGood
    <3> QED BY <2>2, <2>4, <3>2
  <2>5. CASE bucks'[t][k] = Reaped(new)
    <3>1. new \in QBucket /\ GoodBucket(new, k, T, M, n, FALSE)
      <4>1. LessBy(S, T, N, M, f) /\ new = Without(b, f)
        BY <2>3
      <4> QED BY <1>4, <1>12, <2>2, <4>1, RemoveGood
    <3>2. CASE Drained(new)
      <4>1. new.st = "open" /\ \A i \in new.idx : new.has[i] = {}
        BY <3>2 DEF Drained
      <4>2. NoBucket \in QBucket /\ GoodBucket(NoBucket, k, T, M, n, FALSE)
        BY <1>9, <2>3, <3>1, <4>1, ReapGood
      <4> QED BY <2>5, <3>2, <4>2 DEF Reaped
    <3>3. CASE ~Drained(new)
      BY <2>5, <3>1, <3>3 DEF Reaped
    <3> QED BY <3>2, <3>3
  <2> QED BY <1>13, <2>1, <2>4, <2>5
<1>15. CASE q = t
  <2>1. GoodQueue(t)'
    <3> SUFFICES ASSUME NEW k \in Buckets
                 PROVE  GoodBucket(bucks'[t][k], k, Sure(t)', Names(t)', must'[t], k \in Gone(t)')
      BY DEF GoodQueue
    <3>1. (k \in Gone(t)') = FALSE
      BY <1>5
    <3> QED BY <1>8, <1>11, <1>14, <3>1
  <2> QED BY <1>14, <1>15, <2>1
<1>16. CASE q # t
  <2>1. bucks'[q] = bucks[q] /\ must'[q] = must[q] /\ forks'[q] = forks[q]
    BY <1>0, <1>1, <1>2, <1>16 DEF Types, RemoveFork
  <2>2. GoodQueue(q)'
    BY <1>2, <1>3, <2>1, QuietQueue DEF Frame
  <2> QED BY <1>0, <2>1, <2>2 DEF Types
<1> QED BY <1>15, <1>16

\* Calls of Fork.
LEMMA CallForkGood ==
  ASSUME QI, NEW p \in Procs, CallFork(p), NEW q \in Qs
  PROVE  GoodQueue(q)'
<1>1. Frame(p) /\ pc[p] = "idle"
  BY ForkFrame DEF CallFork
<1>2. q \in Qs \ Held(pc[p], loc[p])
  BY <1>1 DEF Held
<1> QED BY <1>1, <1>2, OtherQueues

\* Fork of a bucket.
LEMMA ForkBucketGood ==
  ASSUME QI, NEW p \in Procs, ForkBucket(p), NEW q \in Qs
  PROVE  /\ GoodQueue(q)'
         /\ \A k \in Buckets : bucks'[q][k] \in QBucket
<1>0. Types
  BY DEF QI, QueueInv
<1>1. PICK t, f, k : t = loc[p].q /\ f = loc[p].c /\ k = Lowest(loc[p].todo)
  OBVIOUS
<1>2. /\ Frame(p) /\ pc[p] = "fork" /\ UNCHANGED <<forks, must, raced, pc>>
      /\ bucks' = [bucks EXCEPT ![t][k] = Forked(bucks[t][k], f)]
  BY <1>1, ForkFrame DEF ForkBucket
<1>3. t \in Qs /\ f \in Forks /\ k \in Buckets
  BY <1>1, <1>2, LowestIn DEF QI, LockInv, Control, QueueInv, Knows, ForkBucket
<1>4. loc'[p].c = f /\ loc'[p].q = t
  BY <1>1, LocIs DEF QI, ForkBucket, Fields
<1>5. f \notin Sure(t)
  BY <1>1, <1>2, <1>3, QueuesAssumption DEF QI, QueueInv, GoodFork, Sure, Live
<1>6. f \in Names(t)
  BY <1>1, <1>2 DEF Names, Forking
<1>7. Sure(t)' = Sure(t) /\ Names(t) \subseteq Names(t)'
  <2>1. \A r \in Forking(t) : r \in Forking(t)' /\ loc'[r].c = loc[r].c
    BY <1>1, <1>2, <1>4 DEF Forking, Frame, Others
  <2> QED BY <1>2, <2>1 DEF Names, Sure, Live
<1>8. Gone(t)' = Gone(t)
  BY <1>2, GoneKept DEF Frame
<1>9. bucks'[t][k] = Forked(bucks[t][k], f) /\ \A j \in Buckets \ {k} : bucks'[t][j] = bucks[t][j]
  BY <1>0, <1>2, <1>3 DEF Types
<1>10. ASSUME NEW j \in Buckets
       PROVE  /\ bucks'[t][j] \in QBucket
              /\ GoodBucket(bucks'[t][j], j, Sure(t), Names(t), must'[t], j \in Gone(t))
  <2>1. /\ bucks[t][j] \in QBucket
        /\ GoodBucket(bucks[t][j], j, Sure(t), Names(t), must'[t], j \in Gone(t))
    BY <1>0, <1>2, <1>3 DEF QI, QueueInv, GoodQueue, Types
  <2>2. CASE j = k
    <3>1. PICK b, S, N, m, gone : /\ b = bucks[t][j] /\ S = Sure(t) /\ N = Names(t)
                                  /\ m = must'[t] /\ gone = (j \in Gone(t))
      OBVIOUS
    <3>2. b \in QBucket /\ GoodBucket(b, j, S, N, m, gone) /\ f \notin S /\ f \in N
      BY <1>5, <1>6, <2>1, <3>1
    <3>3. Forked(b, f) \in QBucket /\ GoodBucket(Forked(b, f), j, S, N, m, gone)
      BY <1>3, <3>2, ForkedGood
    <3> QED BY <1>9, <2>2, <3>1, <3>3
  <2>3. CASE j # k
    BY <1>9, <2>1, <2>3
  <2> QED BY <2>2, <2>3
<1>11. CASE q = t
  <2>1. \A j \in Buckets : GoodBucket(bucks'[t][j], j, Sure(t), Names(t), must'[t], j \in Gone(t))
    BY <1>10
  <2>2. GoodQueue(t)'
    BY <1>3, <1>7, <1>8, <2>1, ChangedQueue
  <2> QED BY <1>10, <1>11, <2>2
<1>12. CASE q # t
  <2>1. bucks'[q] = bucks[q]
    BY <1>0, <1>2, <1>12 DEF Types
  <2>2. GoodQueue(q)'
    BY <1>1, <1>2, <1>12, <2>1, QuietQueue DEF Frame
  <2> QED BY <1>0, <2>1, <2>2 DEF Types
<1> QED BY <1>11, <1>12

\* A bucket that has what the queue has for a new fork.
LEMMA NewForkGood ==
  ASSUME NEW b, NEW k, NEW S, NEW N, NEW m, NEW n, NEW gone, NEW f \in Forks,
         GoodBucket(b, k, S, N, m, gone), S \subseteq Consumers, f \notin S, SameBut(n, m, f)
  PROVE  /\ GoodBucket(b, k, S, N, n, gone)
         /\ n[f] = m[Main] /\ (b.st # "absent" => ForkedIn(b, f))
               => GoodBucket(b, k, S \cup {f}, N, n, gone)
<1>1. Main \in Consumers /\ Main # f
  BY QueuesAssumption DEF Consumers
<1>2. n[Main] = m[Main] /\ \A c \in S \ {Main} : n[c] = m[c]
  BY <1>1 DEF SameBut
<1>3. GoodBucket(b, k, S, N, n, gone)
  BY <1>2 DEF GoodBucket
<1>4. ASSUME n[f] = m[Main], b.st # "absent" => ForkedIn(b, f)
      PROVE  GoodBucket(b, k, S \cup {f}, N, n, gone)
  <2>1. {x \in n[f] : x.b = k} \subseteq b.has[Main]
    BY <1>4 DEF GoodBucket
  <2>2. CASE b.st = "absent"
    <3>1. b.has[Main] = {}
      BY <1>1, <2>2 DEF GoodBucket, NoBucket
    <3>2. {x \in n[f] : x.b = k} \subseteq Loaded(b, f)
      BY <2>1, <3>1
    <3> QED BY <1>3, <2>2, <3>2 DEF GoodBucket
  <2>3. CASE b.st # "absent"
    <3>1. f \in b.files /\ (b.st = "open" => f \in b.idx) /\ b.has[Main] \subseteq b.has[f]
      BY <1>4, <2>3 DEF ForkedIn
    <3>2. {x \in n[f] : x.b = k} \subseteq Loaded(b, f)
      BY <2>1, <3>1 DEF Loaded
    <3> QED BY <1>3, <3>1, <3>2 DEF GoodBucket
  <2> QED BY <2>2, <2>3
<1> QED BY <1>3, <1>4

\* The end of Fork.
LEMMA ForkEndGood ==
  ASSUME QI, NEW p \in Procs, ForkEnd(p), NEW q \in Qs
  PROVE  GoodQueue(q)'
<1>0. Types
  BY DEF QI, QueueInv
<1>1. PICK t, f : t = loc[p].q /\ f = loc[p].c
  OBVIOUS
<1>2. /\ Frame(p) /\ pc[p] = "fork" /\ loc[p].todo = {} /\ UNCHANGED <<bucks, raced>>
      /\ forks' = [forks EXCEPT ![t] = @ \cup {f}]
      /\ must' = [must EXCEPT ![t][f] = IF f \in raced[t] THEN {} ELSE must[t][Main]]
  BY <1>1, ForkFrame DEF ForkEnd
<1>3. t \in Qs /\ f \in Forks /\ f \in Consumers
  BY <1>1, <1>2 DEF QI, LockInv, Control, QueueInv, Knows, Consumers
<1>4. pc'[p] = "idle"
  BY LocIs DEF QI, ForkEnd, Return, Goto
<1>5. CASE q = t
  <2>1. forks'[t] = forks[t] \cup {f}
    BY <1>0, <1>2, <1>3 DEF Types
  <2>2. PICK S, N, m, n : S = Sure(t) /\ N = Names(t) /\ m = must[t] /\ n = must'[t]
    OBVIOUS
  <2>3. SameBut(n, m, f) /\ n[f] = IF f \in raced[t] THEN {} ELSE m[Main]
    BY <1>0, <1>2, <1>3, <2>2 DEF Types, SameBut
  <2>4. S \subseteq Consumers /\ f \notin S
    <3>1. f \notin Sure(t)
      BY <1>1, <1>2, <1>3, QueuesAssumption DEF QI, QueueInv, GoodFork, Sure, Live
    <3> QED BY <1>0, <1>3, <2>2, <3>1, MainSure
  <2>5. Sure(t)' = IF f \in raced[t] THEN S ELSE S \cup {f}
    BY <1>2, <2>1, <2>2 DEF Sure, Live
  <2>6. N \subseteq Names(t)'
    <3>1. \A r \in Forking(t) \ {p} : r \in Forking(t)' /\ loc'[r].c = loc[r].c
      BY <1>2 DEF Forking, Frame, Others
    <3> QED BY <1>1, <1>2, <2>1, <2>2, <3>1 DEF Names, Live
  <2>7. Gone(t)' = Gone(t)
    BY <1>2, <1>4, GoneKept DEF Frame
  <2>8. ASSUME NEW k \in Buckets
        PROVE  GoodBucket(bucks[t][k], k, Sure(t)', Names(t)', n, k \in Gone(t))
    <3>1. PICK b, gone : b = bucks[t][k] /\ gone = (k \in Gone(t))
      OBVIOUS
    <3>2. GoodBucket(b, k, S, N, m, gone)
      BY <1>3, <2>2, <3>1 DEF QI, QueueInv, GoodQueue
    <3>3. CASE f \in raced[t]
      <4>1. GoodBucket(b, k, S, N, n, gone)
        BY <1>3, <2>3, <2>4, <3>2, NewForkGood
      <4> QED BY <2>5, <2>6, <3>1, <3>3, <4>1, GoodMono
    <3>4. CASE f \notin raced[t]
      <4>1. b.st # "absent" => ForkedIn(b, f)
        BY <1>1, <1>2, <3>1, <3>4 DEF QI, QueueInv, GoodFork, InTree
      <4>2. n[f] = m[Main]
        BY <2>3, <3>4
      <4>3. GoodBucket(b, k, S \cup {f}, N, n, gone)
        BY <1>3, <2>3, <2>4, <3>2, <4>1, <4>2, NewForkGood
      <4> QED BY <2>5, <2>6, <3>1, <3>4, <4>3, GoodMono
    <3> QED BY <3>3, <3>4
  <2>9. GoodQueue(t)'
    <3> SUFFICES ASSUME NEW k \in Buckets
                 PROVE  GoodBucket(bucks[t][k], k, Sure(t)', Names(t)', n, k \in Gone(t))
      BY <1>2, <2>2, <2>7 DEF GoodQueue
    <3> QED BY <2>8
  <2> QED BY <1>5, <2>9
<1>6. CASE q # t
  <2>1. bucks'[q] = bucks[q] /\ must'[q] = must[q] /\ forks'[q] = forks[q]
    BY <1>0, <1>2, <1>6 DEF Types
  <2> QED BY <1>1, <1>2, <1>4, <1>6, <2>1, QuietQueue DEF Frame
<1> QED BY <1>5, <1>6

\* A queue that is shovelled away has no forks, and only one goroutine moves it.
LEMMA ShovelsAlone ==
  ASSUME QI, NEW p \in Procs, pc[p] = "shovel", NEW s, NEW d, s = loc[p].q, d = loc[p].d
  PROVE  /\ s \in Qs /\ d \in Qs /\ s # d
         /\ s \in Held(pc[p], loc[p]) /\ d \in Held(pc[p], loc[p])
         /\ Sure(s) = {Main} /\ Names(s) = {Main}
         /\ \A r \in Procs : pc[r] = "shovel" /\ loc[r].q = s => r = p
         /\ Gone(s) = Buckets \ loc[p].todo /\ Gone(d) = {}
<1>1. <<s, d>> \in Nested
  BY DEF QI, LockInv, Control
<1>2. s \in Qs /\ d \in Qs /\ s # d
  BY <1>1, NestedApart
<1>3. s \in Held(pc[p], loc[p]) /\ d \in Held(pc[p], loc[p])
  BY DEF Held
<1>4. s \notin ForkQs
  BY <1>1 DEF ForkQs
<1>5. forks[s] = {} /\ raced[s] = {}
  BY <1>2, <1>4 DEF QI, QueueInv, Types
<1>6. Forking(s) = {}
  BY <1>4 DEF QI, QueueInv, Knows, Forking
<1>7. Sure(s) = {Main} /\ Names(s) = {Main}
  BY <1>5, <1>6 DEF Sure, Names, Live
<1>8. \A r \in Procs : pc[r] = "shovel" /\ loc[r].q = s => r = p
  <2> SUFFICES ASSUME NEW r \in Procs, pc[r] = "shovel", loc[r].q = s PROVE r = p
    OBVIOUS
  <2>1. s \in Held(pc[r], loc[r])
    BY DEF Held
  <2> QED BY <1>2, <1>3, <2>1 DEF QI, LockInv
<1>9. Gone(s) = Buckets \ loc[p].todo
  BY <1>8 DEF Gone
<1>10. Gone(d) = {}
  BY <1>2, <1>3, NotGone
<1> QED BY <1>2, <1>3, <1>7, <1>8, <1>9, <1>10

\* A bucket that a Shovel has moved.
LEMMA MovedGood ==
  ASSUME NEW b, NEW k, NEW N, NEW m, NEW n, GoodBucket(b, k, {Main}, N, m, FALSE),
         n[Main] = m[Main] \ {x \in m[Main] : x.b = k}
  PROVE  GoodBucket(b, k, {Main}, N, n, TRUE)
  BY DEF GoodBucket

\* The end of Shovel.
LEMMA ShovelEndGood ==
  ASSUME QI, NEW p \in Procs, ShovelEnd(p), NEW q \in Qs
  PROVE  /\ GoodQueue(q)'
         /\ \A k \in Buckets : bucks'[q][k] \in QBucket
<1>0. Types
  BY DEF QI, QueueInv
<1>1. PICK s, d : s = loc[p].q /\ d = loc[p].d
  OBVIOUS
<1>2. /\ Frame(p) /\ pc[p] = "shovel" /\ loc[p].todo = {} /\ UNCHANGED <<forks, must, raced>>
      /\ bucks' = [bucks EXCEPT ![s] = [k \in Buckets |-> NoBucket]]
  BY <1>1, BusyFrame DEF ShovelEnd
<1>3. pc'[p] = "idle"
  BY LocIs DEF QI, ShovelEnd, Return, Goto
<1>4. /\ s \in Qs /\ s # d /\ Sure(s) = {Main} /\ Names(s) = {Main} /\ Gone(s) = Buckets
      /\ \A r \in Procs : pc[r] = "shovel" /\ loc[r].q = s => r = p
  <2>1. Gone(s) = Buckets \ loc[p].todo
    BY <1>1, <1>2, ShovelsAlone
  <2>2. /\ s \in Qs /\ s # d /\ Sure(s) = {Main} /\ Names(s) = {Main}
        /\ \A r \in Procs : pc[r] = "shovel" /\ loc[r].q = s => r = p
    BY <1>1, <1>2, ShovelsAlone
  <2> QED BY <1>2, <2>1, <2>2
<1>5. CASE q = s
  <2>1. \A k \in Buckets : bucks'[s][k] = NoBucket
    BY <1>0, <1>2, <1>4 DEF Types
  <2>2. Gone(s)' = {}
    BY <1>2, <1>3, <1>4 DEF Gone, Frame, Others
  <2>3. Names(s) \subseteq Names(s)' /\ Sure(s)' \subseteq Sure(s)
    BY <1>2, NamesKept DEF Frame
  <2>4. ASSUME NEW k \in Buckets
        PROVE  GoodBucket(bucks'[s][k], k, Sure(s), Names(s), must'[s], FALSE)
    <3>1. GoodBucket(bucks[s][k], k, {Main}, {Main}, must[s], k \in Gone(s)) /\ k \in Gone(s)
      BY <1>4 DEF QI, QueueInv, GoodQueue
    <3>2. {x \in must[s][Main] : x.b = k} = {}
      BY <3>1 DEF GoodBucket
    <3>3. GoodBucket(NoBucket, k, {Main}, {Main}, must[s], FALSE)
      BY <3>2 DEF GoodBucket, NoBucket, Consumers
    <3> QED BY <1>2, <1>4, <2>1, <3>3
  <2>5. GoodQueue(s)'
    BY <1>4, <2>2, <2>3, <2>4, GoodThen
  <2>6. NoBucket \in QBucket
    BY DEF NoBucket, QBucket
  <2> QED BY <1>5, <2>1, <2>5, <2>6
<1>6. CASE q # s
  <2>1. bucks'[q] = bucks[q]
    BY <1>0, <1>2, <1>6 DEF Types
  <2>2. GoodQueue(q)'
    BY <1>1, <1>2, <1>3, <1>6, <2>1, QuietQueue DEF Frame
  <2> QED BY <1>0, <2>1, <2>2 DEF Types
<1> QED BY <1>5, <1>6

\* Shovel of a bucket.
LEMMA ShovelBucketGood ==
  ASSUME QI, NEW p \in Procs, ShovelBucket(p), NEW q \in Qs
  PROVE  /\ GoodQueue(q)'
         /\ \A k \in Buckets : bucks'[q][k] \in QBucket
<1>0. Types
  BY DEF QI, QueueInv
<1>1. PICK s, d, k : s = loc[p].q /\ d = loc[p].d /\ k = Lowest(loc[p].todo)
  OBVIOUS
<1>2. PICK moved, b : moved = {x \in must[s][Main] : x.b = k} /\ b = bucks[s][k]
  OBVIOUS
<1>3. /\ Frame(p) /\ pc[p] = "shovel" /\ loc[p].todo # {} /\ UNCHANGED <<forks, raced, pc>>
      /\ bucks' = [bucks EXCEPT ![d][k] = ShovelInto(b, d, k)]
      /\ loc' = [loc EXCEPT ![p].todo = @ \ {k}]
  BY <1>1, <1>2, BusyFrame DEF ShovelBucket
<1>4. must' = [must EXCEPT ![s][Main] = @ \ moved,
                           ![d] = [c \in Consumers |->
                                      IF c \in Live(d) THEN @[c] \cup moved ELSE @[c]]]
  BY <1>1, <1>2 DEF ShovelBucket
<1>5. /\ s \in Qs /\ d \in Qs /\ s # d /\ Sure(s) = {Main} /\ Names(s) = {Main}
      /\ \A r \in Procs : pc[r] = "shovel" /\ loc[r].q = s => r = p
  BY <1>1, <1>3, ShovelsAlone
<1>6. Gone(s) = Buckets \ loc[p].todo /\ Gone(d) = {}
  BY <1>1, <1>3, ShovelsAlone
<1>7. k \in loc[p].todo /\ k \in Buckets /\ b.st # "absent"
  <2>1. loc[p].todo \subseteq InTree(s) /\ InTree(s) \subseteq Buckets
    BY <1>1, <1>3 DEF QI, QueueInv, Knows, InTree
  <2>2. k \in loc[p].todo
    BY <1>1, <1>3, <2>1, LowestIn
  <2> QED BY <1>2, <2>1, <2>2 DEF InTree
<1>8. b \in QBucket /\ GoodBucket(b, k, {Main}, {Main}, must[s], FALSE)
  <2>1. GoodBucket(b, k, Sure(s), Names(s), must[s], k \in Gone(s))
    BY <1>2, <1>5, <1>7 DEF QI, QueueInv, GoodQueue
  <2>2. (k \in Gone(s)) = FALSE
    BY <1>6, <1>7
  <2>3. b \in QBucket
    BY <1>0, <1>2, <1>5, <1>7 DEF Types
  <2> QED BY <1>5, <2>1, <2>2, <2>3
<1>9. b.files = {Main}
  BY <1>7, <1>8 DEF GoodBucket
<1>10. PICK n, m : n = must'[d] /\ m = must[s]
  OBVIOUS
<1>11. \A c \in Consumers : n[c] = IF c \in Live(d) THEN must[d][c] \cup moved ELSE must[d][c]
  BY <1>0, <1>4, <1>5, <1>10 DEF Types
<1>12. /\ Main \in Sure(d) /\ Sure(d) \subseteq Live(d) /\ Live(d) \subseteq Names(d)
       /\ Live(d) \subseteq Consumers
  BY <1>0, <1>5, MainSure
<1>13. Gets(n, must[d], moved, Sure(d))
  BY <1>11, <1>12 DEF Gets
<1>14. must'[s][Main] = must[s][Main] \ moved
  BY <1>0, <1>4, <1>5 DEF Types, Consumers
<1>15. bucks'[d][k] = ShovelInto(b, d, k) /\ \A j \in Buckets \ {k} : bucks'[d][j] = bucks[d][j]
  BY <1>0, <1>3, <1>5, <1>7 DEF Types
<1>16. \A x \in Qs \ {d} : bucks'[x] = bucks[x]
  BY <1>0, <1>3 DEF Types
\* The destination.
<1>17. CASE q = d
  <2>1. ASSUME NEW j \in Buckets
        PROVE  /\ bucks'[d][j] \in QBucket
               /\ GoodBucket(bucks'[d][j], j, Sure(d), Names(d), n, FALSE)
    <3>1. /\ bucks[d][j] \in QBucket
          /\ GoodBucket(bucks[d][j], j, Sure(d), Names(d), must[d], FALSE)
      BY <1>5, <1>6, GoodNow
    <3>2. CASE j = k
      <4>1. PICK N : N = Names(d)
        OBVIOUS
      <4>2. GoodBucket(bucks[d][k], k, Sure(d), N, must[d], FALSE) /\ Live(d) \subseteq N
        BY <1>12, <3>1, <3>2, <4>1
      <4>3. GoodBucket(b, k, {Main}, {Main}, m, FALSE) /\ moved = {x \in m[Main] : x.b = k}
        BY <1>2, <1>8, <1>10
      <4>4. /\ ShovelInto(b, d, k) \in QBucket
            /\ GoodBucket(ShovelInto(b, d, k), k, Sure(d), N, n, FALSE)
        BY <1>0, <1>5, <1>7, <1>8, <1>9, <1>13, <4>2, <4>3, ShovelGood
      <4> QED BY <1>15, <3>2, <4>1, <4>4
    <3>3. CASE j # k
      <4>1. \A c \in Sure(d) : {x \in n[c] : x.b = j} = {x \in must[d][c] : x.b = j}
        BY <1>2, <1>11, <1>12, <3>3
      <4>2. GoodBucket(bucks[d][j], j, Sure(d), Names(d), n, FALSE)
        <5>1. {x \in n[Main] : x.b = j} = {x \in must[d][Main] : x.b = j}
          BY <1>12, <4>1
        <5>2. \A c \in Sure(d) \ {Main} : {x \in n[c] : x.b = j} \subseteq {x \in must[d][c] : x.b = j}
          BY <4>1
        <5> QED BY <3>1, <5>1, <5>2, OtherKey
      <4> QED BY <1>15, <3>1, <3>3, <4>2
    <3> QED BY <3>2, <3>3
  <2>2. Gone(d)' = {}
    <3>1. ~(pc'[p] = "shovel" /\ loc'[p].q = d)
      BY <1>1, <1>3, <1>5, LocIs DEF QI, Fields
    <3> QED BY <1>1, <1>3, <1>5, <1>6, <3>1, GoneKept DEF Frame
  <2>3. Names(d) \subseteq Names(d)' /\ Sure(d)' \subseteq Sure(d)
    BY <1>3, NamesKept DEF Frame
  <2>4. GoodQueue(d)'
    BY <1>5, <1>10, <2>1, <2>2, <2>3, GoodThen
  <2> QED BY <1>17, <2>1, <2>4
\* The source, which has the items no longer to get.
<1>18. CASE q = s
  <2>1. PICK G : G = Gone(s)'
    OBVIOUS
  <2>2. \A j \in Buckets : j \in G <=> j = k \/ j \in Gone(s)
    <3>1. pc'[p] = "shovel" /\ loc'[p].q = s /\ loc'[p].todo = loc[p].todo \ {k}
      BY <1>1, <1>3, LocIs DEF QI, Fields
    <3>2. \A r \in Procs \ {p} : ~(pc'[r] = "shovel" /\ loc'[r].q = s)
      BY <1>3, <1>5 DEF Frame, Others
    <3> QED BY <1>6, <2>1, <3>1, <3>2 DEF Gone
  <2>3. Names(s) \subseteq Names(s)' /\ Sure(s)' \subseteq Sure(s)
    BY <1>3, NamesKept DEF Frame
  <2>4. ASSUME NEW j \in Buckets
        PROVE  GoodBucket(bucks'[s][j], j, Sure(s), Names(s), must'[s], j \in G)
    <3>1. CASE j = k
      <4>1. GoodBucket(b, k, {Main}, {Main}, must'[s], TRUE)
        BY <1>2, <1>8, <1>14, MovedGood
      <4>2. (j \in G) = TRUE /\ bucks'[s][j] = b
        BY <1>2, <1>5, <1>16, <2>2, <3>1
      <4> QED BY <1>5, <3>1, <4>1, <4>2
    <3>2. CASE j # k
      <4>1. PICK gone : gone = (j \in Gone(s))
        OBVIOUS
      <4>2. GoodBucket(bucks[s][j], j, {Main}, {Main}, must[s], gone)
        BY <1>5, <4>1 DEF QI, QueueInv, GoodQueue
      <4>3. {x \in must'[s][Main] : x.b = j} = {x \in must[s][Main] : x.b = j}
        BY <1>2, <1>14, <3>2
      <4>4. GoodBucket(bucks[s][j], j, {Main}, {Main}, must'[s], gone)
        BY <4>2, <4>3 DEF GoodBucket
      <4>5. (j \in G) = gone /\ bucks'[s][j] = bucks[s][j]
        BY <1>5, <1>16, <2>2, <3>2, <4>1
      <4> QED BY <1>5, <4>4, <4>5
    <3> QED BY <3>1, <3>2
  <2>5. GoodQueue(s)'
    BY <1>5, <2>1, <2>3, <2>4, ChangedQueue
  <2>6. \A j \in Buckets : bucks'[s][j] \in QBucket
    BY <1>0, <1>5, <1>16 DEF Types
  <2> QED BY <1>18, <2>5, <2>6
<1>19. CASE q \notin {s, d}
  <2>1. bucks'[q] = bucks[q] /\ must'[q] = must[q]
    BY <1>0, <1>4, <1>16, <1>19 DEF Types
  <2>2. ~(pc'[p] = "shovel" /\ loc'[p].q = q)
    BY <1>1, <1>3, <1>19, LocIs DEF QI, Fields
  <2>3. GoodQueue(q)'
    BY <1>1, <1>3, <1>19, <2>1, <2>2, QuietQueue DEF Frame
  <2> QED BY <1>0, <2>1, <2>3 DEF Types
<1> QED BY <1>17, <1>18, <1>19

-----------------------------------------------------------------------------
(* Items stay single.                                                      *)

\* A step that pushes and moves nothing.
LEMMA SingleKept ==
  ASSUME Single, NEW p \in Procs, Others(p), nextId' = nextId,
         loc'[p].items \subseteq loc[p].items,
         \A q \in Qs : must'[q][Main] \subseteq must[q][Main]
  PROVE  Single'
<1>1. \A r \in Procs : loc'[r].items \subseteq loc[r].items
  BY DEF Others
<1>2. \A r \in Procs : \A x \in loc'[r].items : x.id < nextId'
  BY <1>1 DEF Single
<1>3. \A q \in Qs : \A x \in must'[q][Main] : x.id < nextId'
  BY DEF Single
<1>4. \A r, o \in Procs : r # o => loc'[r].items \cap loc'[o].items = {}
  BY <1>1 DEF Single
<1>5. \A r \in Procs, q \in Qs : loc'[r].items \cap must'[q][Main] = {}
  BY <1>1 DEF Single
<1>6. \A q, r \in Qs : q # r => must'[q][Main] \cap must'[r][Main] = {}
  BY DEF Single
<1> QED BY <1>2, <1>3, <1>4, <1>5, <1>6 DEF Single

\* New items have a number of their own.
LEMMA FreshSingle ==
  ASSUME QI, NEW p \in Procs, Others(p), nextId' = nextId + 1, must' = must,
         \A x \in loc'[p].items : x.id = nextId
  PROVE  Single'
<1>0. Single /\ nextId \in Nat
  BY DEF QI, QueueInv, Types
<1>1. \A r \in Procs \ {p} : loc'[r].items = loc[r].items /\ loc[r].items \subseteq Item
  BY DEF Others, QI, QueueInv, Knows
<1>2. \A q \in Qs : must[q][Main] \subseteq Item
  BY DEF QI, QueueInv, Types, Consumers
<1>3. \A x \in Item : x.id \in Nat
  BY DEF Item
<1>4. \A r \in Procs \ {p} : \A x \in loc'[r].items : x.id \in Nat /\ x.id < nextId
  BY <1>0, <1>1, <1>3 DEF Single
<1>5. \A q \in Qs : \A x \in must'[q][Main] : x.id \in Nat /\ x.id < nextId
  BY <1>0, <1>2, <1>3 DEF Single
<1>6. \A r \in Procs : \A x \in loc'[r].items : x.id < nextId'
  BY <1>0, <1>4
<1>7. \A q \in Qs : \A x \in must'[q][Main] : x.id < nextId'
  BY <1>0, <1>5
<1>8. \A r, o \in Procs : r # o => loc'[r].items \cap loc'[o].items = {}
  <2>1. \A r \in Procs \ {p} : loc'[p].items \cap loc'[r].items = {}
    BY <1>0, <1>4
  <2>2. \A r, o \in Procs \ {p} : r # o => loc'[r].items \cap loc'[o].items = {}
    BY <1>0, <1>1 DEF Single
  <2> QED BY <2>1, <2>2
<1>9. \A r \in Procs, q \in Qs : loc'[r].items \cap must'[q][Main] = {}
  <2>1. \A q \in Qs : loc'[p].items \cap must'[q][Main] = {}
    BY <1>0, <1>5
  <2>2. \A r \in Procs \ {p}, q \in Qs : loc'[r].items \cap must'[q][Main] = {}
    BY <1>0, <1>1 DEF Single
  <2> QED BY <2>1, <2>2
<1>10. \A q, r \in Qs : q # r => must'[q][Main] \cap must'[r][Main] = {}
  BY <1>0 DEF Single
<1> QED BY <1>6, <1>7, <1>8, <1>9, <1>10 DEF Single

\* What a goroutine pushed, it has no longer to push.
LEMMA PushSingle ==
  ASSUME QI, NEW p \in Procs, PushBucket(p)
  PROVE  Single'
<1>0. Types /\ Single
  BY DEF QI, QueueInv
<1>1. PICK t, part : /\ t = Target(p)
                     /\ part = {x \in loc[p].items : x.b = Lowest({y.b : y \in loc[p].items})}
  OBVIOUS
<1>2. Others(p) /\ nextId' = nextId /\ loc' = [loc EXCEPT ![p].items = @ \ part]
  BY <1>1, BusyFrame DEF PushBucket, Frame
<1>3. loc'[p].items = loc[p].items \ part /\ part \subseteq loc[p].items
  BY <1>1, <1>2, LocIs DEF QI, Fields
<1>4. t \in Qs
  <2>1. pc[p] = "push" /\ loc[p].q \in Qs
    BY DEF PushBucket, QI, LockInv, Control
  <2>2. loc[p].op # "push" => <<loc[p].q, loc[p].d>> \in Nested
    BY <2>1 DEF QI, LockInv, Control
  <2>3. loc[p].op # "push" => loc[p].d \in Qs
    BY <2>2, NestedApart
  <2> QED BY <1>1, <2>1, <2>3 DEF Target
<1>5. /\ must'[t][Main] \subseteq must[t][Main] \cup part
      /\ \A q \in Qs \ {t} : must'[q] = must[q]
  BY <1>0, <1>1, <1>4 DEF Types, PushBucket, Consumers
<1>6. \A r \in Procs \ {p} : loc'[r].items = loc[r].items
  BY <1>2 DEF Others
<1>7. \A r \in Procs : \A x \in loc'[r].items : x.id < nextId'
  BY <1>0, <1>2, <1>3, <1>6 DEF Single
<1>8. \A q \in Qs : \A x \in must'[q][Main] : x.id < nextId'
  BY <1>0, <1>2, <1>3, <1>5 DEF Single
<1>9. \A r, o \in Procs : r # o => loc'[r].items \cap loc'[o].items = {}
  BY <1>0, <1>3, <1>6 DEF Single
<1>10. ASSUME NEW r \in Procs, NEW q \in Qs PROVE loc'[r].items \cap must'[q][Main] = {}
  <2>1. loc[r].items \cap must[q][Main] = {} /\ (r # p => loc[r].items \cap loc[p].items = {})
    BY <1>0 DEF Single
  <2>2. loc'[r].items \subseteq loc[r].items /\ loc'[r].items \cap part = {}
    BY <1>3, <1>6, <2>1
  <2> QED BY <1>5, <2>1, <2>2
<1>11. \A q \in Qs \ {t} : part \cap must[q][Main] = {}
  BY <1>0, <1>3 DEF Single
<1>12. \A q, r \in Qs : q # r => must'[q][Main] \cap must'[r][Main] = {}
  <2>1. \A q \in Qs \ {t} : must'[t][Main] \cap must'[q][Main] = {}
    BY <1>0, <1>4, <1>5, <1>11 DEF Single
  <2>2. \A q, r \in Qs \ {t} : q # r => must'[q][Main] \cap must'[r][Main] = {}
    BY <1>0, <1>5 DEF Single
  <2> QED BY <2>1, <2>2
<1> QED BY <1>7, <1>8, <1>9, <1>10, <1>12 DEF Single

\* What is moved leaves the source.
LEMMA ShovelSingle ==
  ASSUME QI, NEW p \in Procs, ShovelBucket(p)
  PROVE  Single'
<1>0. Types /\ Single /\ pc[p] = "shovel"
  BY DEF QI, QueueInv, ShovelBucket
<1>1. PICK s, d, moved :
        /\ s = loc[p].q /\ d = loc[p].d
        /\ moved = {x \in must[s][Main] : x.b = Lowest(loc[p].todo)}
  OBVIOUS
<1>2. s \in Qs /\ d \in Qs /\ s # d
  BY <1>0, <1>1, ShovelsAlone
<1>3. Others(p) /\ nextId' = nextId /\ loc'[p].items = loc[p].items
  <2>1. Others(p)
    BY BusyFrame DEF Frame
  <2>2. nextId' = nextId /\ loc'[p].items = loc[p].items
    BY LocIs DEF ShovelBucket, QI, Fields
  <2> QED BY <2>1, <2>2
<1>4. must' = [must EXCEPT ![s][Main] = @ \ moved,
                           ![d] = [c \in Consumers |->
                                      IF c \in Live(d) THEN @[c] \cup moved ELSE @[c]]]
  BY <1>1 DEF ShovelBucket
<1>5. /\ must'[s][Main] = must[s][Main] \ moved
      /\ must'[d][Main] \subseteq must[d][Main] \cup moved
      /\ \A q \in Qs \ {s, d} : must'[q] = must[q]
  BY <1>0, <1>2, <1>4 DEF Types, Consumers
<1>6. \A r \in Procs : loc'[r].items = loc[r].items
  BY <1>3 DEF Others
<1>7. moved \subseteq must[s][Main]
  BY <1>1
<1>8. \A q \in Qs : \A x \in must'[q][Main] : x.id < nextId'
  BY <1>0, <1>2, <1>3, <1>5, <1>7 DEF Single
<1>9. \A r \in Procs, q \in Qs : loc'[r].items \cap must'[q][Main] = {}
  <2>1. \A r \in Procs : loc[r].items \cap must[s][Main] = {} /\ loc[r].items \cap must[d][Main] = {}
    BY <1>0, <1>2 DEF Single
  <2>2. \A r \in Procs : loc[r].items \cap must'[s][Main] = {} /\ loc[r].items \cap must'[d][Main] = {}
    BY <1>5, <1>7, <2>1
  <2> QED BY <1>0, <1>5, <1>6, <2>2 DEF Single
<1>10. \A q, r \in Qs : q # r => must'[q][Main] \cap must'[r][Main] = {}
  <2>1. must'[s][Main] \cap must'[d][Main] = {}
    BY <1>0, <1>2, <1>5 DEF Single
  <2>2. \A q \in Qs \ {s, d} : /\ must'[s][Main] \cap must'[q][Main] = {}
                               /\ must'[d][Main] \cap must'[q][Main] = {}
    BY <1>0, <1>2, <1>5, <1>7 DEF Single
  <2>3. \A q, r \in Qs \ {s, d} : q # r => must'[q][Main] \cap must'[r][Main] = {}
    BY <1>0, <1>5 DEF Single
  <2> QED BY <2>1, <2>2, <2>3
<1> QED BY <1>0, <1>3, <1>6, <1>8, <1>9, <1>10 DEF Single

LEMMA SingleStep ==
  ASSUME QI, NEW p \in Procs, Frame(p),
         \/ CallPush(p) \/ CallRead(p) \/ CallShovel(p) \/ CallFork(p) \/ CallRemoveFork(p)
         \/ Lock(p) \/ Lock2(p) \/ CallbackPush(p)
         \/ PushBucket(p) \/ PushEnd(p) \/ ReadBucket(p) \/ Pop(p) \/ Peek(p) \/ ReadEnd(p)
         \/ ShovelBucket(p) \/ ShovelEnd(p) \/ ForkBucket(p) \/ ForkEnd(p) \/ RemoveFork(p)
  PROVE  Single'
<1>0. Types /\ Single /\ Others(p)
  BY DEF QI, QueueInv, Frame
<1>1. CASE CallPush(p) \/ CallbackPush(p)
  <2>1. nextId' = nextId + 1 /\ must' = must
    BY <1>1 DEF CallPush, CallbackPush
  <2>2. \A ks : \A x \in Fresh(ks) : x.id = nextId
    BY DEF Fresh
  <2>3. \E ks : loc'[p].items = Fresh(ks)
    <3>1. CASE CallPush(p)
      <4>1. PICK q, ks : loc' = [loc EXCEPT ![p] = [[NoLoc EXCEPT !.op = "push", !.items = Fresh(ks)]
                                                   EXCEPT !.q = q]]
        BY <3>1 DEF CallPush, Call
      <4> QED BY <4>1, LocIs DEF QI, NoLoc
    <3>2. CASE CallbackPush(p)
      <4>1. PICK n, k : loc' = [loc EXCEPT ![p].d = n[2], ![p].items = Fresh({k})]
        BY <3>2 DEF CallbackPush
      <4> QED BY <4>1, LocIs DEF QI, Fields
    <3> QED BY <1>1, <3>1, <3>2
  <2> QED BY <1>0, <2>1, <2>2, <2>3, FreshSingle
<1>2. CASE CallRead(p) \/ CallShovel(p) \/ CallFork(p) \/ CallRemoveFork(p)
  <2>1. UNCHANGED <<nextId, must>>
    BY <1>2 DEF CallRead, CallShovel, CallFork, CallRemoveFork
  <2>2. loc'[p].items = {}
    BY <1>2, LocIs DEF QI, CallRead, CallShovel, CallFork, CallRemoveFork, Call, NoLoc
  <2> QED BY <1>0, <2>1, <2>2, SingleKept
<1>3. CASE Lock(p) \/ Lock2(p)
  <2>1. UNCHANGED <<nextId, must>>
    BY <1>3 DEF Lock, Lock2, Locked
  <2>2. loc'[p].items = loc[p].items
    BY <1>3, LocIs DEF QI, Lock, Lock2, Fields
  <2> QED BY <1>0, <2>1, <2>2, SingleKept
<1>4. CASE PushEnd(p) \/ ReadEnd(p) \/ ShovelEnd(p)
  <2>1. UNCHANGED <<nextId, must>>
    BY <1>4 DEF PushEnd, ReadEnd, ShovelEnd
  <2>2. loc'[p].items \subseteq loc[p].items
    BY <1>4, LocIs DEF QI, PushEnd, ReadEnd, ShovelEnd, Return, NoLoc
  <2> QED BY <1>0, <2>1, <2>2, SingleKept
<1>5. CASE ReadBucket(p) \/ ForkBucket(p)
  <2>1. UNCHANGED <<nextId, must>>
    BY <1>5 DEF ReadBucket, ForkBucket
  <2>2. CASE ReadBucket(p)
    <3>1. \/ loc' = [loc EXCEPT ![p] = NoLoc]
          \/ \E k, out : loc' = [loc EXCEPT ![p].todo = @ \ {k}, ![p].at = {k}, ![p].out = out]
      BY <2>2 DEF ReadBucket, Return
    <3>2. loc'[p].items \subseteq loc[p].items
      <4>1. CASE loc' = [loc EXCEPT ![p] = NoLoc]
        BY <4>1, LocIs DEF QI, NoLoc
      <4>2. ASSUME NEW k, NEW out,
                   loc' = [loc EXCEPT ![p].todo = @ \ {k}, ![p].at = {k}, ![p].out = out]
            PROVE  loc'[p].items \subseteq loc[p].items
        BY <4>2, LocIs DEF QI, Fields
      <4> QED BY <3>1, <4>1, <4>2
    <3> QED BY <1>0, <2>1, <3>2, SingleKept
  <2>3. CASE ForkBucket(p)
    <3>1. loc'[p].items \subseteq loc[p].items
      BY <2>3, LocIs DEF QI, ForkBucket, Fields
    <3> QED BY <1>0, <2>1, <3>1, SingleKept
  <2> QED BY <1>5, <2>2, <2>3
<1>6. CASE Pop(p) \/ Peek(p)
  <2>0. PICK popped : CallbackReturn(p, popped)
    BY <1>6 DEF Pop, Peek
  <2>1. nextId' = nextId /\ must' = [must EXCEPT ![loc[p].q][loc[p].c] = @ \ popped]
    BY <2>0 DEF CallbackReturn
  <2>2. \A q \in Qs : must'[q][Main] \subseteq must[q][Main]
    BY <1>0, <2>1 DEF Types, Consumers
  <2>3. loc'[p].items = loc[p].items
    BY <2>0, LocIs DEF QI, CallbackReturn, Fields
  <2> QED BY <1>0, <2>1, <2>2, <2>3, SingleKept
<1>7. CASE ForkEnd(p) \/ RemoveFork(p)
  <2>1. PICK S : nextId' = nextId /\ must' = [must EXCEPT ![loc[p].q][loc[p].c] = S]
    BY <1>7 DEF ForkEnd, RemoveFork
  <2>2. loc[p].c # Main
    BY <1>7, QueuesAssumption DEF ForkEnd, RemoveFork, QI, QueueInv, Knows
  <2>3. \A q \in Qs : must'[q][Main] \subseteq must[q][Main]
    BY <1>0, <2>1, <2>2 DEF Types, Consumers
  <2>4. loc'[p].items = {}
    <3>1. loc' = [loc EXCEPT ![p] = NoLoc]
      BY <1>7 DEF ForkEnd, RemoveFork, Return
    <3> QED BY <3>1, LocIs DEF QI, NoLoc
  <2> QED BY <1>0, <2>1, <2>3, <2>4, SingleKept
<1> QED BY <1>1, <1>2, <1>3, <1>4, <1>5, <1>6, <1>7, PushSingle, ShovelSingle

-----------------------------------------------------------------------------
(* What a goroutine knows after a step of its own.                         *)

LEMMA IdleKnows ==
  ASSUME LockInv, NEW p \in Procs, Return(p)
  PROVE  Knows(p)' /\ pc'[p] = "idle"
<1>1. pc'[p] = "idle" /\ loc'[p] = NoLoc
  BY LocIs DEF Return, Goto
<1>2. Main \in Consumers
  BY DEF Consumers
<1> QED BY <1>1, <1>2 DEF Knows, NoLoc, Reading

LEMMA CallKnows ==
  ASSUME QI, NEW p \in Procs, CallPush(p) \/ CallRead(p) \/ CallShovel(p) \/ CallRemoveFork(p)
  PROVE  Knows(p)'
<1>0. Types /\ Main \in Consumers /\ Forks \subseteq Consumers
  BY DEF QI, QueueInv, Consumers
<1>1. pc'[p] = "lock"
  BY LocIs DEF QI, CallPush, CallRead, CallShovel, CallRemoveFork, Call, Goto
<1> SUFFICES /\ loc'[p].todo = {} /\ loc'[p].at = {} /\ loc'[p].out = {}
             /\ loc'[p].c \in Consumers /\ loc'[p].items \subseteq Item
             /\ loc'[p].op = "remove" => loc'[p].q \in ForkQs /\ loc'[p].c \in Forks
  BY <1>1 DEF Knows, Reading
<1>2. CASE CallPush(p)
  <2>1. PICK q, ks : /\ ks \subseteq Buckets
                     /\ loc' = [loc EXCEPT ![p] = [[NoLoc EXCEPT !.op = "push", !.items = Fresh(ks)]
                                                   EXCEPT !.q = q]]
    BY <1>2 DEF CallPush, Call
  <2>2. /\ loc'[p].todo = {} /\ loc'[p].at = {} /\ loc'[p].out = {}
        /\ loc'[p].c = Main /\ loc'[p].items = Fresh(ks) /\ loc'[p].op = "push"
    BY <2>1, LocIs DEF QI, NoLoc
  <2>3. Fresh(ks) \subseteq Item
    BY <1>0, <2>1 DEF Fresh, Item, Types
  <2> QED BY <1>0, <2>2, <2>3
<1>3. CASE CallRead(p)
  <2>1. PICK q, c, n : /\ q \in Qs /\ c \in Live(q)
                       /\ loc' = [loc EXCEPT ![p] = [[NoLoc EXCEPT !.op = "read", !.c = c, !.n = n]
                                                     EXCEPT !.q = q]]
    BY <1>3 DEF CallRead, Call
  <2>2. /\ loc'[p].todo = {} /\ loc'[p].at = {} /\ loc'[p].out = {}
        /\ loc'[p].c = c /\ loc'[p].items = {} /\ loc'[p].op = "read"
    BY <2>1, LocIs DEF QI, NoLoc
  <2>3. c \in Consumers
    BY <1>0, <2>1, MainSure
  <2> QED BY <1>0, <2>2, <2>3
<1>4. CASE CallShovel(p)
  <2>1. PICK n : loc' = [loc EXCEPT ![p] = [[NoLoc EXCEPT !.op = "shovel", !.d = n[2]]
                                            EXCEPT !.q = n[1]]]
    BY <1>4 DEF CallShovel, Call
  <2>2. /\ loc'[p].todo = {} /\ loc'[p].at = {} /\ loc'[p].out = {}
        /\ loc'[p].c = Main /\ loc'[p].items = {} /\ loc'[p].op = "shovel"
    BY <2>1, LocIs DEF QI, NoLoc
  <2> QED BY <1>0, <2>2
<1>5. CASE CallRemoveFork(p)
  <2>1. PICK q, f : /\ q \in ForkQs /\ f \in Forks
                    /\ loc' = [loc EXCEPT ![p] = [[NoLoc EXCEPT !.op = "remove", !.c = f]
                                                  EXCEPT !.q = q]]
    BY <1>5 DEF CallRemoveFork, Call, ForkQs
  <2>2. /\ loc'[p].todo = {} /\ loc'[p].at = {} /\ loc'[p].out = {}
        /\ loc'[p].q = q /\ loc'[p].c = f /\ loc'[p].items = {}
    BY <2>1, LocIs DEF QI, NoLoc
  <2> QED BY <1>0, <2>1, <2>2
<1> QED BY <1>2, <1>3, <1>4, <1>5

\* Fork.
LEMMA ForkKnows ==
  ASSUME QI, NEW p \in Procs, CallFork(p) \/ ForkBucket(p)
  PROVE  Knows(p)'
<1>0. pc'[p] = "fork"
  BY LocIs DEF QI, CallFork, ForkBucket, Goto
<1>1. CASE CallFork(p)
  <2>1. PICK q \in ForkQs, f \in Forks :
          loc' = [loc EXCEPT ![p] = [NoLoc EXCEPT !.q = q, !.c = f, !.todo = InTree(q)]]
    BY <1>1 DEF CallFork
  <2>2. /\ loc'[p].q = q /\ loc'[p].c = f /\ loc'[p].todo = InTree(q) /\ loc'[p].at = {}
        /\ loc'[p].items = {} /\ loc'[p].out = {}
    BY <2>1, LocIs DEF QI, NoLoc
  <2>3. InTree(q) \subseteq Buckets /\ f \in Consumers
    BY DEF InTree, Consumers
  <2> QED BY <1>0, <2>1, <2>2, <2>3 DEF Knows, Reading
<1>2. CASE ForkBucket(p)
  <2>1. /\ loc'[p].q = loc[p].q /\ loc'[p].c = loc[p].c /\ loc'[p].todo \subseteq loc[p].todo
        /\ loc'[p].at = loc[p].at /\ loc'[p].items = loc[p].items /\ loc'[p].out = loc[p].out
    BY <1>2, LocIs DEF QI, ForkBucket, Fields
  <2>2. Knows(p) /\ pc[p] = "fork"
    BY <1>2 DEF QI, QueueInv, ForkBucket
  <2> QED BY <1>0, <2>1, <2>2 DEF Knows, Reading
<1> QED BY <1>1, <1>2

\* The mutexes.
LEMMA LockKnows ==
  ASSUME QI, NEW p \in Procs, Lock(p) \/ Lock2(p)
  PROVE  Knows(p)'
<1>0. Knows(p) /\ bucks' = bucks
  BY DEF QI, QueueInv, Lock, Lock2, Locked
<1>1. PICK q : q = loc[p].q
  OBVIOUS
<1>2. InTree(q)' = InTree(q) /\ InTree(q) \subseteq Buckets
  BY <1>0 DEF InTree
<1>3. CASE Lock(p)
  <2>1. /\ loc'[p].q = q /\ loc'[p].c = loc[p].c /\ loc'[p].todo = InTree(q) /\ loc'[p].op = loc[p].op
        /\ loc'[p].at = loc[p].at /\ loc'[p].items = loc[p].items /\ loc'[p].out = loc[p].out
    BY <1>1, <1>3, LocIs DEF QI, Lock, Fields
  <2>2. pc[p] = "lock" /\ loc[p].op \in {"push", "read", "shovel", "remove"}
    BY <1>3 DEF QI, LockInv, Control, Lock
  <2>3. pc'[p] = IF loc[p].op = "shovel" THEN "lock2" ELSE loc[p].op
    BY <1>3, LocIs DEF QI, Lock, Locked, Goto
  <2>4. ~Reading(p)' /\ pc'[p] \notin {"fork", "lock", "shovel"}
    BY <2>1, <2>2, <2>3 DEF Reading
  <2>5. pc'[p] = "remove" => q \in ForkQs /\ loc[p].c \in Forks
    BY <1>0, <1>1, <2>2, <2>3 DEF Knows
  <2> QED BY <1>0, <1>2, <2>1, <2>2, <2>3, <2>4, <2>5 DEF Knows
<1>4. CASE Lock2(p)
  <2>1. pc[p] = "lock2" /\ loc' = loc /\ loc[p].op \in {"shovel", "read"}
    BY <1>4 DEF QI, LockInv, Control, Lock2
  <2>2. pc'[p] = IF loc[p].op = "shovel" THEN "shovel" ELSE "push"
    BY <1>4, LocIs DEF QI, Lock2, Locked, Goto
  <2>3. Reading(p)' = Reading(p)
    BY <2>1, <2>2 DEF Reading
  <2> QED BY <1>0, <1>1, <1>2, <2>1, <2>2, <2>3 DEF Knows
<1> QED BY <1>3, <1>4

\* What a Read knows of its bucket stays while its callback pushes elsewhere.
LEMMA NestedKnows ==
  ASSUME QI, NEW p \in Procs, CallbackPush(p) \/ PushBucket(p) \/ PushEnd(p)
  PROVE  Knows(p)'
<1>0. Knows(p) /\ Types
  BY DEF QI, QueueInv
<1>1. PICK q : q = loc[p].q
  OBVIOUS
<1>2. CASE CallbackPush(p)
  <2>1. PICK n, k : k \in Buckets /\ loc' = [loc EXCEPT ![p].d = n[2], ![p].items = Fresh({k})]
    BY <1>2 DEF CallbackPush
  <2>2. /\ loc'[p].q = q /\ loc'[p].c = loc[p].c /\ loc'[p].todo = loc[p].todo /\ loc'[p].op = loc[p].op
        /\ loc'[p].at = loc[p].at /\ loc'[p].items = Fresh({k}) /\ loc'[p].out = loc[p].out
    BY <1>1, <2>1, LocIs DEF QI, Fields
  <2>3. pc[p] = "callback" /\ pc'[p] = "lock2" /\ loc[p].op = "read" /\ bucks' = bucks
    BY <1>2, LocIs DEF QI, LockInv, Control, CallbackPush, Goto
  <2>4. Fresh({k}) \subseteq Item
    <3>1. k \in Buckets /\ nextId \in Nat
      BY <1>0, <2>1 DEF Types
    <3> QED BY <3>1 DEF Fresh, Item
  <2>5. Reading(p)
    BY <2>3 DEF Reading
  <2> QED BY <1>0, <1>1, <2>2, <2>3, <2>4, <2>5 DEF Knows
<1>3. CASE PushBucket(p)
  <2>1. /\ loc'[p].q = q /\ loc'[p].c = loc[p].c /\ loc'[p].todo = loc[p].todo /\ loc'[p].op = loc[p].op
        /\ loc'[p].at = loc[p].at /\ loc'[p].items \subseteq loc[p].items /\ loc'[p].out = loc[p].out
    BY <1>1, <1>3, LocIs DEF QI, PushBucket, Fields
  <2>2. pc[p] = "push" /\ pc'[p] = "push"
    BY <1>3 DEF PushBucket
  <2>3. Reading(p) => bucks'[q] = bucks[q]
    <3>1. SUFFICES ASSUME loc[p].op = "read" PROVE bucks'[q] = bucks[q]
      BY <2>2 DEF Reading
    <3>2. <<q, loc[p].d>> \in Nested
      BY <1>1, <2>2, <3>1 DEF QI, LockInv, Control
    <3>3. q \in Qs /\ q # loc[p].d
      BY <3>2, NestedApart
    <3> QED BY <1>0, <1>3, <3>1, <3>3 DEF PushBucket, Target, Types
  <2>4. Reading(p)' = Reading(p)
    BY <2>1, <2>2 DEF Reading
  <2> QED BY <1>0, <1>1, <2>1, <2>2, <2>3, <2>4 DEF Knows
<1>4. CASE PushEnd(p)
  <2>1. CASE Return(p)
    BY <2>1, IdleKnows DEF QI
  <2>2. CASE ~Return(p)
    <3>1. loc' = loc /\ pc[p] = "push" /\ pc'[p] = "callback" /\ loc[p].op = "read" /\ bucks' = bucks
      BY <1>4, <2>2, LocIs DEF QI, LockInv, Control, PushEnd, Goto
    <3>2. Reading(p)
      BY <3>1 DEF Reading
    <3> QED BY <1>0, <3>1, <3>2 DEF Knows
  <2> QED BY <2>1, <2>2
<1> QED BY <1>2, <1>3, <1>4

\* Read and Shovel.
LEMMA ReadKnows ==
  ASSUME QI, NEW p \in Procs, ReadBucket(p)
  PROVE  Knows(p)'
<1>0. Knows(p) /\ Types
  BY DEF QI, QueueInv
<1>1. PICK q, k, c : q = loc[p].q /\ k = Lowest(loc[p].todo) /\ c = loc[p].c
  OBVIOUS
<1>2. CASE Return(p)
  BY <1>2, IdleKnows DEF QI
<1>3. CASE ~Return(p)
  <2>1. /\ pc[p] = "read" /\ loc[p].todo # {} /\ bucks' = [bucks EXCEPT ![q][k] = ForKey(q, k)]
        /\ pc' = [pc EXCEPT ![p] = "callback"]
    BY <1>1, <1>3 DEF ReadBucket, Goto
  <2>a. PICK out \in SUBSET ForKey(q, k).has[c] :
          loc' = [loc EXCEPT ![p].todo = @ \ {k}, ![p].at = {k}, ![p].out = out]
    BY <1>1, <1>3 DEF ReadBucket, UpTo
  <2>2. /\ loc'[p].q = q /\ loc'[p].c = c /\ loc'[p].todo = loc[p].todo \ {k}
        /\ loc'[p].at = {k} /\ loc'[p].items = loc[p].items /\ loc'[p].out = out
    BY <1>1, <2>a, LocIs DEF QI, Fields
  <2>3. pc'[p] = "callback"
    BY <2>1, LocIs DEF QI
  <2>4. k \in Buckets /\ q \in Qs /\ q \in Held(pc[p], loc[p]) /\ c \in Consumers
    <3>1. loc[p].todo \subseteq Buckets /\ c \in Consumers
      BY <1>0, <1>1 DEF Knows
    <3>2. k \in Buckets
      BY <1>1, <2>1, <3>1, LowestIn
    <3>3. q \in Qs /\ q \in Held(pc[p], loc[p])
      BY <1>1, <2>1 DEF QI, LockInv, Control, Held
    <3> QED BY <3>1, <3>2, <3>3
  <2>5. Gone(q) = {}
    BY <2>1, <2>4, NotGone
  <2>6. PICK b, S, N, m : b = ForKey(q, k) /\ S = Sure(q) /\ N = Names(q) /\ m = must[q]
    OBVIOUS
  <2>7. b \in QBucket /\ b.st = "open" /\ GoodBucket(b, k, S, N, m, FALSE)
    <3>1. GoodBucket(bucks[q][k], k, Sure(q), Names(q), must[q], FALSE)
      BY <2>4, <2>5, GoodNow
    <3>2. Main \in Sure(q) /\ Sure(q) \subseteq Live(q) /\ Live(q) \subseteq Names(q)
      BY <1>0, <2>4, MainSure
    <3> QED BY <1>0, <2>4, <2>6, <3>1, <3>2, ForKeyGood
  <2>8. \A x \in b.has[Main] : x.b = k
    BY <2>7 DEF GoodBucket
  <2>9. b.has[c] \subseteq Item
    BY <2>4, <2>7 DEF QBucket
  <2>10. bucks'[q][k].st = "open"
    BY <1>0, <2>1, <2>4, <2>6, <2>7 DEF Types
  <2> QED BY <1>0, <2>2, <2>3, <2>4, <2>6, <2>8, <2>9, <2>10 DEF Knows
<1> QED BY <1>2, <1>3

LEMMA MoveKnows ==
  ASSUME QI, NEW p \in Procs, Pop(p) \/ Peek(p) \/ ShovelBucket(p)
  PROVE  Knows(p)'
<1>0. Knows(p) /\ Types
  BY DEF QI, QueueInv
<1>1. CASE Pop(p) \/ Peek(p)
  <2>1. PICK popped : CallbackReturn(p, popped)
    BY <1>1 DEF Pop, Peek
  <2>2. /\ loc'[p].c = loc[p].c /\ loc'[p].todo \subseteq loc[p].todo
        /\ loc'[p].at = {} /\ loc'[p].items = loc[p].items /\ loc'[p].out = {}
    BY <2>1, LocIs DEF QI, CallbackReturn, Fields
  <2>3. pc'[p] = "read"
    BY <2>1, LocIs DEF QI, CallbackReturn, Goto
  <2> QED BY <1>0, <2>2, <2>3 DEF Knows, Reading
<1>2. CASE ShovelBucket(p)
  <2>1. PICK q, d : q = loc[p].q /\ d = loc[p].d
    OBVIOUS
  <2>2. /\ loc'[p].q = q /\ loc'[p].c = loc[p].c /\ loc'[p].todo \subseteq loc[p].todo
        /\ loc'[p].at = loc[p].at /\ loc'[p].items = loc[p].items /\ loc'[p].out = loc[p].out
    BY <1>2, <2>1, LocIs DEF QI, ShovelBucket, Fields
  <2>3. pc[p] = "shovel" /\ pc'[p] = "shovel"
    BY <1>2 DEF ShovelBucket
  <2>4. q \in Qs /\ q # d
    BY <2>1, <2>3, ShovelsAlone
  <2>5. bucks'[q] = bucks[q]
    BY <1>0, <1>2, <2>1, <2>4 DEF ShovelBucket, Types
  <2>6. InTree(q)' = InTree(q)
    BY <2>5 DEF InTree
  <2> QED BY <1>0, <2>1, <2>2, <2>3, <2>6 DEF Knows, Reading
<1> QED BY <1>1, <1>2

-----------------------------------------------------------------------------
(* A Fork that is alone.                                                   *)

LEMMA CallForkAlone ==
  ASSUME QI, NEW p \in Procs, CallFork(p)
  PROVE  GoodFork(p)'
<1>0. Types /\ Others(p) /\ pc[p] = "idle"
  BY ForkFrame DEF Frame, QI, QueueInv, CallFork
<1>1. PICK q \in ForkQs, f \in Forks :
        /\ f \notin forks[q]
        /\ loc' = [loc EXCEPT ![p] = [NoLoc EXCEPT !.q = q, !.c = f, !.todo = InTree(q)]]
        /\ raced' = IF mu[q] = Free /\ Forking(q) = {} THEN raced
                    ELSE [RacedBy(q) EXCEPT ![q] = @ \cup {f}]
  BY DEF CallFork
<1>2. /\ loc'[p].q = q /\ loc'[p].c = f /\ loc'[p].todo = InTree(q) /\ pc'[p] = "fork"
      /\ UNCHANGED <<mu, bucks, forks>>
  BY <1>1, LocIs DEF QI, NoLoc, CallFork, Goto
<1>3. q \in Qs
  BY DEF ForkQs
<1> SUFFICES ASSUME f \notin raced'[q]
             PROVE  /\ mu'[q] = Free /\ Forking(q)' = {p} /\ f \notin forks'[q]
                    /\ \A k \in InTree(q)' : k \in loc'[p].todo /\ f \notin bucks'[q][k].files
  BY <1>2 DEF GoodFork
<1>4. mu[q] = Free /\ Forking(q) = {} /\ raced' = raced
  <2>1. SUFFICES ASSUME ~(mu[q] = Free /\ Forking(q) = {}) PROVE f \in raced'[q]
    BY <1>1
  <2>2. raced' = [RacedBy(q) EXCEPT ![q] = @ \cup {f}]
    BY <1>1, <2>1
  <2> QED BY <1>0, <1>3, <2>2 DEF RacedBy, Types
<1>5. Forking(q)' = {p}
  <2>1. \A r \in Procs \ {p} : r \notin Forking(q)'
    BY <1>0, <1>4 DEF Forking, Others
  <2>2. p \in Forking(q)' /\ Forking(q)' \subseteq Procs
    BY <1>2 DEF Forking
  <2> QED BY <2>1, <2>2
<1>6. InTree(q)' = InTree(q)
  BY <1>2 DEF InTree
<1>7. f \notin Names(q)
  <2>1. Names(q) = Live(q) \cup raced[q]
    BY <1>4 DEF Names
  <2>2. f \notin Live(q) /\ f \notin raced[q]
    BY <1>1, <1>4, QueuesAssumption DEF Live
  <2> QED BY <2>1, <2>2
<1>8. ASSUME NEW k \in Buckets PROVE f \notin bucks[q][k].files
  <2>1. GoodBucket(bucks[q][k], k, Sure(q), Names(q), must[q], k \in Gone(q))
    BY <1>3 DEF QI, QueueInv, GoodQueue
  <2> QED BY <1>7, <2>1 DEF GoodBucket
<1>9. InTree(q) \subseteq Buckets
  BY DEF InTree
<1> QED BY <1>1, <1>2, <1>4, <1>5, <1>6, <1>8, <1>9

LEMMA ForkBucketAlone ==
  ASSUME QI, NEW p \in Procs, ForkBucket(p)
  PROVE  GoodFork(p)'
<1>0. Types /\ Others(p) /\ Knows(p) /\ GoodFork(p)
  BY ForkFrame DEF Frame, QI, QueueInv
<1>1. PICK q, f, k : q = loc[p].q /\ f = loc[p].c /\ k = Lowest(loc[p].todo)
  OBVIOUS
<1>2. /\ pc[p] = "fork" /\ loc[p].todo # {} /\ UNCHANGED <<mu, forks, pc, raced>>
      /\ bucks' = [bucks EXCEPT ![q][k] = Forked(bucks[q][k], f)]
  BY <1>1 DEF ForkBucket
<1>3. loc'[p].q = q /\ loc'[p].c = f /\ loc'[p].todo = loc[p].todo \ {k}
  BY <1>1, LocIs DEF QI, ForkBucket, Fields
<1>4. q \in Qs /\ f \in Forks /\ f # Main
  BY <1>0, <1>1, <1>2, QueuesAssumption DEF Knows, ForkQs
<1>5. k \in loc[p].todo /\ k \in Buckets
  BY <1>0, <1>1, <1>2, LowestIn DEF Knows
<1> SUFFICES ASSUME f \notin raced[q]
             PROVE  /\ mu[q] = Free /\ Forking(q)' = {p} /\ f \notin forks[q]
                    /\ \A j \in InTree(q)' :
                          IF j \in loc'[p].todo THEN f \notin bucks'[q][j].files
                          ELSE ForkedIn(bucks'[q][j], f)
  BY <1>2, <1>3 DEF GoodFork
<1>6. /\ mu[q] = Free /\ Forking(q) = {p} /\ f \notin forks[q]
      /\ \A j \in InTree(q) : IF j \in loc[p].todo THEN f \notin bucks[q][j].files
                              ELSE ForkedIn(bucks[q][j], f)
  BY <1>0, <1>1, <1>2 DEF GoodFork
<1>7. Forking(q)' = {p}
  <2>1. \A r \in Procs \ {p} : r \notin Forking(q)'
    BY <1>0, <1>6 DEF Forking, Others
  <2>2. p \in Forking(q)' /\ Forking(q)' \subseteq Procs
    BY <1>2, <1>3 DEF Forking
  <2> QED BY <2>1, <2>2
<1>8. bucks'[q][k] = Forked(bucks[q][k], f) /\ \A j \in Buckets \ {k} : bucks'[q][j] = bucks[q][j]
  BY <1>0, <1>2, <1>4, <1>5 DEF Types
<1>9. ASSUME NEW j \in InTree(q)'
      PROVE  IF j \in loc'[p].todo THEN f \notin bucks'[q][j].files ELSE ForkedIn(bucks'[q][j], f)
  <2>1. j \in Buckets /\ bucks'[q][j].st # "absent"
    BY DEF InTree
  <2>2. CASE j # k
    <3>1. j \in InTree(q) /\ bucks'[q][j] = bucks[q][j]
      BY <1>8, <2>1, <2>2 DEF InTree
    <3> QED BY <1>3, <1>6, <2>2, <3>1
  <2>3. CASE j = k
    <3>1. PICK b : b = bucks[q][k]
      OBVIOUS
    <3>2. b \in QBucket /\ b.idx \subseteq b.files
      <4>1. GoodBucket(bucks[q][k], k, Sure(q), Names(q), must[q], k \in Gone(q))
        BY <1>4, <1>5 DEF QI, QueueInv, GoodQueue
      <4> QED BY <1>0, <1>4, <1>5, <3>1, <4>1 DEF GoodBucket, Types
    <3>3. b.st # "absent"
      BY <1>8, <2>1, <2>3, <3>1 DEF Forked
    <3>4. f \notin b.files
      BY <1>5, <1>6, <3>1, <3>3 DEF InTree
    <3>5. Forked(b, f) = [b EXCEPT !.files = @ \cup {f}, !.has[f] = b.has[Main],
                                   !.idx = IF b.st = "open" THEN @ \cup {f} ELSE @]
      BY <3>2, <3>3, <3>4 DEF Forked
    <3>6. PICK new : new = Forked(b, f)
      OBVIOUS
    <3>7. /\ f \in new.files /\ (new.st = "open" => f \in new.idx)
          /\ new.has[f] = b.has[Main] /\ new.has[Main] = b.has[Main]
      BY <1>4, <3>2, <3>5, <3>6 DEF QBucket, Consumers
    <3>8. ForkedIn(new, f) /\ j \notin loc'[p].todo
      BY <1>3, <2>3, <3>7 DEF ForkedIn
    <3> QED BY <1>8, <2>3, <3>1, <3>6, <3>8
  <2> QED BY <2>2, <2>3
<1> QED BY <1>6, <1>7, <1>9

-----------------------------------------------------------------------------
(* Types.                                                                  *)

LEMMA BucksTyped ==
  ASSUME Types, \A q \in Qs : \A k \in Buckets : bucks'[q][k] \in QBucket,
         \/ \E t, k, b : bucks' = [bucks EXCEPT ![t][k] = b]
         \/ \E t, f : bucks' = [bucks EXCEPT ![t] = f] /\ f = [k \in Buckets |-> f[k]]
  PROVE  bucks' \in [Qs -> [Buckets -> QBucket]]
<1>1. bucks \in [Qs -> [Buckets -> QBucket]]
  BY DEF Types
<1>2. /\ bucks' = [q \in Qs |-> bucks'[q]]
      /\ \A q \in Qs : bucks'[q] = [k \in Buckets |-> bucks'[q][k]]
  <2>1. ASSUME NEW t, NEW k, NEW b, bucks' = [bucks EXCEPT ![t][k] = b]
        PROVE  /\ bucks' = [q \in Qs |-> bucks'[q]]
               /\ \A q \in Qs : bucks'[q] = [j \in Buckets |-> bucks'[q][j]]
    BY <1>1, <2>1
  <2>2. ASSUME NEW t, NEW f, bucks' = [bucks EXCEPT ![t] = f], f = [k \in Buckets |-> f[k]]
        PROVE  /\ bucks' = [q \in Qs |-> bucks'[q]]
               /\ \A q \in Qs : bucks'[q] = [j \in Buckets |-> bucks'[q][j]]
    BY <1>1, <2>2
  <2> QED BY <2>1, <2>2
<1>3. \A q \in Qs : bucks'[q] \in [Buckets -> QBucket]
  BY <1>2
<1> QED BY <1>2, <1>3

\* The forks that a goroutine gets in the way of are of a queue that has some.
LEMMA RacedTyped ==
  ASSUME QI, NEW q \in Qs
  PROVE  /\ RacedBy(q) \in [Qs -> SUBSET Forks]
         /\ \A x \in Qs \ ForkQs : RacedBy(q)[x] = {}
<1>1. Types /\ \A r \in Forking(q) : q \in ForkQs /\ loc[r].c \in Forks
  BY DEF QI, QueueInv, Knows, Forking
<1>2. PICK C : C = {loc[r].c : r \in Forking(q)}
  OBVIOUS
<1>3. C \subseteq Forks /\ (q \notin ForkQs => C = {})
  BY <1>1, <1>2
<1>4. RacedBy(q) = [raced EXCEPT ![q] = @ \cup C]
  BY <1>2 DEF RacedBy
<1> QED BY <1>1, <1>3, <1>4 DEF Types

LEMMA QuietTypes ==
  ASSUME QI, NEW p \in Procs,
         \/ CallPush(p) \/ CallRead(p) \/ CallShovel(p) \/ CallRemoveFork(p) \/ CallbackPush(p)
         \/ PushEnd(p) \/ ReadEnd(p)
  PROVE  Types'
<1>1. UNCHANGED <<bucks, must, forks, raced>>
  BY QuietFrame
<1>2. Types
  BY DEF QI, QueueInv
<1>3. nextId' \in Nat
  <2>1. nextId' = nextId \/ nextId' = nextId + 1
    BY DEF CallPush, CallRead, CallShovel, CallRemoveFork, CallbackPush, PushEnd, ReadEnd
  <2> QED BY <1>2, <2>1 DEF Types
<1> QED BY <1>1, <1>2, <1>3 DEF Types

LEMMA LockTypes ==
  ASSUME QI, NEW p \in Procs, Lock(p) \/ Lock2(p) \/ CallFork(p)
  PROVE  Types'
<1>1. Types
  BY DEF QI, QueueInv
<1>2. UNCHANGED <<bucks, must, forks, nextId>>
  BY DEF Lock, Lock2, Locked, CallFork
<1>3. CASE Lock(p) \/ Lock2(p)
  <2>1. PICK q : q = IF pc[p] = "lock" THEN loc[p].q ELSE loc[p].d
    OBVIOUS
  <2>2. q \in Qs
    <3>1. CASE Lock(p)
      BY <2>1, <3>1 DEF QI, LockInv, Control, Lock
    <3>2. CASE Lock2(p)
      <4>1. pc[p] = "lock2" /\ <<loc[p].q, loc[p].d>> \in Nested
        BY <3>2 DEF QI, LockInv, Control, Lock2
      <4> QED BY <2>1, <4>1, NestedApart
    <3> QED BY <1>3, <3>1, <3>2
  <2>3. raced' = RacedBy(q)
    BY <1>3, <2>1 DEF Lock, Lock2, Locked
  <2> QED BY <1>1, <1>2, <2>2, <2>3, RacedTyped DEF Types
<1>4. CASE CallFork(p)
  <2>1. PICK q \in ForkQs, f \in Forks :
          raced' = IF mu[q] = Free /\ Forking(q) = {} THEN raced
                   ELSE [RacedBy(q) EXCEPT ![q] = @ \cup {f}]
    BY <1>4 DEF CallFork
  <2>2. q \in Qs
    BY DEF ForkQs
  <2>3. /\ RacedBy(q) \in [Qs -> SUBSET Forks]
        /\ \A x \in Qs \ ForkQs : RacedBy(q)[x] = {}
    BY <2>2, RacedTyped
  <2>4. CASE raced' = raced
    BY <1>1, <1>2, <2>4 DEF Types
  <2>5. CASE raced' # raced
    <3>1. PICK R : R = RacedBy(q)
      OBVIOUS
    <3>2. raced' = [R EXCEPT ![q] = @ \cup {f}]
      BY <2>1, <2>5, <3>1
    <3>3. raced' \in [Qs -> SUBSET Forks]
      BY <2>2, <2>3, <3>1, <3>2
    <3>4. \A x \in Qs \ ForkQs : raced'[x] = {}
      <4>1. \A x \in Qs \ ForkQs : x # q /\ raced'[x] = R[x]
        BY <2>3, <3>1, <3>2
      <4> QED BY <2>3, <3>1, <4>1
    <3> QED BY <1>1, <1>2, <3>3, <3>4 DEF Types
  <2> QED BY <2>4, <2>5
<1> QED BY <1>3, <1>4

\* Steps that change buckets, and nothing of forks.
LEMMA BusyTypes ==
  ASSUME QI, NEW p \in Procs,
         \/ PushBucket(p) \/ ReadBucket(p) \/ Pop(p) \/ Peek(p) \/ ShovelBucket(p) \/ ShovelEnd(p)
         \/ ForkBucket(p),
         \A q \in Qs : \A k \in Buckets : bucks'[q][k] \in QBucket
  PROVE  Types'
<1>0. Types
  BY DEF QI, QueueInv
<1>1. UNCHANGED <<forks, raced, nextId>>
  BY DEF PushBucket, ReadBucket, Pop, Peek, CallbackReturn, ShovelBucket, ShovelEnd, ForkBucket
<1>2. bucks' \in [Qs -> [Buckets -> QBucket]]
  <2>1. CASE PushBucket(p)
    <3>1. \E t, k, b : bucks' = [bucks EXCEPT ![t][k] = b]
      BY <2>1 DEF PushBucket
    <3> QED BY <1>0, <3>1, BucksTyped
  <2>2. CASE ReadBucket(p)
    <3>1. \E t, k, b : bucks' = [bucks EXCEPT ![t][k] = b]
      BY <2>2 DEF ReadBucket
    <3> QED BY <1>0, <3>1, BucksTyped
  <2>3. CASE ShovelBucket(p)
    <3>1. \E t, k, b : bucks' = [bucks EXCEPT ![t][k] = b]
      BY <2>3 DEF ShovelBucket
    <3> QED BY <1>0, <3>1, BucksTyped
  <2>4. CASE ForkBucket(p)
    <3>1. \E t, k, b : bucks' = [bucks EXCEPT ![t][k] = b]
      BY <2>4 DEF ForkBucket
    <3> QED BY <1>0, <3>1, BucksTyped
  <2>5. CASE ShovelEnd(p)
    <3>1. PICK f : f = [k \in Buckets |-> NoBucket]
      OBVIOUS
    <3>2. bucks' = [bucks EXCEPT ![loc[p].q] = f] /\ f = [k \in Buckets |-> f[k]]
      BY <2>5, <3>1 DEF ShovelEnd
    <3> QED BY <1>0, <3>2, BucksTyped
  <2>6. CASE Pop(p) \/ Peek(p)
    <3>1. PICK popped : CallbackReturn(p, popped)
      BY <2>6 DEF Pop, Peek
    <3>2. PICK q : q = loc[p].q
      OBVIOUS
    <3>3. q \in Qs
      BY <3>1, <3>2 DEF CallbackReturn, QI, LockInv, Control
    <3>4. bucks' = [bucks EXCEPT ![q] = bucks'[q]]
      BY <1>0, <3>1, <3>2, <3>3 DEF CallbackReturn, Types
    <3> DEFINE Left(k) == [bucks[loc[p].q][k] EXCEPT !.has[loc[p].c] = @ \ popped]
               New(k) == IF k \in loc[p].at THEN Reaped(Left(k)) ELSE bucks[loc[p].q][k]
    <3>a. bucks' = [bucks EXCEPT ![loc[p].q] = [k \in Buckets |-> New(k)]]
      BY <3>1, Zenon DEF CallbackReturn
    <3> HIDE DEF New
    <3>5. bucks'[q] = [k \in Buckets |-> bucks'[q][k]]
      BY <1>0, <3>2, <3>3, <3>a DEF Types
    <3>6. \E t, f : bucks' = [bucks EXCEPT ![t] = f] /\ f = [k \in Buckets |-> f[k]]
      <4>1. PICK f : f = bucks'[q]
        OBVIOUS
      <4>2. bucks' = [bucks EXCEPT ![q] = f] /\ f = [k \in Buckets |-> f[k]]
        BY <3>4, <3>5, <4>1
      <4> QED BY <4>2
    <3> QED BY <1>0, <3>6, BucksTyped
  <2> QED BY <2>1, <2>2, <2>3, <2>4, <2>5, <2>6
<1>3. must' \in [Qs -> [Consumers -> SUBSET Item]]
  <2>0. must \in [Qs -> [Consumers -> SUBSET Item]]
    BY <1>0 DEF Types
  <2>1. CASE PushBucket(p)
    <3>1. PICK t, T, part :
            /\ part \subseteq loc[p].items
            /\ must' = [must EXCEPT ![t] = [c \in Consumers |-> IF c \in T THEN @[c] \cup part ELSE @[c]]]
      BY <2>1 DEF PushBucket
    <3>2. part \subseteq Item
      BY <3>1 DEF QI, QueueInv, Knows
    <3> QED BY <2>0, <3>1, <3>2
  <2>2. CASE ShovelBucket(p)
    <3>1. PICK s, d, moved :
            /\ s = loc[p].q /\ d = loc[p].d
            /\ moved = {x \in must[s][Main] : x.b = Lowest(loc[p].todo)}
      OBVIOUS
    <3>2. must' = [must EXCEPT ![s][Main] = @ \ moved,
                               ![d] = [c \in Consumers |->
                                          IF c \in Live(d) THEN @[c] \cup moved ELSE @[c]]]
      BY <2>2, <3>1 DEF ShovelBucket
    <3>3. s \in Qs /\ d \in Qs /\ s # d
      BY <2>2, <3>1, ShovelsAlone DEF ShovelBucket
    <3>4. moved \subseteq Item
      BY <2>0, <3>1, <3>3 DEF Consumers
    <3> QED BY <2>0, <3>2, <3>3, <3>4 DEF Consumers
  <2>3. CASE Pop(p) \/ Peek(p)
    <3>1. PICK popped : must' = [must EXCEPT ![loc[p].q][loc[p].c] = @ \ popped]
      BY <2>3 DEF Pop, Peek, CallbackReturn
    <3> QED BY <2>0, <3>1
  <2>4. CASE UNCHANGED must
    BY <2>0, <2>4
  <2> QED BY <2>1, <2>2, <2>3, <2>4 DEF ReadBucket, ForkBucket, ShovelEnd
<1> QED BY <1>0, <1>1, <1>2, <1>3 DEF Types

\* Steps that add or remove a fork.
LEMMA ForkTypes ==
  ASSUME QI, NEW p \in Procs, ForkEnd(p) \/ RemoveFork(p),
         \A q \in Qs : \A k \in Buckets : bucks'[q][k] \in QBucket
  PROVE  Types'
<1>0. Types
  BY DEF QI, QueueInv
<1>1. PICK q, f : q = loc[p].q /\ f = loc[p].c
  OBVIOUS
<1>2. q \in Qs /\ f \in Forks /\ q \in ForkQs
  BY <1>1 DEF QI, LockInv, Control, QueueInv, Knows, ForkEnd, RemoveFork
<1>3. PICK F, S, R : forks' = [forks EXCEPT ![q] = F] /\ must' = [must EXCEPT ![q][f] = S]
                     /\ F \in {forks[q] \cup {f}, forks[q] \ {f}} /\ S \in {{}, must[q][Main]}
                     /\ raced' = [raced EXCEPT ![q] = R] /\ R \subseteq raced[q] \cup {f}
                     /\ nextId' = nextId
  <2>1. CASE ForkEnd(p)
    <3>1. PICK S : S = IF f \in raced[q] THEN {} ELSE must[q][Main]
      OBVIOUS
    <3>2. /\ forks' = [forks EXCEPT ![q] = forks[q] \cup {f}] /\ must' = [must EXCEPT ![q][f] = S]
          /\ UNCHANGED <<raced, nextId>>
      BY <1>1, <2>1, <3>1 DEF ForkEnd
    <3>3. raced' = [raced EXCEPT ![q] = raced[q]]
      BY <1>0, <1>2, <3>2 DEF Types
    <3> QED BY <3>1, <3>2, <3>3
  <2>2. CASE RemoveFork(p)
    <3>1. /\ forks' = [forks EXCEPT ![q] = forks[q] \ {f}] /\ must' = [must EXCEPT ![q][f] = {}]
          /\ nextId' = nextId
      BY <1>1, <2>2 DEF RemoveFork
    <3>2. PICK R : raced' = [raced EXCEPT ![q] = R] /\ R \in {raced[q], raced[q] \cup {f}}
      BY <1>1, <2>2, RacedMore
    <3> QED BY <3>1, <3>2
  <2> QED BY <2>1, <2>2
<1>4. must' \in [Qs -> [Consumers -> SUBSET Item]]
  <2>1. S \subseteq Item
    BY <1>0, <1>2, <1>3 DEF Types, Consumers
  <2> QED BY <1>0, <1>3, <2>1 DEF Types
<1>5. forks' \in [Qs -> SUBSET Forks] /\ raced' \in [Qs -> SUBSET Forks]
  <2>1. F \subseteq Forks /\ R \subseteq Forks
    BY <1>0, <1>2, <1>3 DEF Types
  <2> QED BY <1>0, <1>3, <2>1 DEF Types
<1>6. \A x \in Qs \ ForkQs : forks'[x] = {} /\ raced'[x] = {}
  BY <1>0, <1>2, <1>3 DEF Types
<1>7. bucks' \in [Qs -> [Buckets -> QBucket]]
  <2>1. CASE ForkEnd(p)
    BY <1>0, <2>1 DEF ForkEnd, Types
  <2>2. CASE RemoveFork(p)
    <3>1. bucks' = [bucks EXCEPT ![q] = bucks'[q]] /\ bucks'[q] = [k \in Buckets |-> bucks'[q][k]]
      BY <1>1, <1>2, <2>2, RemovedFrom
    <3> QED BY <1>0, <3>1, BucksTyped
  <2> QED BY <2>1, <2>2
<1> QED BY <1>0, <1>3, <1>4, <1>5, <1>6, <1>7 DEF Types

-----------------------------------------------------------------------------
(* The invariant.                                                          *)

LEMMA InitQueues == Init => QI
<1> SUFFICES ASSUME Init PROVE QI
  OBVIOUS
<1>1. LockInv
  BY InitLocks
<1>2. Main \in Consumers /\ NoBucket \in QBucket
  BY DEF Consumers, NoBucket, QBucket
<1>3. Types
  BY <1>2 DEF Init, Types
<1>4. \A p \in Procs : pc[p] = "idle" /\ loc[p] = NoLoc
  BY DEF Init
<1>5. Single
  <2>1. \A p \in Procs : loc[p].items = {}
    BY <1>4 DEF NoLoc
  <2>2. \A q \in Qs : must[q][Main] = {}
    BY <1>2 DEF Init
  <2> QED BY <2>1, <2>2 DEF Single
<1>6. \A p \in Procs : Knows(p)
  BY <1>2, <1>4 DEF Knows, NoLoc, Reading
<1>7. \A p \in Procs : GoodFork(p)
  BY <1>4 DEF GoodFork
<1>8. ASSUME NEW q \in Qs PROVE GoodQueue(q)
  <2> SUFFICES ASSUME NEW k \in Buckets
               PROVE  GoodBucket(bucks[q][k], k, Sure(q), Names(q), must[q], k \in Gone(q))
    BY DEF GoodQueue
  <2>1. bucks[q][k] = NoBucket /\ \A c \in Consumers : must[q][c] = {}
    BY DEF Init
  <2>2. Sure(q) \subseteq Consumers
    BY <1>3, MainSure
  <2> QED BY <1>2, <2>1, <2>2 DEF GoodBucket, NoBucket
<1> QED BY <1>1, <1>3, <1>5, <1>6, <1>7, <1>8 DEF QI, QueueInv

\* Every step of a goroutine leaves the other ones and the rest of the queues
\* alone, as Frame says.
LEMMA StepFrame ==
  ASSUME QI, NEW p \in Procs,
         \/ CallPush(p) \/ CallRead(p) \/ CallShovel(p) \/ CallFork(p) \/ CallRemoveFork(p)
         \/ Lock(p) \/ Lock2(p) \/ CallbackPush(p)
         \/ PushBucket(p) \/ PushEnd(p) \/ ReadBucket(p) \/ Pop(p) \/ Peek(p) \/ ReadEnd(p)
         \/ ShovelBucket(p) \/ ShovelEnd(p) \/ ForkBucket(p) \/ ForkEnd(p) \/ RemoveFork(p)
  PROVE  Frame(p)
  BY QuietFrame, LockFrame, BusyFrame, ForkFrame

\* The buckets after a step.
LEMMA StepGood ==
  ASSUME QI, NEW p \in Procs,
         \/ CallPush(p) \/ CallRead(p) \/ CallShovel(p) \/ CallFork(p) \/ CallRemoveFork(p)
         \/ Lock(p) \/ Lock2(p) \/ CallbackPush(p)
         \/ PushBucket(p) \/ PushEnd(p) \/ ReadBucket(p) \/ Pop(p) \/ Peek(p) \/ ReadEnd(p)
         \/ ShovelBucket(p) \/ ShovelEnd(p) \/ ForkBucket(p) \/ ForkEnd(p) \/ RemoveFork(p)
  PROVE  Types' /\ \A q \in Qs : GoodQueue(q)'
<1>0. Types
  BY DEF QI, QueueInv
<1>1. CASE \/ CallPush(p) \/ CallRead(p) \/ CallShovel(p) \/ CallRemoveFork(p) \/ CallbackPush(p)
           \/ PushEnd(p) \/ ReadEnd(p)
  BY <1>1, QuietGood, QuietTypes
<1>2. CASE Lock(p) \/ Lock2(p)
  BY <1>2, LockGood, LockTypes
<1>3. CASE CallFork(p)
  BY <1>3, CallForkGood, LockTypes
<1>4. CASE PushBucket(p)
  BY <1>4, PushGood, BusyTypes
<1>5. CASE ReadBucket(p)
  BY <1>5, ReadGood, BusyTypes
<1>6. CASE Pop(p) \/ Peek(p)
  <2>1. PICK popped : CallbackReturn(p, popped) /\ popped \subseteq loc[p].out
    BY <1>6 DEF Pop, Peek
  <2> QED BY <1>6, <2>1, ReturnGood, BusyTypes
<1>7. CASE ShovelBucket(p)
  BY <1>7, ShovelBucketGood, BusyTypes
<1>8. CASE ShovelEnd(p)
  BY <1>8, ShovelEndGood, BusyTypes
<1>9. CASE ForkBucket(p)
  BY <1>9, ForkBucketGood, BusyTypes
<1>10. CASE ForkEnd(p)
  <2>1. \A q \in Qs : \A k \in Buckets : bucks'[q][k] \in QBucket
    BY <1>0, <1>10 DEF Types, ForkEnd
  <2> QED BY <1>10, <2>1, ForkEndGood, ForkTypes
<1>11. CASE RemoveFork(p)
  BY <1>11, RemoveForkGood, ForkTypes
<1> QED BY <1>1, <1>2, <1>3, <1>4, <1>5, <1>6, <1>7, <1>8, <1>9, <1>10, <1>11

\* The goroutine that takes the step.
LEMMA StepKnows ==
  ASSUME QI, NEW p \in Procs,
         \/ CallPush(p) \/ CallRead(p) \/ CallShovel(p) \/ CallFork(p) \/ CallRemoveFork(p)
         \/ Lock(p) \/ Lock2(p) \/ CallbackPush(p)
         \/ PushBucket(p) \/ PushEnd(p) \/ ReadBucket(p) \/ Pop(p) \/ Peek(p) \/ ReadEnd(p)
         \/ ShovelBucket(p) \/ ShovelEnd(p) \/ ForkBucket(p) \/ ForkEnd(p) \/ RemoveFork(p)
  PROVE  Knows(p)' /\ GoodFork(p)'
<1>0. LockInv
  BY DEF QI
<1>1. CASE CallFork(p) \/ ForkBucket(p)
  BY <1>1, ForkKnows, CallForkAlone, ForkBucketAlone
<1>2. CASE ReadEnd(p) \/ ShovelEnd(p) \/ ForkEnd(p) \/ RemoveFork(p)
  <2>1. Return(p)
    BY <1>2 DEF ReadEnd, ShovelEnd, ForkEnd, RemoveFork
  <2>2. Knows(p)' /\ pc'[p] = "idle"
    BY <1>0, <2>1, IdleKnows
  <2> QED BY <2>2 DEF GoodFork
<1>3. CASE \/ CallPush(p) \/ CallRead(p) \/ CallShovel(p) \/ CallRemoveFork(p) \/ CallbackPush(p)
           \/ PushEnd(p)
  <2>1. pc'[p] # "fork"
    BY <1>3, QuietFrame
  <2>2. Knows(p)'
    BY <1>3, CallKnows, NestedKnows
  <2> QED BY <2>1, <2>2 DEF GoodFork
<1>4. CASE Lock(p) \/ Lock2(p)
  <2>1. pc'[p] # "fork"
    BY <1>0, <1>4, LocIs DEF Lock, Lock2, Locked, Goto, LockInv, Control
  <2> QED BY <1>4, <2>1, LockKnows DEF GoodFork
<1>5. CASE PushBucket(p) \/ ShovelBucket(p)
  <2>1. pc'[p] # "fork"
    BY <1>5 DEF PushBucket, ShovelBucket
  <2> QED BY <1>5, <2>1, NestedKnows, MoveKnows DEF GoodFork
<1>6. CASE ReadBucket(p) \/ Pop(p) \/ Peek(p)
  <2>1. pc'[p] # "fork"
    BY <1>0, <1>6, LocIs DEF ReadBucket, Pop, Peek, CallbackReturn, Goto, Return
  <2> QED BY <1>6, <2>1, ReadKnows, MoveKnows DEF GoodFork
<1> QED BY <1>1, <1>2, <1>3, <1>4, <1>5, <1>6

LEMMA QueueStep == QI /\ [Next]_vars => QI'
<1> SUFFICES ASSUME QI, [Next]_vars PROVE QI'
  OBVIOUS
<1>1. LockInv'
  BY LockStep DEF QI
<1>2. CASE UNCHANGED vars
  <2>1. QueueInv'
    BY <1>2 DEF QI, QueueInv, vars, Types, Single, Knows, GoodFork, GoodQueue, GoodBucket, Reading,
       InTree, Sure, Names, Live, Gone, Forking, ForkedIn, Loaded
  <2> QED BY <1>1, <2>1 DEF QI
<1>3. CASE Next
  <2>1. PICK p \in Procs :
          \/ CallPush(p) \/ CallRead(p) \/ CallShovel(p) \/ CallFork(p) \/ CallRemoveFork(p)
          \/ Lock(p) \/ Lock2(p) \/ CallbackPush(p)
          \/ PushBucket(p) \/ PushEnd(p) \/ ReadBucket(p) \/ Pop(p) \/ Peek(p) \/ ReadEnd(p)
          \/ ShovelBucket(p) \/ ShovelEnd(p) \/ ForkBucket(p) \/ ForkEnd(p) \/ RemoveFork(p)
    BY <1>3 DEF Next
  <2>2. Frame(p)
    BY <2>1, StepFrame
  <2>3. Types' /\ \A q \in Qs : GoodQueue(q)'
    BY <2>1, StepGood
  <2>4. Single'
    BY <2>1, <2>2, SingleStep
  <2>5. \A r \in Procs : Knows(r)' /\ GoodFork(r)'
    BY <1>1, <2>1, <2>2, StepKnows, OthersKnow, OthersFork
  <2> QED BY <1>1, <2>3, <2>4, <2>5 DEF QI, QueueInv
<1> QED BY <1>2, <1>3

-----------------------------------------------------------------------------
(* A consumer finds no more than it has to get, and what Shovel gave it    *)
(* once more.                                                              *)

Of(k) == {x \in Item : x.b = k}
Due(q) == [c \in Consumers |-> must[q][c] \cup again[q][c]]

\* A bucket b of key k has items of its own key, and for the forks in S none
\* that they are not due.
Bounded(b, k, S, a) ==
    /\ b.log \subseteq Of(k)
    /\ \A c \in Consumers : b.has[c] \subseteq Of(k)
    /\ \A c \in S \ {Main} : Loaded(b, c) \subseteq a[c]

BoundedQueue(q) == \A k \in Buckets : Bounded(bucks[q][k], k, Sure(q), Due(q))

\* What a callback got is of the bucket that it is popped from.
OutHere(p) == Reading(p) => \A x \in loc[p].out : x.b \in loc[p].at

\* A Fork that nobody interfered with has copied nothing else than the queue's
\* own items.
ForkedFrom(p) ==
    LET q == loc[p].q
        f == loc[p].c
    IN  pc[p] = "fork" /\ f \notin raced[q] =>
            \A k \in InTree(q) \ loc[p].todo : bucks[q][k].has[f] \subseteq bucks[q][k].has[Main]

BoundedInv ==
    /\ again \in [Qs -> [Consumers -> SUBSET Item]]
    /\ \A q \in Qs : BoundedQueue(q)
    /\ \A p \in Procs : OutHere(p) /\ ForkedFrom(p)

BI == QI /\ BoundedInv

LEMMA BoundedMono ==
  ASSUME NEW b, NEW k, NEW S, NEW T, NEW a, NEW n, Bounded(b, k, S, a), T \subseteq S,
         \A c \in T \ {Main} : a[c] \cap Of(k) \subseteq n[c], T \subseteq Consumers,
         b \in QBucket
  PROVE  Bounded(b, k, T, n)
<1>1. \A c \in T \ {Main} : Loaded(b, c) \subseteq a[c] /\ Loaded(b, c) \subseteq Of(k)
  BY DEF Bounded, Loaded
<1> QED BY <1>1 DEF Bounded

LEMMA BoundedNone ==
  ASSUME NEW k, NEW S, NEW a, S \subseteq Consumers
  PROVE  Bounded(NoBucket, k, S, a)
  BY DEF Bounded, NoBucket, Loaded

LEMMA BoundedForKey ==
  ASSUME Types, NEW q \in Qs, NEW k \in Buckets, NEW S, NEW a,
         Bounded(bucks[q][k], k, S, a), S \subseteq Live(q)
  PROVE  Bounded(ForKey(q, k), k, S, a)
<1>1. PICK b : b = bucks[q][k]
  OBVIOUS
<1>2. b \in QBucket /\ Bounded(b, k, S, a)
  BY <1>1 DEF Types
<1>3. CASE b.st = "open"
  <2>1. ForKey(q, k) = b
    BY <1>1, <1>3 DEF ForKey
  <2> QED BY <1>2, <2>1
<1>4. CASE b.st # "open"
  <2>1. PICK has : has = [c \in Consumers |-> IF c \in Live(q) THEN Loaded(b, c) ELSE b.has[c]]
    OBVIOUS
  <2>2. PICK log : log = IF \A c \in Live(q) : has[c] = {} THEN {} ELSE b.log
    OBVIOUS
  <2>3. ForKey(q, k) = [st |-> "open", idx |-> Live(q), files |-> b.files \cup Live(q),
                        log |-> log, has |-> has]
    BY <1>1, <1>4, <2>1, <2>2 DEF ForKey
  <2>4. Live(q) \subseteq Consumers
    BY MainSure
  <2>5. \A c \in Consumers : Loaded(b, c) \subseteq Of(k)
    BY <1>2 DEF Loaded, Bounded
  <2>6. \A c \in Consumers : has[c] \subseteq Of(k)
    BY <1>2, <2>1, <2>5 DEF Bounded
  <2>7. log \subseteq Of(k)
    BY <1>2, <2>2 DEF Bounded
  <2>8. \A c \in S \ {Main} : has[c] \subseteq a[c]
    BY <1>2, <2>1, <2>4 DEF Bounded
  <2> QED BY <2>3, <2>6, <2>7, <2>8 DEF Bounded, Loaded
<1> QED BY <1>3, <1>4

LEMMA BoundedAdded ==
  ASSUME NEW b \in QBucket, b.st = "open", NEW k, NEW S, NEW a, NEW n, Bounded(b, k, S, a),
         S \subseteq Consumers, NEW part, PartOf(part, k), NEW new, new = Added(b, part),
         \A c \in S \ {Main} : a[c] \cup part \subseteq n[c]
  PROVE  Bounded(new, k, S, n)
<1>0. part \subseteq Of(k)
  BY DEF PartOf, Of
<1>1. PICK has : has = [c \in Consumers |-> IF c \in b.idx THEN b.has[c] \cup part ELSE b.has[c]]
  OBVIOUS
<1>2. new.st = "open" /\ new.log = b.log \cup part /\ new.has = has
  BY <1>1 DEF QBucket, Added
<1>3. \A c \in Consumers : has[c] \subseteq b.has[c] \cup part
  BY <1>1
<1>4. \A c \in Consumers : has[c] \subseteq Of(k)
  BY <1>0, <1>3 DEF Bounded
<1>5. \A c \in S \ {Main} : has[c] \subseteq n[c]
  <2>1. \A c \in S \ {Main} : b.has[c] \subseteq a[c]
    BY DEF Bounded, Loaded
  <2> QED BY <1>3, <2>1
<1> QED BY <1>0, <1>2, <1>4, <1>5 DEF Bounded, Loaded

LEMMA BoundedPopped ==
  ASSUME NEW b \in QBucket, b.st = "open", NEW k, NEW S, NEW a, NEW n, Bounded(b, k, S, a),
         S \subseteq Consumers, NEW c \in Consumers, NEW popped, NEW new,
         new = LeftOf(b, c, popped), Popped(n, a, c, popped)
  PROVE  Bounded(new, k, S, n)
<1>1. PICK has : has = [b.has EXCEPT ![c] = @ \ popped]
  OBVIOUS
<1>2. new.st = "open" /\ new.log = b.log /\ new.has = has
  BY <1>1 DEF QBucket, LeftOf
<1>3. \A e \in Consumers : has[e] = IF e = c THEN b.has[e] \ popped ELSE b.has[e]
  BY <1>1 DEF QBucket
<1>4. \A e \in Consumers : n[e] = IF e = c THEN a[e] \ popped ELSE a[e]
  BY DEF Popped
<1>5. \A e \in Consumers : has[e] \subseteq Of(k)
  BY <1>3 DEF Bounded
<1>6. \A e \in S \ {Main} : has[e] \subseteq n[e]
  <2>1. \A e \in S \ {Main} : b.has[e] \subseteq a[e]
    BY DEF Bounded, Loaded
  <2> QED BY <1>3, <1>4, <2>1
<1> QED BY <1>2, <1>5, <1>6 DEF Bounded, Loaded

LEMMA BoundedWithout ==
  ASSUME NEW b \in QBucket, NEW k, NEW S, NEW a, Bounded(b, k, S, a), S \subseteq Consumers,
         NEW f \in Forks, f \notin S, NEW new, new = Without(b, f)
  PROVE  Bounded(new, k, S, a)
<1>1. PICK has : has = [b.has EXCEPT ![f] = {}]
  OBVIOUS
<1>2. new.st = b.st /\ new.files = b.files \ {f} /\ new.log = b.log /\ new.has = has
  BY <1>1 DEF QBucket, Without
<1>3. \A e \in Consumers : has[e] = IF e = f THEN {} ELSE b.has[e]
  BY <1>1 DEF QBucket
<1>4. \A e \in Consumers : has[e] \subseteq Of(k)
  BY <1>3 DEF Bounded
<1>5. \A c \in S : Loaded(new, c) = Loaded(b, c)
  BY <1>2, <1>3 DEF Loaded
<1> QED BY <1>2, <1>4, <1>5 DEF Bounded

LEMMA BoundedForked ==
  ASSUME NEW b \in QBucket, NEW k, NEW S, NEW a, Bounded(b, k, S, a), S \subseteq Consumers,
         NEW f \in Forks, f \notin S
  PROVE  Bounded(Forked(b, f), k, S, a)
<1>1. CASE Forked(b, f) = b
  BY <1>1
<1>2. CASE Forked(b, f) # b
  <2>1. PICK new : new = [b EXCEPT !.files = @ \cup {f}, !.has[f] = b.has[Main],
                                   !.idx = IF b.st = "open" THEN @ \cup {f} ELSE @]
    OBVIOUS
  <2>2. Forked(b, f) = new
    BY <1>2, <2>1 DEF Forked
  <2>3. PICK has : has = [b.has EXCEPT ![f] = b.has[Main]]
    OBVIOUS
  <2>4. new.st = b.st /\ new.files = b.files \cup {f} /\ new.log = b.log /\ new.has = has
    BY <2>1, <2>3 DEF QBucket
  <2>5. \A e \in Consumers : has[e] = IF e = f THEN b.has[Main] ELSE b.has[e]
    BY <2>3 DEF QBucket
  <2>6. Main \in Consumers
    BY DEF Consumers
  <2>7. \A e \in Consumers : has[e] \subseteq Of(k)
    BY <2>5, <2>6 DEF Bounded
  <2>8. \A c \in S : Loaded(new, c) = Loaded(b, c)
    BY <2>4, <2>5 DEF Loaded
  <2> QED BY <2>2, <2>4, <2>7, <2>8 DEF Bounded
<1> QED BY <1>1, <1>2

\* What is shovelled in; the forks of the destination are due all of dat.log.
LEMMA BoundedShovel ==
  ASSUME Types, NEW d \in Qs, NEW k \in Buckets, NEW b \in QBucket, b.files = {Main},
         NEW Q, NEW R, NEW m, GoodBucket(b, k, Q, R, m, FALSE),
         NEW N, GoodBucket(bucks[d][k], k, Sure(d), N, must[d], FALSE), Live(d) \subseteq N,
         NEW S, NEW a, NEW n, Bounded(b, k, {}, a), Bounded(bucks[d][k], k, S, a), S = Sure(d),
         \A c \in S \ {Main} : a[c] \cup b.has[Main] \subseteq n[c],
         bucks[d][k].st = "absent" => \A c \in S \ {Main} : b.log \subseteq n[c]
  PROVE  Bounded(ShovelInto(b, d, k), k, S, n)
<1>1. /\ Main \in Sure(d) /\ Sure(d) \subseteq Live(d) /\ Live(d) \subseteq Consumers
  BY MainSure
<1>2. CASE bucks[d][k].st = "absent"
  <2>1. PICK new : new = [b EXCEPT !.st = "nil", !.idx = {}]
    OBVIOUS
  <2>2. ShovelInto(b, d, k) = new
    BY <1>2, <2>1 DEF ShovelInto
  <2>3. /\ new.st = "nil" /\ new.files = {Main} /\ new.log = b.log /\ new.has = b.has
    BY <2>1 DEF QBucket
  <2>4. \A c \in S \ {Main} : Loaded(new, c) = b.log
    BY <2>3 DEF Loaded
  <2> QED BY <1>2, <2>2, <2>3, <2>4 DEF Bounded
<1>3. CASE bucks[d][k].st # "absent"
  <2>1. PICK to, part, new : to = ForKey(d, k) /\ part = b.has[Main] /\ new = ShovelInto(b, d, k)
    OBVIOUS
  <2>2. to \in QBucket /\ to.st = "open"
    BY <1>1, <2>1, ForKeyGood
  <2>3. Bounded(to, k, S, a)
    BY <1>1, <2>1, BoundedForKey
  <2>4. Loaded(b, Main) = part
    BY <2>1, LoadedMain
  <2>5. new = Added(to, part)
    BY <1>3, <2>1, <2>4 DEF ShovelInto, Added
  <2>6. PartOf(part, k)
    <3>1. part \subseteq Of(k)
      BY <2>1 DEF Bounded, Consumers
    <3> QED BY <3>1 DEF PartOf, Of
  <2>7. S \subseteq Consumers /\ \A c \in S \ {Main} : a[c] \cup part \subseteq n[c]
    BY <1>1, <2>1
  <2>8. Bounded(new, k, S, n)
    BY <2>2, <2>3, <2>5, <2>6, <2>7, BoundedAdded
  <2> QED BY <2>1, <2>8
<1> QED BY <1>2, <1>3

\* A queue that a step leaves alone, or in which its consumers are only due more.
LEMMA BoundedKept ==
  ASSUME BI, NEW q \in Qs, bucks'[q] = bucks[q], Sure(q)' \subseteq Sure(q),
         \A c \in Sure(q) \ {Main} : must[q][c] \subseteq must'[q][c] /\ again[q][c] \subseteq again'[q][c]
  PROVE  BoundedQueue(q)'
<1>0. Types /\ BoundedQueue(q)
  BY DEF BI, QI, QueueInv, BoundedInv
<1>1. Sure(q) \subseteq Consumers
  BY <1>0, MainSure
<1>2. PICK S, T, a, n : S = Sure(q) /\ T = Sure(q)' /\ a = Due(q) /\ n = Due(q)'
  OBVIOUS
<1>3. T \subseteq S /\ T \subseteq Consumers /\ \A c \in T \ {Main} : a[c] \subseteq n[c]
  BY <1>1, <1>2 DEF Due
<1> SUFFICES ASSUME NEW k \in Buckets PROVE Bounded(bucks[q][k], k, T, n)
  BY <1>2 DEF BoundedQueue
<1>4. bucks[q][k] \in QBucket /\ Bounded(bucks[q][k], k, S, a)
  BY <1>0, <1>2 DEF Types, BoundedQueue
<1> QED BY <1>3, <1>4, BoundedMono

\* A queue of which p neither holds the mutex nor makes a fork, and whose
\* forks are due what they were.
LEMMA BoundedElsewhere ==
  ASSUME BI, NEW p \in Procs, Others(p), NEW q \in Qs, raced[q] \subseteq raced'[q],
         bucks'[q] = bucks[q], must'[q] = must[q], again'[q] = again[q], forks'[q] = forks[q],
         ~(pc[p] = "fork" /\ loc[p].q = q)
  PROVE  BoundedQueue(q)'
<1>1. Sure(q)' \subseteq Sure(q)
  BY NamesKept
<1> QED BY <1>1, BoundedKept

\* Steps that change no bucket.
LEMMA BoundedQuiet ==
  ASSUME BI, NEW p \in Procs,
         \/ CallPush(p) \/ CallRead(p) \/ CallShovel(p) \/ CallFork(p) \/ CallRemoveFork(p)
         \/ Lock(p) \/ Lock2(p) \/ CallbackPush(p) \/ PushEnd(p) \/ ReadEnd(p)
  PROVE  again' = again /\ \A q \in Qs : BoundedQueue(q)'
<1>1. UNCHANGED <<bucks, must, again, forks>> /\ pc[p] # "fork"
  BY DEF CallPush, CallRead, CallShovel, CallFork, CallRemoveFork, Lock, Lock2, CallbackPush,
     PushEnd, ReadEnd, Locked, Call
<1>2. Others(p) /\ \A q \in Qs : raced[q] \subseteq raced'[q]
  BY QuietFrame, LockFrame, ForkFrame DEF BI, Frame
<1> QED BY <1>1, <1>2, BoundedElsewhere

LEMMA BoundedPush ==
  ASSUME BI, NEW p \in Procs, PushBucket(p), NEW q \in Qs
  PROVE  BoundedQueue(q)'
<1>0. QI /\ Types
  BY DEF BI, QI, QueueInv
<1>1. PICK t, k, part, b :
        /\ t = Target(p) /\ k = Lowest({x.b : x \in loc[p].items})
        /\ part = {x \in loc[p].items : x.b = k} /\ b = ForKey(t, k)
  OBVIOUS
<1>2. /\ Frame(p) /\ pc[p] = "push" /\ UNCHANGED <<forks, raced, pc, again>> /\ loc[p].items # {}
  BY <1>0, BusyFrame DEF PushBucket
<1>3. t \in Qs /\ t \in Held(pc[p], loc[p])
  <2>1. loc[p].q \in Qs /\ (loc[p].op # "push" => <<loc[p].q, loc[p].d>> \in Nested)
    BY <1>0, <1>2 DEF QI, LockInv, Control
  <2>2. loc[p].op # "push" => loc[p].d \in Qs
    BY <2>1, NestedApart
  <2> QED BY <1>1, <1>2, <2>1, <2>2 DEF Target, Held
<1>4. loc[p].items \subseteq Item
  BY <1>0 DEF QI, QueueInv, Knows
<1>5. k \in Buckets /\ PartOf(part, k)
  <2>1. {x.b : x \in loc[p].items} \subseteq Buckets /\ {x.b : x \in loc[p].items} # {}
    BY <1>2, <1>4 DEF Item
  <2>2. k \in {x.b : x \in loc[p].items}
    BY <1>1, <2>1, LowestIn
  <2> QED BY <1>1, <1>4, <2>1, <2>2 DEF PartOf
<1>6. PICK new, T, S, a, n : /\ new = Added(b, part) /\ T = Live(t) \ raced[t] /\ S = Sure(t)
                             /\ a = Due(t) /\ n = Due(t)'
  OBVIOUS
<1>7. /\ bucks' = [bucks EXCEPT ![t][k] = new]
      /\ must' = [must EXCEPT ![t] = [c \in Consumers |-> IF c \in T THEN @[c] \cup part ELSE @[c]]]
  BY <1>1, <1>6 DEF PushBucket, Added
<1>8. /\ Main \in Sure(t) /\ Sure(t) \subseteq Live(t) /\ Live(t) \subseteq Names(t)
      /\ S \subseteq Consumers /\ Sure(t) = T
  BY <1>0, <1>3, <1>6, MainSure DEF Sure
<1>9. Gone(t) = {}
  BY <1>0, <1>2, <1>3, NotGone
<1>10. b \in QBucket /\ b.st = "open"
  BY <1>0, <1>1, <1>3, <1>5, <1>8, <1>9, GoodNow, ForKeyGood
<1>11. \A j \in Buckets : bucks[t][j] \in QBucket /\ Bounded(bucks[t][j], j, S, a)
  BY <1>0, <1>3, <1>6 DEF BI, BoundedInv, BoundedQueue, Types
<1>12. Bounded(b, k, S, a)
  BY <1>0, <1>1, <1>3, <1>5, <1>6, <1>8, <1>11, BoundedForKey
<1>13. \A c \in S : a[c] \cup part \subseteq n[c]
  <2>1. \A c \in S : must'[t][c] = must[t][c] \cup part
    BY <1>0, <1>3, <1>6, <1>7, <1>8 DEF Types
  <2>2. \A c \in S : a[c] = must[t][c] \cup again[t][c] /\ n[c] = must'[t][c] \cup again[t][c]
    BY <1>2, <1>6, <1>8 DEF Due
  <2> QED BY <2>1, <2>2
<1>14. Bounded(new, k, S, n)
  BY <1>5, <1>6, <1>8, <1>10, <1>12, <1>13, BoundedAdded
<1>15. bucks'[t][k] = new /\ \A j \in Buckets \ {k} : bucks'[t][j] = bucks[t][j]
  BY <1>0, <1>3, <1>5, <1>7 DEF Types
<1>16. Sure(t)' = S
  BY <1>2, <1>6 DEF Sure, Live
<1>17. CASE q = t
  <2> SUFFICES ASSUME NEW j \in Buckets PROVE Bounded(bucks'[t][j], j, S, n)
    BY <1>6, <1>16, <1>17 DEF BoundedQueue
  <2>1. CASE j = k
    BY <1>14, <1>15, <2>1
  <2>2. CASE j # k
    <3>1. Bounded(bucks[t][j], j, S, n)
      BY <1>8, <1>11, <1>13, BoundedMono
    <3> QED BY <1>15, <2>2, <3>1
  <2> QED BY <2>1, <2>2
<1>18. CASE q # t
  <2>1. bucks'[q] = bucks[q] /\ must'[q] = must[q]
    BY <1>0, <1>7, <1>18 DEF Types
  <2> QED BY <1>2, <2>1, BoundedElsewhere DEF Frame
<1> QED BY <1>17, <1>18

LEMMA BoundedRead ==
  ASSUME BI, NEW p \in Procs, ReadBucket(p), NEW q \in Qs
  PROVE  /\ BoundedQueue(q)'
         /\ loc[p].q = q => Bounded(ForKey(q, Lowest(loc[p].todo)), Lowest(loc[p].todo), Sure(q), Due(q))
<1>0. QI /\ Types
  BY DEF BI, QI, QueueInv
<1>1. PICK t, k : t = loc[p].q /\ k = Lowest(loc[p].todo)
  OBVIOUS
<1>2. /\ Frame(p) /\ pc[p] = "read" /\ UNCHANGED <<forks, must, raced, again>> /\ loc[p].todo # {}
      /\ bucks' = [bucks EXCEPT ![t][k] = ForKey(t, k)]
  BY <1>0, <1>1, BusyFrame DEF ReadBucket
<1>3. t \in Qs
  BY <1>0, <1>1, <1>2 DEF QI, LockInv, Control
<1>4. k \in Buckets
  BY <1>0, <1>1, <1>2, LowestIn DEF QI, QueueInv, Knows
<1>5. Sure(t)' = Sure(t) /\ Due(t)' = Due(t)
  BY <1>2 DEF Sure, Live, Due
<1>6. \A j \in Buckets : Bounded(bucks[t][j], j, Sure(t), Due(t))
  BY <1>3 DEF BI, BoundedInv, BoundedQueue
<1>7. Bounded(ForKey(t, k), k, Sure(t), Due(t))
  <2>1. Sure(t) \subseteq Live(t)
    BY <1>0, <1>3, MainSure
  <2>2. PICK S, a : S = Sure(t) /\ a = Due(t)
    OBVIOUS
  <2> QED BY <1>0, <1>3, <1>4, <1>6, <2>1, <2>2, BoundedForKey
<1>8. bucks'[t][k] = ForKey(t, k) /\ \A j \in Buckets \ {k} : bucks'[t][j] = bucks[t][j]
  BY <1>0, <1>2, <1>3, <1>4 DEF Types
<1>9. CASE q = t
  <2>1. ASSUME NEW j \in Buckets PROVE Bounded(bucks'[t][j], j, Sure(t)', Due(t)')
    <3>1. CASE j = k
      BY <1>5, <1>7, <1>8, <3>1
    <3>2. CASE j # k
      BY <1>5, <1>6, <1>8, <3>2
    <3> QED BY <3>1, <3>2
  <2> QED BY <1>1, <1>7, <1>9, <2>1 DEF BoundedQueue
<1>10. CASE q # t
  <2>1. bucks'[q] = bucks[q]
    BY <1>0, <1>2, <1>10 DEF Types
  <2> QED BY <1>1, <1>2, <1>10, <2>1, BoundedElsewhere DEF Frame
<1> QED BY <1>9, <1>10

LEMMA BoundedReturn ==
  ASSUME BI, NEW p \in Procs, NEW popped, CallbackReturn(p, popped), popped \subseteq loc[p].out,
         Pop(p) \/ Peek(p), NEW q \in Qs
  PROVE  BoundedQueue(q)' /\ again' \in [Qs -> [Consumers -> SUBSET Item]]
<1>0. QI /\ Types /\ again \in [Qs -> [Consumers -> SUBSET Item]]
  BY DEF BI, QI, QueueInv, BoundedInv
<1>1. PICK t, c : t = loc[p].q /\ c = loc[p].c
  OBVIOUS
<1>2. /\ Frame(p) /\ pc[p] = "callback" /\ UNCHANGED <<forks, raced>>
      /\ must' = [must EXCEPT ![t][c] = @ \ popped] /\ again' = [again EXCEPT ![t][c] = @ \ popped]
  BY <1>0, <1>1, BusyFrame DEF CallbackReturn
<1>3. t \in Qs
  BY <1>0, <1>1, <1>2 DEF QI, LockInv, Control
<1>4. /\ c \in Consumers /\ loc[p].at \subseteq Buckets
      /\ \A k \in loc[p].at : bucks[t][k].st = "open"
      /\ \A x \in popped : x.b \in loc[p].at
  BY <1>0, <1>1, <1>2 DEF BI, BoundedInv, OutHere, QI, QueueInv, Knows, Reading
<1>5. PICK S, a, n : S = Sure(t) /\ a = Due(t) /\ n = Due(t)'
  OBVIOUS
<1>6. S \subseteq Consumers /\ Sure(t)' = S
  BY <1>0, <1>2, <1>3, <1>5, MainSure DEF Sure, Live
<1>7. Popped(n, a, c, popped)
  <2>1. must'[t][c] = must[t][c] \ popped /\ \A e \in Consumers \ {c} : must'[t][e] = must[t][e]
    BY <1>0, <1>2, <1>3, <1>4 DEF Types
  <2>2. again'[t][c] = again[t][c] \ popped /\ \A e \in Consumers \ {c} : again'[t][e] = again[t][e]
    BY <1>0, <1>2, <1>3, <1>4
  <2>3. \A e \in Consumers : a[e] = must[t][e] \cup again[t][e] /\ n[e] = must'[t][e] \cup again'[t][e]
    BY <1>5 DEF Due
  <2>4. n[c] = a[c] \ popped
    BY <1>4, <2>1, <2>2, <2>3
  <2>5. \A e \in Consumers \ {c} : n[e] = a[e]
    BY <2>1, <2>2, <2>3
  <2> QED BY <2>4, <2>5 DEF Popped
<1>8. \A j \in Buckets : bucks[t][j] \in QBucket /\ Bounded(bucks[t][j], j, S, a)
  BY <1>0, <1>3, <1>5 DEF BI, BoundedInv, BoundedQueue, Types
<1> DEFINE Left(k) == [bucks[t][k] EXCEPT !.has[c] = @ \ popped]
<1>9. \A k \in Buckets : bucks'[t][k] = IF k \in loc[p].at THEN Reaped(Left(k)) ELSE bucks[t][k]
  BY <1>0, <1>1, <1>3 DEF CallbackReturn, Types
<1>10. ASSUME NEW k \in Buckets PROVE Bounded(bucks'[t][k], k, S, n)
  <2>1. CASE k \in loc[p].at
    <3>1. PICK b, new : b = bucks[t][k] /\ new = LeftOf(b, c, popped)
      OBVIOUS
    <3>2. b \in QBucket /\ b.st = "open" /\ Bounded(b, k, S, a)
      BY <1>4, <1>8, <2>1, <3>1
    <3>3. Bounded(new, k, S, n)
      BY <1>4, <1>6, <1>7, <3>1, <3>2, BoundedPopped
    <3>4. bucks'[t][k] = Reaped(new)
      BY <1>9, <2>1, <3>1 DEF LeftOf
    <3>5. Bounded(NoBucket, k, S, n)
      BY <1>6, BoundedNone
    <3> QED BY <3>3, <3>4, <3>5 DEF Reaped
  <2>2. CASE k \notin loc[p].at
    <3>1. \A e \in S : a[e] \cap Of(k) \subseteq n[e]
      BY <1>4, <1>6, <1>7, <2>2 DEF Of, Popped
    <3>2. Bounded(bucks[t][k], k, S, n)
      BY <1>6, <1>8, <3>1, BoundedMono
    <3> QED BY <1>9, <2>2, <3>2
  <2> QED BY <2>1, <2>2
<1>11. again' \in [Qs -> [Consumers -> SUBSET Item]]
  BY <1>0, <1>2, <1>3, <1>4
<1>12. CASE q = t
  BY <1>5, <1>6, <1>10, <1>11, <1>12 DEF BoundedQueue
<1>13. CASE q # t
  <2>1. bucks'[q] = bucks[q] /\ must'[q] = must[q] /\ again'[q] = again[q]
    BY <1>0, <1>1, <1>2, <1>13 DEF Types, CallbackReturn
  <2> QED BY <1>2, <1>11, <2>1, BoundedElsewhere DEF Frame
<1> QED BY <1>12, <1>13

\* Shovel: the source has no forks, and those of the destination are due more.
LEMMA BoundedShovelBucket ==
  ASSUME BI, NEW p \in Procs, ShovelBucket(p), NEW q \in Qs
  PROVE  BoundedQueue(q)' /\ again' \in [Qs -> [Consumers -> SUBSET Item]]
<1>0. QI /\ Types /\ again \in [Qs -> [Consumers -> SUBSET Item]]
  BY DEF BI, QI, QueueInv, BoundedInv
<1>1. PICK s, d, k : s = loc[p].q /\ d = loc[p].d /\ k = Lowest(loc[p].todo)
  OBVIOUS
<1>2. PICK moved, b, consumed :
        /\ moved = {x \in must[s][Main] : x.b = k} /\ b = bucks[s][k]
        /\ consumed = IF bucks[d][k].st = "absent" THEN b.log \ b.has[Main] ELSE {}
  OBVIOUS
<1>3. /\ Frame(p) /\ pc[p] = "shovel" /\ loc[p].todo # {} /\ UNCHANGED <<forks, raced, pc>>
      /\ bucks' = [bucks EXCEPT ![d][k] = ShovelInto(b, d, k)]
  BY <1>0, <1>1, <1>2, BusyFrame DEF ShovelBucket
<1>4. /\ must' = [must EXCEPT ![s][Main] = @ \ moved,
                              ![d] = [c \in Consumers |->
                                         IF c \in Live(d) THEN @[c] \cup moved ELSE @[c]]]
      /\ again' = [again EXCEPT ![d] = [c \in Consumers |->
                                           IF c \in forks[d] THEN @[c] \cup consumed ELSE @[c]]]
  BY <1>1, <1>2 DEF ShovelBucket
<1>5. /\ s \in Qs /\ d \in Qs /\ s # d /\ Sure(s) = {Main} /\ Names(s) = {Main}
      /\ Gone(s) = Buckets \ loc[p].todo /\ Gone(d) = {}
  <2>0. QI /\ pc[p] = "shovel" /\ s = loc[p].q /\ d = loc[p].d
    BY <1>0, <1>1, <1>3
  <2>1. s \in Qs /\ d \in Qs /\ s # d
    BY <2>0, ShovelsAlone
  <2>2. Sure(s) = {Main} /\ Names(s) = {Main}
    BY <2>0, ShovelsAlone
  <2>3. Gone(s) = Buckets \ loc[p].todo /\ Gone(d) = {}
    BY <2>0, ShovelsAlone
  <2> QED BY <2>1, <2>2, <2>3
<1>6. k \in loc[p].todo /\ k \in Buckets /\ b.st # "absent"
  <2>1. loc[p].todo \subseteq InTree(s) /\ InTree(s) \subseteq Buckets
    BY <1>0, <1>1, <1>3 DEF QI, QueueInv, Knows, InTree
  <2>2. k \in loc[p].todo
    BY <1>1, <1>3, <2>1, LowestIn
  <2> QED BY <1>2, <2>1, <2>2 DEF InTree
<1>7. b \in QBucket /\ GoodBucket(b, k, {Main}, {Main}, must[s], FALSE)
  <2>1. GoodBucket(b, k, Sure(s), Names(s), must[s], k \in Gone(s))
    BY <1>0, <1>2, <1>5, <1>6 DEF QI, QueueInv, GoodQueue
  <2>2. (k \in Gone(s)) = FALSE
    BY <1>5, <1>6
  <2>3. b \in QBucket
    BY <1>0, <1>2, <1>5, <1>6 DEF Types
  <2> QED BY <1>5, <2>1, <2>2, <2>3
<1>8. b.files = {Main} /\ moved = b.has[Main] /\ b.has[Main] \subseteq b.log
  BY <1>2, <1>6, <1>7 DEF GoodBucket
<1>9. PICK S, a, n, N : S = Sure(d) /\ a = Due(d) /\ n = Due(d)' /\ N = Names(d)
  OBVIOUS
<1>10. /\ Main \in S /\ S \subseteq Live(d) /\ Live(d) \subseteq N /\ S \subseteq Consumers
       /\ Sure(d)' = S
  BY <1>0, <1>3, <1>5, <1>9, MainSure DEF Sure, Live
<1>11. \A c \in S \ {Main} : n[c] = a[c] \cup moved \cup consumed
  <2>1. \A c \in S \ {Main} : c \in Consumers /\ c \in Live(d) /\ c \in forks[d]
    BY <1>9, <1>10 DEF Live
  <2>2. \A c \in S \ {Main} : must'[d][c] = must[d][c] \cup moved
    BY <1>0, <1>4, <1>5, <2>1 DEF Types
  <2>3. \A c \in S \ {Main} : again'[d][c] = again[d][c] \cup consumed
    BY <1>0, <1>4, <1>5, <2>1
  <2>4. \A c \in S \ {Main} : a[c] = must[d][c] \cup again[d][c] /\ n[c] = must'[d][c] \cup again'[d][c]
    BY <1>9, <2>1 DEF Due
  <2> QED BY <2>2, <2>3, <2>4
<1>12. \A j \in Buckets : bucks[d][j] \in QBucket /\ Bounded(bucks[d][j], j, S, a)
  BY <1>0, <1>5, <1>9 DEF BI, BoundedInv, BoundedQueue, Types
<1>13. Bounded(b, k, {}, a)
  BY <1>2, <1>5, <1>6 DEF BI, BoundedInv, BoundedQueue, Bounded
<1>14. Bounded(ShovelInto(b, d, k), k, S, n)
  <2>1. GoodBucket(bucks[d][k], k, Sure(d), N, must[d], FALSE) /\ Live(d) \subseteq N
    BY <1>0, <1>5, <1>6, <1>9, <1>10, GoodNow
  <2>2. \A c \in S \ {Main} : a[c] \cup b.has[Main] \subseteq n[c]
    BY <1>8, <1>11
  <2>3. bucks[d][k].st = "absent" => \A c \in S \ {Main} : b.log \subseteq n[c]
    BY <1>2, <1>8, <1>11
  <2>4. PICK m : m = must[s]
    OBVIOUS
  <2>5. GoodBucket(b, k, {Main}, {Main}, m, FALSE)
    BY <1>7, <2>4
  <2>6. Bounded(bucks[d][k], k, S, a) /\ S = Sure(d) /\ b \in QBucket /\ b.files = {Main}
    BY <1>6, <1>7, <1>8, <1>9, <1>12
  <2> QED BY <1>0, <1>5, <1>6, <1>13, <2>1, <2>2, <2>3, <2>5, <2>6, BoundedShovel
<1>15. bucks'[d][k] = ShovelInto(b, d, k) /\ \A j \in Buckets \ {k} : bucks'[d][j] = bucks[d][j]
  BY <1>0, <1>3, <1>5, <1>6 DEF Types
<1>16. \A x \in Qs \ {d} : bucks'[x] = bucks[x] /\ again'[x] = again[x]
  BY <1>0, <1>3, <1>4 DEF Types
<1>17. again' \in [Qs -> [Consumers -> SUBSET Item]]
  <2>1. consumed \subseteq Item
    BY <1>2, <1>7 DEF QBucket
  <2> QED BY <1>0, <1>4, <1>5, <2>1
<1>18. CASE q = d
  <2> SUFFICES ASSUME NEW j \in Buckets PROVE Bounded(bucks'[d][j], j, S, n)
    BY <1>9, <1>10, <1>17, <1>18 DEF BoundedQueue
  <2>1. CASE j = k
    BY <1>14, <1>15, <2>1
  <2>2. CASE j # k
    <3>1. \A c \in S \ {Main} : a[c] \cap Of(j) \subseteq n[c]
      BY <1>11
    <3>2. Bounded(bucks[d][j], j, S, n)
      BY <1>10, <1>12, <3>1, BoundedMono
    <3> QED BY <1>15, <2>2, <3>2
  <2> QED BY <2>1, <2>2
<1>19. CASE q # d
  <2>1. Sure(q)' \subseteq Sure(q)
    BY <1>3 DEF Sure, Live
  <2>2. \A c \in Sure(q) \ {Main} : must'[q][c] = must[q][c]
    <3>1. CASE q = s
      BY <1>5, <3>1
    <3>2. CASE q # s
      BY <1>0, <1>4, <1>19, <3>2 DEF Types
    <3> QED BY <3>1, <3>2
  <2>3. BoundedQueue(q)'
    BY <1>16, <1>19, <2>1, <2>2, BoundedKept
  <2> QED BY <1>17, <2>3
<1> QED BY <1>18, <1>19

LEMMA BoundedShovelEnd ==
  ASSUME BI, NEW p \in Procs, ShovelEnd(p), NEW q \in Qs
  PROVE  BoundedQueue(q)'
<1>0. QI /\ Types
  BY DEF BI, QI, QueueInv
<1>1. PICK s : s = loc[p].q
  OBVIOUS
<1>2. /\ Frame(p) /\ pc[p] = "shovel" /\ UNCHANGED <<forks, must, raced, again>>
      /\ bucks' = [bucks EXCEPT ![s] = [k \in Buckets |-> NoBucket]]
  BY <1>0, <1>1, BusyFrame DEF ShovelEnd
<1>3. s \in Qs
  BY <1>0, <1>1, <1>2 DEF QI, LockInv, Control
<1>4. CASE q = s
  <2>1. \A k \in Buckets : bucks'[s][k] = NoBucket
    BY <1>0, <1>2, <1>3 DEF Types
  <2>2. PICK S, a : S = Sure(s)' /\ a = Due(s)'
    OBVIOUS
  <2>3. S \subseteq Consumers
    BY <1>0, <1>2, <1>3, <2>2, MainSure DEF Sure, Live
  <2>4. \A k \in Buckets : Bounded(NoBucket, k, S, a)
    BY <2>3, BoundedNone
  <2> QED BY <1>4, <2>1, <2>2, <2>4 DEF BoundedQueue
<1>5. CASE q # s
  <2>1. bucks'[q] = bucks[q]
    BY <1>0, <1>2, <1>5 DEF Types
  <2> QED BY <1>2, <2>1, BoundedElsewhere DEF Frame
<1> QED BY <1>4, <1>5

LEMMA BoundedForkBucket ==
  ASSUME BI, NEW p \in Procs, ForkBucket(p), NEW q \in Qs
  PROVE  BoundedQueue(q)'
<1>0. QI /\ Types
  BY DEF BI, QI, QueueInv
<1>1. PICK t, f, k : t = loc[p].q /\ f = loc[p].c /\ k = Lowest(loc[p].todo)
  OBVIOUS
<1>2. /\ Frame(p) /\ pc[p] = "fork" /\ UNCHANGED <<forks, must, raced, again>> /\ loc[p].todo # {}
      /\ bucks' = [bucks EXCEPT ![t][k] = Forked(@, f)]
  BY <1>0, <1>1, ForkFrame DEF ForkBucket
<1>3. t \in Qs /\ f \in Forks
  BY <1>0, <1>1, <1>2 DEF QI, LockInv, Control, QueueInv, Knows
<1>4. k \in Buckets
  BY <1>0, <1>1, <1>2, LowestIn DEF QI, QueueInv, Knows
<1>5. PICK S, a : S = Sure(t) /\ a = Due(t)
  OBVIOUS
<1>6. Sure(t)' = S /\ Due(t)' = a
  BY <1>2, <1>5 DEF Sure, Live, Due
<1>7. S \subseteq Consumers /\ f \notin S
  <2>1. f \notin Sure(t)
    BY <1>0, <1>1, <1>2, <1>3, QueuesAssumption DEF QI, QueueInv, GoodFork, Sure, Live
  <2> QED BY <1>0, <1>3, <1>5, <2>1, MainSure
<1>8. \A j \in Buckets : bucks[t][j] \in QBucket /\ Bounded(bucks[t][j], j, S, a)
  BY <1>0, <1>3, <1>5 DEF BI, BoundedInv, BoundedQueue, Types
<1>9. Bounded(Forked(bucks[t][k], f), k, S, a)
  BY <1>3, <1>4, <1>7, <1>8, BoundedForked
<1>10. bucks'[t][k] = Forked(bucks[t][k], f) /\ \A j \in Buckets \ {k} : bucks'[t][j] = bucks[t][j]
  BY <1>0, <1>2, <1>3, <1>4 DEF Types
<1>11. CASE q = t
  <2> SUFFICES ASSUME NEW j \in Buckets PROVE Bounded(bucks'[t][j], j, S, a)
    BY <1>6, <1>11 DEF BoundedQueue
  <2>1. CASE j = k
    BY <1>9, <1>10, <2>1
  <2>2. CASE j # k
    BY <1>8, <1>10, <2>2
  <2> QED BY <2>1, <2>2
<1>12. CASE q # t
  <2>1. bucks'[q] = bucks[q]
    BY <1>0, <1>2, <1>12 DEF Types
  <2> QED BY <1>1, <1>2, <1>12, <2>1, BoundedElsewhere DEF Frame
<1> QED BY <1>11, <1>12

\* A new fork has what the queue has to get.
LEMMA BoundedForkEnd ==
  ASSUME BI, NEW p \in Procs, ForkEnd(p), NEW q \in Qs
  PROVE  BoundedQueue(q)' /\ again' \in [Qs -> [Consumers -> SUBSET Item]]
<1>0. QI /\ Types /\ again \in [Qs -> [Consumers -> SUBSET Item]]
  BY DEF BI, QI, QueueInv, BoundedInv
<1>1. PICK t, f : t = loc[p].q /\ f = loc[p].c
  OBVIOUS
<1>2. /\ Frame(p) /\ pc[p] = "fork" /\ loc[p].todo = {} /\ UNCHANGED <<bucks, raced>>
      /\ forks' = [forks EXCEPT ![t] = @ \cup {f}]
      /\ must' = [must EXCEPT ![t][f] = IF f \in raced[t] THEN {} ELSE must[t][Main]]
      /\ again' = [again EXCEPT ![t][f] = {}]
  BY <1>0, <1>1, ForkFrame DEF ForkEnd
<1>3. t \in Qs /\ f \in Forks /\ f \in Consumers /\ f # Main
  <2>1. t \in Qs /\ f \in Forks
    BY <1>0, <1>1, <1>2 DEF QI, LockInv, Control, QueueInv, Knows
  <2> QED BY <2>1, QueuesAssumption DEF Consumers
<1>4. again' \in [Qs -> [Consumers -> SUBSET Item]]
  BY <1>0, <1>2, <1>3
<1>5. CASE q = t
  <2>1. forks'[t] = forks[t] \cup {f}
    BY <1>0, <1>2, <1>3 DEF Types
  <2>2. PICK S, a, n : S = Sure(t) /\ a = Due(t) /\ n = Due(t)'
    OBVIOUS
  <2>3. S \subseteq Consumers /\ f \notin S
    <3>1. f \notin Sure(t)
      BY <1>0, <1>1, <1>2, <1>3 DEF QI, QueueInv, GoodFork, Sure, Live
    <3> QED BY <1>0, <1>3, <2>2, <3>1, MainSure
  <2>4. Sure(t)' = IF f \in raced[t] THEN S ELSE S \cup {f}
    BY <1>2, <2>1, <2>2 DEF Sure, Live
  <2>5. \A c \in S : n[c] = a[c]
    <3>1. \A c \in Consumers \ {f} : must'[t][c] = must[t][c] /\ again'[t][c] = again[t][c]
      BY <1>0, <1>2, <1>3 DEF Types
    <3>2. \A c \in S : a[c] = must[t][c] \cup again[t][c] /\ n[c] = must'[t][c] \cup again'[t][c]
      BY <2>2, <2>3 DEF Due
    <3> QED BY <2>3, <3>1, <3>2
  <2>6. f \notin raced[t] => must[t][Main] \subseteq n[f]
    <3>1. f \notin raced[t] => must'[t][f] = must[t][Main]
      BY <1>0, <1>2, <1>3 DEF Types
    <3> QED BY <1>3, <2>2, <3>1 DEF Due
  <2>7. ASSUME NEW k \in Buckets PROVE Bounded(bucks[t][k], k, Sure(t)', n)
    <3>1. PICK b : b = bucks[t][k]
      OBVIOUS
    <3>2. b \in QBucket /\ Bounded(b, k, S, a)
      BY <1>0, <1>3, <2>2, <3>1 DEF BI, BoundedInv, BoundedQueue, Types
    <3>3. \A c \in S : a[c] \cap Of(k) \subseteq n[c]
      BY <2>5
    <3>4. Bounded(b, k, S, n)
      BY <2>3, <3>2, <3>3, BoundedMono
    <3>5. f \notin raced[t] => Loaded(b, f) \subseteq n[f]
      <4> SUFFICES ASSUME f \notin raced[t] PROVE Loaded(b, f) \subseteq n[f]
        OBVIOUS
      <4>1. mu[t] = Free /\ (k \in InTree(t) => ForkedIn(b, f) /\ b.has[f] \subseteq b.has[Main])
        BY <1>0, <1>1, <1>2, <3>1 DEF BI, BoundedInv, ForkedFrom, QI, QueueInv, GoodFork
      <4>2. GoodBucket(b, k, Sure(t), Names(t), must[t], FALSE)
        <5>1. Gone(t) = {}
          <6> SUFFICES ASSUME NEW r \in Procs, pc[r] = "shovel", loc[r].q = t PROVE FALSE
            BY DEF Gone
          <6>1. t \in Held(pc[r], loc[r])
            BY DEF Held
          <6> QED BY <1>0, <1>3, <4>1, <6>1, QueuesAssumption DEF QI, LockInv
        <5> QED BY <1>0, <1>3, <3>1, <5>1, GoodNow
      <4>3. b.has[Main] \subseteq n[f]
        BY <2>6, <4>2 DEF GoodBucket
      <4>4. CASE k \in InTree(t)
        BY <4>1, <4>3, <4>4 DEF ForkedIn, Loaded
      <4>5. CASE k \notin InTree(t)
        <5>1. b = NoBucket
          BY <3>1, <4>2, <4>5 DEF InTree, GoodBucket
        <5> QED BY <1>3, <5>1 DEF NoBucket, Loaded
      <4> QED BY <4>4, <4>5
    <3> QED BY <2>4, <3>1, <3>4, <3>5 DEF Bounded
  <2> QED BY <1>2, <1>4, <1>5, <2>2, <2>7 DEF BoundedQueue
<1>6. CASE q # t
  <2>1. bucks'[q] = bucks[q] /\ must'[q] = must[q] /\ forks'[q] = forks[q] /\ again'[q] = again[q]
    BY <1>0, <1>2, <1>6 DEF Types
  <2> QED BY <1>1, <1>2, <1>4, <1>6, <2>1, BoundedElsewhere DEF Frame
<1> QED BY <1>5, <1>6

LEMMA BoundedRemoveFork ==
  ASSUME BI, NEW p \in Procs, RemoveFork(p), NEW q \in Qs
  PROVE  BoundedQueue(q)' /\ again' \in [Qs -> [Consumers -> SUBSET Item]]
<1>0. QI /\ Types /\ again \in [Qs -> [Consumers -> SUBSET Item]]
  BY DEF BI, QI, QueueInv, BoundedInv
<1>1. PICK t, f : t = loc[p].q /\ f = loc[p].c
  OBVIOUS
<1>2. /\ Frame(p) /\ pc[p] = "remove"
      /\ forks' = [forks EXCEPT ![t] = @ \ {f}] /\ must' = [must EXCEPT ![t][f] = {}]
      /\ again' = [again EXCEPT ![t][f] = {}]
  BY <1>0, <1>1, BusyFrame DEF RemoveFork
<1>3. t \in Qs /\ f \in Forks /\ f \in Consumers /\ f # Main
  <2>1. t \in Qs /\ f \in Forks
    BY <1>0, <1>1, <1>2 DEF QI, LockInv, Control, QueueInv, Knows
  <2> QED BY <2>1, QueuesAssumption DEF Consumers
<1>4. again' \in [Qs -> [Consumers -> SUBSET Item]]
  BY <1>0, <1>2, <1>3
<1>5. PICK S, T, a, n : S = Sure(t) /\ T = Sure(t)' /\ a = Due(t) /\ n = Due(t)'
  OBVIOUS
<1>6. T \subseteq S \ {f} /\ S \subseteq Consumers
  <2>1. forks'[t] = forks[t] \ {f} /\ raced[t] \subseteq raced'[t]
    BY <1>0, <1>2, <1>3 DEF Types, Frame
  <2> QED BY <1>0, <1>3, <1>5, <2>1, MainSure DEF Sure, Live
<1>7. \A c \in T : n[c] = a[c]
  <2>1. \A c \in Consumers \ {f} : must'[t][c] = must[t][c] /\ again'[t][c] = again[t][c]
    BY <1>0, <1>2, <1>3 DEF Types
  <2>2. \A c \in T : a[c] = must[t][c] \cup again[t][c] /\ n[c] = must'[t][c] \cup again'[t][c]
    BY <1>5, <1>6 DEF Due
  <2> QED BY <1>6, <2>1, <2>2
<1>8. CASE q = t
  <2> SUFFICES ASSUME NEW k \in Buckets PROVE Bounded(bucks'[t][k], k, T, n)
    BY <1>4, <1>5, <1>8 DEF BoundedQueue
  <2>1. PICK b, new : b = bucks[t][k] /\ new = Without(bucks[t][k], f)
    OBVIOUS
  <2>2. b \in QBucket /\ Bounded(b, k, S, a)
    BY <1>0, <1>3, <1>5, <2>1 DEF BI, BoundedInv, BoundedQueue, Types
  <2>3. Bounded(b, k, T, n)
    <3>1. \A c \in T \ {Main} : a[c] \cap Of(k) \subseteq n[c]
      BY <1>7
    <3> QED BY <1>6, <2>2, <3>1, BoundedMono
  <2>4. Bounded(new, k, T, n)
    BY <1>3, <1>6, <2>1, <2>2, <2>3, BoundedWithout
  <2>5. Bounded(NoBucket, k, T, n)
    BY <1>6, BoundedNone
  <2>6. bucks'[t][k] \in {b, Reaped(new)}
    BY <1>0, <1>1, <1>3, <2>1, RemovedFrom
  <2> QED BY <2>3, <2>4, <2>5, <2>6 DEF Reaped
<1>9. CASE q # t
  <2>1. bucks'[q] = bucks[q] /\ must'[q] = must[q] /\ forks'[q] = forks[q] /\ again'[q] = again[q]
    BY <1>0, <1>1, <1>2, <1>9 DEF Types, RemoveFork
  <2> QED BY <1>1, <1>2, <1>4, <1>9, <2>1, BoundedElsewhere DEF Frame
<1> QED BY <1>8, <1>9

\* What a callback got, after a step of its own.
LEMMA OutStays ==
  ASSUME BI, NEW p \in Procs,
         \/ CallPush(p) \/ CallRead(p) \/ CallShovel(p) \/ CallFork(p) \/ CallRemoveFork(p)
         \/ Lock(p) \/ Lock2(p) \/ CallbackPush(p)
         \/ PushBucket(p) \/ PushEnd(p) \/ ReadBucket(p) \/ Pop(p) \/ Peek(p) \/ ReadEnd(p)
         \/ ShovelBucket(p) \/ ShovelEnd(p) \/ ForkBucket(p) \/ ForkEnd(p) \/ RemoveFork(p)
  PROVE  OutHere(p)'
<1>0. QI /\ LockInv /\ OutHere(p)
  BY DEF BI, QI, BoundedInv
<1>1. CASE Return(p)
  <2>1. pc'[p] = "idle"
    BY <1>0, <1>1, LocIs DEF Return, Goto
  <2> QED BY <2>1 DEF OutHere, Reading
<1>2. CASE CallPush(p) \/ CallRead(p) \/ CallShovel(p) \/ CallFork(p) \/ CallRemoveFork(p)
  <2>1. pc'[p] \in {"lock", "fork"}
    BY <1>0, <1>2, LocIs DEF CallPush, CallRead, CallShovel, CallFork, CallRemoveFork, Call, Goto
  <2> QED BY <2>1 DEF OutHere, Reading
<1>3. CASE Lock(p)
  <2>1. loc'[p].op = loc[p].op /\ loc[p].op \in {"push", "read", "shovel", "remove"}
    <3>1. loc'[p].op = loc[p].op
      BY <1>0, <1>3, LocIs DEF Lock, Fields
    <3> QED BY <1>0, <1>3, <3>1 DEF Lock, LockInv, Control
  <2>2. pc'[p] = IF loc[p].op = "shovel" THEN "lock2" ELSE loc[p].op
    BY <1>0, <1>3, LocIs DEF Lock, Locked, Goto
  <2> QED BY <2>1, <2>2 DEF OutHere, Reading
<1>4. CASE Lock2(p)
  <2>1. pc[p] = "lock2" /\ loc' = loc /\ loc[p].op \in {"shovel", "read"}
    BY <1>0, <1>4 DEF LockInv, Control, Lock2
  <2>2. pc'[p] = IF loc[p].op = "shovel" THEN "shovel" ELSE "push"
    BY <1>0, <1>4, LocIs DEF Lock2, Locked, Goto
  <2> QED BY <1>0, <2>1, <2>2 DEF OutHere, Reading
<1>5. CASE CallbackPush(p)
  <2>1. PICK n, k : loc' = [loc EXCEPT ![p].d = n[2], ![p].items = Fresh({k})]
    BY <1>5 DEF CallbackPush
  <2>2. loc'[p].at = loc[p].at /\ loc'[p].out = loc[p].out
    BY <1>0, <2>1, LocIs DEF Fields
  <2>3. pc[p] = "callback"
    BY <1>5 DEF CallbackPush
  <2> QED BY <1>0, <2>2, <2>3 DEF OutHere, Reading
<1>6. CASE PushBucket(p)
  <2>1. loc'[p].op = loc[p].op /\ loc'[p].at = loc[p].at /\ loc'[p].out = loc[p].out
    BY <1>0, <1>6, LocIs DEF PushBucket, Fields
  <2>2. pc[p] = "push" /\ pc'[p] = "push"
    BY <1>6 DEF PushBucket
  <2> QED BY <1>0, <2>1, <2>2 DEF OutHere, Reading
<1>7. CASE PushEnd(p) /\ ~Return(p)
  <2>1. loc' = loc /\ pc[p] = "push" /\ loc[p].op = "read"
    BY <1>0, <1>7 DEF LockInv, Control, PushEnd
  <2> QED BY <1>0, <2>1 DEF OutHere, Reading
<1>8. CASE ReadBucket(p) /\ ~Return(p)
  <2>1. PICK q, k, c : q = loc[p].q /\ k = Lowest(loc[p].todo) /\ c = loc[p].c
    OBVIOUS
  <2>2. PICK out \in SUBSET ForKey(q, k).has[c] :
          loc' = [loc EXCEPT ![p].todo = @ \ {k}, ![p].at = {k}, ![p].out = out]
    BY <1>8, <2>1 DEF ReadBucket, UpTo
  <2>3. loc'[p].at = {k} /\ loc'[p].out = out
    BY <1>0, <2>2, LocIs DEF Fields
  <2>4. q \in Qs /\ c \in Consumers
    BY <1>0, <1>8, <2>1 DEF ReadBucket, QI, LockInv, Control, QueueInv, Knows
  <2>5. Bounded(ForKey(q, k), k, Sure(q), Due(q))
    BY <1>8, <2>1, <2>4, BoundedRead
  <2>6. out \subseteq Of(k)
    BY <2>2, <2>4, <2>5 DEF Bounded
  <2> QED BY <2>3, <2>6 DEF OutHere, Of
<1>9. CASE Pop(p) \/ Peek(p)
  <2>1. PICK popped : CallbackReturn(p, popped)
    BY <1>9 DEF Pop, Peek
  <2>2. pc'[p] = "read"
    BY <1>0, <2>1, LocIs DEF CallbackReturn, Goto
  <2> QED BY <2>2 DEF OutHere, Reading
<1>10. CASE ShovelBucket(p) \/ ForkBucket(p)
  <2>1. pc'[p] \in {"shovel", "fork"}
    BY <1>10 DEF ShovelBucket, ForkBucket
  <2> QED BY <2>1 DEF OutHere, Reading
<1>11. ReadEnd(p) \/ ShovelEnd(p) \/ ForkEnd(p) \/ RemoveFork(p) => Return(p)
  BY DEF ReadEnd, ShovelEnd, ForkEnd, RemoveFork
<1> QED BY <1>1, <1>2, <1>3, <1>4, <1>5, <1>6, <1>7, <1>8, <1>9, <1>10, <1>11

\* A Fork that nobody interferes with, while others step, and its own steps.
LEMMA ForkedStays ==
  ASSUME BI, NEW p \in Procs, Frame(p), NEW r \in Procs \ {p}
  PROVE  ForkedFrom(r)'
<1>0. PICK q, f : q = loc[r].q /\ f = loc[r].c
  OBVIOUS
<1>1. pc'[r] = pc[r] /\ loc'[r] = loc[r] /\ GoodFork(r) /\ ForkedFrom(r)
  BY DEF Frame, Others, BI, QI, QueueInv, BoundedInv
<1> SUFFICES ASSUME pc[r] = "fork", f \notin raced'[q]
             PROVE  \A k \in InTree(q)' \ loc[r].todo : bucks'[q][k].has[f] \subseteq bucks'[q][k].has[Main]
  BY <1>0, <1>1 DEF ForkedFrom
<1>2. q \in Qs
  BY <1>0 DEF BI, QI, LockInv, Control
<1>3. f \notin raced[q]
  BY <1>2 DEF Frame
<1>4. mu[q] = Free /\ Forking(q) = {r}
  BY <1>0, <1>1, <1>3 DEF GoodFork
<1>5. ~(pc[p] = "fork" /\ loc[p].q = q)
  BY <1>4 DEF Forking
<1>6. q \notin Held(pc[p], loc[p])
  BY <1>2, <1>4, QueuesAssumption DEF BI, QI, LockInv
<1>7. bucks'[q] = bucks[q]
  BY <1>2, <1>5, <1>6 DEF Frame
<1>8. InTree(q)' = InTree(q)
  BY <1>7 DEF InTree
<1> QED BY <1>0, <1>1, <1>3, <1>7, <1>8 DEF ForkedFrom

LEMMA ForkedMoves ==
  ASSUME BI, NEW p \in Procs,
         \/ CallPush(p) \/ CallRead(p) \/ CallShovel(p) \/ CallFork(p) \/ CallRemoveFork(p)
         \/ Lock(p) \/ Lock2(p) \/ CallbackPush(p)
         \/ PushBucket(p) \/ PushEnd(p) \/ ReadBucket(p) \/ Pop(p) \/ Peek(p) \/ ReadEnd(p)
         \/ ShovelBucket(p) \/ ShovelEnd(p) \/ ForkBucket(p) \/ ForkEnd(p) \/ RemoveFork(p)
  PROVE  ForkedFrom(p)'
<1>0. QI /\ LockInv /\ Types
  BY DEF BI, QI, QueueInv
<1>1. CASE CallFork(p)
  <2>1. PICK q, f : loc' = [loc EXCEPT ![p] = [NoLoc EXCEPT !.q = q, !.c = f, !.todo = InTree(q)]]
    BY <1>1 DEF CallFork
  <2>2. loc'[p].q = q /\ loc'[p].todo = InTree(q) /\ bucks' = bucks
    BY <1>0, <1>1, <2>1, LocIs DEF NoLoc, CallFork
  <2>3. InTree(q)' = InTree(q)
    BY <2>2 DEF InTree
  <2> QED BY <2>2, <2>3 DEF ForkedFrom
<1>2. CASE ForkBucket(p)
  <2>1. PICK q, f, k : q = loc[p].q /\ f = loc[p].c /\ k = Lowest(loc[p].todo)
    OBVIOUS
  <2>2. /\ pc[p] = "fork" /\ pc' = pc /\ loc[p].todo # {} /\ raced' = raced
        /\ bucks' = [bucks EXCEPT ![q][k] = Forked(@, f)]
        /\ loc' = [loc EXCEPT ![p].todo = @ \ {k}]
    BY <1>2, <2>1 DEF ForkBucket
  <2>3. loc'[p].q = q /\ loc'[p].c = f /\ loc'[p].todo = loc[p].todo \ {k}
    BY <1>0, <2>1, <2>2, LocIs DEF Fields
  <2>4. q \in Qs /\ f \in Forks /\ loc[p].todo \subseteq Buckets
    BY <1>0, <2>1, <2>2 DEF QI, LockInv, Control, QueueInv, Knows
  <2>5. k \in Buckets /\ k \in loc[p].todo
    BY <2>1, <2>2, <2>4, LowestIn
  <2>6. bucks'[q][k] = Forked(bucks[q][k], f) /\ \A j \in Buckets \ {k} : bucks'[q][j] = bucks[q][j]
    BY <1>0, <2>2, <2>4, <2>5 DEF Types
  <2> SUFFICES ASSUME f \notin raced[q], NEW j \in InTree(q)', j \notin loc[p].todo \ {k}
               PROVE  bucks'[q][j].has[f] \subseteq bucks'[q][j].has[Main]
    BY <2>2, <2>3 DEF ForkedFrom
  <2>7. j \in Buckets /\ bucks'[q][j].st # "absent"
    BY DEF InTree
  <2>8. CASE j # k
    <3>1. j \in InTree(q) /\ j \notin loc[p].todo
      BY <2>6, <2>7, <2>8 DEF InTree
    <3>2. ForkedFrom(p)
      BY DEF BI, BoundedInv
    <3>3. bucks[q][j].has[f] \subseteq bucks[q][j].has[Main]
      BY <2>1, <2>2, <3>1, <3>2 DEF ForkedFrom
    <3>4. bucks'[q][j] = bucks[q][j]
      BY <2>6, <2>7, <2>8
    <3> QED BY <3>3, <3>4
  <2>9. CASE j = k
    <3>1. PICK b : b = bucks[q][k]
      OBVIOUS
    <3>2. b \in QBucket
      BY <1>0, <2>4, <2>5, <3>1 DEF Types
    <3>3. CASE b.st = "absent"
      BY <2>6, <2>7, <2>9, <3>1, <3>3 DEF Forked
    <3>4. CASE b.st # "absent"
      <4>1. f \notin b.files
        BY <1>0, <2>1, <2>2, <2>5, <3>1, <3>4 DEF QI, QueueInv, GoodFork, InTree
      <4>2. b.idx \subseteq b.files
        BY <1>0, <2>4, <2>5, <3>1 DEF QI, QueueInv, GoodQueue, GoodBucket
      <4>3. PICK new : new = [b EXCEPT !.files = @ \cup {f}, !.has[f] = b.has[Main],
                                       !.idx = IF b.st = "open" THEN @ \cup {f} ELSE @]
        OBVIOUS
      <4>4. Forked(b, f) = new
        BY <3>4, <4>1, <4>2, <4>3 DEF Forked
      <4>5. f \in Consumers /\ Main \in Consumers
        BY <2>4 DEF Consumers
      <4>6. new.has[f] = b.has[Main] /\ new.has[Main] = b.has[Main]
        BY <3>2, <4>3, <4>5 DEF QBucket
      <4> QED BY <2>6, <2>9, <3>1, <4>4, <4>6
    <3> QED BY <3>3, <3>4
  <2> QED BY <2>8, <2>9
<1>3. CASE ~CallFork(p) /\ ~ForkBucket(p)
  <2>1. pc'[p] # "fork"
    <3>1. CASE \/ CallPush(p) \/ CallRead(p) \/ CallShovel(p) \/ CallRemoveFork(p) \/ CallbackPush(p)
               \/ PushEnd(p) \/ ReadEnd(p)
      BY <1>0, <3>1, QuietFrame
    <3>2. CASE Lock(p) \/ Lock2(p)
      BY <1>0, <3>2, LocIs DEF Lock, Lock2, Locked, Goto, LockInv, Control
    <3>3. CASE PushBucket(p) \/ ShovelBucket(p)
      BY <3>3 DEF PushBucket, ShovelBucket
    <3>4. CASE ReadBucket(p) \/ ShovelEnd(p) \/ ForkEnd(p) \/ RemoveFork(p)
      BY <1>0, <3>4, LocIs DEF ReadBucket, ShovelEnd, ForkEnd, RemoveFork, Return, Goto
    <3>5. CASE Pop(p) \/ Peek(p)
      BY <1>0, <3>5, LocIs DEF Pop, Peek, CallbackReturn, Goto
    <3> QED BY <1>3, <3>1, <3>2, <3>3, <3>4, <3>5
  <2> QED BY <2>1 DEF ForkedFrom
<1> QED BY <1>1, <1>2, <1>3

LEMMA InitBounded == Init => BI
<1> SUFFICES ASSUME Init PROVE BI
  OBVIOUS
<1>1. QI /\ Types
  BY InitQueues DEF QI, QueueInv
<1>2. again \in [Qs -> [Consumers -> SUBSET Item]]
  BY DEF Init
<1>3. ASSUME NEW q \in Qs PROVE BoundedQueue(q)
  <2>1. PICK S, a : S = Sure(q) /\ a = Due(q)
    OBVIOUS
  <2>2. S \subseteq Consumers
    BY <1>1, <2>1, MainSure
  <2>3. \A k \in Buckets : bucks[q][k] = NoBucket
    BY DEF Init
  <2>4. \A k \in Buckets : Bounded(NoBucket, k, S, a)
    BY <2>2, BoundedNone
  <2> QED BY <2>1, <2>3, <2>4 DEF BoundedQueue
<1>4. \A p \in Procs : OutHere(p) /\ ForkedFrom(p)
  BY DEF Init, OutHere, Reading, ForkedFrom
<1> QED BY <1>1, <1>2, <1>3, <1>4 DEF BI, BoundedInv

LEMMA BoundedStep == BI /\ [Next]_vars => BI'
<1> SUFFICES ASSUME BI, [Next]_vars PROVE BI'
  OBVIOUS
<1>1. QI /\ QI'
  BY QueueStep DEF BI
<1>2. CASE UNCHANGED vars
  <2>1. BoundedInv'
    BY <1>2 DEF BI, BoundedInv, vars, BoundedQueue, Bounded, Due, Sure, Live, Loaded, OutHere,
       Reading, ForkedFrom, InTree
  <2> QED BY <1>1, <2>1 DEF BI
<1>3. CASE Next
  <2>1. PICK p \in Procs :
          \/ CallPush(p) \/ CallRead(p) \/ CallShovel(p) \/ CallFork(p) \/ CallRemoveFork(p)
          \/ Lock(p) \/ Lock2(p) \/ CallbackPush(p)
          \/ PushBucket(p) \/ PushEnd(p) \/ ReadBucket(p) \/ Pop(p) \/ Peek(p) \/ ReadEnd(p)
          \/ ShovelBucket(p) \/ ShovelEnd(p) \/ ForkBucket(p) \/ ForkEnd(p) \/ RemoveFork(p)
    BY <1>3 DEF Next
  <2>2. Frame(p)
    BY <1>1, <2>1, StepFrame
  <2>3. \A r \in Procs : ForkedFrom(r)'
    BY <2>1, <2>2, ForkedMoves, ForkedStays
  <2>4. \A r \in Procs : OutHere(r)'
    <3>1. OutHere(p)'
      BY <2>1, OutStays
    <3>2. \A r \in Procs \ {p} : OutHere(r)'
      BY <2>2 DEF BI, BoundedInv, OutHere, Reading, Frame, Others
    <3> QED BY <3>1, <3>2
  <2>5. again \in [Qs -> [Consumers -> SUBSET Item]]
    BY DEF BI, BoundedInv
  <2>6. again' \in [Qs -> [Consumers -> SUBSET Item]] /\ \A q \in Qs : BoundedQueue(q)'
    <3>1. CASE \/ CallPush(p) \/ CallRead(p) \/ CallShovel(p) \/ CallFork(p) \/ CallRemoveFork(p)
               \/ Lock(p) \/ Lock2(p) \/ CallbackPush(p) \/ PushEnd(p) \/ ReadEnd(p)
      BY <2>5, <3>1, BoundedQuiet
    <3>2. CASE PushBucket(p)
      <4>1. again' = again
        BY <3>2 DEF PushBucket
      <4> QED BY <2>5, <3>2, <4>1, BoundedPush
    <3>3. CASE ReadBucket(p)
      <4>1. again' = again
        BY <3>3 DEF ReadBucket
      <4> QED BY <2>5, <3>3, <4>1, BoundedRead
    <3>4. CASE Pop(p) \/ Peek(p)
      <4>1. PICK popped : CallbackReturn(p, popped) /\ popped \subseteq loc[p].out
        BY <3>4 DEF Pop, Peek
      <4>2. p \in Procs /\ again' = [again EXCEPT ![loc[p].q][loc[p].c] = @ \ popped]
        BY <4>1 DEF CallbackReturn
      <4>3. again' \in [Qs -> [Consumers -> SUBSET Item]]
        BY <2>5, <4>2
      <4> QED BY <3>4, <4>1, <4>3, BoundedReturn
    <3>5. CASE ShovelBucket(p)
      <4>1. Qs # {}
        BY <1>1, <3>5 DEF ShovelBucket, QI, LockInv, Control
      <4> QED BY <3>5, <4>1, BoundedShovelBucket
    <3>6. CASE ShovelEnd(p)
      <4>1. again' = again
        BY <3>6 DEF ShovelEnd
      <4> QED BY <2>5, <3>6, <4>1, BoundedShovelEnd
    <3>7. CASE ForkBucket(p)
      <4>1. again' = again
        BY <3>7 DEF ForkBucket
      <4> QED BY <2>5, <3>7, <4>1, BoundedForkBucket
    <3>8. CASE ForkEnd(p)
      <4>1. Qs # {}
        BY <1>1, <3>8 DEF ForkEnd, QI, LockInv, Control
      <4> QED BY <3>8, <4>1, BoundedForkEnd
    <3>9. CASE RemoveFork(p)
      <4>1. Qs # {}
        BY <1>1, <3>9 DEF RemoveFork, QI, LockInv, Control
      <4> QED BY <3>9, <4>1, BoundedRemoveFork
    <3> QED BY <2>1, <3>1, <3>2, <3>3, <3>4, <3>5, <3>6, <3>7, <3>8, <3>9
  <2> QED BY <1>1, <2>3, <2>4, <2>6 DEF BI, BoundedInv
<1> QED BY <1>2, <1>3

\* Nobody moves the buckets of a queue whose mutex is free.
LEMMA FreeGood ==
  ASSUME QI, NEW q \in Qs, mu[q] = Free, NEW k \in Buckets
  PROVE  GoodBucket(bucks[q][k], k, Sure(q), Names(q), must[q], FALSE)
<1>1. Gone(q) = {}
  <2> SUFFICES ASSUME NEW r \in Procs, pc[r] = "shovel", loc[r].q = q PROVE FALSE
    BY DEF Gone
  <2>1. q \in Held(pc[r], loc[r])
    BY DEF Held
  <2> QED BY <2>1, QueuesAssumption DEF QI, LockInv
<1> QED BY <1>1, GoodNow

LEMMA GoodDelivers == QI => Delivered
<1> SUFFICES ASSUME QI, NEW q \in Qs, mu[q] = Free, NEW c \in Sure(q), NEW x \in must[q][c]
             PROVE  x \in Content(q, c)
  BY DEF Delivered, Sure
<1>1. c \in Consumers
  BY MainSure DEF QI, QueueInv
<1>2. x \in Item
  BY <1>1 DEF QI, QueueInv, Types
<1>3. PICK k \in Buckets : k = x.b
  BY <1>2 DEF Item
<1>4. GoodBucket(bucks[q][k], k, Sure(q), Names(q), must[q], FALSE)
  BY FreeGood
<1>5. x \in Loaded(bucks[q][k], c)
  <2>1. CASE c = Main
    <3>1. x \in bucks[q][k].has[Main]
      BY <1>3, <1>4, <2>1 DEF GoodBucket
    <3> QED BY <1>4, <2>1, <3>1, LoadedMain
  <2>2. CASE c # Main
    BY <1>3, <1>4, <2>2 DEF GoodBucket
  <2> QED BY <2>1, <2>2
<1> QED BY <1>5 DEF Content

LEMMA GoodIsSingle == BI => InOneQueue
<1> SUFFICES ASSUME BI, NEW q \in Qs, mu[q] = Free
             PROVE  /\ \A x \in Content(q, Main) :
                          x \in must[q][Main] /\ \A r \in Qs \ {q} : x \notin must[r][Main]
                    /\ \A c \in forks[q] \ raced[q] : \A x \in Content(q, c) :
                          x \in must[q][c] \cup again[q][c]
  BY DEF InOneQueue
<1>0. QI /\ Types
  BY DEF BI, QI, QueueInv
<1>1. ASSUME NEW x \in Content(q, Main)
      PROVE  x \in must[q][Main] /\ \A r \in Qs \ {q} : x \notin must[r][Main]
  <2>1. PICK k \in Buckets : x \in Loaded(bucks[q][k], Main)
    BY DEF Content
  <2>2. GoodBucket(bucks[q][k], k, Sure(q), Names(q), must[q], FALSE)
    BY <1>0, FreeGood
  <2>3. x \in bucks[q][k].has[Main]
    BY <2>1, <2>2, LoadedMain
  <2>4. x \in must[q][Main]
    BY <2>2, <2>3 DEF GoodBucket
  <2> QED BY <1>0, <2>4 DEF QI, QueueInv, Single
<1>2. ASSUME NEW c \in forks[q] \ raced[q], NEW x \in Content(q, c)
      PROVE  x \in must[q][c] \cup again[q][c]
  <2>1. PICK k \in Buckets : x \in Loaded(bucks[q][k], c)
    BY DEF Content
  <2>2. c \in Sure(q) \ {Main} /\ c \in Consumers
    BY <1>0, QueuesAssumption DEF Types, Sure, Live, Consumers
  <2>3. x \in Due(q)[c]
    BY <2>1, <2>2 DEF BI, BoundedInv, BoundedQueue, Bounded
  <2> QED BY <2>2, <2>3 DEF Due
<1> QED BY <1>1, <1>2

-----------------------------------------------------------------------------

\* Whatever the goroutines do in between - push, read, shovel one queue into
\* another, fork it without the mutex, remove forks also half way -, each consumer
\* of a queue finds all that was pushed or shovelled for it and that it has not
\* popped, whenever the mutex is free.  Left out are the forks in raced: those made
\* while others used the queue, and the names that a failed RemoveFork left behind
\* in some buckets.
THEOREM ConsumersGetAll == Spec => []Delivered
<1>1. Spec => []QI
  BY InitQueues, QueueStep, PTL DEF Spec
<1> QED BY <1>1, GoodDelivers, PTL

\* Shovel and the callbacks of Read leave no item in two queues: what a queue has
\* when its mutex is free, it has still to give, and no other queue has.  And what
\* a fork finds, it has still to get, or Shovel gave it once more with the dat.log
\* of a bucket of which a part had been popped; but for the forks in raced.
THEOREM ItemsInOneQueue == Spec => []InOneQueue
<1>1. Spec => []BI
  BY InitBounded, BoundedStep, PTL DEF Spec
<1> QED BY <1>1, GoodIsSingle, PTL
=============================================================================
