------------------------- MODULE BucketIndex_proofs -------------------------
(***************************************************************************)
(* What the index logs of a bucket and its indexes in memory hold, for     *)
(* every set of forks, batches and ranges, and any number of crashes,      *)
(* failing writes and items: they refer to batches that lie in the value   *)
(* log (IndexesStayFit), and a log that is read again gives the index that *)
(* was in memory (LogsAgree).                                              *)
(*                                                                         *)
(* Where something is done record by record, or edit by edit, the argument *)
(* is again the least counterexample (LeastNat).                           *)
(***************************************************************************)
EXTENDS Bucket_proofs

-----------------------------------------------------------------------------
(* index.Load.                                                             *)

\* The indexes that applying the first records gives.
Stages(idx, rs, f) ==
    f = [n \in 0 .. Len(rs) |-> IF n = 0 THEN idx ELSE IndexApply(f[n - 1], rs[n])]

Applied(idx, rs) ==
    LET load[n \in 0 .. Len(rs)] == IF n = 0 THEN idx ELSE IndexApply(load[n - 1], rs[n])
    IN  load[Len(rs)]

LEMMA StagesExist ==
  ASSUME NEW idx, NEW S, NEW rs \in Seq(S)
  PROVE  \E f : Stages(idx, rs, f)
<1> DEFINE Good(n) == \E f : f = [m \in 0 .. n |-> IF m = 0 THEN idx ELSE IndexApply(f[m - 1], rs[m])]
           Bad == {n \in Nat : ~Good(n)}
<1>1. Good(0)
  <2> DEFINE f == [m \in 0 .. 0 |-> idx]
  <2>1. f = [m \in 0 .. 0 |-> IF m = 0 THEN idx ELSE IndexApply(f[m - 1], rs[m])]
    OBVIOUS
  <2> HIDE DEF f
  <2> QED BY <2>1
<1>2. ASSUME NEW n \in Nat, n > 0, Good(n - 1) PROVE Good(n)
  <2>1. PICK g : g = [m \in 0 .. n - 1 |-> IF m = 0 THEN idx ELSE IndexApply(g[m - 1], rs[m])]
    BY <1>2
  <2> DEFINE f == [m \in 0 .. n |-> IF m = n THEN IndexApply(g[n - 1], rs[n]) ELSE g[m]]
  <2>2. \A m \in 0 .. n : f[m] = IF m = 0 THEN idx ELSE IndexApply(f[m - 1], rs[m])
    <3> SUFFICES ASSUME NEW m \in 0 .. n
                 PROVE  f[m] = IF m = 0 THEN idx ELSE IndexApply(f[m - 1], rs[m])
      OBVIOUS
    <3>1. CASE m = 0
      <4>1. f[m] = g[0] /\ 0 \in 0 .. n - 1
        BY <1>2, <3>1
      <4>2. g[0] = idx
        BY <2>1, <4>1
      <4> QED BY <3>1, <4>1, <4>2
    <3>2. CASE m > 0 /\ m < n
      <4>1. m \in 0 .. n - 1 /\ m - 1 \in 0 .. n - 1 /\ m # n /\ m - 1 # n /\ m - 1 \in 0 .. n
        BY <3>2
      <4>2. f[m] = g[m] /\ f[m - 1] = g[m - 1]
        BY <4>1
      <4>3. g[m] = IndexApply(g[m - 1], rs[m])
        BY <2>1, <3>2, <4>1
      <4> QED BY <3>2, <4>2, <4>3
    <3>3. CASE m = n
      <4>1. n - 1 \in 0 .. n /\ n - 1 # n
        BY <1>2
      <4>2. f[n - 1] = g[n - 1] /\ f[n] = IndexApply(g[n - 1], rs[n])
        BY <4>1
      <4> QED BY <1>2, <3>3, <4>2
    <3> QED BY <3>1, <3>2, <3>3
  <2>3. f = [m \in 0 .. n |-> f[m]]
    OBVIOUS
  <2> HIDE DEF f
  <2>4. f = [m \in 0 .. n |-> IF m = 0 THEN idx ELSE IndexApply(f[m - 1], rs[m])]
    BY <2>2, <2>3
  <2> QED BY <2>4
<1> HIDE DEF Good
<1>3. Bad = {}
  <2> SUFFICES ASSUME Bad # {} PROVE FALSE
    OBVIOUS
  <2>1. PICK n \in Bad : \A m \in Bad : n <= m
    <3>1. Bad \subseteq Nat
      OBVIOUS
    <3> HIDE DEF Bad
    <3> QED BY <3>1, LeastNat
  <2>2. n \in Nat /\ n > 0
    BY <1>1
  <2>3. n - 1 \in Nat /\ n - 1 \notin Bad
    BY <2>1, <2>2
  <2>4. Good(n - 1)
    BY <2>3
  <2> QED BY <1>2, <2>2, <2>4
<1>4. Len(rs) \in Nat
  OBVIOUS
<1>5. Good(Len(rs))
  BY <1>3, <1>4
<1> QED BY <1>5 DEF Good, Stages

LEMMA AppliedIs ==
  ASSUME NEW idx, NEW S, NEW rs \in Seq(S)
  PROVE  \E f : Stages(idx, rs, f) /\ Applied(idx, rs) = f[Len(rs)]
<1> DEFINE f == CHOOSE g : g = [n \in 0 .. Len(rs) |-> IF n = 0 THEN idx ELSE IndexApply(g[n - 1], rs[n])]
<1>1. Stages(idx, rs, f)
  BY StagesExist DEF Stages
<1>2. Applied(idx, rs) = f[Len(rs)]
  BY DEF Applied
<1> QED BY <1>1, <1>2

LEMMA ReplayIs == \A rs : Replay(rs) = Applied(<<>>, rs)
BY DEF Replay, Applied

LEMMA StagesUnfold ==
  ASSUME NEW idx, NEW S, NEW rs \in Seq(S), NEW f, Stages(idx, rs, f)
  PROVE  /\ f[0] = idx
         /\ \A n \in 1 .. Len(rs) : f[n] = IndexApply(f[n - 1], rs[n])
<1>1. Len(rs) \in Nat /\ 0 \in 0 .. Len(rs)
  OBVIOUS
<1>2. f[0] = idx
  BY <1>1 DEF Stages
<1>3. ASSUME NEW n \in 1 .. Len(rs) PROVE f[n] = IndexApply(f[n - 1], rs[n])
  <2>1. n \in 0 .. Len(rs) /\ n # 0
    OBVIOUS
  <2> QED BY <2>1 DEF Stages
<1> QED BY <1>2, <1>3

\* Nothing applied, and one record more.
LEMMA AppliedSteps ==
  ASSUME NEW idx, NEW S, NEW rs \in Seq(S), NEW r \in S
  PROVE  /\ Applied(idx, <<>>) = idx
         /\ Applied(idx, Append(rs, r)) = IndexApply(Applied(idx, rs), r)
<1>1. Applied(idx, <<>>) = idx
  <2> DEFINE e == <<>>
  <2>1. e \in Seq(S) /\ Len(e) = 0
    OBVIOUS
  <2> HIDE DEF e
  <2>2. PICK f : Stages(idx, e, f) /\ Applied(idx, e) = f[Len(e)]
    BY <2>1, AppliedIs
  <2>3. f[0] = idx
    BY <2>1, <2>2, StagesUnfold
  <2>4. Applied(idx, e) = idx
    BY <2>1, <2>2, <2>3
  <2> QED BY <2>4 DEF e
<1>2. PICK q : q = Append(rs, r)
  OBVIOUS
<1>3. q \in Seq(S) /\ Len(q) = Len(rs) + 1 /\ q[Len(rs) + 1] = r /\ Len(rs) \in Nat
      /\ \A n \in 1 .. Len(rs) : q[n] = rs[n]
  BY <1>2
<1>4. PICK f : Stages(idx, rs, f) /\ Applied(idx, rs) = f[Len(rs)]
  BY AppliedIs
<1>5. PICK g : Stages(idx, q, g) /\ Applied(idx, q) = g[Len(q)]
  BY <1>3, AppliedIs
<1>6. f[0] = idx /\ \A n \in 1 .. Len(rs) : f[n] = IndexApply(f[n - 1], rs[n])
  BY <1>4, StagesUnfold
<1>7. g[0] = idx /\ \A n \in 1 .. Len(q) : g[n] = IndexApply(g[n - 1], q[n])
  BY <1>3, <1>5, StagesUnfold
<1>8. \A n \in 0 .. Len(rs) : g[n] = f[n]
  <2> DEFINE Bad == {n \in 0 .. Len(rs) : g[n] # f[n]}
  <2> SUFFICES ASSUME Bad # {} PROVE FALSE
    OBVIOUS
  <2>1. PICK n \in Bad : \A m \in Bad : n <= m
    <3>1. Bad \subseteq Nat
      OBVIOUS
    <3> HIDE DEF Bad
    <3> QED BY <3>1, LeastNat
  <2>2. n \in 1 .. Len(rs) /\ n - 1 \in 0 .. Len(rs) /\ n - 1 \notin Bad
    BY <1>6, <1>7, <2>1
  <2>3. g[n - 1] = f[n - 1] /\ n \in 1 .. Len(q)
    BY <1>3, <2>2
  <2> QED BY <1>3, <1>6, <1>7, <2>1, <2>2, <2>3
<1>9. g[Len(rs)] = f[Len(rs)] /\ g[Len(q)] = IndexApply(g[Len(rs)], r)
  BY <1>3, <1>7, <1>8
<1> QED BY <1>1, <1>2, <1>4, <1>5, <1>9
\* index.Load, record by record.
LEMMA ReplaySteps ==
  ASSUME NEW S, NEW rs \in Seq(S), NEW r \in S
  PROVE  Replay(<<>>) = <<>> /\ Replay(Append(rs, r)) = IndexApply(Replay(rs), r)
<1> DEFINE e == <<>>
<1> HIDE DEF e
<1>1. /\ Applied(e, <<>>) = e
      /\ Applied(e, Append(rs, r)) = IndexApply(Applied(e, rs), r)
  BY AppliedSteps
<1> QED BY <1>1, ReplayIs DEF e

LEMMA ReplayNone == Replay(<<>>) = <<>>
<1>1. <<>> \in Seq({1}) /\ 1 \in {1}
  OBVIOUS
<1> QED BY <1>1, ReplaySteps

\* The result is an index, whatever the records are.
LEMMA ReplayTidy ==
  ASSUME NEW rs \in Seq(Location)
  PROVE  Replay(rs) \in Seq(Location) /\ Tidy(Replay(rs))
<1> DEFINE e == <<>>
<1>1. e \in Seq(Location) /\ Tidy(e)
  BY NoneTidy
<1>2. Replay(rs) = Applied(e, rs)
  BY ReplayIs
<1> HIDE DEF e
<1>3. PICK f : Stages(e, rs, f) /\ Applied(e, rs) = f[Len(rs)]
  BY AppliedIs
<1>4. f[0] = e /\ \A n \in 1 .. Len(rs) : f[n] = IndexApply(f[n - 1], rs[n])
  BY <1>3, StagesUnfold
<1>5. PICK m \in Nat : m = Len(rs)
  OBVIOUS
<1> DEFINE Good(n) == f[n] \in Seq(Location) /\ Tidy(f[n])
           Bad == {n \in 0 .. m : ~Good(n)}
<1>6. Bad = {}
  <2> SUFFICES ASSUME Bad # {} PROVE FALSE
    OBVIOUS
  <2>1. PICK n \in Bad : \A k \in Bad : n <= k
    <3>1. Bad \subseteq Nat
      OBVIOUS
    <3> HIDE DEF Bad
    <3> QED BY <3>1, LeastNat
  <2>2. Good(0)
    BY <1>1, <1>4
  <2>3. n \in 1 .. m /\ n - 1 \in 0 .. m /\ n - 1 \notin Bad
    BY <2>1, <2>2
  <2>4. Good(n - 1)
    BY <2>3
  <2>5. f[n] = IndexApply(f[n - 1], rs[n]) /\ rs[n] \in Location
    BY <1>4, <1>5, <2>3
  <2>6. Good(n)
    BY <2>4, <2>5, IndexApplyType, IndexApplyTidy
  <2> QED BY <2>1, <2>6
<1>7. Good(m)
  BY <1>6
<1> QED BY <1>2, <1>3, <1>5, <1>7

-----------------------------------------------------------------------------
(* The index logs on disk are those of the queue's consumers, unless it was *)
(* opened with forks, or a fork failed.                                    *)

OkForks == known \cap {"clearCut", "forksForgotten", "failedFork"} = {}

Owned ==
    OkForks /\ pc # "down" =>
        /\ exist \subseteq forks \cup {Main} \cup (IF Forking THEN {cur} ELSE {})
        /\ made = forks
        /\ pc = "idle" /\ tree = "absent" => exist = {}
        /\ pc = "rmMain" => forks \cap exist = {}
        /\ pc = "rmDir" => exist = {}

LEMMA InitOwned == Init => Owned
BY DEF Init, Owned

LEMMA QueueOwned ==
    ASSUME OpenInv, Program, OnDisk, Owned, Main \notin Forks, exist \subseteq Consumers,
           Start \/ Close \/ Crash \/ CloseUnused
    PROVE  Owned'
<1> USE DEF OpenInv, Control, Indexes, Loading, LoadingOne, Forking, ForksOpen, Pushing, Doing, Working, Serving, Program, OnDisk, OkForks, Owned
<1>1. CASE Start
  BY <1>1 DEF Start, disk, index, queue, oper, counters, history
<1>2. CASE Close
  BY <1>2 DEF Close, Stop, Forget, Return, disk, index, queue, oper, counters, history
<1>3. CASE Crash
  BY <1>3 DEF Crash, Stop, Forget, Return, disk, index, queue, oper, counters, history
<1>4. CASE CloseUnused
  BY <1>4 DEF CloseUnused, Forget, disk, index, queue, oper, counters, history
<1> QED BY <1>1, <1>2, <1>3, <1>4

LEMMA OpeningOwned ==
    ASSUME OpenInv, Program, OnDisk, Owned, Main \notin Forks, exist \subseteq Consumers,
           Open \/ LoadIndex \/ Loaded \/ Recover \/ Rewrite \/ Rewritten \/ Reinit \/ Opened
    PROVE  Owned'
<1> USE DEF OpenInv, Control, Indexes, Loading, LoadingOne, Forking, ForksOpen, Pushing, Doing, Working, Serving, Program, OnDisk, OkForks, Owned
<1>1. CASE Open
  BY <1>1 DEF Open, disk, index, queue, oper, counters, history
<1>2. CASE LoadIndex
  BY <1>2 DEF LoadIndex, ToLoad, Write, disk, index, queue, oper, counters, history
<1>3. CASE Loaded
  BY <1>3 DEF Loaded, disk, index, queue, oper, counters, history
<1>4. CASE Recover
  BY <1>4 DEF Recover, Write, disk, index, queue, oper, counters, history
<1>5. CASE Rewrite
  BY <1>5 DEF Rewrite, Write, disk, index, queue, oper, counters, history
<1>6. CASE Rewritten
  BY <1>6 DEF Rewritten, disk, index, queue, oper, counters, history
<1>7. CASE Reinit
  BY <1>7 DEF Reinit, Forget, disk, index, queue, oper, counters, history
<1>8. CASE Opened
  BY <1>8 DEF Opened, ToLoad, FetchedForks, disk, index, queue, oper, counters, history
<1> QED BY <1>1, <1>2, <1>3, <1>4, <1>5, <1>6, <1>7, <1>8

LEMMA RemovingOwned ==
    ASSUME OpenInv, Program, OnDisk, Owned, Main \notin Forks, exist \subseteq Consumers,
           RmIndex \/ RmDat \/ RmMain \/ RmDir \/ RmDirFails
    PROVE  Owned'
<1> USE DEF OpenInv, Control, Indexes, Loading, LoadingOne, Forking, ForksOpen, Pushing, Doing, Working, Serving, Program, OnDisk, OkForks, Owned
<1>1. CASE RmIndex
  BY <1>1 DEF RmIndex, Named, RmIndexLog, disk, index, queue, oper, counters, history
<1>2. CASE RmDat
  BY <1>2 DEF RmDat, Named, disk, index, queue, oper, counters, history
<1>3. CASE RmMain
  BY <1>3 DEF RmMain, RmIndexLog, disk, index, queue, oper, counters, history
<1>4. CASE RmDir
  BY <1>4 DEF RmDir, Return, disk, index, queue, oper, counters, history
<1>5. CASE RmDirFails
  BY <1>5 DEF RmDirFails, OpenFails, Forget, Return, disk, index, queue, oper, counters, history
<1> QED BY <1>1, <1>2, <1>3, <1>4, <1>5

LEMMA JournalOwned ==
    ASSUME OpenInv, Program, OnDisk, Owned, Main \notin Forks, exist \subseteq Consumers,
           Journal \/ JournalEnd \/ FailWrite \/ Failed
    PROVE  Owned'
<1> USE DEF OpenInv, Control, Indexes, Loading, LoadingOne, Forking, ForksOpen, Pushing, Doing, Working, Serving, Program, OnDisk, OkForks, Owned
<1>1. CASE Journal
  BY <1>1 DEF Journal, EditMem, disk, index, queue, oper, counters, history
<1>2. CASE JournalEnd
  BY <1>2 DEF JournalEnd, disk, index, queue, oper, counters, history
<1>3. CASE FailWrite
  <2>1. CASE then = "pushed" /\ EditMem(Head(todo)) /\ PushOver /\ UNCHANGED queue
    BY <1>3, <2>1 DEF FailWrite, EditMem, PushOver, queue, disk, counters
  <2>2. CASE then \in {"popped", "forked"} /\ EditMem(Head(todo)) /\ Return("idle") /\ UNCHANGED queue
    BY <1>3, <2>2 DEF FailWrite, EditMem, Return, queue, disk, counters
  <2>3. CASE then = "rewritten" /\ OpenFails
    BY <1>3, <2>3 DEF FailWrite, OpenFails, Forget, Return, queue, disk, counters
  <2>4. CASE /\ then \in {"deleted", "failed"} /\ EditMem(Head(todo))
             /\ todo' = Tail(todo) /\ then' = "failed"
             /\ UNCHANGED <<pc, after, cur, call, batch, wrote, rd, reading, queue>>
    BY <1>3, <2>4 DEF FailWrite, EditMem, queue, disk, counters
  <2> HIDE DEF OpenInv, Control, Indexes, Loading, LoadingOne, Forking, ForksOpen, Pushing, Doing, Working, Serving, Program, OnDisk, OkForks, Owned
  <2> QED BY <1>3, <2>1, <2>2, <2>3, <2>4 DEF FailWrite
<1>4. CASE Failed
  BY <1>4 DEF Failed, Return, disk, index, queue, oper, counters, history
<1> QED BY <1>1, <1>2, <1>3, <1>4

LEMMA PushOwned ==
    ASSUME OpenInv, Program, OnDisk, Owned, Main \notin Forks, exist \subseteq Consumers,
           Push \/ TxPush \/ WriteItem \/ PushIndex \/ PushDone
    PROVE  Owned'
<1> USE DEF OpenInv, Control, Indexes, Loading, LoadingOne, Forking, ForksOpen, Pushing, Doing, Working, Serving, Program, OnDisk, OkForks, Owned
<1>1. CASE Push
  BY <1>1 DEF Push, Given, WhenOpen, disk, index, queue, oper, counters, history
<1>2. CASE TxPush
  BY <1>2 DEF TxPush, Given, disk, index, queue, oper, counters, history
<1>3. CASE WriteItem
  BY <1>3 DEF WriteItem, disk, index, queue, oper, counters, history
<1>4. CASE PushIndex
  BY <1>4 DEF PushIndex, Write, disk, index, queue, oper, counters, history
<1>5. CASE PushDone
  BY <1>5 DEF PushDone, PushOver, disk, index, queue, oper, counters, history
<1> QED BY <1>1, <1>2, <1>3, <1>4, <1>5

LEMMA ReadOwned ==
    ASSUME OpenInv, Program, OnDisk, Owned, Main \notin Forks, exist \subseteq Consumers,
           Read \/ ReadFirst \/ ReadNext \/ ReadServe \/ Pop \/ Popped \/ PeekOnly \/ CallbackErr \/ Reap
    PROVE  Owned'
<1> USE DEF OpenInv, Control, Indexes, Loading, LoadingOne, Forking, ForksOpen, Pushing, Doing, Working, Serving, Program, OnDisk, OkForks, Owned
<1>1. CASE Read
  BY <1>1 DEF Read, WhenOpen, NoCall, disk, index, queue, oper, counters, history
<1>2. CASE ReadFirst
  BY <1>2 DEF ReadFirst, disk, index, queue, oper, counters, history
<1>3. CASE ReadNext
  BY <1>3 DEF ReadNext, disk, index, queue, oper, counters, history
<1>4. CASE ReadServe
  BY <1>4 DEF ReadServe, disk, index, queue, oper, counters, history
<1>5. CASE Pop
  BY <1>5 DEF Pop, Write, disk, index, queue, oper, counters, history
<1>6. CASE Popped
  BY <1>6 DEF Popped, disk, index, queue, oper, counters, history
<1>7. CASE PeekOnly
  BY <1>7 DEF PeekOnly, disk, index, queue, oper, counters, history
<1>8. CASE CallbackErr
  BY <1>8 DEF CallbackErr, Return, disk, index, queue, oper, counters, history
<1>9. CASE Reap
  BY <1>9 DEF Reap, DropBucket, Forget, Return, disk, index, queue, oper, counters, history
<1> QED BY <1>1, <1>2, <1>3, <1>4, <1>5, <1>6, <1>7, <1>8, <1>9

LEMMA ForksOwned ==
    ASSUME OpenInv, Program, OnDisk, Owned, Main \notin Forks, exist \subseteq Consumers,
           Delete \/ DeleteBegin \/ Deleted \/ Clear \/ ForkListed \/ Fork \/ Forked \/ RemoveFork
    PROVE  Owned'
<1> USE DEF OpenInv, Control, Indexes, Loading, LoadingOne, Forking, ForksOpen, Pushing, Doing, Working, Serving, Program, OnDisk, OkForks, Owned
<1>1. CASE Delete
  BY <1>1 DEF Delete, WhenOpen, NoCall, disk, index, queue, oper, counters, history
<1>2. CASE DeleteBegin
  BY <1>2 DEF DeleteBegin, Write, disk, index, queue, oper, counters, history
<1>3. CASE Deleted
  BY <1>3 DEF Deleted, disk, index, queue, oper, counters, history
<1>4. CASE Clear
  BY <1>4 DEF Clear, DropBucket, Forget, Return, disk, index, queue, oper, counters, history
<1>5. CASE ForkListed
  BY <1>5 DEF ForkListed, ForkMade, disk, index, queue, oper, counters, history
<1>6. CASE Fork
  BY <1>6 DEF Fork, Write, NoCall, disk, index, queue, oper, counters, history
<1>7. CASE Forked
  BY <1>7 DEF Forked, ForkMade, Return, disk, index, queue, oper, counters, history
<1>8. CASE RemoveFork
  BY <1>8 DEF RemoveFork, RmIndexLog, DropBucket, Forget, Return, disk, index, queue, oper, counters, history
<1> QED BY <1>1, <1>2, <1>3, <1>4, <1>5, <1>6, <1>7, <1>8

-----------------------------------------------------------------------------
(* Loading an index, one record after the other.                           *)

\* n records of the log f were applied; the others are still to be.
LoadedUpTo(f, n) ==
    /\ n \in 0 .. Len(f) /\ Len(todo) = Len(f) - n
    /\ \A j \in 1 .. Len(todo) : todo[j] = EditOf({"mem"}, cur, f[n + j])
    /\ mem[cur] = Replay(SubSeq(f, 1, n))
    /\ cur \notin seen => mem[cur] = <<>> /\ \A i \in 1 .. n : f[i].len = 0

LoadProgress == Doing("loaded") => \E n \in 0 .. Len(file[cur]) : LoadedUpTo(file[cur], n)

LEMMA InitProgress == Init => LoadProgress
BY DEF Init, LoadProgress, Doing

\* Only the reading of the log itself leads to there.
LEMMA QueueNotLoading ==
    ASSUME OpenInv, Program,
           Start \/ Close \/ Crash \/ CloseUnused
    PROVE  (~Doing("loaded"))'
<1> USE DEF OpenInv, Control, Doing
<1>1. CASE Start
  BY <1>1 DEF Start, disk, index, queue, oper, counters, history
<1>2. CASE Close
  BY <1>2 DEF Close, Stop, Forget, Return, disk, index, queue, oper, counters, history
<1>3. CASE Crash
  BY <1>3 DEF Crash, Stop, Forget, Return, disk, index, queue, oper, counters, history
<1>4. CASE CloseUnused
  BY <1>4 DEF CloseUnused, Forget, disk, index, queue, oper, counters, history
<1> QED BY <1>1, <1>2, <1>3, <1>4

LEMMA OpeningNotLoading ==
    ASSUME OpenInv, Program,
           Open \/ Loaded \/ Recover \/ Rewrite \/ Rewritten \/ Reinit \/ Opened
    PROVE  (~Doing("loaded"))'
<1> USE DEF OpenInv, Control, Doing
<1>1. CASE Open
  BY <1>1 DEF Open, disk, index, queue, oper, counters, history
<1>2. CASE Loaded
  BY <1>2 DEF Loaded, disk, index, queue, oper, counters, history
<1>3. CASE Recover
  BY <1>3 DEF Recover, Write, disk, index, queue, oper, counters, history
<1>4. CASE Rewrite
  BY <1>4 DEF Rewrite, Write, disk, index, queue, oper, counters, history
<1>5. CASE Rewritten
  BY <1>5 DEF Rewritten, disk, index, queue, oper, counters, history
<1>6. CASE Reinit
  BY <1>6 DEF Reinit, Forget, disk, index, queue, oper, counters, history
<1>7. CASE Opened
  BY <1>7 DEF Opened, ToLoad, FetchedForks, disk, index, queue, oper, counters, history
<1> QED BY <1>1, <1>2, <1>3, <1>4, <1>5, <1>6, <1>7

LEMMA RemovingNotLoading ==
    ASSUME OpenInv, Program,
           RmIndex \/ RmDat \/ RmMain \/ RmDir \/ RmDirFails
    PROVE  (~Doing("loaded"))'
<1> USE DEF OpenInv, Control, Doing
<1>1. CASE RmIndex
  BY <1>1 DEF RmIndex, Named, RmIndexLog, disk, index, queue, oper, counters, history
<1>2. CASE RmDat
  BY <1>2 DEF RmDat, Named, disk, index, queue, oper, counters, history
<1>3. CASE RmMain
  BY <1>3 DEF RmMain, RmIndexLog, disk, index, queue, oper, counters, history
<1>4. CASE RmDir
  BY <1>4 DEF RmDir, Return, disk, index, queue, oper, counters, history
<1>5. CASE RmDirFails
  BY <1>5 DEF RmDirFails, OpenFails, Forget, Return, disk, index, queue, oper, counters, history
<1> QED BY <1>1, <1>2, <1>3, <1>4, <1>5

LEMMA JournalNotLoading ==
    ASSUME OpenInv, Program,
           Failed
    PROVE  (~Doing("loaded"))'
<1> USE DEF OpenInv, Control, Doing
<1>1. CASE Failed
  BY <1>1 DEF Failed, Return, disk, index, queue, oper, counters, history
<1> QED BY <1>1

LEMMA PushNotLoading ==
    ASSUME OpenInv, Program,
           Push \/ TxPush \/ WriteItem \/ PushIndex \/ PushDone
    PROVE  (~Doing("loaded"))'
<1> USE DEF OpenInv, Control, Doing
<1>1. CASE Push
  BY <1>1 DEF Push, Given, WhenOpen, disk, index, queue, oper, counters, history
<1>2. CASE TxPush
  BY <1>2 DEF TxPush, Given, disk, index, queue, oper, counters, history
<1>3. CASE WriteItem
  BY <1>3 DEF WriteItem, disk, index, queue, oper, counters, history
<1>4. CASE PushIndex
  BY <1>4 DEF PushIndex, Write, disk, index, queue, oper, counters, history
<1>5. CASE PushDone
  BY <1>5 DEF PushDone, PushOver, disk, index, queue, oper, counters, history
<1> QED BY <1>1, <1>2, <1>3, <1>4, <1>5

LEMMA ReadNotLoading ==
    ASSUME OpenInv, Program,
           Read \/ ReadFirst \/ ReadNext \/ ReadServe \/ Pop \/ Popped \/ PeekOnly \/ CallbackErr \/ Reap
    PROVE  (~Doing("loaded"))'
<1> USE DEF OpenInv, Control, Doing
<1>1. CASE Read
  BY <1>1 DEF Read, WhenOpen, NoCall, disk, index, queue, oper, counters, history
<1>2. CASE ReadFirst
  BY <1>2 DEF ReadFirst, disk, index, queue, oper, counters, history
<1>3. CASE ReadNext
  BY <1>3 DEF ReadNext, disk, index, queue, oper, counters, history
<1>4. CASE ReadServe
  BY <1>4 DEF ReadServe, disk, index, queue, oper, counters, history
<1>5. CASE Pop
  BY <1>5 DEF Pop, Write, disk, index, queue, oper, counters, history
<1>6. CASE Popped
  BY <1>6 DEF Popped, disk, index, queue, oper, counters, history
<1>7. CASE PeekOnly
  BY <1>7 DEF PeekOnly, disk, index, queue, oper, counters, history
<1>8. CASE CallbackErr
  BY <1>8 DEF CallbackErr, Return, disk, index, queue, oper, counters, history
<1>9. CASE Reap
  BY <1>9 DEF Reap, DropBucket, Forget, Return, disk, index, queue, oper, counters, history
<1> QED BY <1>1, <1>2, <1>3, <1>4, <1>5, <1>6, <1>7, <1>8, <1>9

LEMMA ForksNotLoading ==
    ASSUME OpenInv, Program,
           Delete \/ DeleteBegin \/ Deleted \/ Clear \/ ForkListed \/ Fork \/ Forked \/ RemoveFork
    PROVE  (~Doing("loaded"))'
<1> USE DEF OpenInv, Control, Doing
<1>1. CASE Delete
  BY <1>1 DEF Delete, WhenOpen, NoCall, disk, index, queue, oper, counters, history
<1>2. CASE DeleteBegin
  BY <1>2 DEF DeleteBegin, Write, disk, index, queue, oper, counters, history
<1>3. CASE Deleted
  BY <1>3 DEF Deleted, disk, index, queue, oper, counters, history
<1>4. CASE Clear
  BY <1>4 DEF Clear, DropBucket, Forget, Return, disk, index, queue, oper, counters, history
<1>5. CASE ForkListed
  BY <1>5 DEF ForkListed, ForkMade, disk, index, queue, oper, counters, history
<1>6. CASE Fork
  BY <1>6 DEF Fork, Write, NoCall, disk, index, queue, oper, counters, history
<1>7. CASE Forked
  BY <1>7 DEF Forked, ForkMade, Return, disk, index, queue, oper, counters, history
<1>8. CASE RemoveFork
  BY <1>8 DEF RemoveFork, RmIndexLog, DropBucket, Forget, Return, disk, index, queue, oper, counters, history
<1> QED BY <1>1, <1>2, <1>3, <1>4, <1>5, <1>6, <1>7, <1>8

LEMMA FailNotLoading ==
    ASSUME OpenInv, Program, Targets, FailWrite, todo \in Seq(Edit)
    PROVE  ~Doing("loaded")'
<1>1. pc = "journal" /\ todo # <<>> /\ "log" \in todo[1].on /\ 1 \in DOMAIN todo
  BY DEF FailWrite
<1>2. then # "loaded"
  BY <1>1 DEF Targets
<1> QED BY <1>1, <1>2 DEF FailWrite, PushOver, OpenFails, Return, Doing, OpenInv, Control

LEMMA PrefixAt ==
  ASSUME NEW S, NEW f \in Seq(S), NEW n \in 0 .. Len(f), n < Len(f)
  PROVE  /\ SubSeq(f, 1, n) \in Seq(S) /\ f[n + 1] \in S
         /\ SubSeq(f, 1, n + 1) = Append(SubSeq(f, 1, n), f[n + 1])
<1>1. SubSeq(f, 1, n) \in Seq(S) /\ f[n + 1] \in S /\ Len(SubSeq(f, 1, n)) = n
  OBVIOUS
<1>2. PICK a, b : a = SubSeq(f, 1, n + 1) /\ b = Append(SubSeq(f, 1, n), f[n + 1])
  OBVIOUS
<1>3. a \in Seq(S) /\ Len(a) = n + 1 /\ \A i \in 1 .. n + 1 : a[i] = f[i]
  BY <1>2
<1>4. b \in Seq(S) /\ Len(b) = n + 1 /\ \A i \in 1 .. n + 1 : b[i] = f[i]
  <2>1. b \in Seq(S) /\ Len(b) = n + 1
    BY <1>1, <1>2
  <2>2. b[n + 1] = f[n + 1]
    BY <1>1, <1>2
  <2>3. \A i \in 1 .. n : b[i] = f[i]
    BY <1>1, <1>2
  <2> QED BY <2>1, <2>2, <2>3
<1>5. a = b
  BY <1>3, <1>4
<1> QED BY <1>1, <1>2, <1>5

LEMMA LoadingStep ==
    ASSUME Base, LoadProgress, Journal, then = "loaded"
    PROVE  LoadProgress'
<1>1. /\ pc = "journal" /\ todo # <<>> /\ todo \in Seq(Edit)
      /\ mem \in [Consumers -> Seq(Location)] /\ file \in [Consumers -> Seq(Location)] /\ cur \in Consumers
  BY BaseTypes DEF Journal
<1>2. PICK f \in Seq(Location) : f = file[cur]
  BY <1>1
<1>3. PICK n \in 0 .. Len(f) : LoadedUpTo(f, n)
  BY <1>1, <1>2 DEF LoadProgress, Doing
<1>4. n < Len(f) /\ todo[1] = EditOf({"mem"}, cur, f[n + 1]) /\ f[n + 1] \in Location /\ n \in Nat
  <2>1. Len(todo) \in Nat /\ Len(todo) > 0 /\ Len(f) \in Nat
    BY <1>1
  <2>2. n < Len(f) /\ 1 \in 1 .. Len(todo)
    BY <1>3, <2>1 DEF LoadedUpTo
  <2> QED BY <1>3, <2>2 DEF LoadedUpTo
<1>5. PICK loc \in Location : loc = f[n + 1]
  BY <1>4
<1>6. Head(todo) = EditOf({"mem"}, cur, loc)
  BY <1>1, <1>4, <1>5
<1>7. /\ file' = file /\ cur' = cur /\ pc' = pc /\ then' = then /\ todo' = Tail(todo)
      /\ mem' = [mem EXCEPT ![cur] = IndexApply(@, loc)]
      /\ seen' = IF Counts(mem[cur], loc) THEN seen \cup {cur} ELSE seen
  <2>1. PICK e : e = Head(todo)
    OBVIOUS
  <2>2. e.on = {"mem"} /\ e.to = cur /\ e.loc = loc
    BY <1>6, <2>1, EditOfIs
  <2>3. /\ EditMem(e) /\ cur' = cur /\ pc' = pc /\ then' = then /\ todo' = Tail(todo)
        /\ file' = IF "log" \in e.on THEN [file EXCEPT ![e.to] = Append(@, e.loc)] ELSE file
    BY <2>1 DEF Journal
  <2> QED BY <2>2, <2>3 DEF EditMem
<1>8. Replay(SubSeq(f, 1, n + 1)) = IndexApply(Replay(SubSeq(f, 1, n)), loc)
  BY <1>4, <1>5, PrefixAt, ReplaySteps, ZenonT(60)
<1>9. mem'[cur] = Replay(SubSeq(f, 1, n + 1))
  BY <1>1, <1>3, <1>7, <1>8 DEF LoadedUpTo
<1>10. /\ n + 1 \in 0 .. Len(f) /\ Len(todo') = Len(f) - (n + 1)
       /\ \A j \in 1 .. Len(todo') : todo'[j] = EditOf({"mem"}, cur, f[(n + 1) + j])
  <2>1. /\ Len(todo') = Len(todo) - 1 /\ DOMAIN todo' = 1 .. Len(todo) - 1 /\ Len(todo) = Len(f) - n
        /\ \A j \in DOMAIN todo' : j + 1 \in DOMAIN todo /\ todo'[j] = todo[j + 1]
    BY <1>1, <1>3, <1>7, TailAt DEF LoadedUpTo
  <2>2. ASSUME NEW j \in 1 .. Len(todo') PROVE todo'[j] = EditOf({"mem"}, cur, f[(n + 1) + j])
    <3>1. j \in DOMAIN todo' /\ j + 1 \in 1 .. Len(todo) /\ n + (j + 1) = (n + 1) + j
      BY <1>1, <1>4, <2>1
    <3>2. todo[j + 1] = EditOf({"mem"}, cur, f[n + (j + 1)])
      BY <1>3, <3>1 DEF LoadedUpTo
    <3> QED BY <2>1, <3>1, <3>2
  <2>3. Len(f) \in Nat
    OBVIOUS
  <2> QED BY <1>4, <2>1, <2>2, <2>3
<1>11. cur \notin seen' => mem'[cur] = <<>> /\ \A i \in 1 .. n + 1 : f[i].len = 0
  <2> SUFFICES ASSUME cur \notin seen' PROVE mem'[cur] = <<>> /\ \A i \in 1 .. n + 1 : f[i].len = 0
    OBVIOUS
  <2>1. cur \notin seen /\ ~Counts(mem[cur], loc)
    BY <1>7
  <2>2. mem[cur] = <<>> /\ \A i \in 1 .. n : f[i].len = 0
    BY <1>3, <2>1 DEF LoadedUpTo
  <2>3. loc.len = 0 /\ loc.key \notin IndexKeys(mem[cur])
    BY <2>1, LocNumbers DEF Counts
  <2>4. IndexApply(mem[cur], loc) = <<>>
    BY <2>2, <2>3 DEF IndexApply, IndexDelete
  <2>5. mem'[cur] = <<>>
    BY <1>1, <1>7, <2>4
  <2> QED BY <1>4, <1>5, <2>2, <2>3, <2>5
<1>12. LoadedUpTo(f, n + 1)'
  BY <1>7, <1>9, <1>10, <1>11 DEF LoadedUpTo
<1> QED BY <1>2, <1>7, <1>10, <1>12 DEF LoadProgress

LEMMA LoadBegins ==
    ASSUME Base, LoadIndex
    PROVE  LoadProgress'
<1>1. PICK c \in ToLoad : /\ cur' = c /\ mem' = [mem EXCEPT ![c] = <<>>]
                          /\ Write(EditsOf({"mem"}, c, file[c]), "loaded")
  BY DEF LoadIndex
<1>2. c \in Consumers /\ c \notin loaded /\ c \notin seen /\ seen' = seen /\ file' = file
  BY <1>1, BaseTypes, SMTT(40) DEF ToLoad, LoadIndex, Base, InMemory, LoadingOne, Loading
<1>3. PICK f \in Seq(Location) : f = file[c]
  BY <1>2, BaseTypes
<1>4. /\ todo' = EditsOf({"mem"}, c, f) /\ Len(todo') = Len(f) /\ Len(f) \in Nat
      /\ \A j \in 1 .. Len(f) : todo'[j] = EditOf({"mem"}, c, f[j])
  BY <1>1, <1>3, EditsOfAt DEF Write
<1>5. mem'[c] = <<>> /\ SubSeq(f, 1, 0) = <<>>
  BY <1>1, <1>2, BaseTypes
<1>6. LoadedUpTo(f, 0)'
  <2>1. Replay(SubSeq(f, 1, 0)) = <<>>
    BY <1>5, ReplayNone
  <2>2. mem'[cur'] = Replay(SubSeq(f, 1, 0)) /\ mem'[cur'] = <<>>
    BY <1>1, <1>5, <2>1
  <2>3. 0 \in 0 .. Len(f) /\ Len(todo') = Len(f) - 0 /\ \A i \in 1 .. 0 : f[i].len = 0
    BY <1>4
  <2>4. \A j \in 1 .. Len(todo') : todo'[j] = EditOf({"mem"}, cur', f[0 + j])
    BY <1>1, <1>4
  <2> QED BY <2>2, <2>3, <2>4 DEF LoadedUpTo
<1> QED BY <1>1, <1>2, <1>3, <1>4, <1>6 DEF LoadProgress

LEMMA ProgressStep ==
  ASSUME Base, LoadProgress, [Next]_vars
  PROVE  LoadProgress'
<1>1. CASE UNCHANGED vars
  <2>1. UNCHANGED <<file, mem, seen, pc, then, cur, todo>>
    BY <1>1 DEF vars, disk, index, oper
  <2> QED BY <2>1 DEF LoadProgress, LoadedUpTo, Doing
<1>2. CASE JournalEnd
  <2>1. UNCHANGED <<file, mem, seen, then, cur, todo>> /\ pc = "journal" /\ pc' = then
    BY <1>2 DEF JournalEnd, disk, index, oper
  <2> QED BY <2>1 DEF LoadProgress, LoadedUpTo, Doing, Base, OpenInv, Control
<1>3. CASE Journal /\ then # "loaded"
  BY <1>3 DEF Journal, LoadProgress, Doing
<1>4. CASE FailWrite
  BY <1>4, BaseTypes, FailNotLoading DEF Base, LoadProgress
<1>5. CASE ~Doing("loaded")'
  BY <1>5 DEF LoadProgress
<1> QED BY <1>1, <1>2, <1>3, <1>4, <1>5, LoadingStep, LoadBegins, QueueNotLoading,
           OpeningNotLoading, RemovingNotLoading, JournalNotLoading, PushNotLoading,
           ReadNotLoading, ForksNotLoading DEF Base, Next, Step, Environment

LEMMA OwnedStep ==
  ASSUME Base, Owned, [Next]_vars
  PROVE  Owned'
<1>1. CASE UNCHANGED vars
  BY <1>1 DEF vars, disk, queue, oper, history, Owned, OkForks, Forking
<1>2. exist \subseteq Consumers /\ Main \notin Forks
  BY BucketAssumption, Groups DEF Base, TypeInv, DiskT
<1> QED BY <1>1, <1>2, QueueOwned, OpeningOwned, RemovingOwned, JournalOwned, PushOwned, ReadOwned,
           ForksOwned DEF Base, Next, Step, Environment

-----------------------------------------------------------------------------
(* Batches that fit.                                                       *)

\* All locations of an index, or all records of a log that are not ends.
AllFit(g, locs) == \A i \in DOMAIN locs : locs[i].len > 0 => BatchFits(g, locs[i])

\* Appending to the value log does not concern what it has.
LEMMA FitsAppend ==
  ASSUME NEW g \in Seq(Item), NEW x \in Item, NEW loc \in Location, BatchFits(g, loc)
  PROVE  BatchFits(Append(g, x), loc)
<1>1. loc.off \in Nat /\ loc.len \in Nat /\ loc.len > 0 /\ loc.off + loc.len <= Len(g)
  BY LocNumbers DEF BatchFits
<1>2. PICK h : h = Append(g, x)
  OBVIOUS
<1>3. Len(h) = Len(g) + 1 /\ \A a \in 1 .. Len(g) : h[a] = g[a]
  BY <1>2
<1>4. \A a \in LocSlots(loc) : a \in 1 .. Len(g)
  BY <1>1 DEF LocSlots
<1>5. loc.off + 1 \in LocSlots(loc)
  BY <1>1 DEF LocSlots
<1>6. h[loc.off + 1].key = loc.key
  BY <1>3, <1>4, <1>5 DEF BatchFits
<1>7. \A a, b \in LocSlots(loc) : a <= b => h[a].key <= h[b].key
  BY <1>3, <1>4 DEF BatchFits
<1>8. loc.off + loc.len <= Len(h)
  BY <1>1, <1>3
<1> QED BY <1>1, <1>2, <1>6, <1>7, <1>8 DEF BatchFits

\* A part of a batch, filed under its own first key.
LEMMA PartFits ==
  ASSUME NEW g \in Seq(Item), NEW loc \in Location, BatchFits(g, loc),
         NEW m \in Location, m.len > 0, m.off >= loc.off, m.off + m.len <= loc.off + loc.len,
         m.key = g[m.off + 1].key
  PROVE  BatchFits(g, m)
<1>1. /\ loc.off \in Nat /\ loc.len \in Nat /\ loc.off + loc.len <= Len(g)
      /\ m.off \in Nat /\ m.len \in Nat
  BY LocNumbers DEF BatchFits
<1>2. \A a \in LocSlots(m) : a \in LocSlots(loc)
  BY <1>1, SMTT(40) DEF LocSlots
<1>3. \A a, b \in LocSlots(m) : a <= b => g[a].key <= g[b].key
  BY <1>2 DEF BatchFits
<1> QED BY <1>1, <1>3 DEF BatchFits

LEMMA SlotsFinite ==
  ASSUME NEW loc \in Location
  PROVE  IsFiniteSet(LocSlots(loc)) /\ Cardinality(LocSlots(loc)) = loc.len
<1>1. loc.off \in Nat /\ loc.len \in Nat
  BY LocNumbers
<1>2. IsFiniteSet((loc.off + 1) .. (loc.off + loc.len))
  BY <1>1, FS_Interval, SMTT(40)
<1>3. Cardinality((loc.off + 1) .. (loc.off + loc.len)) = loc.len
  <2>1. PICK a \in Int, b \in Int : a = loc.off + 1 /\ b = loc.off + loc.len
    BY <1>1
  <2>2. Cardinality(a .. b) = IF a > b THEN 0 ELSE b - a + 1
    BY FS_Interval
  <2> QED BY <1>1, <2>1, <2>2, SMTT(40)
<1> QED BY <1>2, <1>3 DEF LocSlots

LEMMA LeftFits ==
  ASSUME vlog \in Seq(Item), NEW loc \in Location, BatchFits(vlog, loc), NEW lo \in Nat,
         LeftPart(loc, lo).len > 0
  PROVE  BatchFits(vlog, LeftPart(loc, lo))
<1> DEFINE T == {s \in LocSlots(loc) \cap DOMAIN vlog : vlog[s].key < lo}
<1>1. loc.off \in Nat /\ loc.len \in Nat /\ loc.key = vlog[loc.off + 1].key
  BY LocNumbers DEF BatchFits
<1>2. Cardinality(T) <= loc.len
  <2>1. T \in SUBSET LocSlots(loc)
    OBVIOUS
  <2> HIDE DEF T
  <2> QED BY <2>1, SlotsFinite, FS_Subset
<1>3. PICK m \in Location : m = LeftPart(loc, lo)
  BY PartsType, BucketAssumption
<1>4. m.len = Cardinality(T) /\ m.off = loc.off /\ m.key = loc.key /\ m.len \in Nat /\ m.len > 0
  <2>1. m = [loc EXCEPT !.len = Cardinality(T)]
    BY <1>3 DEF LeftPart
  <2> HIDE DEF T
  <2> QED BY <1>3, <2>1, LocNumbers DEF Location
<1> HIDE DEF T
<1>5. m.off + m.len <= loc.off + loc.len
  BY <1>1, <1>2, <1>4
<1>6. BatchFits(vlog, m)
  BY <1>1, <1>4, <1>5, PartFits
<1> QED BY <1>3, <1>6

LEMMA RightFits ==
  ASSUME vlog \in Seq(Item), NEW loc \in Location, BatchFits(vlog, loc), NEW hi \in Nat,
         RightPart(loc, hi).len > 0
  PROVE  BatchFits(vlog, RightPart(loc, hi))
<1> DEFINE T == {s \in LocSlots(loc) \cap DOMAIN vlog : vlog[s].key > hi}
<1>1. loc.off \in Nat /\ loc.len \in Nat
  BY LocNumbers
<1>2. T # {}
  <2> SUFFICES ASSUME T = {} PROVE FALSE
    OBVIOUS
  <2>1. RightPart(loc, hi) = DeadLoc(loc.key)
    BY DEF RightPart
  <2> QED BY <2>1 DEF DeadLoc
<1>3. IsFiniteSet(T) /\ T \subseteq Int
  <2>1. T \in SUBSET LocSlots(loc) /\ T \subseteq Int
    BY DEF LocSlots
  <2> HIDE DEF T
  <2> QED BY <2>1, SlotsFinite, FS_Subset
<1>4. PICK x \in T : \A y \in T : x <= y
  <2> HIDE DEF T
  <2> QED BY <1>2, <1>3, LeastOfFinite
<1>5. Min(T) \in T
  <2> HIDE DEF T
  <2> QED BY <1>4 DEF Min
<1>6. PICK m \in Location : m = RightPart(loc, hi)
  BY PartsType
<1>7. PICK s \in T : s = Min(T)
  BY <1>5
<1>8. m = [key |-> vlog[s].key, off |-> s - 1, len |-> loc.off + loc.len - s + 1]
  BY <1>2, <1>6, <1>7 DEF RightPart
<1>9. s \in LocSlots(loc)
  OBVIOUS
<1> HIDE DEF T
<1>10. s \in Int /\ s >= loc.off + 1 /\ s <= loc.off + loc.len
  BY <1>1, <1>9 DEF LocSlots
<1>11. m.off = s - 1 /\ m.len = loc.off + loc.len - s + 1 /\ m.key = vlog[m.off + 1].key
  BY <1>8, <1>10
<1>12. m.len > 0 /\ m.off >= loc.off /\ m.off + m.len <= loc.off + loc.len
  BY <1>1, <1>10, <1>11, SMTT(40)
<1>13. BatchFits(vlog, m)
  BY <1>11, <1>12, PartFits
<1> QED BY <1>6, <1>13

\* Where no run starts, keys do not descend.
LEMMA NoStartAscends ==
  ASSUME NEW L \in Seq(Item), NEW p \in 1 .. Len(L), NEW e \in p .. Len(L),
         \A r \in (p + 1) .. e : ~RunStart(L, r)
  PROVE  \A a, b \in p .. e : a <= b => L[a].key <= L[b].key
<1>1. \A i \in 1 .. Len(L) : L[i].key \in Nat
  BY ItemKey, KeysAssumption
<1> SUFFICES ASSUME NEW a \in p .. e, NEW b0 \in p .. e, a <= b0, ~(L[a].key <= L[b0].key) PROVE FALSE
  OBVIOUS
<1> DEFINE Bad == {b \in a .. e : ~(L[a].key <= L[b].key)}
<1>2. Bad \subseteq Nat /\ b0 \in Bad
  OBVIOUS
<1>3. PICK b \in Bad : \A c \in Bad : b <= c
  <2> HIDE DEF Bad
  <2> QED BY <1>2, LeastNat
<1>4. b \in a .. e /\ ~(L[a].key <= L[b].key) /\ b # a
  BY <1>1, <1>3
<1>5. b - 1 \in a .. e /\ b - 1 \notin Bad /\ b \in (p + 1) .. e
  BY <1>3, <1>4
<1>6. L[a].key <= L[b - 1].key
  BY <1>5
<1>7. ~(L[b - 1].key > L[b].key)
  BY <1>5 DEF RunStart
<1>8. a \in 1 .. Len(L) /\ b \in 1 .. Len(L) /\ b - 1 \in 1 .. Len(L)
  BY <1>4, <1>5
<1> QED BY <1>1, <1>4, <1>6, <1>7, <1>8, SMTT(40)

\* A run of FromVlog is ascending.
LEMMA RunFits ==
  ASSUME NEW L \in Seq(Item), NEW p \in 1 .. Len(L)
  PROVE  BatchFits(L, RunAt(L, p))
<1> DEFINE T == {q \in p .. Len(L) : \A r \in (p + 1) .. q : ~RunStart(L, r)}
           U == {q \in p .. Len(L) + 1 : q = Len(L) + 1 \/ q \notin T}
<1>1. U \subseteq Nat /\ Len(L) + 1 \in U /\ Len(L) \in Nat
  OBVIOUS
<1>2. PICK u \in U : \A q \in U : u <= q
  <2> HIDE DEF U
  <2> QED BY <1>1, LeastNat
<1>3. u \in p .. Len(L) + 1 /\ \A q \in p .. u - 1 : q \in T
  BY <1>1, <1>2
<1>4. ASSUME NEW q \in T PROVE q \in p .. u - 1
  <2>1. CASE u = Len(L) + 1
    BY <2>1
  <2>2. CASE u \notin T /\ u <= Len(L)
    <3>1. PICK r \in (p + 1) .. u : RunStart(L, r)
      BY <1>3, <2>2
    <3>2. ~(r \in (p + 1) .. q)
      BY <3>1
    <3> QED BY <1>3, <3>1, <3>2
  <2> QED BY <1>1, <1>2, <2>1, <2>2
<1>5. T = p .. u - 1
  BY <1>3, <1>4
<1>6. p \in T
  OBVIOUS
<1> DEFINE e == u - 1
<1>7. e \in p .. Len(L) /\ \A r \in (p + 1) .. e : ~RunStart(L, r)
  <2>1. p \in p .. u - 1
    BY <1>5, <1>6
  <2>2. e \in p .. u - 1 /\ e \in p .. Len(L)
    BY <1>3, <2>1
  <2>3. e \in T
    BY <1>3, <2>2
  <2> QED BY <2>2, <2>3
<1>8. Cardinality(T) = e - p + 1
  <2> HIDE DEF T
  <2> QED BY <1>3, <1>5, <1>7, FS_Interval
<1>9. RunAt(L, p) = [key |-> L[p].key, off |-> p - 1, len |-> Cardinality(T)]
  BY DEF RunAt
<1>10. \A a, b \in p .. e : a <= b => L[a].key <= L[b].key
  <2> HIDE DEF e, T, U
  <2> QED BY <1>7, NoStartAscends
<1> HIDE DEF T, U, e
<1>11. PICK m : m = RunAt(L, p)
  OBVIOUS
<1>12. m.key = L[p].key /\ m.off = p - 1 /\ m.len = e - p + 1
  BY <1>8, <1>9, <1>11
<1>13. LocSlots(m) = p .. e
  BY <1>7, <1>12 DEF LocSlots
<1>14. m.len > 0 /\ m.off + m.len <= Len(L) /\ L[m.off + 1].key = m.key
  BY <1>7, <1>12, SMTT(40)
<1> QED BY <1>10, <1>11, <1>13, <1>14 DEF BatchFits

\* Applying a record that fits, or an end, to an index that fits.
LEMMA ApplyFits ==
  ASSUME NEW g \in Seq(Item), NEW idx \in Seq(Location), Tidy(idx), AllFit(g, idx),
         NEW loc \in Location, loc.len > 0 => BatchFits(g, loc)
  PROVE  AllFit(g, IndexApply(idx, loc))
<1>1. PICK r \in Seq(Location) : r = IndexApply(idx, loc)
  BY IndexApplyType
<1>2. \A i \in DOMAIN r : r[i] = loc \/ \E j \in DOMAIN idx : r[i] = idx[j]
  <2>1. CASE loc.len = 0 /\ loc.key \notin IndexKeys(idx)
    BY <1>1, <2>1 DEF IndexApply, IndexDelete
  <2>2. CASE loc.len = 0 /\ loc.key \in IndexKeys(idx)
    <3>1. PICK p \in 1 .. Len(idx) : DeletedAt(r, idx, loc.key, p)
      BY <1>1, <2>2, IndexDeleteAt DEF IndexApply
    <3> SUFFICES ASSUME NEW i \in DOMAIN r PROVE \E j \in DOMAIN idx : r[i] = idx[j]
      OBVIOUS
    <3>2. i \in 1 .. Len(idx) - 1 /\ Len(idx) \in Nat
      BY <3>1 DEF DeletedAt
    <3>3. CASE i < p
      BY <3>1, <3>2, <3>3 DEF DeletedAt
    <3>4. CASE i >= p
      <4>1. i \in p .. Len(idx) - 1 /\ i + 1 \in DOMAIN idx
        BY <3>2, <3>4
      <4>2. r[i] = idx[i + 1]
        BY <3>1, <4>1 DEF DeletedAt
      <4> QED BY <4>1, <4>2
    <3> QED BY <3>2, <3>3, <3>4
  <2>3. CASE loc.len # 0
    <3>1. PICK p \in 1 .. Len(idx) + 1 : SetAt(r, idx, loc, p)
      BY <1>1, <2>3, IndexSetAt DEF IndexApply, Tidy
    <3> SUFFICES ASSUME NEW i \in DOMAIN r, i # p PROVE \E j \in DOMAIN idx : r[i] = idx[j]
      BY <3>1 DEF SetAt
    <3>2. i \in 1 .. Len(idx) + 1 /\ Len(idx) \in Nat
      BY <3>1 DEF SetAt
    <3>3. CASE i < p
      BY <3>1, <3>2, <3>3 DEF SetAt
    <3>4. CASE i > p
      <4>1. i - 1 \in p .. Len(idx) /\ (i - 1) + 1 = i /\ i - 1 \in DOMAIN idx
        BY <3>1, <3>2, <3>4
      <4>2. r[(i - 1) + 1] = idx[i - 1]
        BY <3>1, <4>1 DEF SetAt
      <4> QED BY <4>1, <4>2
    <3> QED BY <3>2, <3>3, <3>4
  <2> QED BY <2>1, <2>2, <2>3
<1> QED BY <1>1, <1>2 DEF AllFit

-----------------------------------------------------------------------------
(* Iterators over batches that fit.                                        *)

ItersFit(g, h) == \A k \in DOMAIN h : IterFits(g, h[k])

\* addIter, for a batch that fits: there is an iterator more.
LEMMA AddIterIs ==
  ASSUME NEW L \in Seq(Item), NEW X \in Seq(Location), NEW h, NEW p \in 1 .. Len(X),
         BatchFits(L, X[p]), NEW r \in AddIter(L, X, h, p)
  PROVE  /\ r[2] = p + 1 /\ r[1] \in Pushed(h, IterAt(L, X[p]))
         /\ IterAt(L, X[p]) \in Iter /\ IterFits(L, IterAt(L, X[p]))
<1>1. X[p] \in Location
  OBVIOUS
<1>2. Readable(L, X[p]) /\ IterAt(L, X[p]) \in Iter /\ IterFits(L, IterAt(L, X[p]))
  BY <1>1, IterAtFits
<1>3. PICK g \in Pushed(h, IterAt(L, X[p])) : r = <<g, p + 1>>
  BY <1>2 DEF AddIter
<1> QED BY <1>2, <1>3

LEMMA PushedFit ==
  ASSUME NEW L, NEW h \in Seq(Iter), ItersFit(L, h), NEW it \in Iter, IterFits(L, it),
         NEW r \in Pushed(h, it)
  PROVE  ItersFit(L, r)
<1>1. PICK f : Permutes(f, Append(h, it), r)
  BY PushedPermutes
<1>2. PICK g : g = Append(h, it)
  OBVIOUS
<1>3. \A j \in DOMAIN g : IterFits(L, g[j])
  <2> SUFFICES ASSUME NEW j \in DOMAIN g PROVE IterFits(L, g[j])
    OBVIOUS
  <2>1. g[j] = it \/ (j \in DOMAIN h /\ g[j] = h[j])
    BY <1>2
  <2> QED BY <2>1 DEF ItersFit
<1>4. \A k \in DOMAIN r : f[k] \in DOMAIN g /\ r[k] = g[f[k]]
  BY <1>1, <1>2 DEF Permutes
<1> QED BY <1>3, <1>4 DEF ItersFit

LEMMA PeekFirstFits ==
  ASSUME NEW L \in Seq(Item), NEW X \in Seq(Location), \A i \in DOMAIN X : BatchFits(L, X[i]),
         NEW r \in PeekFirst(L, X)
  PROVE  ItersFit(L, r[1])
<1> DEFINE e == <<>>
<1>1. e \in Seq(Iter) /\ ItersFit(L, e)
  BY DEF ItersFit
<1>2. CASE X = <<>>
  <2>1. r = <<e, 1>>
    BY <1>2 DEF PeekFirst
  <2> HIDE DEF e
  <2> QED BY <1>1, <2>1
<1>3. CASE X # <<>>
  <2>1. r \in AddIter(L, X, e, 1) /\ 1 \in 1 .. Len(X) /\ BatchFits(L, X[1])
    BY <1>3 DEF PeekFirst
  <2> HIDE DEF e
  <2> QED BY <1>1, <2>1, AddIterIs, PushedFit
<1> QED BY <1>2, <1>3

\* One iteration of the loop: the first iterator moves on, and a batch may be
\* added.
LEMMA PeekNextIs ==
  ASSUME NEW L \in Seq(Item), NEW X \in Seq(Location), \A i \in DOMAIN X : BatchFits(L, X[i]),
         NEW h \in Seq(Iter), NEW p \in Nat, p >= 1, NEW r \in PeekNext(L, X, h, p)
  PROVE  \E g \in Fixed([h EXCEPT ![1] = IterNext(L, h[1])]) :
             \/ /\ MustAdd(X, p, IterNext(L, h[1])) /\ p \in 1 .. Len(X)
                /\ r[2] = p + 1 /\ r[1] \in Pushed(g, IterAt(L, X[p]))
                /\ IterAt(L, X[p]) \in Iter /\ IterFits(L, IterAt(L, X[p]))
             \/ ~MustAdd(X, p, IterNext(L, h[1])) /\ r[1] = g /\ r[2] = p
<1> DEFINE it == IterNext(L, h[1])
           f == [h EXCEPT ![1] = it]
<1>1. PICK g \in Fixed(f) :
          r \in (IF MustAdd(X, p, it) THEN AddIter(L, X, g, p) ELSE {<<g, p>>})
  BY DEF PeekNext
<1> HIDE DEF it
<1>2. CASE MustAdd(X, p, it)
  <2>1. p \in 1 .. Len(X) /\ BatchFits(L, X[p]) /\ r \in AddIter(L, X, g, p)
    BY <1>1, <1>2 DEF MustAdd
  <2>2. /\ r[2] = p + 1 /\ r[1] \in Pushed(g, IterAt(L, X[p]))
        /\ IterAt(L, X[p]) \in Iter /\ IterFits(L, IterAt(L, X[p]))
    BY <2>1, AddIterIs
  <2> QED BY <1>1, <1>2, <2>1, <2>2 DEF it
<1>3. CASE ~MustAdd(X, p, it)
  <2>1. r[1] = g /\ r[2] = p
    BY <1>1, <1>3
  <2> QED BY <1>1, <1>3, <2>1 DEF it
<1> QED BY <1>2, <1>3

LEMMA PeekNextFits ==
  ASSUME NEW L \in Seq(Item), NEW X \in Seq(Location), \A i \in DOMAIN X : BatchFits(L, X[i]),
         NEW h \in Seq(Iter), h # <<>>, ~h[1].exh, ItersFit(L, h),
         NEW p \in Nat, p >= 1, NEW r \in PeekNext(L, X, h, p)
  PROVE  ItersFit(L, r[1])
<1>1. 1 \in DOMAIN h /\ h[1] \in Iter /\ IterFits(L, h[1])
  BY DEF ItersFit
<1>2. IterNext(L, h[1]) \in Iter /\ IterFits(L, IterNext(L, h[1]))
  BY <1>1, IterNextFits
<1>3. PICK f : f = [h EXCEPT ![1] = IterNext(L, h[1])]
  OBVIOUS
<1>4. f \in Seq(Iter) /\ f # <<>> /\ ItersFit(L, f)
  <2>1. PICK it \in Iter : it = IterNext(L, h[1]) /\ IterFits(L, it)
    BY <1>2
  <2>2. f = [h EXCEPT ![1] = it]
    BY <1>3, <2>1
  <2>3. DOMAIN f = DOMAIN h /\ f[1] = it /\ \A k \in DOMAIN h : k # 1 => f[k] = h[k]
    BY <1>1, <2>2
  <2>4. DOMAIN h = 1 .. Len(h) /\ Len(h) \in Nat /\ \A k \in DOMAIN h : h[k] \in Iter
    OBVIOUS
  <2>6. f = [k \in DOMAIN h |-> IF k = 1 THEN it ELSE h[k]]
    BY <2>2, Zenon
  <2>5. f \in Seq(Iter) /\ f # <<>>
    <3>1. \A k \in 1 .. Len(h) : f[k] \in Iter
      BY <2>1, <2>3, <2>4
    <3>2. f = [k \in 1 .. Len(h) |-> f[k]]
      BY <2>3, <2>4, <2>6
    <3> QED BY <1>1, <2>3, <2>4, <3>1, <3>2, SMTT(40)
  <2> QED BY <2>1, <2>3, <2>5 DEF ItersFit
<1>5. PICK g \in Fixed(f) :
         \/ /\ r[1] \in Pushed(g, IterAt(L, X[p]))
            /\ IterAt(L, X[p]) \in Iter /\ IterFits(L, IterAt(L, X[p]))
         \/ r[1] = g
  <2>1. PICK g \in Fixed([h EXCEPT ![1] = IterNext(L, h[1])]) :
             \/ /\ r[1] \in Pushed(g, IterAt(L, X[p]))
                /\ IterAt(L, X[p]) \in Iter /\ IterFits(L, IterAt(L, X[p]))
             \/ r[1] = g
    BY PeekNextIs, SMTT(40)
  <2> QED BY <1>3, <2>1
<1>6. PICK m : Permutes(m, f, g)
  BY <1>4, <1>5, FixedPermutes
<1>7. ItersFit(L, g)
  BY <1>4, <1>6 DEF ItersFit, Permutes
<1>8. g \in Seq(Iter)
  <2>1. PICK P \in SUBSET DOMAIN f : g = ShiftUp(f, P)
    BY <1>5 DEF Fixed
  <2>2. DOMAIN g = 1 .. Len(f) /\ \A k \in DOMAIN g : g[k] \in Iter
    <3>1. DOMAIN g = DOMAIN f /\ DOMAIN f = 1 .. Len(f) /\ \A k \in DOMAIN f : f[k] \in Iter
      BY <1>4, <2>1 DEF ShiftUp
    <3> QED BY <1>6, <3>1 DEF Permutes
  <2>3. g = [k \in 1 .. Len(f) |-> g[k]]
    BY <2>1, <2>2 DEF ShiftUp
  <2> QED BY <2>2, <2>3
<1> QED BY <1>5, <1>7, <1>8, PushedFit

LEMMA IterFitsAppend ==
  ASSUME NEW L \in Seq(Item), NEW x \in Item, NEW h \in Seq(Iter), ItersFit(L, h)
  PROVE  ItersFit(Append(L, x), h)
<1> SUFFICES ASSUME NEW k \in DOMAIN h PROVE IterFits(Append(L, x), h[k])
  BY DEF ItersFit
<1>1. h[k] \in Iter /\ IterFits(L, h[k])
  BY DEF ItersFit
<1>2. CurrentLocation(h[k]) \in Location
  BY <1>1, CurrentLocationType
<1> QED BY <1>1, <1>2, FitsAppend DEF IterFits

-----------------------------------------------------------------------------
(* All indexes and index logs refer to batches that fit.                   *)

\* Nothing has happened that breaks the index of c.
Ok(c) == IF c = Main THEN "clearCut" \notin known ELSE OkForks

\* idx.log has outlived dat.log, but says itself that there is nothing left:
\* opening the bucket then removes it.
Stale ==
    /\ vlog = <<>> /\ Replay(file[Main]) = <<>> /\ forks = {} /\ tree # "open" /\ after = "idle"
    /\ \/ pc \in {"down", "open", "openNext"}
       \/ Doing("loaded")
       \/ pc = "rmIdx" /\ then = "open"
    /\ Main \in loaded => Main \in seen

FilesFit ==
    \A c \in Consumers :
        Ok(c) => AllFit(vlog, file[c]) \/ (c = Main /\ (pc = "rmMain" \/ Stale))

MemsFit ==
    \A c \in Consumers :
        Ok(c) => AllFit(vlog, mem[c]) \/ (c = Main /\ Stale /\ Main \notin loaded)

EditFits(e) ==
    e.on # {} /\ e.loc.len > 0 /\ Ok(e.to) =>
        BatchFits(vlog, e.loc) \/ (e.to = Main /\ Stale /\ then = "loaded")

EditsFit == pc = "journal" => \A j \in DOMAIN todo : EditFits(todo[j])

\* A Read has iterators.
InRead == pc \in {"peek", "callback"} \/ (reading /\ Pushing)

ReadFits == InRead /\ Ok(call.who) => ItersFit(vlog, rd.iters)

\* What was written of a batch is at the end of the value log.
Written == pc = "push" => \A i \in 1 .. wrote : vlog[Len(vlog) - wrote + i] = batch[i]

Ascending(b) == \A i, j \in DOMAIN b : i < j => b[i].key <= b[j].key

Fit == FilesFit /\ MemsFit /\ EditsFit /\ ReadFits /\ Written /\ Ascending(batch)

\* What the proof that Fit stays rests on.
Ground == Base /\ Owned /\ LoadProgress

LEMMA NoneFits == \A g : AllFit(g, <<>>)
BY DEF AllFit

LEMMA InitFit == Init => Fit
<1> SUFFICES ASSUME Init PROVE Fit
  OBVIOUS
<1>1. \A c \in Consumers : AllFit(vlog, file[c]) /\ AllFit(vlog, mem[c])
  BY NoneFits DEF Init
<1>2. FilesFit /\ MemsFit
  BY <1>1 DEF FilesFit, MemsFit
<1>3. EditsFit /\ ReadFits /\ Written /\ Ascending(batch)
  BY DEF Init, EditsFit, ReadFits, Written, Ascending, InRead, Pushing
<1> QED BY <1>2, <1>3 DEF Fit

\* Only Push and the removal of the bucket change the value log, and what is
\* known to have happened has happened.
LEMMA QueueValues ==
    ASSUME Start \/ Close \/ Crash \/ CloseUnused
    PROVE  known \subseteq known' /\ vlog' = vlog
<1> USE DEF history
<1>1. CASE Start
  BY <1>1 DEF Start, disk, index, queue, oper, counters, history
<1>2. CASE Close
  BY <1>2 DEF Close, Stop, Forget, Return, disk, index, queue, oper, counters, history
<1>3. CASE Crash
  BY <1>3 DEF Crash, Stop, Forget, Return, disk, index, queue, oper, counters, history
<1>4. CASE CloseUnused
  BY <1>4 DEF CloseUnused, Forget, disk, index, queue, oper, counters, history
<1> QED BY <1>1, <1>2, <1>3, <1>4

LEMMA OpeningValues ==
    ASSUME Open \/ LoadIndex \/ Loaded \/ Recover \/ Rewrite \/ Rewritten \/ Reinit \/ Opened
    PROVE  known \subseteq known' /\ vlog' = vlog
<1> USE DEF history
<1>1. CASE Open
  BY <1>1 DEF Open, disk, index, queue, oper, counters, history
<1>2. CASE LoadIndex
  BY <1>2 DEF LoadIndex, ToLoad, Write, disk, index, queue, oper, counters, history
<1>3. CASE Loaded
  BY <1>3 DEF Loaded, disk, index, queue, oper, counters, history
<1>4. CASE Recover
  BY <1>4 DEF Recover, Write, disk, index, queue, oper, counters, history
<1>5. CASE Rewrite
  BY <1>5 DEF Rewrite, Write, disk, index, queue, oper, counters, history
<1>6. CASE Rewritten
  BY <1>6 DEF Rewritten, disk, index, queue, oper, counters, history
<1>7. CASE Reinit
  BY <1>7 DEF Reinit, Forget, disk, index, queue, oper, counters, history
<1>8. CASE Opened
  BY <1>8 DEF Opened, ToLoad, FetchedForks, disk, index, queue, oper, counters, history
<1> QED BY <1>1, <1>2, <1>3, <1>4, <1>5, <1>6, <1>7, <1>8

LEMMA RemovingValues ==
    ASSUME RmIndex \/ RmMain \/ RmDir \/ RmDirFails
    PROVE  known \subseteq known' /\ vlog' = vlog
<1> USE DEF history
<1>1. CASE RmIndex
  BY <1>1 DEF RmIndex, Named, RmIndexLog, disk, index, queue, oper, counters, history
<1>2. CASE RmMain
  BY <1>2 DEF RmMain, RmIndexLog, disk, index, queue, oper, counters, history
<1>3. CASE RmDir
  BY <1>3 DEF RmDir, Return, disk, index, queue, oper, counters, history
<1>4. CASE RmDirFails
  BY <1>4 DEF RmDirFails, OpenFails, Forget, Return, disk, index, queue, oper, counters, history
<1> QED BY <1>1, <1>2, <1>3, <1>4

LEMMA JournalValues ==
    ASSUME Journal \/ JournalEnd \/ FailWrite \/ Failed
    PROVE  known \subseteq known' /\ vlog' = vlog
<1> USE DEF history
<1>1. CASE Journal
  BY <1>1 DEF Journal, EditMem, disk, index, queue, oper, counters, history
<1>2. CASE JournalEnd
  BY <1>2 DEF JournalEnd, disk, index, queue, oper, counters, history
<1>3. CASE FailWrite
  <2>1. CASE then = "pushed" /\ EditMem(Head(todo)) /\ PushOver /\ UNCHANGED queue
    BY <1>3, <2>1 DEF FailWrite, EditMem, PushOver, queue, disk, counters
  <2>2. CASE then \in {"popped", "forked"} /\ EditMem(Head(todo)) /\ Return("idle") /\ UNCHANGED queue
    BY <1>3, <2>2 DEF FailWrite, EditMem, Return, queue, disk, counters
  <2>3. CASE then = "rewritten" /\ OpenFails
    BY <1>3, <2>3 DEF FailWrite, OpenFails, Forget, Return, queue, disk, counters
  <2>4. CASE /\ then \in {"deleted", "failed"} /\ EditMem(Head(todo))
             /\ todo' = Tail(todo) /\ then' = "failed"
             /\ UNCHANGED <<pc, after, cur, call, batch, wrote, rd, reading, queue>>
    BY <1>3, <2>4 DEF FailWrite, EditMem, queue, disk, counters
  <2> HIDE DEF history
  <2> QED BY <1>3, <2>1, <2>2, <2>3, <2>4 DEF FailWrite
<1>4. CASE Failed
  BY <1>4 DEF Failed, Return, disk, index, queue, oper, counters, history
<1> QED BY <1>1, <1>2, <1>3, <1>4

LEMMA PushValues ==
    ASSUME Push \/ TxPush \/ PushIndex \/ PushDone
    PROVE  known \subseteq known' /\ vlog' = vlog
<1> USE DEF history
<1>1. CASE Push
  BY <1>1 DEF Push, Given, WhenOpen, disk, index, queue, oper, counters, history
<1>2. CASE TxPush
  BY <1>2 DEF TxPush, Given, disk, index, queue, oper, counters, history
<1>3. CASE PushIndex
  BY <1>3 DEF PushIndex, Write, disk, index, queue, oper, counters, history
<1>4. CASE PushDone
  BY <1>4 DEF PushDone, PushOver, disk, index, queue, oper, counters, history
<1> QED BY <1>1, <1>2, <1>3, <1>4

LEMMA ReadValues ==
    ASSUME Read \/ ReadFirst \/ ReadNext \/ ReadServe \/ Pop \/ Popped \/ PeekOnly \/ CallbackErr \/ Reap
    PROVE  known \subseteq known' /\ vlog' = vlog
<1> USE DEF history
<1>1. CASE Read
  BY <1>1 DEF Read, WhenOpen, NoCall, disk, index, queue, oper, counters, history
<1>2. CASE ReadFirst
  BY <1>2 DEF ReadFirst, disk, index, queue, oper, counters, history
<1>3. CASE ReadNext
  BY <1>3 DEF ReadNext, disk, index, queue, oper, counters, history
<1>4. CASE ReadServe
  BY <1>4 DEF ReadServe, disk, index, queue, oper, counters, history
<1>5. CASE Pop
  BY <1>5 DEF Pop, Write, disk, index, queue, oper, counters, history
<1>6. CASE Popped
  BY <1>6 DEF Popped, disk, index, queue, oper, counters, history
<1>7. CASE PeekOnly
  BY <1>7 DEF PeekOnly, disk, index, queue, oper, counters, history
<1>8. CASE CallbackErr
  BY <1>8 DEF CallbackErr, Return, disk, index, queue, oper, counters, history
<1>9. CASE Reap
  BY <1>9 DEF Reap, DropBucket, Forget, Return, disk, index, queue, oper, counters, history
<1> QED BY <1>1, <1>2, <1>3, <1>4, <1>5, <1>6, <1>7, <1>8, <1>9

LEMMA ForksValues ==
    ASSUME Delete \/ DeleteBegin \/ Deleted \/ Clear \/ ForkListed \/ Fork \/ Forked \/ RemoveFork
    PROVE  known \subseteq known' /\ vlog' = vlog
<1> USE DEF history
<1>1. CASE Delete
  BY <1>1 DEF Delete, WhenOpen, NoCall, disk, index, queue, oper, counters, history
<1>2. CASE DeleteBegin
  BY <1>2 DEF DeleteBegin, Write, disk, index, queue, oper, counters, history
<1>3. CASE Deleted
  BY <1>3 DEF Deleted, disk, index, queue, oper, counters, history
<1>4. CASE Clear
  BY <1>4 DEF Clear, DropBucket, Forget, Return, disk, index, queue, oper, counters, history
<1>5. CASE ForkListed
  BY <1>5 DEF ForkListed, ForkMade, disk, index, queue, oper, counters, history
<1>6. CASE Fork
  BY <1>6 DEF Fork, Write, NoCall, disk, index, queue, oper, counters, history
<1>7. CASE Forked
  BY <1>7 DEF Forked, ForkMade, Return, disk, index, queue, oper, counters, history
<1>8. CASE RemoveFork
  BY <1>8 DEF RemoveFork, RmIndexLog, DropBucket, Forget, Return, disk, index, queue, oper, counters, history
<1> QED BY <1>1, <1>2, <1>3, <1>4, <1>5, <1>6, <1>7, <1>8

LEMMA ValuesStep ==
  ASSUME Next
  PROVE  known \subseteq known' /\ (vlog' = vlog \/ WriteItem \/ RmDat)
<1>1. WriteItem \/ RmDat => known' = known
  BY DEF WriteItem, RmDat
<1> QED BY <1>1, QueueValues, OpeningValues, RemovingValues, JournalValues, PushValues, ReadValues,
           ForksValues DEF Next, Step, Environment

LEMMA OkStays ==
  ASSUME Next, NEW c, Ok(c)'
  PROVE  Ok(c)
BY ValuesStep DEF Ok, OkForks

\* Only the opening of the bucket, or its removal by that, meets the stale log.
LEMMA QueueNotStale ==
    ASSUME OpenInv,
           Close \/ CloseUnused
    PROVE  ~Stale
<1> USE DEF OpenInv, Control, Stale, Doing
<1>1. CASE Close
  BY <1>1 DEF Close, Stop, Forget, Return, disk, index, queue, oper, counters, history
<1>2. CASE CloseUnused
  BY <1>2 DEF CloseUnused, Forget, disk, index, queue, oper, counters, history
<1> QED BY <1>1, <1>2

LEMMA OpeningNotStale ==
    ASSUME OpenInv,
           Rewrite \/ Rewritten
    PROVE  ~Stale
<1> USE DEF OpenInv, Control, Stale, Doing
<1>1. CASE Rewrite
  BY <1>1 DEF Rewrite, Write, disk, index, queue, oper, counters, history
<1>2. CASE Rewritten
  BY <1>2 DEF Rewritten, disk, index, queue, oper, counters, history
<1> QED BY <1>1, <1>2

LEMMA RemovingNotStale ==
    ASSUME OpenInv,
           RmMain \/ RmDir \/ RmDirFails
    PROVE  ~Stale
<1> USE DEF OpenInv, Control, Stale, Doing
<1>1. CASE RmMain
  BY <1>1 DEF RmMain, RmIndexLog, disk, index, queue, oper, counters, history
<1>2. CASE RmDir
  BY <1>2 DEF RmDir, Return, disk, index, queue, oper, counters, history
<1>3. CASE RmDirFails
  BY <1>3 DEF RmDirFails, OpenFails, Forget, Return, disk, index, queue, oper, counters, history
<1> QED BY <1>1, <1>2, <1>3

LEMMA JournalNotStale ==
    ASSUME OpenInv,
           Failed
    PROVE  ~Stale
<1> USE DEF OpenInv, Control, Stale, Doing
<1>1. CASE Failed
  BY <1>1 DEF Failed, Return, disk, index, queue, oper, counters, history
<1> QED BY <1>1

LEMMA PushNotStale ==
    ASSUME OpenInv,
           Push \/ TxPush \/ WriteItem \/ PushIndex \/ PushDone
    PROVE  ~Stale
<1> USE DEF OpenInv, Control, Stale, Doing
<1>1. CASE Push
  BY <1>1 DEF Push, Given, WhenOpen, disk, index, queue, oper, counters, history
<1>2. CASE TxPush
  BY <1>2 DEF TxPush, Given, disk, index, queue, oper, counters, history
<1>3. CASE WriteItem
  BY <1>3 DEF WriteItem, disk, index, queue, oper, counters, history
<1>4. CASE PushIndex
  BY <1>4 DEF PushIndex, Write, disk, index, queue, oper, counters, history
<1>5. CASE PushDone
  BY <1>5 DEF PushDone, PushOver, disk, index, queue, oper, counters, history
<1> QED BY <1>1, <1>2, <1>3, <1>4, <1>5

LEMMA ReadNotStale ==
    ASSUME OpenInv,
           Read \/ ReadFirst \/ ReadNext \/ ReadServe \/ Pop \/ Popped \/ PeekOnly \/ CallbackErr \/ Reap
    PROVE  ~Stale
<1> USE DEF OpenInv, Control, Stale, Doing
<1>1. CASE Read
  BY <1>1 DEF Read, WhenOpen, NoCall, disk, index, queue, oper, counters, history
<1>2. CASE ReadFirst
  BY <1>2 DEF ReadFirst, disk, index, queue, oper, counters, history
<1>3. CASE ReadNext
  BY <1>3 DEF ReadNext, disk, index, queue, oper, counters, history
<1>4. CASE ReadServe
  BY <1>4 DEF ReadServe, disk, index, queue, oper, counters, history
<1>5. CASE Pop
  BY <1>5 DEF Pop, Write, disk, index, queue, oper, counters, history
<1>6. CASE Popped
  BY <1>6 DEF Popped, disk, index, queue, oper, counters, history
<1>7. CASE PeekOnly
  BY <1>7 DEF PeekOnly, disk, index, queue, oper, counters, history
<1>8. CASE CallbackErr
  BY <1>8 DEF CallbackErr, Return, disk, index, queue, oper, counters, history
<1>9. CASE Reap
  BY <1>9 DEF Reap, DropBucket, Forget, Return, disk, index, queue, oper, counters, history
<1> QED BY <1>1, <1>2, <1>3, <1>4, <1>5, <1>6, <1>7, <1>8, <1>9

LEMMA ForksNotStale ==
    ASSUME OpenInv,
           Delete \/ DeleteBegin \/ Deleted \/ Clear \/ ForkListed \/ Fork \/ Forked \/ RemoveFork
    PROVE  ~Stale
<1> USE DEF OpenInv, Control, Stale, Doing
<1>1. CASE Delete
  BY <1>1 DEF Delete, WhenOpen, NoCall, disk, index, queue, oper, counters, history
<1>2. CASE DeleteBegin
  BY <1>2 DEF DeleteBegin, Write, disk, index, queue, oper, counters, history
<1>3. CASE Deleted
  BY <1>3 DEF Deleted, disk, index, queue, oper, counters, history
<1>4. CASE Clear
  BY <1>4 DEF Clear, DropBucket, Forget, Return, disk, index, queue, oper, counters, history
<1>5. CASE ForkListed
  BY <1>5 DEF ForkListed, ForkMade, disk, index, queue, oper, counters, history
<1>6. CASE Fork
  BY <1>6 DEF Fork, Write, NoCall, disk, index, queue, oper, counters, history
<1>7. CASE Forked
  BY <1>7 DEF Forked, ForkMade, Return, disk, index, queue, oper, counters, history
<1>8. CASE RemoveFork
  BY <1>8 DEF RemoveFork, RmIndexLog, DropBucket, Forget, Return, disk, index, queue, oper, counters, history
<1> QED BY <1>1, <1>2, <1>3, <1>4, <1>5, <1>6, <1>7, <1>8

\* The removal of idx.log comes right after that of dat.log.
LEMMA QueueNotRmMain ==
    ASSUME OpenInv,
           Start \/ Close \/ CloseUnused
    PROVE  pc # "rmMain"
<1> USE DEF OpenInv, Control
<1>1. CASE Start
  BY <1>1 DEF Start, disk, index, queue, oper, counters, history
<1>2. CASE Close
  BY <1>2 DEF Close, Stop, Forget, Return, disk, index, queue, oper, counters, history
<1>3. CASE CloseUnused
  BY <1>3 DEF CloseUnused, Forget, disk, index, queue, oper, counters, history
<1> QED BY <1>1, <1>2, <1>3

LEMMA OpeningNotRmMain ==
    ASSUME OpenInv,
           Open \/ LoadIndex \/ Loaded \/ Recover \/ Rewrite \/ Rewritten \/ Reinit \/ Opened
    PROVE  pc # "rmMain"
<1> USE DEF OpenInv, Control
<1>1. CASE Open
  BY <1>1 DEF Open, disk, index, queue, oper, counters, history
<1>2. CASE LoadIndex
  BY <1>2 DEF LoadIndex, ToLoad, Write, disk, index, queue, oper, counters, history
<1>3. CASE Loaded
  BY <1>3 DEF Loaded, disk, index, queue, oper, counters, history
<1>4. CASE Recover
  BY <1>4 DEF Recover, Write, disk, index, queue, oper, counters, history
<1>5. CASE Rewrite
  BY <1>5 DEF Rewrite, Write, disk, index, queue, oper, counters, history
<1>6. CASE Rewritten
  BY <1>6 DEF Rewritten, disk, index, queue, oper, counters, history
<1>7. CASE Reinit
  BY <1>7 DEF Reinit, Forget, disk, index, queue, oper, counters, history
<1>8. CASE Opened
  BY <1>8 DEF Opened, ToLoad, FetchedForks, disk, index, queue, oper, counters, history
<1> QED BY <1>1, <1>2, <1>3, <1>4, <1>5, <1>6, <1>7, <1>8

LEMMA RemovingNotRmMain ==
    ASSUME OpenInv,
           RmIndex \/ RmDat \/ RmDir \/ RmDirFails
    PROVE  pc # "rmMain"
<1> USE DEF OpenInv, Control
<1>1. CASE RmIndex
  BY <1>1 DEF RmIndex, Named, RmIndexLog, disk, index, queue, oper, counters, history
<1>2. CASE RmDat
  BY <1>2 DEF RmDat, Named, disk, index, queue, oper, counters, history
<1>3. CASE RmDir
  BY <1>3 DEF RmDir, Return, disk, index, queue, oper, counters, history
<1>4. CASE RmDirFails
  BY <1>4 DEF RmDirFails, OpenFails, Forget, Return, disk, index, queue, oper, counters, history
<1> QED BY <1>1, <1>2, <1>3, <1>4

LEMMA JournalNotRmMain ==
    ASSUME OpenInv,
           Journal \/ JournalEnd \/ FailWrite \/ Failed
    PROVE  pc # "rmMain"
<1> USE DEF OpenInv, Control
<1>1. CASE Journal
  BY <1>1 DEF Journal, EditMem, disk, index, queue, oper, counters, history
<1>2. CASE JournalEnd
  BY <1>2 DEF JournalEnd, disk, index, queue, oper, counters, history
<1>3. CASE FailWrite
  <2>1. CASE then = "pushed" /\ EditMem(Head(todo)) /\ PushOver /\ UNCHANGED queue
    BY <1>3, <2>1 DEF FailWrite, EditMem, PushOver, queue, disk, counters
  <2>2. CASE then \in {"popped", "forked"} /\ EditMem(Head(todo)) /\ Return("idle") /\ UNCHANGED queue
    BY <1>3, <2>2 DEF FailWrite, EditMem, Return, queue, disk, counters
  <2>3. CASE then = "rewritten" /\ OpenFails
    BY <1>3, <2>3 DEF FailWrite, OpenFails, Forget, Return, queue, disk, counters
  <2>4. CASE /\ then \in {"deleted", "failed"} /\ EditMem(Head(todo))
             /\ todo' = Tail(todo) /\ then' = "failed"
             /\ UNCHANGED <<pc, after, cur, call, batch, wrote, rd, reading, queue>>
    BY <1>3, <2>4 DEF FailWrite, EditMem, queue, disk, counters
  <2> HIDE DEF OpenInv, Control
  <2> QED BY <1>3, <2>1, <2>2, <2>3, <2>4 DEF FailWrite
<1>4. CASE Failed
  BY <1>4 DEF Failed, Return, disk, index, queue, oper, counters, history
<1> QED BY <1>1, <1>2, <1>3, <1>4

LEMMA PushNotRmMain ==
    ASSUME OpenInv,
           Push \/ TxPush \/ WriteItem \/ PushIndex \/ PushDone
    PROVE  pc # "rmMain"
<1> USE DEF OpenInv, Control
<1>1. CASE Push
  BY <1>1 DEF Push, Given, WhenOpen, disk, index, queue, oper, counters, history
<1>2. CASE TxPush
  BY <1>2 DEF TxPush, Given, disk, index, queue, oper, counters, history
<1>3. CASE WriteItem
  BY <1>3 DEF WriteItem, disk, index, queue, oper, counters, history
<1>4. CASE PushIndex
  BY <1>4 DEF PushIndex, Write, disk, index, queue, oper, counters, history
<1>5. CASE PushDone
  BY <1>5 DEF PushDone, PushOver, disk, index, queue, oper, counters, history
<1> QED BY <1>1, <1>2, <1>3, <1>4, <1>5

LEMMA ReadNotRmMain ==
    ASSUME OpenInv,
           Read \/ ReadFirst \/ ReadNext \/ ReadServe \/ Pop \/ Popped \/ PeekOnly \/ CallbackErr \/ Reap
    PROVE  pc # "rmMain"
<1> USE DEF OpenInv, Control
<1>1. CASE Read
  BY <1>1 DEF Read, WhenOpen, NoCall, disk, index, queue, oper, counters, history
<1>2. CASE ReadFirst
  BY <1>2 DEF ReadFirst, disk, index, queue, oper, counters, history
<1>3. CASE ReadNext
  BY <1>3 DEF ReadNext, disk, index, queue, oper, counters, history
<1>4. CASE ReadServe
  BY <1>4 DEF ReadServe, disk, index, queue, oper, counters, history
<1>5. CASE Pop
  BY <1>5 DEF Pop, Write, disk, index, queue, oper, counters, history
<1>6. CASE Popped
  BY <1>6 DEF Popped, disk, index, queue, oper, counters, history
<1>7. CASE PeekOnly
  BY <1>7 DEF PeekOnly, disk, index, queue, oper, counters, history
<1>8. CASE CallbackErr
  BY <1>8 DEF CallbackErr, Return, disk, index, queue, oper, counters, history
<1>9. CASE Reap
  BY <1>9 DEF Reap, DropBucket, Forget, Return, disk, index, queue, oper, counters, history
<1> QED BY <1>1, <1>2, <1>3, <1>4, <1>5, <1>6, <1>7, <1>8, <1>9

LEMMA ForksNotRmMain ==
    ASSUME OpenInv,
           Delete \/ DeleteBegin \/ Deleted \/ Clear \/ ForkListed \/ Fork \/ Forked \/ RemoveFork
    PROVE  pc # "rmMain"
<1> USE DEF OpenInv, Control
<1>1. CASE Delete
  BY <1>1 DEF Delete, WhenOpen, NoCall, disk, index, queue, oper, counters, history
<1>2. CASE DeleteBegin
  BY <1>2 DEF DeleteBegin, Write, disk, index, queue, oper, counters, history
<1>3. CASE Deleted
  BY <1>3 DEF Deleted, disk, index, queue, oper, counters, history
<1>4. CASE Clear
  BY <1>4 DEF Clear, DropBucket, Forget, Return, disk, index, queue, oper, counters, history
<1>5. CASE ForkListed
  BY <1>5 DEF ForkListed, ForkMade, disk, index, queue, oper, counters, history
<1>6. CASE Fork
  BY <1>6 DEF Fork, Write, NoCall, disk, index, queue, oper, counters, history
<1>7. CASE Forked
  BY <1>7 DEF Forked, ForkMade, Return, disk, index, queue, oper, counters, history
<1>8. CASE RemoveFork
  BY <1>8 DEF RemoveFork, RmIndexLog, DropBucket, Forget, Return, disk, index, queue, oper, counters, history
<1> QED BY <1>1, <1>2, <1>3, <1>4, <1>5, <1>6, <1>7, <1>8

\* The ways in which a step changes the index logs.
FileStep ==
    \/ file' = file
    \/ \E c \in Consumers : file' = [file EXCEPT ![c] = <<>>]
    \/ Journal /\ "log" \in Head(todo).on

LEMMA QueueFiles ==
    ASSUME cur \in Consumers, forks \subseteq Consumers, Main \in Consumers, exist \subseteq Consumers,
           Start \/ Close \/ Crash \/ CloseUnused
    PROVE  FileStep
<1> USE DEF FileStep
<1>1. CASE Start
  BY <1>1 DEF Start, disk, index, queue, oper, counters, history
<1>2. CASE Close
  BY <1>2 DEF Close, Stop, Forget, Return, disk, index, queue, oper, counters, history
<1>3. CASE Crash
  BY <1>3 DEF Crash, Stop, Forget, Return, disk, index, queue, oper, counters, history
<1>4. CASE CloseUnused
  BY <1>4 DEF CloseUnused, Forget, disk, index, queue, oper, counters, history
<1> QED BY <1>1, <1>2, <1>3, <1>4

LEMMA OpeningFiles ==
    ASSUME cur \in Consumers, forks \subseteq Consumers, Main \in Consumers, exist \subseteq Consumers,
           Open \/ LoadIndex \/ Loaded \/ Recover \/ Rewrite \/ Rewritten \/ Reinit \/ Opened
    PROVE  FileStep
<1> USE DEF FileStep
<1>1. CASE Open
  BY <1>1 DEF Open, disk, index, queue, oper, counters, history
<1>2. CASE LoadIndex
  BY <1>2 DEF LoadIndex, ToLoad, Write, disk, index, queue, oper, counters, history
<1>3. CASE Loaded
  BY <1>3 DEF Loaded, disk, index, queue, oper, counters, history
<1>4. CASE Recover
  BY <1>4 DEF Recover, Write, disk, index, queue, oper, counters, history
<1>5. CASE Rewrite
  BY <1>5 DEF Rewrite, Write, disk, index, queue, oper, counters, history
<1>6. CASE Rewritten
  BY <1>6 DEF Rewritten, disk, index, queue, oper, counters, history
<1>7. CASE Reinit
  BY <1>7 DEF Reinit, Forget, disk, index, queue, oper, counters, history
<1>8. CASE Opened
  BY <1>8 DEF Opened, ToLoad, FetchedForks, disk, index, queue, oper, counters, history
<1> QED BY <1>1, <1>2, <1>3, <1>4, <1>5, <1>6, <1>7, <1>8

LEMMA RemovingFiles ==
    ASSUME cur \in Consumers, forks \subseteq Consumers, Main \in Consumers, exist \subseteq Consumers,
           RmIndex \/ RmDat \/ RmMain \/ RmDir \/ RmDirFails
    PROVE  FileStep
<1> USE DEF FileStep
<1>1. CASE RmIndex
  BY <1>1 DEF RmIndex, Named, RmIndexLog, disk, index, queue, oper, counters, history
<1>2. CASE RmDat
  BY <1>2 DEF RmDat, Named, disk, index, queue, oper, counters, history
<1>3. CASE RmMain
  BY <1>3 DEF RmMain, RmIndexLog, disk, index, queue, oper, counters, history
<1>4. CASE RmDir
  BY <1>4 DEF RmDir, Return, disk, index, queue, oper, counters, history
<1>5. CASE RmDirFails
  BY <1>5 DEF RmDirFails, OpenFails, Forget, Return, disk, index, queue, oper, counters, history
<1> QED BY <1>1, <1>2, <1>3, <1>4, <1>5

LEMMA JournalFiles ==
    ASSUME cur \in Consumers, forks \subseteq Consumers, Main \in Consumers, exist \subseteq Consumers,
           JournalEnd \/ FailWrite \/ Failed
    PROVE  FileStep
<1> USE DEF FileStep
<1>1. CASE JournalEnd
  BY <1>1 DEF JournalEnd, disk, index, queue, oper, counters, history
<1>2. CASE FailWrite
  <2>1. CASE then = "pushed" /\ EditMem(Head(todo)) /\ PushOver /\ UNCHANGED queue
    BY <1>2, <2>1 DEF FailWrite, EditMem, PushOver, queue, disk, counters
  <2>2. CASE then \in {"popped", "forked"} /\ EditMem(Head(todo)) /\ Return("idle") /\ UNCHANGED queue
    BY <1>2, <2>2 DEF FailWrite, EditMem, Return, queue, disk, counters
  <2>3. CASE then = "rewritten" /\ OpenFails
    BY <1>2, <2>3 DEF FailWrite, OpenFails, Forget, Return, queue, disk, counters
  <2>4. CASE /\ then \in {"deleted", "failed"} /\ EditMem(Head(todo))
             /\ todo' = Tail(todo) /\ then' = "failed"
             /\ UNCHANGED <<pc, after, cur, call, batch, wrote, rd, reading, queue>>
    BY <1>2, <2>4 DEF FailWrite, EditMem, queue, disk, counters
  <2> HIDE DEF FileStep
  <2> QED BY <1>2, <2>1, <2>2, <2>3, <2>4 DEF FailWrite
<1>3. CASE Failed
  BY <1>3 DEF Failed, Return, disk, index, queue, oper, counters, history
<1> QED BY <1>1, <1>2, <1>3

LEMMA PushFiles ==
    ASSUME cur \in Consumers, forks \subseteq Consumers, Main \in Consumers, exist \subseteq Consumers,
           Push \/ TxPush \/ WriteItem \/ PushIndex \/ PushDone
    PROVE  FileStep
<1> USE DEF FileStep
<1>1. CASE Push
  BY <1>1 DEF Push, Given, WhenOpen, disk, index, queue, oper, counters, history
<1>2. CASE TxPush
  BY <1>2 DEF TxPush, Given, disk, index, queue, oper, counters, history
<1>3. CASE WriteItem
  BY <1>3 DEF WriteItem, disk, index, queue, oper, counters, history
<1>4. CASE PushIndex
  BY <1>4 DEF PushIndex, Write, disk, index, queue, oper, counters, history
<1>5. CASE PushDone
  BY <1>5 DEF PushDone, PushOver, disk, index, queue, oper, counters, history
<1> QED BY <1>1, <1>2, <1>3, <1>4, <1>5

LEMMA ReadFiles ==
    ASSUME cur \in Consumers, forks \subseteq Consumers, Main \in Consumers, exist \subseteq Consumers,
           Read \/ ReadFirst \/ ReadNext \/ ReadServe \/ Pop \/ Popped \/ PeekOnly \/ CallbackErr \/ Reap
    PROVE  FileStep
<1> USE DEF FileStep
<1>1. CASE Read
  BY <1>1 DEF Read, WhenOpen, NoCall, disk, index, queue, oper, counters, history
<1>2. CASE ReadFirst
  BY <1>2 DEF ReadFirst, disk, index, queue, oper, counters, history
<1>3. CASE ReadNext
  BY <1>3 DEF ReadNext, disk, index, queue, oper, counters, history
<1>4. CASE ReadServe
  BY <1>4 DEF ReadServe, disk, index, queue, oper, counters, history
<1>5. CASE Pop
  BY <1>5 DEF Pop, Write, disk, index, queue, oper, counters, history
<1>6. CASE Popped
  BY <1>6 DEF Popped, disk, index, queue, oper, counters, history
<1>7. CASE PeekOnly
  BY <1>7 DEF PeekOnly, disk, index, queue, oper, counters, history
<1>8. CASE CallbackErr
  BY <1>8 DEF CallbackErr, Return, disk, index, queue, oper, counters, history
<1>9. CASE Reap
  BY <1>9 DEF Reap, DropBucket, Forget, Return, disk, index, queue, oper, counters, history
<1> QED BY <1>1, <1>2, <1>3, <1>4, <1>5, <1>6, <1>7, <1>8, <1>9

LEMMA ForksFiles ==
    ASSUME cur \in Consumers, forks \subseteq Consumers, Main \in Consumers, exist \subseteq Consumers,
           Delete \/ DeleteBegin \/ Deleted \/ Clear \/ ForkListed \/ Fork \/ Forked \/ RemoveFork
    PROVE  FileStep
<1> USE DEF FileStep
<1>1. CASE Delete
  BY <1>1 DEF Delete, WhenOpen, NoCall, disk, index, queue, oper, counters, history
<1>2. CASE DeleteBegin
  BY <1>2 DEF DeleteBegin, Write, disk, index, queue, oper, counters, history
<1>3. CASE Deleted
  BY <1>3 DEF Deleted, disk, index, queue, oper, counters, history
<1>4. CASE Clear
  BY <1>4 DEF Clear, DropBucket, Forget, Return, disk, index, queue, oper, counters, history
<1>5. CASE ForkListed
  BY <1>5 DEF ForkListed, ForkMade, disk, index, queue, oper, counters, history
<1>6. CASE Fork
  BY <1>6 DEF Fork, Write, NoCall, disk, index, queue, oper, counters, history
<1>7. CASE Forked
  BY <1>7 DEF Forked, ForkMade, Return, disk, index, queue, oper, counters, history
<1>8. CASE RemoveFork
  BY <1>8 DEF RemoveFork, RmIndexLog, DropBucket, Forget, Return, disk, index, queue, oper, counters, history
<1> QED BY <1>1, <1>2, <1>3, <1>4, <1>5, <1>6, <1>7, <1>8

LEMMA EditFiles ==
  ASSUME Journal
  PROVE  FileStep
BY DEF Journal, FileStep

LEMMA FilesStep ==
  ASSUME Base, Next
  PROVE  FileStep
<1>1. exist \subseteq Consumers
  BY Groups DEF Base, TypeInv, DiskT
<1> QED BY <1>1, BaseTypes, QueueFiles, OpeningFiles, RemovingFiles, JournalFiles, EditFiles, PushFiles,
           ReadFiles, ForksFiles DEF Next, Step, Environment

-----------------------------------------------------------------------------
(* The stale log on the way to its end.                                    *)

LEMMA PrefixAll ==
  ASSUME NEW S, NEW f \in Seq(S)
  PROVE  SubSeq(f, 1, Len(f)) = f
<1>1. PICK a : a = SubSeq(f, 1, Len(f))
  OBVIOUS
<1>2. a \in Seq(S) /\ Len(a) = Len(f) /\ \A i \in 1 .. Len(f) : a[i] = f[i]
  BY <1>1
<1>3. a = f
  BY <1>2
<1> QED BY <1>1, <1>3

\* An index log that was read to its end.
LEMMA LoadedAll ==
  ASSUME Base, LoadProgress, pc = "loaded"
  PROVE  /\ mem[cur] = Replay(file[cur])
         /\ cur \notin seen => mem[cur] = <<>> /\ \A i \in DOMAIN file[cur] : file[cur][i].len = 0
<1>1. PICK f \in Seq(Location) : f = file[cur]
  BY BaseTypes
<1>2. PICK n \in 0 .. Len(f) : LoadedUpTo(f, n)
  BY <1>1 DEF LoadProgress, Doing
<1>3. todo = <<>> /\ Len(f) \in Nat
  BY DEF Base, Program
<1>4. n = Len(f)
  BY <1>2, <1>3 DEF LoadedUpTo
<1>5. SubSeq(f, 1, n) = f
  BY <1>4, PrefixAll
<1>6. DOMAIN f = 1 .. Len(f)
  OBVIOUS
<1> QED BY <1>1, <1>2, <1>4, <1>5, <1>6 DEF LoadedUpTo

LEMMA RmMainStep ==
  ASSUME Ground, Next, pc = "rmMain", Ok(Main)'
  PROVE  AllFit(vlog', file'[Main]) \/ Stale'
<1>1. CASE RmMain
  <2>1. file'[Main] = <<>>
    BY <1>1, BaseTypes DEF RmMain, RmIndexLog, Ground
  <2> QED BY <2>1, NoneFits
<1>2. CASE Crash
  <2>1. vlog = <<>> /\ file \in [Consumers -> Seq(Location)] /\ Main \in Consumers
    BY BaseTypes DEF Ground, Base, OnDisk
  <2>2. IndexEmpty(Replay(file[Main]))
    BY <1>2 DEF Crash, Cut, Ok
  <2>3. Replay(file[Main]) = <<>>
    BY <2>1, <2>2, ReplayTidy, TidyEmpty
  <2>4. /\ vlog' = vlog /\ file' = file /\ forks' = {} /\ tree' = "absent" /\ pc' = "down"
        /\ after' = "idle" /\ loaded' = {}
    BY <1>2 DEF Crash, Stop, Forget, Return, disk
  <2> QED BY <2>1, <2>3, <2>4 DEF Stale
<1> QED BY <1>1, <1>2, QueueNotRmMain, OpeningNotRmMain, RemovingNotRmMain, JournalNotRmMain,
           PushNotRmMain, ReadNotRmMain, ForksNotRmMain
        DEF Ground, Base, Next, Step, Environment

LEMMA StaleStep ==
  ASSUME Ground, MemsFit, Next, Stale, Ok(Main)', ~RmDat
  PROVE  AllFit(vlog', file'[Main]) \/ Stale'
<1>0. /\ Base /\ OpenInv /\ Program /\ OnDisk /\ InMemory /\ Ok(Main) /\ AllTidy
      /\ file \in [Consumers -> Seq(Location)] /\ mem \in [Consumers -> Seq(Location)]
      /\ Main \in Consumers /\ LoadProgress
  BY OkStays, BaseTypes DEF Ground, Base
<1>1. CASE Start
  <2>1. CASE dir
    BY <1>1, <2>1 DEF Start, disk, index, oper, Stale, Doing
  <2>2. CASE ~dir
    <3>1. file'[Main] = <<>>
      BY <1>0, <1>1, <2>2 DEF Start, disk, OnDisk
    <3> QED BY <3>1, NoneFits
  <2> QED BY <2>1, <2>2
<1>2. CASE Crash
  BY <1>2 DEF Crash, Stop, Forget, Return, disk, Stale
<1>3. CASE Open
  BY <1>3 DEF Open, queue, oper, Stale
<1>4. CASE LoadIndex
  BY <1>4 DEF LoadIndex, Write, queue, Stale, Doing
<1>5. CASE Loaded
  <2>1. CASE cur \in seen \/ cur # Main
    BY <1>5, <2>1 DEF Loaded, disk, queue, Stale, Doing
  <2>2. CASE cur = Main /\ cur \notin seen
    <3>1. \A i \in DOMAIN file[Main] : file[Main][i].len = 0
      BY <1>0, <1>5, <2>2, LoadedAll DEF Loaded
    <3> QED BY <1>5, <3>1 DEF Loaded, disk, AllFit
  <2> QED BY <2>1, <2>2
<1>6. CASE Recover
  <2>1. cur = Main /\ cur \notin seen /\ pc = "loaded"
    BY <1>0, <1>6 DEF Recover, Stale, OpenInv, Indexes, LoadingOne, Loading
  <2>2. \A i \in DOMAIN file[Main] : file[Main][i].len = 0
    BY <1>0, <2>1, LoadedAll
  <2> QED BY <1>6, <2>2 DEF Recover, disk, AllFit
<1>7. CASE Reinit
  BY <1>7 DEF Reinit, Forget, disk, queue, Stale
<1>8. CASE Opened
  <2>1. pc = "openNext" /\ Main \in loaded /\ loaded = {Main} /\ seen # {}
    BY <1>0, <1>8 DEF Opened, ToLoad, Stale, OpenInv, Indexes
  <2>2. AllFit(vlog, mem[Main])
    BY <1>0, <2>1 DEF MemsFit
  <2>3. IndexEmpty(mem[Main])
    <3> SUFFICES ASSUME NEW i \in DOMAIN mem[Main], mem[Main][i].len # 0 PROVE FALSE
      BY DEF IndexEmpty
    <3>1. mem[Main][i] \in Location
      BY <1>0
    <3>2. PICK loc \in Location : loc = mem[Main][i]
      BY <3>1
    <3>3. loc.off \in Nat /\ loc.len \in Nat /\ loc.len > 0
      BY <3>2, LocNumbers
    <3>4. loc.off + loc.len <= 0
      BY <2>2, <3>2, <3>3 DEF AllFit, BatchFits, Stale
    <3> QED BY <3>3, <3>4
  <2> QED BY <1>8, <2>1, <2>3 DEF Opened, AllEmpty
<1>9. CASE RmIndex
  <2>1. file'[Main] = <<>>
    BY <1>0, <1>9 DEF RmIndex, Named, RmIndexLog, Stale, Doing
  <2> QED BY <2>1, NoneFits
<1>10. CASE Journal
  <2>1. PICK e : e = Head(todo)
    OBVIOUS
  <2>2. /\ pc = "journal" /\ then = "loaded" /\ EditMem(e) /\ todo # <<>>
        /\ file' = IF "log" \in e.on THEN [file EXCEPT ![e.to] = Append(@, e.loc)] ELSE file
        /\ UNCHANGED <<vlog, queue, pc, after, then>>
    BY <1>10, <2>1 DEF Journal, Stale, Doing
  <2>3. "log" \notin e.on
    <3>1. e = todo[1] /\ 1 \in DOMAIN todo
      BY <2>1, <2>2, BaseTypes, <1>0
    <3> QED BY <1>0, <2>2, <3>1 DEF Base, Targets
  <2>4. file' = file /\ loaded' = loaded /\ (Main \in seen => Main \in seen')
    BY <2>2, <2>3 DEF EditMem
  <2> QED BY <2>2, <2>4 DEF queue, Stale, Doing
<1>11. CASE JournalEnd
  BY <1>11 DEF JournalEnd, disk, index, queue, oper, Stale, Doing
<1>12. CASE FailWrite
  <2>1. pc = "journal" /\ then = "loaded" /\ todo # <<>> /\ "log" \in Head(todo).on
    BY <1>12 DEF FailWrite, Stale, Doing
  <2> QED BY <1>12, <2>1 DEF FailWrite
<1> QED BY <1>0, <1>1, <1>2, <1>3, <1>4, <1>5, <1>6, <1>7, <1>8, <1>9, <1>10, <1>11, <1>12,
           QueueNotStale, OpeningNotStale, RemovingNotStale, JournalNotStale, PushNotStale,
           ReadNotStale, ForksNotStale DEF Next, Step, Environment

-----------------------------------------------------------------------------
(* Every step keeps what fits.                                             *)

LEMMA AllFitAppend ==
  ASSUME NEW g \in Seq(Item), NEW x \in Item, NEW locs \in Seq(Location), AllFit(g, locs)
  PROVE  AllFit(Append(g, x), locs)
<1> SUFFICES ASSUME NEW i \in DOMAIN locs, locs[i].len > 0 PROVE BatchFits(Append(g, x), locs[i])
  BY DEF AllFit
<1>1. locs[i] \in Location /\ BatchFits(g, locs[i])
  BY DEF AllFit
<1> QED BY <1>1, FitsAppend

LEMMA AllFitRecord ==
  ASSUME NEW g, NEW locs \in Seq(Location), AllFit(g, locs), NEW loc \in Location,
         loc.len > 0 => BatchFits(g, loc)
  PROVE  AllFit(g, Append(locs, loc))
<1>1. PICK r : r = Append(locs, loc)
  OBVIOUS
<1>2. \A i \in DOMAIN r : r[i] = loc \/ (i \in DOMAIN locs /\ r[i] = locs[i])
  BY <1>1
<1>3. AllFit(g, r)
  BY <1>2 DEF AllFit
<1> QED BY <1>1, <1>3

\* A written item: the value log is one longer.
LEMMA WriteIs ==
  ASSUME Base, WriteItem
  PROVE  \E x \in Item : /\ vlog' = Append(vlog, x) /\ x = batch[wrote + 1]
                         /\ ~Stale /\ pc = "push" /\ wrote + 1 \in 1 .. Len(batch)
<1>1. batch \in Seq(Item) /\ wrote \in Nat /\ wrote < Len(batch) /\ pc = "push"
  BY BaseTypes DEF WriteItem
<1>2. wrote + 1 \in 1 .. Len(batch) /\ batch[wrote + 1] \in Item
  BY <1>1
<1>3. ~Stale
  BY <1>1 DEF Stale, Doing
<1> QED BY <1>1, <1>2, <1>3 DEF WriteItem

LEMMA EditAt ==
  ASSUME Base, Journal \/ FailWrite
  PROVE  /\ pc = "journal" /\ Head(todo) = todo[1] /\ 1 \in DOMAIN todo /\ Head(todo) \in Edit
         /\ Head(todo).on \subseteq Both /\ Head(todo).to \in Consumers
         /\ Head(todo).loc \in Location /\ todo # <<>>
<1>1. todo \in Seq(Edit) /\ todo # <<>> /\ pc = "journal"
  BY BaseTypes DEF Journal, FailWrite
<1>2. Head(todo) = todo[1] /\ 1 \in DOMAIN todo /\ Head(todo) \in Edit
  BY <1>1
<1> QED BY <1>1, <1>2 DEF Edit, Both

LEMMA FilesFitStep ==
  ASSUME Ground, Fit, Next
  PROVE  FilesFit'
<1>0. /\ Base /\ file \in [Consumers -> Seq(Location)] /\ vlog \in Seq(Item) /\ Main \in Consumers
      /\ FilesFit /\ MemsFit /\ EditsFit
  BY BaseTypes DEF Ground, Fit
<1> SUFFICES ASSUME NEW c \in Consumers, Ok(c)'
             PROVE  AllFit(vlog', file'[c]) \/ (c = Main /\ (pc' = "rmMain" \/ Stale'))
  BY DEF FilesFit
<1>1. Ok(c)
  BY OkStays
<1>2. CASE RmDat
  <2>1. CASE c = Main
    BY <1>2, <2>1 DEF RmDat
  <2>2. CASE c # Main
    <3>1. c \notin exist
      BY <1>1, <1>2, <2>2 DEF Ok, Ground, Owned, RmDat, Named, Forking
    <3>2. file'[c] = <<>>
      BY <1>0, <1>2, <3>1 DEF RmDat, Base, OnDisk
    <3> QED BY <3>2, NoneFits
  <2> QED BY <2>1, <2>2
<1>3. CASE WriteItem
  <2>1. PICK x \in Item : vlog' = Append(vlog, x) /\ ~Stale /\ pc = "push"
    BY <1>0, <1>3, WriteIs
  <2>2. AllFit(vlog, file[c]) /\ file' = file
    BY <1>0, <1>1, <1>3, <2>1 DEF FilesFit, WriteItem
  <2> QED BY <1>0, <2>1, <2>2, AllFitAppend
<1>4. CASE vlog' = vlog /\ c = Main /\ pc = "rmMain"
  BY <1>4, RmMainStep
<1>5. CASE vlog' = vlog /\ c = Main /\ Stale /\ ~RmDat
  BY <1>0, <1>5, StaleStep
<1>6. CASE vlog' = vlog /\ AllFit(vlog, file[c])
  <2>1. CASE file' = file
    BY <1>6, <2>1
  <2>2. ASSUME NEW d \in Consumers, file' = [file EXCEPT ![d] = <<>>]
        PROVE  AllFit(vlog', file'[c])
    <3>1. file'[c] = file[c] \/ file'[c] = <<>>
      BY <1>0, <2>2
    <3> QED BY <1>6, <3>1, NoneFits
  <2>3. CASE Journal /\ "log" \in Head(todo).on
    <3>1. PICK e : e = Head(todo)
      OBVIOUS
    <3>2. pc = "journal" /\ e = todo[1] /\ 1 \in DOMAIN todo /\ e.to \in Consumers /\ e.loc \in Location
      BY <1>0, <2>3, <3>1, EditAt
    <3>3. file' = [file EXCEPT ![e.to] = Append(@, e.loc)]
      BY <2>3, <3>1 DEF Journal
    <3>4. CASE c # e.to
      BY <1>0, <1>6, <3>2, <3>3, <3>4
    <3>5. CASE c = e.to
      <4>1. then # "loaded"
        BY <1>0, <2>3, <3>1, <3>2 DEF Base, Targets
      <4>2. e.loc.len > 0 => BatchFits(vlog, e.loc)
        BY <1>0, <1>1, <2>3, <3>1, <3>2, <3>5, <4>1 DEF EditsFit, EditFits
      <4>3. file'[c] = Append(file[c], e.loc) /\ file[c] \in Seq(Location)
        BY <1>0, <3>2, <3>3, <3>5
      <4>4. AllFit(vlog, Append(file[c], e.loc))
        BY <1>6, <3>2, <4>2, <4>3, AllFitRecord
      <4> QED BY <1>6, <4>3, <4>4
    <3> QED BY <3>4, <3>5
  <2> QED BY <1>0, <2>1, <2>2, <2>3, FilesStep DEF FileStep
<1> QED BY <1>0, <1>1, <1>2, <1>3, <1>4, <1>5, <1>6, ValuesStep DEF FilesFit

\* Loading the stale log.
LEMMA StaleLoading ==
  ASSUME Ground, MemsFit, Next, Stale, Main \notin loaded, Ok(Main)', ~AllFit(vlog, mem[Main]), ~RmDat
  PROVE  AllFit(vlog', mem'[Main]) \/ (Stale' /\ Main \notin loaded')
<1>1. /\ Base /\ OpenInv /\ Program /\ InMemory /\ LoadProgress /\ Main \in Consumers
      /\ mem \in [Consumers -> Seq(Location)]
  BY BaseTypes DEF Ground, Base
<1>2. mem[Main] # <<>>
  BY NoneFits
<1>3. LoadingOne /\ cur = Main
  BY <1>1, <1>2 DEF InMemory
<1>4. Doing("loaded")
  BY <1>3 DEF LoadingOne, Loading, Stale, Doing
<1>5. pc # "loaded"
  <2> SUFFICES ASSUME pc = "loaded" PROVE FALSE
    OBVIOUS
  <2>1. mem[Main] = Replay(file[Main])
    BY <1>1, <1>3, LoadedAll
  <2> QED BY <1>2, <2>1 DEF Stale
<1>6. pc = "journal" /\ then = "loaded"
  BY <1>4, <1>5 DEF Doing
<1>7. CASE Crash
  <2>1. mem'[Main] = <<>>
    BY <1>1, <1>7 DEF Crash, Stop, Forget
  <2> QED BY <2>1, NoneFits
<1>8. CASE Journal \/ JournalEnd
  <2>1. loaded' = loaded /\ file' = file /\ UNCHANGED <<vlog, forks, tree, after, then>> /\ (pc' = pc \/ pc' = then)
    <3>1. CASE Journal
      <4>1. PICK e : e = Head(todo)
        OBVIOUS
      <4>2. "log" \notin e.on
        BY <1>1, <1>6, <3>1, <4>1, EditAt DEF Base, Targets
      <4> QED BY <3>1, <4>1, <4>2 DEF Journal, EditMem, queue
    <3>2. CASE JournalEnd
      BY <3>2 DEF JournalEnd, disk, index, oper, queue
    <3> QED BY <1>8, <3>1, <3>2
  <2>2. Stale'
    BY <1>6, <2>1 DEF Stale, Doing
  <2> QED BY <2>1, <2>2
<1>9. CASE FailWrite
  BY <1>6, <1>9 DEF FailWrite
<1> QED BY <1>1, <1>6, <1>7, <1>8, <1>9,
           QueueNotStale, OpeningNotStale, RemovingNotStale, JournalNotStale, PushNotStale,
           ReadNotStale, ForksNotStale
        DEF Next, Step, Environment, Start, Open, LoadIndex, Loaded, Recover, Reinit, Opened, RmIndex,
            RmDat

LEMMA MemsFitStep ==
  ASSUME Ground, Fit, Next
  PROVE  MemsFit'
<1>0. /\ Base /\ mem \in [Consumers -> Seq(Location)] /\ vlog \in Seq(Item) /\ Main \in Consumers
      /\ FilesFit /\ MemsFit /\ EditsFit /\ OpenInv /\ Program /\ InMemory /\ AllTidy
      /\ cur \in Consumers /\ call.who \in Consumers /\ Main \notin Forks
  BY BaseTypes DEF Ground, Fit, Base
<1> SUFFICES ASSUME NEW c \in Consumers, Ok(c)'
             PROVE  AllFit(vlog', mem'[c]) \/ (c = Main /\ Stale' /\ Main \notin loaded')
  BY DEF MemsFit
<1>1. Ok(c)
  BY OkStays
<1>2. CASE RmDat
  <2>1. mem[c] = <<>> /\ mem' = mem
    BY <1>0, <1>2 DEF RmDat, index, InMemory, OpenInv, Indexes, Control, Loading, LoadingOne
  <2> QED BY <2>1, NoneFits
<1>3. CASE WriteItem
  <2>1. PICK x \in Item : vlog' = Append(vlog, x) /\ ~Stale /\ pc = "push"
    BY <1>0, <1>3, WriteIs
  <2>2. AllFit(vlog, mem[c]) /\ mem' = mem
    BY <1>0, <1>1, <1>3, <2>1 DEF MemsFit, WriteItem, index
  <2> QED BY <1>0, <2>1, <2>2, AllFitAppend
<1>4. CASE vlog' = vlog /\ c = Main /\ Stale /\ Main \notin loaded /\ ~AllFit(vlog, mem[c]) /\ ~RmDat
  BY <1>0, <1>4, StaleLoading
<1>5. CASE vlog' = vlog /\ AllFit(vlog, mem[c])
  <2>1. CASE mem' = mem
    BY <1>5, <2>1
  <2>2. CASE mem' = [d \in Consumers |-> <<>>]
    <3>1. mem'[c] = <<>>
      BY <2>2
    <3> QED BY <3>1, NoneFits
  <2>3. ASSUME NEW d \in Consumers, mem' = [mem EXCEPT ![d] = <<>>]
        PROVE  AllFit(vlog', mem'[c])
    <3>1. mem'[c] = mem[c] \/ mem'[c] = <<>>
      BY <1>0, <2>3
    <3> QED BY <1>5, <3>1, NoneFits
  <2>4. CASE pc = "forked" /\ mem' = [mem EXCEPT ![cur] = mem[call.who]]
    <3>1. CASE c # cur
      BY <1>0, <1>5, <2>4, <3>1
    <3>2. CASE c = cur
      <4>1. cur \in Forks /\ ~Stale
        BY <1>0, <2>4 DEF OpenInv, Indexes, Forking, Stale, Doing
      <4>2. Ok(call.who)
        BY <1>0, <1>1, <3>2, <4>1 DEF Ok, OkForks
      <4>3. AllFit(vlog, mem[call.who])
        BY <1>0, <4>1, <4>2 DEF MemsFit
      <4>4. mem'[c] = mem[call.who]
        BY <1>0, <2>4, <3>2
      <4> QED BY <1>5, <4>3, <4>4
    <3> QED BY <3>1, <3>2
  <2>5. CASE (Journal \/ FailWrite) /\ EditMem(Head(todo))
    <3>1. PICK e : e = Head(todo)
      OBVIOUS
    <3>2. pc = "journal" /\ e = todo[1] /\ 1 \in DOMAIN todo /\ e.to \in Consumers /\ e.loc \in Location
      BY <1>0, <2>5, <3>1, EditAt
    <3>3. mem' = (IF "mem" \in e.on THEN [mem EXCEPT ![e.to] = IndexApply(@, e.loc)] ELSE mem) /\ loaded' = loaded
      BY <2>5, <3>1 DEF EditMem
    <3>4. CASE c # e.to \/ "mem" \notin e.on
      <4>1. mem'[c] = mem[c]
        BY <1>0, <3>2, <3>3, <3>4
      <4> QED BY <1>5, <4>1
    <3>5. CASE c = e.to /\ "mem" \in e.on
      <4>1. mem'[c] = IndexApply(mem[c], e.loc) /\ mem[c] \in Seq(Location) /\ Tidy(mem[c])
        BY <1>0, <3>2, <3>3, <3>5 DEF AllTidy
      <4>2. CASE e.loc.len > 0 => BatchFits(vlog, e.loc)
        <5>1. AllFit(vlog, IndexApply(mem[c], e.loc))
          BY <1>0, <1>5, <3>2, <4>1, <4>2, ApplyFits
        <5> QED BY <1>5, <4>1, <5>1
      <4>3. CASE e.to = Main /\ Stale /\ then = "loaded"
        <5>1. e.to = cur /\ "log" \notin e.on /\ cur \notin loaded
          BY <1>0, <3>2, <4>3 DEF Base, Targets, InMemory, LoadingOne, Loading
        <5>2. Journal
          BY <2>5, <4>3 DEF FailWrite
        <5>3. file' = file /\ UNCHANGED <<vlog, queue, pc, after, then>>
          BY <3>1, <5>1, <5>2 DEF Journal
        <5>4. Stale' /\ Main \notin loaded'
          BY <3>3, <4>3, <5>1, <5>3 DEF Stale, Doing, queue
        <5> QED BY <3>5, <4>3, <5>4
      <4> QED BY <1>0, <1>1, <3>2, <3>5, <4>2, <4>3 DEF EditsFit, EditFits
    <3> QED BY <3>4, <3>5
  <2> QED BY <1>0, <2>1, <2>2, <2>3, <2>4, <2>5, MemStep DEF MemoryStep
<1> QED BY <1>0, <1>1, <1>2, <1>3, <1>4, <1>5, ValuesStep DEF MemsFit

\* An edit that is one of the locations of an index or a log that fits.
LEMMA CopiesFit ==
  ASSUME NEW on, NEW d, NEW locs \in Seq(Location), vlog' = vlog, AllFit(vlog, locs),
         todo' = EditsOf(on, d, locs)
  PROVE  \A j \in DOMAIN todo' : EditFits(todo[j])'
<1>1. \A j \in DOMAIN todo' : todo'[j].loc = locs[j] /\ j \in DOMAIN locs
  BY EditsOfAt
<1> QED BY <1>1 DEF EditFits, AllFit

LEMMA JournalStale ==
  ASSUME Base, Journal, Stale
  PROVE  Stale' /\ then' = then /\ pc' = pc
<1>1. PICK e : e = Head(todo)
  OBVIOUS
<1>2. pc = "journal" /\ then = "loaded"
  BY DEF Journal, Stale, Doing
<1>3. "log" \notin e.on
  BY <1>1, <1>2, EditAt DEF Base, Targets
<1>4. /\ EditMem(e) /\ UNCHANGED <<vlog, queue, pc, after, then>>
      /\ file' = IF "log" \in e.on THEN [file EXCEPT ![e.to] = Append(@, e.loc)] ELSE file
  BY <1>1 DEF Journal
<1>5. file' = file /\ loaded' = loaded /\ (Main \in seen => Main \in seen')
  BY <1>3, <1>4 DEF EditMem
<1> QED BY <1>2, <1>4, <1>5 DEF queue, Stale, Doing

LEMMA PushLocFits ==
  ASSUME Base, Fit, pc = "push", wrote = Len(batch)
  PROVE  BatchFits(vlog, PushLoc)
<1>1. /\ vlog \in Seq(Item) /\ batch \in Seq(Item) /\ batch # <<>> /\ wrote <= Len(vlog)
      /\ PushLoc \in Location
  <2>1. TypeInv /\ vlog \in Seq(Item) /\ batch \in Seq(Item)
    BY BaseTypes DEF Base
  <2>2. batch # <<>> /\ wrote <= Len(vlog)
    BY <2>1 DEF TypeInv, Phase
  <2>3. PushLoc \in Location
    BY <2>1, <2>2, PushLocType, Groups DEF TypeInv
  <2> QED BY <2>1, <2>2, <2>3
<1>2. PICK n \in Nat, l \in Nat : n = Len(batch) /\ l = Len(vlog) /\ n > 0 /\ n <= l
  BY <1>1
<1>3. PushLoc.key = batch[1].key /\ PushLoc.off = l - n /\ PushLoc.len = n
  BY <1>2 DEF PushLoc
<1>4. LocSlots(PushLoc) = (l - n + 1) .. l
  <2>1. (l - n) + n = l
    BY <1>2
  <2> QED BY <1>3, <2>1 DEF LocSlots
<1>5. \A i \in 1 .. n : vlog[l - n + i] = batch[i]
  BY <1>2 DEF Fit, Written
<1>6. \A i, j \in 1 .. n : i <= j => batch[i].key <= batch[j].key
  <2>1. \A i \in 1 .. n : batch[i].key \in Nat
    BY <1>1, <1>2, ItemKey, KeysAssumption
  <2> QED BY <1>1, <1>2, <2>1, SMTT(40) DEF Fit, Ascending
<1>7. ASSUME NEW a \in LocSlots(PushLoc), NEW b \in LocSlots(PushLoc), a <= b
      PROVE  vlog[a].key <= vlog[b].key
  <2>1. PICK i \in 1 .. n, j \in 1 .. n : a = l - n + i /\ b = l - n + j /\ i <= j
    <3>1. a - (l - n) \in 1 .. n /\ b - (l - n) \in 1 .. n /\ a - (l - n) <= b - (l - n)
          /\ a = l - n + (a - (l - n)) /\ b = l - n + (b - (l - n))
      BY <1>2, <1>4, <1>7
    <3> QED BY <3>1
  <2> QED BY <1>5, <1>6, <2>1
<1>8. vlog[PushLoc.off + 1].key = PushLoc.key
  <2>1. 1 \in 1 .. n
    BY <1>2
  <2> QED BY <1>3, <1>5, <2>1
<1>9. PushLoc.len > 0 /\ PushLoc.off + PushLoc.len <= Len(vlog)
  BY <1>2, <1>3
<1> QED BY <1>7, <1>8, <1>9 DEF BatchFits

LEMMA WriteEditsFit ==
  ASSUME Ground, Fit,
         LoadIndex \/ Recover \/ Rewrite \/ PushIndex \/ Pop \/ DeleteBegin \/ Fork
  PROVE  EditsFit'
<1>0. /\ Base /\ FilesFit /\ MemsFit /\ ReadFits /\ Main \in Consumers /\ Main \notin Forks
      /\ vlog \in Seq(Item) /\ file \in [Consumers -> Seq(Location)] /\ mem \in [Consumers -> Seq(Location)]
      /\ cur \in Consumers /\ rd.iters \in Seq(Iter) /\ call.who \in Consumers
      /\ call.lo \in Nat /\ call.hi \in Nat /\ forks \subseteq Consumers /\ Forks \subseteq Consumers
      /\ IndexT
  BY BaseTypes DEF Ground, Fit
<1> SUFFICES \A j \in DOMAIN todo' : EditFits(todo[j])'
  BY DEF EditsFit
<1>1. CASE LoadIndex
  <2>1. PICK c \in ToLoad : cur' = c /\ Write(EditsOf({"mem"}, c, file[c]), "loaded") /\ vlog' = vlog /\ known' = known
    BY <1>1 DEF LoadIndex, history
  <2>2. PICK f \in Seq(Location) : f = file[c] /\ todo' = EditsOf({"mem"}, c, f) /\ c \in Consumers
    BY <1>0, <2>1 DEF ToLoad, Write
  <2>3. CASE AllFit(vlog, f)
    BY <2>1, <2>2, <2>3, CopiesFit
  <2>4. CASE c = Main /\ Stale
    <3>1. Stale' /\ then' = "loaded"
      BY <1>1, <2>4 DEF LoadIndex, Write, queue, Stale, Doing
    <3>2. \A j \in DOMAIN todo' : todo'[j].to = Main
      BY <2>2, <2>4, EditsOfAt
    <3> QED BY <3>1, <3>2 DEF EditFits
  <2>5. CASE ~Ok(c)
    <3>1. \A j \in DOMAIN todo' : todo'[j].to = c
      BY <2>2, EditsOfAt
    <3>2. ~Ok(c)'
      BY <2>1, <2>5 DEF Ok, OkForks
    <3> QED BY <3>1, <3>2 DEF EditFits
  <2> QED BY <1>0, <1>1, <2>2, <2>3, <2>4, <2>5 DEF FilesFit, LoadIndex
<1>2. CASE Recover
  <2> SUFFICES ASSUME NEW j \in DOMAIN todo' PROVE BatchFits(vlog', todo'[j].loc)
    BY DEF EditFits
  <2>1. todo' = RegenerateEdits(cur) /\ vlog' = vlog
    BY <1>2 DEF Recover, Write, disk
  <2>2. j \in 1 .. Len(vlog) /\ todo'[j].loc = RunAt(vlog, j)
    BY <1>0, <2>1, RegenerateEditsAt
  <2> QED BY <1>0, <2>1, <2>2, RunFits
<1>3. CASE Rewrite
  <2>1. PICK f \in Seq(Location) : f = mem[cur] /\ todo' = EditsOf({"log"}, cur, f)
    BY <1>0, <1>3 DEF Rewrite, Write
  <2>2. vlog' = vlog /\ known' = known /\ ~Stale
    BY <1>3 DEF Rewrite, history, Stale, Doing
  <2>3. CASE Ok(cur)
    <3>1. AllFit(vlog, f)
      BY <1>0, <2>1, <2>2, <2>3 DEF MemsFit
    <3> QED BY <2>1, <2>2, <3>1, CopiesFit
  <2>4. CASE ~Ok(cur)
    <3>1. \A j \in DOMAIN todo' : todo'[j].to = cur
      BY <2>1, EditsOfAt
    <3>2. ~Ok(cur)'
      BY <1>3, <2>2, <2>4 DEF Ok, OkForks, Rewrite
    <3>3. cur' = cur
      BY <1>3 DEF Rewrite
    <3> QED BY <3>1, <3>2, <3>3 DEF EditFits
  <2> QED BY <2>3, <2>4
<1>4. CASE PushIndex
  <2>2. \A j \in DOMAIN todo' : todo'[j].loc = PushLoc
    BY <1>0, <1>4, PushIndexEdits
  <2>3. BatchFits(vlog, PushLoc) /\ vlog' = vlog
    BY <1>0, <1>4, PushLocFits DEF PushIndex, disk
  <2> QED BY <2>2, <2>3 DEF EditFits
<1>5. CASE Pop
  <2>1. todo' = PopEdits(call.who, rd.iters) /\ vlog' = vlog /\ known' = known /\ call' = call /\ pc = "callback"
    BY <1>5 DEF Pop, Write, disk
  <2>2. PICK h \in Seq(Iter) : h = rd.iters
    BY <1>0
  <2> SUFFICES ASSUME NEW j \in DOMAIN todo', todo'[j].on # {}, todo'[j].loc.len > 0, Ok(todo[j].to)'
               PROVE  BatchFits(vlog', todo'[j].loc)
    BY DEF EditFits
  <2>3. Len(h) \in Nat /\ j \in 1 .. 2 * Len(h) /\ todo'[j].to = call.who
    BY <2>1, <2>2, PopEditsAt
  <2>4. Ok(call.who)
    BY <2>1, <2>3 DEF Ok, OkForks
  <2>5. ItersFit(vlog, h)
    BY <1>0, <2>1, <2>2, <2>4 DEF ReadFits, InRead
  <2>6. PICK k \in 1 .. Len(h) : j = 2 * k - 1 \/ j = 2 * k
    BY <2>3, PairAt
  <2>7. CASE j = 2 * k
    <3>1. todo'[j].loc = DeadLoc(h[k].first)
      BY <2>1, <2>2, <2>6, <2>7, PopEditsAt, EditOfIs
    <3> QED BY <3>1 DEF DeadLoc
  <2>8. CASE j = 2 * k - 1
    <3>1. todo'[j] = EditOf(IF h[k].exh THEN {} ELSE Both, call.who, CurrentLocation(h[k]))
      BY <2>1, <2>2, <2>6, <2>8, PopEditsAt
    <3>2. ~h[k].exh /\ todo'[j].loc = CurrentLocation(h[k])
      BY <3>1, EditOfIs
    <3> QED BY <2>1, <2>5, <2>6, <3>2 DEF ItersFit, IterFits
  <2> QED BY <2>6, <2>7, <2>8
<1>6. CASE DeleteBegin
  <2>0. vlog' = vlog /\ pc = "delete" /\ known \subseteq known' /\ ~Stale
    BY <1>6 DEF DeleteBegin, disk, Stale, Doing
  <2>1. PICK c \in Consumers, lo \in Nat, hi \in Nat : c = call.who /\ lo = call.lo /\ hi = call.hi
    BY <1>0
  <2>2. PICK n \in Nat : n = Len(mem[c])
    BY <1>0
  <2>3. PICK es : es = DeleteEdits(c, lo, hi)
    OBVIOUS
  <2>4. DeleteEditsAre(es, c, lo, hi, n)
    BY <1>0, <2>2, <2>3, DeleteEditsAt
  <2>5. todo' = es
    BY <1>6, <2>1, <2>3 DEF DeleteBegin, Write
  <2> SUFFICES ASSUME NEW j \in DOMAIN todo', todo'[j].loc.len > 0, Ok(todo[j].to)'
               PROVE  todo'[j].on # {} => BatchFits(vlog', todo'[j].loc)
    BY DEF EditFits
  <2>6. j \in 1 .. 5 * n /\ es[j].to = c
    BY <2>4, <2>5 DEF DeleteEditsAre
  <2>7. AllFit(vlog, mem[c]) /\ \A k \in 1 .. n : mem[c][k] \in Location
    <3>1. Ok(c)
      BY <2>0, <2>5, <2>6 DEF Ok, OkForks
    <3> QED BY <1>0, <2>0, <2>2, <3>1 DEF MemsFit
  <2>8. ASSUME NEW on, NEW i \in 1 .. 2 * n, es[j] = PartEdits(c, lo, hi, on)[i], es[j].on # {}
        PROVE  BatchFits(vlog, es[j].loc)
    <3>1. PICK k \in 1 .. n : i = 2 * k - 1 \/ i = 2 * k
      BY PairAt
    <3>2. PICK loc \in Location : loc = mem[c][k]
      BY <2>7
    <3>3. PICK part : /\ part = LeftPart(loc, lo) \/ part = RightPart(loc, hi)
                      /\ es[j] = EditOf(IF Affected(loc, lo, hi) /\ part.len > 0 THEN on ELSE {}, c, part)
      <4>1. PICK P : P = PartEdits(c, lo, hi, on)
        OBVIOUS
      <4>2. /\ P[2 * k - 1] = EditOf(IF Affected(loc, lo, hi) /\ LeftPart(loc, lo).len > 0
                                     THEN on ELSE {}, c, LeftPart(loc, lo))
            /\ P[2 * k] = EditOf(IF Affected(loc, lo, hi) /\ RightPart(loc, hi).len > 0
                                 THEN on ELSE {}, c, RightPart(loc, hi))
        <5>1. mem \in [Consumers -> Seq(Location)] /\ k \in 1 .. Len(mem[c])
          BY <1>0, <2>2
        <5>2. P[2 * k - 1] = EditOf(IF Affected(mem[c][k], lo, hi) /\ LeftPart(mem[c][k], lo).len > 0
                                    THEN on ELSE {}, c, LeftPart(mem[c][k], lo))
          BY <4>1, <5>1, PartAt
        <5>3. P[2 * k] = EditOf(IF Affected(mem[c][k], lo, hi) /\ RightPart(mem[c][k], hi).len > 0
                                THEN on ELSE {}, c, RightPart(mem[c][k], hi))
          BY <4>1, <5>1, PartAt
        <5> QED BY <3>2, <5>2, <5>3
      <4>3. es[j] = P[2 * k - 1] \/ es[j] = P[2 * k]
        BY <2>8, <3>1, <4>1
      <4> QED BY <4>2, <4>3
    <3>4. es[j].loc = part /\ part.len > 0
      BY <2>5, <3>3, EditOfIs
    <3>5. BatchFits(vlog, loc)
      <4>1. k \in DOMAIN mem[c]
        BY <1>0, <2>2
      <4>2. AllTidy
        BY <1>0 DEF Base
      <4> QED BY <2>7, <3>2, <4>1, <4>2 DEF AllFit, AllTidy, Tidy
    <3>6. BatchFits(vlog, part)
      BY <1>0, <3>3, <3>4, <3>5, LeftFits, RightFits
    <3> QED BY <3>4, <3>6
  <2>9. CASE j <= 2 * n
    <3>1. j \in 1 .. 2 * n
      BY <2>6, <2>9
    <3>2. es[j] = PartEdits(c, lo, hi, {"log"})[j]
      BY <2>4, <3>1 DEF DeleteEditsAre
    <3> QED BY <2>0, <2>5, <2>8, <3>1, <3>2
  <2>10. CASE j > 2 * n /\ j <= 3 * n
    <3>1. j - 2 * n \in 1 .. n /\ 2 * n + (j - 2 * n) = j
      BY <2>6, <2>10
    <3>2. es[2 * n + (j - 2 * n)] = EndEdits(c, lo, hi)[j - 2 * n]
      BY <2>4, <3>1 DEF DeleteEditsAre
    <3>3. es[j].loc = DeadLoc(mem[c][j - 2 * n].key)
      <4>1. mem \in [Consumers -> Seq(Location)] /\ j - 2 * n \in 1 .. Len(mem[c])
        BY <1>0, <2>2, <3>1
      <4>2. PICK i : i = j - 2 * n
        OBVIOUS
      <4>3. EndEdits(c, lo, hi)[i] =
               EditOf(IF Affected(mem[c][i], lo, hi) THEN Both ELSE {}, c, DeadLoc(mem[c][i].key))
        BY <4>1, <4>2, EndEditsAt
      <4> QED BY <3>1, <3>2, <4>2, <4>3, EditOfIs
    <3> QED BY <2>5, <3>3 DEF DeadLoc
  <2>11. CASE j > 3 * n
    <3>1. j - 3 * n \in 1 .. 2 * n /\ 3 * n + (j - 3 * n) = j
      BY <2>6, <2>11
    <3>2. es[3 * n + (j - 3 * n)] = PartEdits(c, lo, hi, {"mem"})[j - 3 * n]
      BY <2>4, <3>1 DEF DeleteEditsAre
    <3> QED BY <2>0, <2>5, <2>8, <3>1, <3>2
  <2> QED BY <2>6, <2>9, <2>10, <2>11
<1>7. CASE Fork
  <2>1. PICK src \in forks \cup {Main}, dst \in Forks \ forks :
          /\ cur' = dst
          /\ \/ Write(EditsOf({"log"}, dst, mem[src]), "forked")
             \/ Write(EditsOf({"log"}, dst, file[src]), "forked")
    BY <1>7 DEF Fork
  <2>2. vlog' = vlog /\ known' = known /\ pc = "idle" /\ ~Stale
    BY <1>7 DEF Fork, history, Stale, Doing
  <2>3. PICK f \in Seq(Location) : (f = mem[src] \/ f = file[src]) /\ todo' = EditsOf({"log"}, dst, f)
    BY <1>0, <2>1 DEF Write
  <2>4. CASE OkForks
    <3>1. Ok(src)
      BY <2>4 DEF Ok, OkForks
    <3>2. AllFit(vlog, f)
      BY <1>0, <2>1, <2>2, <2>3, <3>1 DEF MemsFit, FilesFit
    <3> QED BY <2>2, <2>3, <3>2, CopiesFit
  <2>5. CASE ~OkForks
    <3>1. \A j \in DOMAIN todo' : todo'[j].to = dst
      BY <2>3, EditsOfAt
    <3>2. ~Ok(dst)' /\ dst # Main
      BY <1>0, <2>2, <2>5 DEF Ok, OkForks
    <3>3. ASSUME NEW j \in DOMAIN todo' PROVE ~Ok(todo[j].to)'
      BY <1>0, <2>2, <2>5, <3>1 DEF Ok, OkForks
    <3> QED BY <3>3 DEF EditFits
  <2> QED BY <2>4, <2>5
<1> QED BY <1>1, <1>2, <1>3, <1>4, <1>5, <1>6, <1>7

LEMMA EditsFitStep ==
  ASSUME Ground, Fit, Next
  PROVE  EditsFit'
<1>1. CASE Journal \/ FailWrite
  <2>0. Base /\ EditsFit /\ todo \in Seq(Edit) /\ todo # <<>> /\ pc = "journal" /\ OpenInv
    BY <1>1, BaseTypes DEF Ground, Fit, Journal, FailWrite, Base
  <2>1. CASE pc' # "journal"
    BY <2>1 DEF EditsFit
  <2>2. CASE pc' = "journal"
    <3>1. todo' = Tail(todo) /\ vlog' = vlog /\ (FailWrite => then # "loaded")
      BY <1>1, <2>0, <2>2 DEF Journal, FailWrite, disk, PushOver, OpenFails, Return, OpenInv, Control
    <3> SUFFICES ASSUME NEW j \in DOMAIN todo' PROVE EditFits(todo[j])'
      BY DEF EditsFit
    <3>2. j + 1 \in DOMAIN todo /\ todo'[j] = todo[j + 1]
      BY <2>0, <3>1, TailAt
    <3>3. EditFits(todo[j + 1])
      BY <2>0, <3>2 DEF EditsFit
    <3>4. Ok(todo[j].to)' => Ok(todo[j + 1].to)
      BY <3>2, ValuesStep DEF Ok, OkForks
    <3>5. Stale /\ then = "loaded" => Stale' /\ then' = "loaded"
      BY <1>1, <2>0, <3>1, JournalStale
    <3> QED BY <3>1, <3>2, <3>3, <3>4, <3>5 DEF EditFits
  <2> QED BY <2>1, <2>2
<1>2. CASE LoadIndex \/ Recover \/ Rewrite \/ PushIndex \/ Pop \/ DeleteBegin \/ Fork
  BY <1>2, WriteEditsFit
<1>3. CASE pc' # "journal"
  BY <1>3 DEF EditsFit
<1> QED BY <1>1, <1>2, <1>3, QueueElsewhere, OpeningElsewhere, RemovingElsewhere,
           JournalElsewhere, PushElsewhere, ReadElsewhere, ForksElsewhere
        DEF Ground, Base, Next, Step, Environment

\* A Read keeps its iterators.
LEMMA QueueKeepsRead ==
    ASSUME OpenInv, Program,
           Start \/ Close \/ Crash \/ CloseUnused
    PROVE  (~InRead' \/ (InRead /\ rd' = rd /\ call' = call))
<1> USE DEF OpenInv, Control, Program, Working, Pushing, InRead
<1>1. CASE Start
  BY <1>1 DEF Start, disk, index, queue, oper, counters, history
<1>2. CASE Close
  BY <1>2 DEF Close, Stop, Forget, Return, disk, index, queue, oper, counters, history
<1>3. CASE Crash
  BY <1>3 DEF Crash, Stop, Forget, Return, disk, index, queue, oper, counters, history
<1>4. CASE CloseUnused
  BY <1>4 DEF CloseUnused, Forget, disk, index, queue, oper, counters, history
<1> QED BY <1>1, <1>2, <1>3, <1>4

LEMMA OpeningKeepsRead ==
    ASSUME OpenInv, Program,
           Open \/ LoadIndex \/ Loaded \/ Recover \/ Rewrite \/ Rewritten \/ Reinit \/ Opened
    PROVE  (~InRead' \/ (InRead /\ rd' = rd /\ call' = call))
<1> USE DEF OpenInv, Control, Program, Working, Pushing, InRead
<1>1. CASE Open
  BY <1>1 DEF Open, disk, index, queue, oper, counters, history
<1>2. CASE LoadIndex
  BY <1>2 DEF LoadIndex, ToLoad, Write, disk, index, queue, oper, counters, history
<1>3. CASE Loaded
  BY <1>3 DEF Loaded, disk, index, queue, oper, counters, history
<1>4. CASE Recover
  BY <1>4 DEF Recover, Write, disk, index, queue, oper, counters, history
<1>5. CASE Rewrite
  BY <1>5 DEF Rewrite, Write, disk, index, queue, oper, counters, history
<1>6. CASE Rewritten
  BY <1>6 DEF Rewritten, disk, index, queue, oper, counters, history
<1>7. CASE Reinit
  BY <1>7 DEF Reinit, Forget, disk, index, queue, oper, counters, history
<1>8. CASE Opened
  BY <1>8 DEF Opened, ToLoad, FetchedForks, disk, index, queue, oper, counters, history
<1> QED BY <1>1, <1>2, <1>3, <1>4, <1>5, <1>6, <1>7, <1>8

LEMMA RemovingKeepsRead ==
    ASSUME OpenInv, Program,
           RmIndex \/ RmDat \/ RmMain \/ RmDir \/ RmDirFails
    PROVE  (~InRead' \/ (InRead /\ rd' = rd /\ call' = call))
<1> USE DEF OpenInv, Control, Program, Working, Pushing, InRead
<1>1. CASE RmIndex
  BY <1>1 DEF RmIndex, Named, RmIndexLog, disk, index, queue, oper, counters, history
<1>2. CASE RmDat
  BY <1>2 DEF RmDat, Named, disk, index, queue, oper, counters, history
<1>3. CASE RmMain
  BY <1>3 DEF RmMain, RmIndexLog, disk, index, queue, oper, counters, history
<1>4. CASE RmDir
  BY <1>4 DEF RmDir, Return, disk, index, queue, oper, counters, history
<1>5. CASE RmDirFails
  BY <1>5 DEF RmDirFails, OpenFails, Forget, Return, disk, index, queue, oper, counters, history
<1> QED BY <1>1, <1>2, <1>3, <1>4, <1>5

LEMMA JournalKeepsRead ==
    ASSUME OpenInv, Program,
           Journal \/ JournalEnd \/ FailWrite \/ Failed
    PROVE  (~InRead' \/ (InRead /\ rd' = rd /\ call' = call))
<1> USE DEF OpenInv, Control, Program, Working, Pushing, InRead
<1>1. CASE Journal
  BY <1>1 DEF Journal, EditMem, disk, index, queue, oper, counters, history
<1>2. CASE JournalEnd
  BY <1>2 DEF JournalEnd, disk, index, queue, oper, counters, history
<1>3. CASE FailWrite
  <2>1. CASE then = "pushed" /\ EditMem(Head(todo)) /\ PushOver /\ UNCHANGED queue
    BY <1>3, <2>1 DEF FailWrite, EditMem, PushOver, queue, disk, counters
  <2>2. CASE then \in {"popped", "forked"} /\ EditMem(Head(todo)) /\ Return("idle") /\ UNCHANGED queue
    BY <1>3, <2>2 DEF FailWrite, EditMem, Return, queue, disk, counters
  <2>3. CASE then = "rewritten" /\ OpenFails
    BY <1>3, <2>3 DEF FailWrite, OpenFails, Forget, Return, queue, disk, counters
  <2>4. CASE /\ then \in {"deleted", "failed"} /\ EditMem(Head(todo))
             /\ todo' = Tail(todo) /\ then' = "failed"
             /\ UNCHANGED <<pc, after, cur, call, batch, wrote, rd, reading, queue>>
    BY <1>3, <2>4 DEF FailWrite, EditMem, queue, disk, counters
  <2> HIDE DEF OpenInv, Control, Program, Working, Pushing, InRead
  <2> QED BY <1>3, <2>1, <2>2, <2>3, <2>4 DEF FailWrite
<1>4. CASE Failed
  BY <1>4 DEF Failed, Return, disk, index, queue, oper, counters, history
<1> QED BY <1>1, <1>2, <1>3, <1>4

LEMMA PushKeepsRead ==
    ASSUME OpenInv, Program,
           Push \/ TxPush \/ WriteItem \/ PushIndex \/ PushDone
    PROVE  (~InRead' \/ (InRead /\ rd' = rd /\ call' = call))
<1> USE DEF OpenInv, Control, Program, Working, Pushing, InRead
<1>1. CASE Push
  BY <1>1 DEF Push, Given, WhenOpen, disk, index, queue, oper, counters, history
<1>2. CASE TxPush
  BY <1>2 DEF TxPush, Given, disk, index, queue, oper, counters, history
<1>3. CASE WriteItem
  BY <1>3 DEF WriteItem, disk, index, queue, oper, counters, history
<1>4. CASE PushIndex
  BY <1>4 DEF PushIndex, Write, disk, index, queue, oper, counters, history
<1>5. CASE PushDone
  BY <1>5 DEF PushDone, PushOver, disk, index, queue, oper, counters, history
<1> QED BY <1>1, <1>2, <1>3, <1>4, <1>5

LEMMA ReadKeepsRead ==
    ASSUME OpenInv, Program,
           Read \/ ReadServe \/ Pop \/ Popped \/ PeekOnly \/ CallbackErr \/ Reap
    PROVE  (~InRead' \/ (InRead /\ rd' = rd /\ call' = call))
<1> USE DEF OpenInv, Control, Program, Working, Pushing, InRead
<1>1. CASE Read
  BY <1>1 DEF Read, WhenOpen, NoCall, disk, index, queue, oper, counters, history
<1>2. CASE ReadServe
  BY <1>2 DEF ReadServe, disk, index, queue, oper, counters, history
<1>3. CASE Pop
  BY <1>3 DEF Pop, Write, disk, index, queue, oper, counters, history
<1>4. CASE Popped
  BY <1>4 DEF Popped, disk, index, queue, oper, counters, history
<1>5. CASE PeekOnly
  BY <1>5 DEF PeekOnly, disk, index, queue, oper, counters, history
<1>6. CASE CallbackErr
  BY <1>6 DEF CallbackErr, Return, disk, index, queue, oper, counters, history
<1>7. CASE Reap
  BY <1>7 DEF Reap, DropBucket, Forget, Return, disk, index, queue, oper, counters, history
<1> QED BY <1>1, <1>2, <1>3, <1>4, <1>5, <1>6, <1>7

LEMMA ForksKeepsRead ==
    ASSUME OpenInv, Program,
           Delete \/ DeleteBegin \/ Deleted \/ Clear \/ ForkListed \/ Fork \/ Forked \/ RemoveFork
    PROVE  (~InRead' \/ (InRead /\ rd' = rd /\ call' = call))
<1> USE DEF OpenInv, Control, Program, Working, Pushing, InRead
<1>1. CASE Delete
  BY <1>1 DEF Delete, WhenOpen, NoCall, disk, index, queue, oper, counters, history
<1>2. CASE DeleteBegin
  BY <1>2 DEF DeleteBegin, Write, disk, index, queue, oper, counters, history
<1>3. CASE Deleted
  BY <1>3 DEF Deleted, disk, index, queue, oper, counters, history
<1>4. CASE Clear
  BY <1>4 DEF Clear, DropBucket, Forget, Return, disk, index, queue, oper, counters, history
<1>5. CASE ForkListed
  BY <1>5 DEF ForkListed, ForkMade, disk, index, queue, oper, counters, history
<1>6. CASE Fork
  BY <1>6 DEF Fork, Write, NoCall, disk, index, queue, oper, counters, history
<1>7. CASE Forked
  BY <1>7 DEF Forked, ForkMade, Return, disk, index, queue, oper, counters, history
<1>8. CASE RemoveFork
  BY <1>8 DEF RemoveFork, RmIndexLog, DropBucket, Forget, Return, disk, index, queue, oper, counters, history
<1> QED BY <1>1, <1>2, <1>3, <1>4, <1>5, <1>6, <1>7, <1>8

LEMMA ReadFitsStep ==
  ASSUME Ground, Fit, Next
  PROVE  ReadFits'
<1>0. /\ Base /\ OpenInv /\ Program /\ MemsFit /\ ReadFits /\ vlog \in Seq(Item) /\ rd.iters \in Seq(Iter)
      /\ mem \in [Consumers -> Seq(Location)] /\ call.who \in Consumers /\ AllTidy /\ TypeInv
      /\ rd.pos \in Nat /\ rd.out \in Seq(Item)
  BY BaseTypes DEF Ground, Fit, Base
<1> SUFFICES ASSUME InRead', Ok(call.who)' PROVE ItersFit(vlog', rd'.iters)
  BY DEF ReadFits
<1>1. ASSUME ReadFirst \/ ReadNext
      PROVE  /\ vlog' = vlog /\ Ok(call.who)
             /\ \A i \in DOMAIN mem[call.who] : BatchFits(vlog, mem[call.who][i])
  <2>1. vlog' = vlog /\ ~Stale /\ call' = call /\ known' = known
    BY <1>1 DEF ReadFirst, ReadNext, disk, history, Stale, Doing
  <2>2. Ok(call.who)
    BY <2>1 DEF Ok, OkForks
  <2>3. AllFit(vlog, mem[call.who]) /\ Tidy(mem[call.who])
    BY <1>0, <2>1, <2>2 DEF MemsFit, AllTidy
  <2> QED BY <2>1, <2>2, <2>3, SMTT(40) DEF AllFit, Tidy
<1>2. CASE ReadFirst
  <2>1. PICK r \in PeekFirst(vlog, mem[call.who]) : rd' = [NoRead EXCEPT !.iters = r[1], !.pos = r[2]]
    BY <1>2 DEF ReadFirst
  <2>2. rd'.iters = r[1]
    BY <2>1 DEF NoRead
  <2>3. PICK X \in Seq(Location) : X = mem[call.who]
    BY <1>0
  <2>4. ItersFit(vlog, r[1])
    BY <1>0, <1>1, <1>2, <2>1, <2>3, PeekFirstFits
  <2> QED BY <1>1, <1>2, <2>2, <2>4
<1>3. CASE ReadNext
  <2>1. PICK r \in PeekNext(vlog, mem[call.who], rd.iters, rd.pos) :
          rd' = [iters |-> r[1], pos |-> r[2], out |-> Append(rd.out, vlog[rd.iters[1].off + 1])]
    BY <1>3 DEF ReadNext
  <2>2. rd'.iters = r[1]
    BY <2>1
  <2>3. rd.iters # <<>> /\ ~rd.iters[1].exh /\ rd.pos >= 1 /\ pc = "peek"
    BY <1>0, <1>3 DEF ReadNext, PeekMore, TypeInv, Phase
  <2>4. ItersFit(vlog, rd.iters)
    BY <1>0, <1>1, <1>3, <2>3 DEF ReadFits, InRead
  <2>5. PICK X \in Seq(Location), h \in Seq(Iter), p \in Nat :
            X = mem[call.who] /\ h = rd.iters /\ p = rd.pos
    BY <1>0
  <2>6. ItersFit(vlog, r[1])
    BY <1>0, <1>1, <1>3, <2>1, <2>3, <2>4, <2>5, PeekNextFits
  <2> QED BY <1>1, <1>3, <2>2, <2>6
<1>4. CASE InRead /\ rd' = rd /\ call' = call
  <2>1. Ok(call.who)
    BY <1>4, OkStays, ValuesStep DEF Ok, OkForks
  <2>2. ItersFit(vlog, rd.iters)
    BY <1>0, <1>4, <2>1 DEF ReadFits
  <2>3. CASE vlog' = vlog
    BY <1>4, <2>2, <2>3
  <2>4. CASE WriteItem
    <3>1. PICK x \in Item : vlog' = Append(vlog, x)
      BY <1>0, <2>4, WriteIs
    <3> QED BY <1>0, <1>4, <2>2, <3>1, IterFitsAppend
  <2>5. CASE RmDat
    BY <1>0, <1>4, <2>5 DEF RmDat, InRead, Pushing
  <2> QED BY <2>3, <2>4, <2>5, ValuesStep
<1> QED BY <1>0, <1>2, <1>3, <1>4, QueueKeepsRead, OpeningKeepsRead, RemovingKeepsRead,
           JournalKeepsRead, PushKeepsRead, ReadKeepsRead, ForksKeepsRead
        DEF Next, Step, Environment

\* A Push begins with nothing written.
LEMMA QueueNotWriting ==
    ASSUME OpenInv, ~Pushing => wrote = 0,
           Start \/ Close \/ Crash \/ CloseUnused
    PROVE  pc' # "push" \/ wrote' = 0
<1> USE DEF OpenInv, Control, Pushing
<1>1. CASE Start
  BY <1>1 DEF Start, disk, index, queue, oper, counters, history
<1>2. CASE Close
  BY <1>2 DEF Close, Stop, Forget, Return, disk, index, queue, oper, counters, history
<1>3. CASE Crash
  BY <1>3 DEF Crash, Stop, Forget, Return, disk, index, queue, oper, counters, history
<1>4. CASE CloseUnused
  BY <1>4 DEF CloseUnused, Forget, disk, index, queue, oper, counters, history
<1> QED BY <1>1, <1>2, <1>3, <1>4

LEMMA OpeningNotWriting ==
    ASSUME OpenInv, ~Pushing => wrote = 0,
           Open \/ LoadIndex \/ Loaded \/ Recover \/ Rewrite \/ Rewritten \/ Reinit \/ Opened
    PROVE  pc' # "push" \/ wrote' = 0
<1> USE DEF OpenInv, Control, Pushing
<1>1. CASE Open
  BY <1>1 DEF Open, disk, index, queue, oper, counters, history
<1>2. CASE LoadIndex
  BY <1>2 DEF LoadIndex, ToLoad, Write, disk, index, queue, oper, counters, history
<1>3. CASE Loaded
  BY <1>3 DEF Loaded, disk, index, queue, oper, counters, history
<1>4. CASE Recover
  BY <1>4 DEF Recover, Write, disk, index, queue, oper, counters, history
<1>5. CASE Rewrite
  BY <1>5 DEF Rewrite, Write, disk, index, queue, oper, counters, history
<1>6. CASE Rewritten
  BY <1>6 DEF Rewritten, disk, index, queue, oper, counters, history
<1>7. CASE Reinit
  BY <1>7 DEF Reinit, Forget, disk, index, queue, oper, counters, history
<1>8. CASE Opened
  BY <1>8 DEF Opened, ToLoad, FetchedForks, disk, index, queue, oper, counters, history
<1> QED BY <1>1, <1>2, <1>3, <1>4, <1>5, <1>6, <1>7, <1>8

LEMMA RemovingNotWriting ==
    ASSUME OpenInv, ~Pushing => wrote = 0,
           RmIndex \/ RmDat \/ RmMain \/ RmDir \/ RmDirFails
    PROVE  pc' # "push" \/ wrote' = 0
<1> USE DEF OpenInv, Control, Pushing
<1>1. CASE RmIndex
  BY <1>1 DEF RmIndex, Named, RmIndexLog, disk, index, queue, oper, counters, history
<1>2. CASE RmDat
  BY <1>2 DEF RmDat, Named, disk, index, queue, oper, counters, history
<1>3. CASE RmMain
  BY <1>3 DEF RmMain, RmIndexLog, disk, index, queue, oper, counters, history
<1>4. CASE RmDir
  BY <1>4 DEF RmDir, Return, disk, index, queue, oper, counters, history
<1>5. CASE RmDirFails
  BY <1>5 DEF RmDirFails, OpenFails, Forget, Return, disk, index, queue, oper, counters, history
<1> QED BY <1>1, <1>2, <1>3, <1>4, <1>5

LEMMA JournalNotWriting ==
    ASSUME OpenInv, ~Pushing => wrote = 0,
           Journal \/ JournalEnd \/ FailWrite \/ Failed
    PROVE  pc' # "push" \/ wrote' = 0
<1> USE DEF OpenInv, Control, Pushing
<1>1. CASE Journal
  BY <1>1 DEF Journal, EditMem, disk, index, queue, oper, counters, history
<1>2. CASE JournalEnd
  BY <1>2 DEF JournalEnd, disk, index, queue, oper, counters, history
<1>3. CASE FailWrite
  <2>1. CASE then = "pushed" /\ EditMem(Head(todo)) /\ PushOver /\ UNCHANGED queue
    BY <1>3, <2>1 DEF FailWrite, EditMem, PushOver, queue, disk, counters
  <2>2. CASE then \in {"popped", "forked"} /\ EditMem(Head(todo)) /\ Return("idle") /\ UNCHANGED queue
    BY <1>3, <2>2 DEF FailWrite, EditMem, Return, queue, disk, counters
  <2>3. CASE then = "rewritten" /\ OpenFails
    BY <1>3, <2>3 DEF FailWrite, OpenFails, Forget, Return, queue, disk, counters
  <2>4. CASE /\ then \in {"deleted", "failed"} /\ EditMem(Head(todo))
             /\ todo' = Tail(todo) /\ then' = "failed"
             /\ UNCHANGED <<pc, after, cur, call, batch, wrote, rd, reading, queue>>
    BY <1>3, <2>4 DEF FailWrite, EditMem, queue, disk, counters
  <2> HIDE DEF OpenInv, Control, Pushing
  <2> QED BY <1>3, <2>1, <2>2, <2>3, <2>4 DEF FailWrite
<1>4. CASE Failed
  BY <1>4 DEF Failed, Return, disk, index, queue, oper, counters, history
<1> QED BY <1>1, <1>2, <1>3, <1>4

LEMMA PushNotWriting ==
    ASSUME OpenInv, ~Pushing => wrote = 0,
           Push \/ TxPush \/ PushIndex \/ PushDone
    PROVE  pc' # "push" \/ wrote' = 0
<1> USE DEF OpenInv, Control, Pushing
<1>1. CASE Push
  BY <1>1 DEF Push, Given, WhenOpen, disk, index, queue, oper, counters, history
<1>2. CASE TxPush
  BY <1>2 DEF TxPush, Given, disk, index, queue, oper, counters, history
<1>3. CASE PushIndex
  BY <1>3 DEF PushIndex, Write, disk, index, queue, oper, counters, history
<1>4. CASE PushDone
  BY <1>4 DEF PushDone, PushOver, disk, index, queue, oper, counters, history
<1> QED BY <1>1, <1>2, <1>3, <1>4

LEMMA ReadNotWriting ==
    ASSUME OpenInv, ~Pushing => wrote = 0,
           Read \/ ReadFirst \/ ReadNext \/ ReadServe \/ Pop \/ Popped \/ PeekOnly \/ CallbackErr \/ Reap
    PROVE  pc' # "push" \/ wrote' = 0
<1> USE DEF OpenInv, Control, Pushing
<1>1. CASE Read
  BY <1>1 DEF Read, WhenOpen, NoCall, disk, index, queue, oper, counters, history
<1>2. CASE ReadFirst
  BY <1>2 DEF ReadFirst, disk, index, queue, oper, counters, history
<1>3. CASE ReadNext
  BY <1>3 DEF ReadNext, disk, index, queue, oper, counters, history
<1>4. CASE ReadServe
  BY <1>4 DEF ReadServe, disk, index, queue, oper, counters, history
<1>5. CASE Pop
  BY <1>5 DEF Pop, Write, disk, index, queue, oper, counters, history
<1>6. CASE Popped
  BY <1>6 DEF Popped, disk, index, queue, oper, counters, history
<1>7. CASE PeekOnly
  BY <1>7 DEF PeekOnly, disk, index, queue, oper, counters, history
<1>8. CASE CallbackErr
  BY <1>8 DEF CallbackErr, Return, disk, index, queue, oper, counters, history
<1>9. CASE Reap
  BY <1>9 DEF Reap, DropBucket, Forget, Return, disk, index, queue, oper, counters, history
<1> QED BY <1>1, <1>2, <1>3, <1>4, <1>5, <1>6, <1>7, <1>8, <1>9

LEMMA ForksNotWriting ==
    ASSUME OpenInv, ~Pushing => wrote = 0,
           Delete \/ DeleteBegin \/ Deleted \/ Clear \/ ForkListed \/ Fork \/ Forked \/ RemoveFork
    PROVE  pc' # "push" \/ wrote' = 0
<1> USE DEF OpenInv, Control, Pushing
<1>1. CASE Delete
  BY <1>1 DEF Delete, WhenOpen, NoCall, disk, index, queue, oper, counters, history
<1>2. CASE DeleteBegin
  BY <1>2 DEF DeleteBegin, Write, disk, index, queue, oper, counters, history
<1>3. CASE Deleted
  BY <1>3 DEF Deleted, disk, index, queue, oper, counters, history
<1>4. CASE Clear
  BY <1>4 DEF Clear, DropBucket, Forget, Return, disk, index, queue, oper, counters, history
<1>5. CASE ForkListed
  BY <1>5 DEF ForkListed, ForkMade, disk, index, queue, oper, counters, history
<1>6. CASE Fork
  BY <1>6 DEF Fork, Write, NoCall, disk, index, queue, oper, counters, history
<1>7. CASE Forked
  BY <1>7 DEF Forked, ForkMade, Return, disk, index, queue, oper, counters, history
<1>8. CASE RemoveFork
  BY <1>8 DEF RemoveFork, RmIndexLog, DropBucket, Forget, Return, disk, index, queue, oper, counters, history
<1> QED BY <1>1, <1>2, <1>3, <1>4, <1>5, <1>6, <1>7, <1>8

LEMMA WrittenStep ==
  ASSUME Ground, Fit, Next
  PROVE  Written'
<1>0. /\ Base /\ OpenInv /\ Written /\ vlog \in Seq(Item) /\ batch \in Seq(Item) /\ wrote \in Nat
      /\ (~Pushing => wrote = 0) /\ wrote <= Len(vlog)
  BY BaseTypes DEF Ground, Fit, Base, TypeInv, Phase
<1>1. CASE WriteItem
  <2>1. PICK x \in Item : vlog' = Append(vlog, x) /\ x = batch[wrote + 1] /\ pc = "push"
    BY <1>0, <1>1, WriteIs
  <2>2. wrote' = wrote + 1 /\ batch' = batch
    BY <1>1 DEF WriteItem
  <2>3. PICK g : g = Append(vlog, x)
    OBVIOUS
  <2>4. PICK l \in Nat : l = Len(vlog)
    BY <1>0
  <2>5. Len(g) = l + 1 /\ g[l + 1] = x /\ \A i \in 1 .. l : g[i] = vlog[i]
    BY <1>0, <2>3, <2>4
  <2>6. ASSUME NEW i \in 1 .. wrote + 1 PROVE g[(l + 1) - (wrote + 1) + i] = batch[i]
    <3>1. CASE i = wrote + 1
      BY <1>0, <2>1, <2>5, <3>1
    <3>2. CASE i <= wrote
      <4>1. (l + 1) - (wrote + 1) + i = l - wrote + i /\ l - wrote + i \in 1 .. l /\ i \in 1 .. wrote
        BY <1>0, <2>4, <3>2
      <4>2. vlog[l - wrote + i] = batch[i]
        BY <1>0, <2>1, <2>4, <4>1 DEF Written
      <4> QED BY <2>5, <4>1, <4>2
    <3> QED BY <1>0, <3>1, <3>2
  <2> QED BY <2>1, <2>2, <2>3, <2>5, <2>6 DEF Written
<1>2. CASE pc' # "push" \/ wrote' = 0
  BY <1>2 DEF Written
<1> QED BY <1>0, <1>1, <1>2, QueueNotWriting, OpeningNotWriting, RemovingNotWriting,
           JournalNotWriting, PushNotWriting, ReadNotWriting, ForksNotWriting
        DEF Next, Step, Environment

LEMMA QueueSameBatch ==
    ASSUME OpenInv,
           Start \/ Close \/ Crash \/ CloseUnused
    PROVE  batch' = batch \/ batch' = <<>>
<1> USE DEF OpenInv
<1>1. CASE Start
  BY <1>1 DEF Start, disk, index, queue, oper, counters, history
<1>2. CASE Close
  BY <1>2 DEF Close, Stop, Forget, Return, disk, index, queue, oper, counters, history
<1>3. CASE Crash
  BY <1>3 DEF Crash, Stop, Forget, Return, disk, index, queue, oper, counters, history
<1>4. CASE CloseUnused
  BY <1>4 DEF CloseUnused, Forget, disk, index, queue, oper, counters, history
<1> QED BY <1>1, <1>2, <1>3, <1>4

LEMMA OpeningSameBatch ==
    ASSUME OpenInv,
           Open \/ LoadIndex \/ Loaded \/ Recover \/ Rewrite \/ Rewritten \/ Reinit \/ Opened
    PROVE  batch' = batch \/ batch' = <<>>
<1> USE DEF OpenInv
<1>1. CASE Open
  BY <1>1 DEF Open, disk, index, queue, oper, counters, history
<1>2. CASE LoadIndex
  BY <1>2 DEF LoadIndex, ToLoad, Write, disk, index, queue, oper, counters, history
<1>3. CASE Loaded
  BY <1>3 DEF Loaded, disk, index, queue, oper, counters, history
<1>4. CASE Recover
  BY <1>4 DEF Recover, Write, disk, index, queue, oper, counters, history
<1>5. CASE Rewrite
  BY <1>5 DEF Rewrite, Write, disk, index, queue, oper, counters, history
<1>6. CASE Rewritten
  BY <1>6 DEF Rewritten, disk, index, queue, oper, counters, history
<1>7. CASE Reinit
  BY <1>7 DEF Reinit, Forget, disk, index, queue, oper, counters, history
<1>8. CASE Opened
  BY <1>8 DEF Opened, ToLoad, FetchedForks, disk, index, queue, oper, counters, history
<1> QED BY <1>1, <1>2, <1>3, <1>4, <1>5, <1>6, <1>7, <1>8

LEMMA RemovingSameBatch ==
    ASSUME OpenInv,
           RmIndex \/ RmDat \/ RmMain \/ RmDir \/ RmDirFails
    PROVE  batch' = batch \/ batch' = <<>>
<1> USE DEF OpenInv
<1>1. CASE RmIndex
  BY <1>1 DEF RmIndex, Named, RmIndexLog, disk, index, queue, oper, counters, history
<1>2. CASE RmDat
  BY <1>2 DEF RmDat, Named, disk, index, queue, oper, counters, history
<1>3. CASE RmMain
  BY <1>3 DEF RmMain, RmIndexLog, disk, index, queue, oper, counters, history
<1>4. CASE RmDir
  BY <1>4 DEF RmDir, Return, disk, index, queue, oper, counters, history
<1>5. CASE RmDirFails
  BY <1>5 DEF RmDirFails, OpenFails, Forget, Return, disk, index, queue, oper, counters, history
<1> QED BY <1>1, <1>2, <1>3, <1>4, <1>5

LEMMA JournalSameBatch ==
    ASSUME OpenInv,
           Journal \/ JournalEnd \/ FailWrite \/ Failed
    PROVE  batch' = batch \/ batch' = <<>>
<1> USE DEF OpenInv
<1>1. CASE Journal
  BY <1>1 DEF Journal, EditMem, disk, index, queue, oper, counters, history
<1>2. CASE JournalEnd
  BY <1>2 DEF JournalEnd, disk, index, queue, oper, counters, history
<1>3. CASE FailWrite
  <2>1. CASE then = "pushed" /\ EditMem(Head(todo)) /\ PushOver /\ UNCHANGED queue
    BY <1>3, <2>1 DEF FailWrite, EditMem, PushOver, queue, disk, counters
  <2>2. CASE then \in {"popped", "forked"} /\ EditMem(Head(todo)) /\ Return("idle") /\ UNCHANGED queue
    BY <1>3, <2>2 DEF FailWrite, EditMem, Return, queue, disk, counters
  <2>3. CASE then = "rewritten" /\ OpenFails
    BY <1>3, <2>3 DEF FailWrite, OpenFails, Forget, Return, queue, disk, counters
  <2>4. CASE /\ then \in {"deleted", "failed"} /\ EditMem(Head(todo))
             /\ todo' = Tail(todo) /\ then' = "failed"
             /\ UNCHANGED <<pc, after, cur, call, batch, wrote, rd, reading, queue>>
    BY <1>3, <2>4 DEF FailWrite, EditMem, queue, disk, counters
  <2> HIDE DEF OpenInv
  <2> QED BY <1>3, <2>1, <2>2, <2>3, <2>4 DEF FailWrite
<1>4. CASE Failed
  BY <1>4 DEF Failed, Return, disk, index, queue, oper, counters, history
<1> QED BY <1>1, <1>2, <1>3, <1>4

LEMMA PushSameBatch ==
    ASSUME OpenInv,
           WriteItem \/ PushIndex \/ PushDone
    PROVE  batch' = batch \/ batch' = <<>>
<1> USE DEF OpenInv
<1>1. CASE WriteItem
  BY <1>1 DEF WriteItem, disk, index, queue, oper, counters, history
<1>2. CASE PushIndex
  BY <1>2 DEF PushIndex, Write, disk, index, queue, oper, counters, history
<1>3. CASE PushDone
  BY <1>3 DEF PushDone, PushOver, disk, index, queue, oper, counters, history
<1> QED BY <1>1, <1>2, <1>3

LEMMA ReadSameBatch ==
    ASSUME OpenInv,
           Read \/ ReadFirst \/ ReadNext \/ ReadServe \/ Pop \/ Popped \/ PeekOnly \/ CallbackErr \/ Reap
    PROVE  batch' = batch \/ batch' = <<>>
<1> USE DEF OpenInv
<1>1. CASE Read
  BY <1>1 DEF Read, WhenOpen, NoCall, disk, index, queue, oper, counters, history
<1>2. CASE ReadFirst
  BY <1>2 DEF ReadFirst, disk, index, queue, oper, counters, history
<1>3. CASE ReadNext
  BY <1>3 DEF ReadNext, disk, index, queue, oper, counters, history
<1>4. CASE ReadServe
  BY <1>4 DEF ReadServe, disk, index, queue, oper, counters, history
<1>5. CASE Pop
  BY <1>5 DEF Pop, Write, disk, index, queue, oper, counters, history
<1>6. CASE Popped
  BY <1>6 DEF Popped, disk, index, queue, oper, counters, history
<1>7. CASE PeekOnly
  BY <1>7 DEF PeekOnly, disk, index, queue, oper, counters, history
<1>8. CASE CallbackErr
  BY <1>8 DEF CallbackErr, Return, disk, index, queue, oper, counters, history
<1>9. CASE Reap
  BY <1>9 DEF Reap, DropBucket, Forget, Return, disk, index, queue, oper, counters, history
<1> QED BY <1>1, <1>2, <1>3, <1>4, <1>5, <1>6, <1>7, <1>8, <1>9

LEMMA ForksSameBatch ==
    ASSUME OpenInv,
           Delete \/ DeleteBegin \/ Deleted \/ Clear \/ ForkListed \/ Fork \/ Forked \/ RemoveFork
    PROVE  batch' = batch \/ batch' = <<>>
<1> USE DEF OpenInv
<1>1. CASE Delete
  BY <1>1 DEF Delete, WhenOpen, NoCall, disk, index, queue, oper, counters, history
<1>2. CASE DeleteBegin
  BY <1>2 DEF DeleteBegin, Write, disk, index, queue, oper, counters, history
<1>3. CASE Deleted
  BY <1>3 DEF Deleted, disk, index, queue, oper, counters, history
<1>4. CASE Clear
  BY <1>4 DEF Clear, DropBucket, Forget, Return, disk, index, queue, oper, counters, history
<1>5. CASE ForkListed
  BY <1>5 DEF ForkListed, ForkMade, disk, index, queue, oper, counters, history
<1>6. CASE Fork
  BY <1>6 DEF Fork, Write, NoCall, disk, index, queue, oper, counters, history
<1>7. CASE Forked
  BY <1>7 DEF Forked, ForkMade, Return, disk, index, queue, oper, counters, history
<1>8. CASE RemoveFork
  BY <1>8 DEF RemoveFork, RmIndexLog, DropBucket, Forget, Return, disk, index, queue, oper, counters, history
<1> QED BY <1>1, <1>2, <1>3, <1>4, <1>5, <1>6, <1>7, <1>8

LEMMA AscendingStep ==
  ASSUME Ground, Fit, Next
  PROVE  Ascending(batch')
<1>1. CASE Push \/ TxPush
  <2>1. PICK b \in Batches : batch' = [i \in 1 .. Len(b) |-> [key |-> b[i], id |-> nextId + i - 1]]
    BY <1>1 DEF Push, TxPush, Given
  <2>2. b \in Seq(Keys) /\ \A i, j \in DOMAIN b : i < j => b[i] <= b[j]
    BY BucketAssumption
  <2>3. DOMAIN batch' = 1 .. Len(b) /\ \A i \in 1 .. Len(b) : batch'[i].key = b[i]
    BY <2>1, <2>2
  <2>4. DOMAIN b = 1 .. Len(b)
    BY <2>2
  <2> QED BY <2>2, <2>3, <2>4 DEF Ascending
<1>2. CASE batch' = batch \/ batch' = <<>>
  <2>1. Ascending(<<>>)
    BY DEF Ascending
  <2> QED BY <1>2, <2>1 DEF Fit
<1> QED BY <1>1, <1>2, QueueSameBatch, OpeningSameBatch, RemovingSameBatch, JournalSameBatch,
           PushSameBatch, ReadSameBatch, ForksSameBatch
        DEF Ground, Base, Next, Step, Environment

LEMMA FitStays ==
  ASSUME Fit, UNCHANGED vars
  PROVE  Fit'
<1>1. UNCHANGED <<vlog, file, loaded, mem, seen, forks, tree, pc, after, then, call, batch, wrote,
                  rd, reading, todo, known>>
  BY DEF vars, disk, index, queue, oper, history
<1>2. (Stale' <=> Stale) /\ (InRead' <=> InRead) /\ (\A c : Ok(c)' <=> Ok(c))
  BY <1>1 DEF Stale, Doing, InRead, Pushing, Ok, OkForks
<1>3. FilesFit' /\ MemsFit'
  BY <1>1, <1>2 DEF Fit, FilesFit, MemsFit
<1>4. EditsFit'
  <2> SUFFICES ASSUME pc = "journal", NEW j \in DOMAIN todo PROVE EditFits(todo[j])'
    BY <1>1 DEF EditsFit
  <2>1. EditFits(todo[j])
    BY DEF Fit, EditsFit
  <2>2. Ok(todo[j].to)' <=> Ok(todo[j].to)
    BY <1>1 DEF Ok, OkForks
  <2> QED BY <1>1, <1>2, <2>1, <2>2 DEF EditFits
<1>5. ReadFits'
  <2>1. Ok(call.who)' <=> Ok(call.who)
    BY <1>1 DEF Ok, OkForks
  <2> QED BY <1>1, <1>2, <2>1 DEF Fit, ReadFits
<1>6. Written' /\ Ascending(batch')
  BY <1>1 DEF Fit, Written
<1> QED BY <1>3, <1>4, <1>5, <1>6 DEF Fit

LEMMA GroundStep == Ground /\ [Next]_vars => Ground'
BY BaseStep, OwnedStep, ProgressStep DEF Ground

LEMMA FitStep == Ground /\ Fit /\ [Next]_vars => Fit'
<1> SUFFICES ASSUME Ground, Fit, [Next]_vars PROVE Fit'
  OBVIOUS
<1>1. CASE UNCHANGED vars
  BY <1>1, FitStays
<1>2. CASE Next
  <2>1. Ascending(batch)'
    BY <1>2, AscendingStep
  <2> QED BY <1>2, <2>1, FilesFitStep, MemsFitStep, EditsFitStep, ReadFitsStep, WrittenStep DEF Fit
<1> QED BY <1>1, <1>2

\* The index of every consumer to whom nothing bad is known to have happened
\* refers, at any time, to ascending batches that lie inside the value log, by
\* ascending first key: after every mix of Push, pops and deletions that a
\* crash or a failing write cut short, index logs read again, or regenerated
\* from the value log, forks, and buckets removed (bucket.go, index.go).
THEOREM IndexesStayFit == Spec => []IndexesFit
<1>1. Init => Ground /\ Fit
  BY InitBase, InitOwned, InitProgress, InitFit DEF Ground
<1>2. Ground /\ Fit => IndexesFit
  <2> SUFFICES ASSUME Ground, Fit, NEW c \in loaded \cap Sound
               PROVE  IndexSorted(mem[c]) /\ \A i \in DOMAIN mem[c] : BatchFits(vlog, mem[c][i])
    BY DEF IndexesFit
  <2>1. c \in Consumers /\ loaded \subseteq Consumers /\ AllTidy
    BY BaseTypes DEF Ground, Base
  <2>2. Ok(c)
    BY DEF Sound, Trouble, Ok, OkForks
  <2>3. AllFit(vlog, mem[c])
    BY <2>1, <2>2 DEF Fit, MemsFit
  <2> QED BY <2>1, <2>3 DEF AllFit, AllTidy, Tidy
<1> QED BY <1>1, <1>2, GroundStep, FitStep, PTL DEF Spec

-----------------------------------------------------------------------------
(* In which order an index is changed.                                     *)

LEMMA SetIs ==
  ASSUME NEW idx \in Seq(Location), NEW loc, NEW r, NEW p, SetAt(r, idx, loc, p)
  PROVE  /\ p \in 1 .. Len(idx) + 1 /\ Len(r) = Len(idx) + 1 /\ Len(idx) \in Nat
         /\ \A j \in 1 .. Len(idx) + 1 :
               r[j] = IF j < p THEN idx[j] ELSE IF j = p THEN loc ELSE idx[j - 1]
<1>1. p \in 1 .. Len(idx) + 1 /\ Len(r) = Len(idx) + 1 /\ Len(idx) \in Nat
  BY DEF SetAt
<1>2. ASSUME NEW j \in 1 .. Len(idx) + 1
      PROVE  r[j] = IF j < p THEN idx[j] ELSE IF j = p THEN loc ELSE idx[j - 1]
  <2>1. CASE j < p
    BY <1>1, <2>1 DEF SetAt
  <2>2. CASE j = p
    BY <1>1, <2>2 DEF SetAt
  <2>3. CASE j > p
    <3>1. j - 1 \in p .. Len(idx) /\ (j - 1) + 1 = j
      BY <1>1, <2>3
    <3>2. r[(j - 1) + 1] = idx[j - 1]
      BY <3>1 DEF SetAt
    <3> QED BY <1>1, <2>3, <3>1, <3>2
  <2> QED BY <1>1, <2>1, <2>2, <2>3
<1> QED BY <1>1, <1>2

LEMMA DeletedIs ==
  ASSUME NEW idx \in Seq(Location), NEW k, NEW r, NEW p, DeletedAt(r, idx, k, p)
  PROVE  /\ p \in 1 .. Len(idx) /\ Len(r) = Len(idx) - 1 /\ Len(idx) \in Nat
         /\ \A j \in 1 .. Len(idx) - 1 : r[j] = IF j < p THEN idx[j] ELSE idx[j + 1]
<1>1. p \in 1 .. Len(idx) /\ Len(r) = Len(idx) - 1 /\ Len(idx) \in Nat
  BY DEF DeletedAt
<1>2. ASSUME NEW j \in 1 .. Len(idx) - 1
      PROVE  r[j] = IF j < p THEN idx[j] ELSE idx[j + 1]
  <2>1. CASE j < p
    BY <1>1, <2>1 DEF DeletedAt
  <2>2. CASE j >= p
    BY <1>1, <2>2 DEF DeletedAt
  <2> QED BY <1>1, <2>1, <2>2
<1> QED BY <1>1, <1>2

\* There is only one place for a location.
LEMMA OnePlace ==
  ASSUME NEW idx \in Seq(Location), NEW loc \in Location, NEW p, NEW q,
         NEW r \in Seq(Location), NEW s \in Seq(Location),
         SetAt(r, idx, loc, p), SetAt(s, idx, loc, q)
  PROVE  r = s
<1>1. p \in 1 .. Len(idx) + 1 /\ q \in 1 .. Len(idx) + 1 /\ Len(idx) \in Nat
  BY DEF SetAt
<1>2. loc.key \in Nat /\ \A j \in 1 .. Len(idx) : idx[j].key \in Nat
  BY LocNumbers
<1>3. ~(p < q)
  <2> SUFFICES ASSUME p < q PROVE FALSE
    OBVIOUS
  <2>1. p \in 1 .. Len(idx) /\ p \in 1 .. q - 1 /\ p \in p .. Len(idx)
    BY <1>1
  <2>2. idx[p].key > loc.key /\ idx[p].key <= loc.key
    BY <2>1 DEF SetAt
  <2> QED BY <1>2, <2>1, <2>2
<1>4. ~(q < p)
  <2> SUFFICES ASSUME q < p PROVE FALSE
    OBVIOUS
  <2>1. q \in 1 .. Len(idx) /\ q \in 1 .. p - 1 /\ q \in q .. Len(idx)
    BY <1>1
  <2>2. idx[q].key > loc.key /\ idx[q].key <= loc.key
    BY <2>1 DEF SetAt
  <2> QED BY <1>2, <2>1, <2>2
<1>5. p = q
  BY <1>1, <1>3, <1>4
<1>6. Len(r) = Len(s) /\ \A j \in 1 .. Len(r) : r[j] = s[j]
  <2>1. Len(r) = Len(idx) + 1 /\ Len(s) = Len(idx) + 1
    BY SetIs
  <2>2. \A j \in 1 .. Len(idx) + 1 :
          r[j] = IF j < p THEN idx[j] ELSE IF j = p THEN loc ELSE idx[j - 1]
    BY SetIs
  <2>3. \A j \in 1 .. Len(idx) + 1 :
          s[j] = IF j < p THEN idx[j] ELSE IF j = p THEN loc ELSE idx[j - 1]
    BY <1>5, SetIs
  <2> QED BY <2>1, <2>2, <2>3
<1> QED BY <1>6

\* Where the key of an index is, Set does not change.
LEMMA SetKeepsKeys ==
  ASSUME NEW idx \in Seq(Location), IndexSorted(idx), NEW loc \in Location
  PROVE  IndexKeys(idx) \subseteq IndexKeys(IndexSet(idx, loc))
<1>1. PICK r \in Seq(Location) : r = IndexSet(idx, loc)
  BY IndexSetType
<1>2. PICK p \in 1 .. Len(idx) + 1 : SetAt(r, idx, loc, p)
  BY <1>1, IndexSetAt
<1> SUFFICES ASSUME NEW j \in DOMAIN idx PROVE \E i \in DOMAIN r : r[i].key = idx[j].key
  BY <1>1 DEF IndexKeys
<1>3. /\ p \in 1 .. Len(idx) + 1 /\ Len(r) = Len(idx) + 1 /\ Len(idx) \in Nat
      /\ \A i \in 1 .. Len(idx) + 1 :
             r[i] = IF i < p THEN idx[i] ELSE IF i = p THEN loc ELSE idx[i - 1]
  BY <1>2, SetIs
<1>4. j \in 1 .. Len(idx) /\ j + 1 \in 1 .. Len(idx) + 1 /\ DOMAIN r = 1 .. Len(idx) + 1
  BY <1>3
<1>5. r[j] = idx[j] \/ r[j + 1] = idx[j]
  <2>1. CASE j < p
    BY <1>3, <1>4, <2>1
  <2>2. CASE ~(j < p)
    <3>1. ~(j + 1 < p) /\ j + 1 # p /\ (j + 1) - 1 = j
      BY <1>3, <1>4, <2>2
    <3> QED BY <1>3, <1>4, <3>1
  <2> QED BY <2>1, <2>2
<1>6. j \in DOMAIN r
  BY <1>4
<1> QED BY <1>4, <1>5, <1>6

\* Index.Delete finds what it deletes before, and so an index does not depend
\* on whether Set or Delete comes first.
LEMMA SetDeleteCommute ==
  ASSUME NEW idx \in Seq(Location), Tidy(idx), NEW k \in IndexKeys(idx), k \in Keys,
         NEW loc \in Location, loc.len > 0
  PROVE  IndexSet(IndexDelete(idx, k), loc) = IndexDelete(IndexSet(idx, loc), k)
<1>1. PICK d \in Seq(Location) : d = IndexDelete(idx, k)
  BY IndexDeleteType
<1>2. PICK q \in 1 .. Len(idx) : DeletedAt(d, idx, k, q)
  BY <1>1, IndexDeleteAt
<1>3. PICK s \in Seq(Location) : s = IndexSet(idx, loc)
  BY IndexSetType
<1>4. PICK p \in 1 .. Len(idx) + 1 : SetAt(s, idx, loc, p)
  BY <1>3, IndexSetAt DEF Tidy
<1>5. k \in IndexKeys(s)
  BY <1>3, SetKeepsKeys DEF Tidy
<1>6. PICK r \in Seq(Location) : r = IndexDelete(s, k)
  BY IndexDeleteType
<1>7. PICK t \in 1 .. Len(s) : DeletedAt(r, s, k, t)
  BY <1>5, <1>6, IndexDeleteAt
<1>8. PICK n \in Nat : n = Len(idx)
  OBVIOUS
<1>9. /\ loc.key \in Nat /\ k \in Nat /\ \A j \in 1 .. n : idx[j].key \in Nat
  BY <1>8, LocNumbers, KeysAssumption
<1>10. /\ p \in 1 .. n + 1 /\ Len(s) = n + 1
       /\ \A j \in 1 .. n + 1 : s[j] = IF j < p THEN idx[j] ELSE IF j = p THEN loc ELSE idx[j - 1]
       /\ \A j \in 1 .. p - 1 : idx[j].key <= loc.key
       /\ \A j \in p .. n : idx[j].key > loc.key
  <2>1. (\A j \in 1 .. p - 1 : idx[j].key <= loc.key) /\ \A j \in p .. n : idx[j].key > loc.key
    BY <1>4, <1>8 DEF SetAt
  <2> QED BY <1>4, <1>8, <2>1, SetIs, SMTT(40)
<1>11. /\ q \in 1 .. n /\ Len(d) = n - 1
       /\ \A j \in 1 .. n - 1 : d[j] = IF j < q THEN idx[j] ELSE idx[j + 1]
       /\ idx[q].key = k /\ \A j \in 1 .. q - 1 : idx[j].key # k
  <2>1. idx[q].key = k /\ \A j \in 1 .. q - 1 : idx[j].key # k
    BY <1>2 DEF DeletedAt
  <2> QED BY <1>2, <1>8, <2>1, DeletedIs, SMTT(40)
<1>12. /\ t \in 1 .. n + 1 /\ Len(r) = n
       /\ \A j \in 1 .. n : r[j] = IF j < t THEN s[j] ELSE s[j + 1]
       /\ s[t].key = k /\ \A j \in 1 .. t - 1 : s[j].key # k
  <2>1. s[t].key = k /\ \A j \in 1 .. t - 1 : s[j].key # k
    BY <1>7 DEF DeletedAt
  <2>2. /\ Len(r) = Len(s) - 1
        /\ \A j \in 1 .. Len(s) - 1 : r[j] = IF j < t THEN s[j] ELSE s[j + 1]
    BY <1>7, DeletedIs
  <2>3. Len(s) - 1 = n
    BY <1>10
  <2> QED BY <1>7, <1>10, <2>1, <2>2, <2>3
\* Set behind the deleted location, or before it.
<1>13. ASSUME k <= loc.key PROVE SetAt(r, d, loc, p - 1)
  <2>1. q < p
    BY <1>9, <1>10, <1>11, <1>13
  <2>2. t = q
    <3>1. s[q] = idx[q] /\ \A j \in 1 .. q - 1 : s[j] = idx[j]
      BY <1>10, <1>11, <2>1
    <3>2. ~(q < t)
      BY <1>11, <1>12, <3>1
    <3>3. ~(t < q)
      <4> SUFFICES ASSUME t < q PROVE FALSE
        OBVIOUS
      <4>1. t \in 1 .. q - 1
        BY <1>11, <1>12
      <4> QED BY <1>11, <1>12, <3>1, <4>1
    <3> QED BY <1>11, <1>12, <3>2, <3>3
  <2>3. SetAt(r, d, loc, p - 1)
    <3>1. p - 1 \in 1 .. Len(d) + 1 /\ Len(r) = Len(d) + 1
      BY <1>10, <1>11, <1>12, <2>1
    <3>2. r[p - 1] = loc
      <4>1. p - 1 \in 1 .. n /\ ~(p - 1 < t) /\ (p - 1) + 1 = p
        BY <1>10, <1>11, <2>1, <2>2
      <4> QED BY <1>10, <1>12, <4>1, SMTT(40)
    <3>3. ASSUME NEW j \in 1 .. (p - 1) - 1 PROVE r[j] = d[j] /\ d[j].key <= loc.key
      <4>1. j \in 1 .. n - 1 /\ j \in 1 .. n /\ j \in 1 .. n + 1 /\ j + 1 \in 1 .. n + 1 /\ j < p /\ j + 1 < p
            /\ j \in 1 .. p - 1 /\ j + 1 \in 1 .. p - 1
        BY <1>10, <1>11, <2>1
      <4>2. CASE j < q
        BY <1>10, <1>11, <1>12, <2>2, <4>1, <4>2
      <4>3. CASE ~(j < q)
        BY <1>10, <1>11, <1>12, <2>2, <4>1, <4>3
      <4> QED BY <4>2, <4>3
    <3>4. ASSUME NEW j \in (p - 1) .. Len(d) PROVE r[j + 1] = d[j] /\ d[j].key > loc.key
      <4>1. /\ j \in 1 .. n - 1 /\ j + 1 \in 1 .. n /\ (j + 1) + 1 \in 1 .. n + 1
            /\ ~(j + 1 < t) /\ ~((j + 1) + 1 < p) /\ (j + 1) + 1 # p /\ ((j + 1) + 1) - 1 = j + 1
            /\ ~(j < q) /\ j + 1 \in p .. n
        BY <1>10, <1>11, <2>1, <2>2
      <4>2. r[j + 1] = s[(j + 1) + 1]
        BY <1>12, <4>1
      <4>3. s[(j + 1) + 1] = idx[j + 1]
        BY <1>10, <4>1
      <4>4. d[j] = idx[j + 1]
        BY <1>11, <4>1
      <4> QED BY <1>10, <4>1, <4>2, <4>3, <4>4
    <3> QED BY <3>1, <3>2, <3>3, <3>4 DEF SetAt
  <2> QED BY <2>3
<1>14. ASSUME k > loc.key PROVE SetAt(r, d, loc, p)
  <2>1. p <= q
    BY <1>9, <1>10, <1>11, <1>14
  <2>2. t = q + 1
    <3>1. s[q + 1] = idx[q]
      BY <1>10, <1>11, <2>1
    <3>2. ASSUME NEW j \in 1 .. q PROVE s[j].key # k
      <4>1. CASE j < p
        <5>1. j \in 1 .. q - 1 /\ j \in 1 .. n + 1
          BY <1>10, <1>11, <2>1, <4>1
        <5> QED BY <1>10, <1>11, <4>1, <5>1
      <4>2. CASE j = p
        BY <1>9, <1>10, <1>11, <1>14, <4>2
      <4>3. CASE j > p
        <5>1. j - 1 \in 1 .. q - 1 /\ ~(j < p) /\ j # p /\ j \in 1 .. n + 1
          BY <1>10, <1>11, <4>3
        <5> QED BY <1>10, <1>11, <5>1
      <4> QED BY <1>10, <4>1, <4>2, <4>3
    <3>3. ~(t <= q)
      BY <1>11, <1>12, <3>2, SMTT(40)
    <3>4. ~(q + 1 < t)
      BY <1>11, <1>12, <3>1
    <3> QED BY <1>11, <1>12, <3>3, <3>4
  <2>3. SetAt(r, d, loc, p)
    <3>1. p \in 1 .. Len(d) + 1 /\ Len(r) = Len(d) + 1
      BY <1>10, <1>11, <1>12, <2>1
    <3>2. r[p] = loc
      <4>1. p \in 1 .. n /\ p < t /\ p \in 1 .. n + 1 /\ ~(p < p)
        BY <1>10, <1>11, <2>1, <2>2, SMTT(40)
      <4> QED BY <1>10, <1>12, <4>1
    <3>3. ASSUME NEW j \in 1 .. p - 1 PROVE r[j] = d[j] /\ d[j].key <= loc.key
      <4>1. j \in 1 .. n - 1 /\ j \in 1 .. n /\ j \in 1 .. n + 1 /\ j < p /\ j < t /\ j < q
        BY <1>10, <1>11, <2>1, <2>2
      <4> QED BY <1>10, <1>11, <1>12, <4>1
    <3>4. ASSUME NEW j \in p .. Len(d) PROVE r[j + 1] = d[j] /\ d[j].key > loc.key
      <4>1. /\ j \in 1 .. n - 1 /\ j + 1 \in 1 .. n /\ j + 1 \in 1 .. n + 1 /\ (j + 1) + 1 \in 1 .. n + 1
            /\ ~(j + 1 < p) /\ j + 1 # p /\ (j + 1) - 1 = j /\ ((j + 1) + 1) - 1 = j + 1
            /\ ~((j + 1) + 1 < p) /\ (j + 1) + 1 # p /\ j \in p .. n /\ j + 1 \in p .. n
        BY <1>10, <1>11, <2>1
      <4>2. CASE j < q
        <5>1. j + 1 < t
          BY <2>2, <4>1, <4>2
        <5>2. r[j + 1] = s[j + 1] /\ s[j + 1] = idx[j] /\ d[j] = idx[j]
          BY <1>10, <1>11, <1>12, <4>1, <4>2, <5>1
        <5> QED BY <1>10, <4>1, <5>2
      <4>3. CASE ~(j < q)
        <5>1. ~(j + 1 < t)
          BY <1>11, <2>2, <4>1, <4>3, SMTT(40)
        <5>2. r[j + 1] = s[(j + 1) + 1]
          BY <1>12, <4>1, <5>1
        <5>3. s[(j + 1) + 1] = idx[j + 1] /\ d[j] = idx[j + 1]
          BY <1>10, <1>11, <4>1, <4>3
        <5> QED BY <1>10, <4>1, <5>2, <5>3
      <4> QED BY <4>2, <4>3
    <3> QED BY <3>1, <3>2, <3>3, <3>4 DEF SetAt
  <2> QED BY <2>3
<1>15. PICK u \in Seq(Location) : u = IndexSet(d, loc)
  BY IndexSetType
<1>16. Tidy(d)
  BY <1>1, IndexDeleteTidy
<1>17. PICK w \in 1 .. Len(d) + 1 : SetAt(u, d, loc, w)
  BY <1>15, <1>16, IndexSetAt DEF Tidy
<1>18. u = r
  <2>1. PICK v : SetAt(r, d, loc, v)
    BY <1>9, <1>13, <1>14, SMTT(40)
  <2> QED BY <1>17, <2>1, OnePlace
<1> QED BY <1>1, <1>3, <1>6, <1>15, <1>18

-----------------------------------------------------------------------------
(* What edits make of an index in memory and of one on disk.               *)

\* An edit made on the side t, "mem" or "log".
Do(idx, e, t) == IF t \in e.on THEN IndexApply(idx, e.loc) ELSE idx

\* f has the indexes after each of the edits.
Runs(idx, E, t, f) == f[0] = idx /\ \A n \in 1 .. Len(E) : f[n] = Do(f[n - 1], E[n], t)

\* Both sides come to the same index.
Meet(X, Y, E) ==
    \E f, g : Runs(X, E, "mem", f) /\ Runs(Y, E, "log", g) /\ f[Len(E)] = g[Len(E)]

LEMMA RunsExist ==
  ASSUME NEW idx, NEW E \in Seq(Edit), NEW t
  PROVE  \E f : Runs(idx, E, t, f)
<1> DEFINE Good(n) == \E f : f[0] = idx /\ \A m \in 1 .. n : f[m] = Do(f[m - 1], E[m], t)
           Bad == {n \in Nat : ~Good(n)}
<1>1. Good(0)
  <2> DEFINE f == [m \in 0 .. 0 |-> idx]
  <2>1. f[0] = idx
    OBVIOUS
  <2> HIDE DEF f
  <2> QED BY <2>1
<1>2. ASSUME NEW n \in Nat, n > 0, Good(n - 1) PROVE Good(n)
  <2>1. PICK g : g[0] = idx /\ \A m \in 1 .. n - 1 : g[m] = Do(g[m - 1], E[m], t)
    BY <1>2
  <2> DEFINE f == [m \in 0 .. n |-> IF m = n THEN Do(g[n - 1], E[n], t) ELSE g[m]]
  <2>2. f[0] = idx
    BY <1>2, <2>1
  <2>3. ASSUME NEW m \in 1 .. n PROVE f[m] = Do(f[m - 1], E[m], t)
    <3>1. m - 1 \in 0 .. n /\ m - 1 # n /\ f[m - 1] = g[m - 1]
      BY <1>2
    <3>2. CASE m = n
      BY <1>2, <3>1, <3>2
    <3>3. CASE m # n
      <4>1. f[m] = g[m] /\ m \in 1 .. n - 1
        BY <1>2, <3>3
      <4> QED BY <2>1, <3>1, <4>1
    <3> QED BY <3>2, <3>3
  <2> HIDE DEF f
  <2> QED BY <2>2, <2>3
<1> HIDE DEF Good
<1>3. Bad = {}
  <2> SUFFICES ASSUME Bad # {} PROVE FALSE
    OBVIOUS
  <2>1. PICK n \in Bad : \A m \in Bad : n <= m
    <3>1. Bad \subseteq Nat
      OBVIOUS
    <3> HIDE DEF Bad
    <3> QED BY <3>1, LeastNat
  <2>2. n \in Nat /\ n > 0
    BY <1>1
  <2>3. n - 1 \in Nat /\ n - 1 \notin Bad
    BY <2>1, <2>2
  <2>4. Good(n - 1)
    BY <2>3
  <2> QED BY <1>2, <2>2, <2>4
<1>4. Len(E) \in Nat
  OBVIOUS
<1>5. Good(Len(E))
  BY <1>3, <1>4
<1> QED BY <1>5 DEF Good, Runs

\* The stages are indexes.
LEMMA RunsTidy ==
  ASSUME NEW idx \in Seq(Location), Tidy(idx), NEW E \in Seq(Edit), NEW t, NEW f,
         Runs(idx, E, t, f)
  PROVE  \A n \in 0 .. Len(E) : f[n] \in Seq(Location) /\ Tidy(f[n])
<1> DEFINE Good(n) == f[n] \in Seq(Location) /\ Tidy(f[n])
           Bad == {n \in 0 .. Len(E) : ~Good(n)}
<1> SUFFICES ASSUME Bad # {} PROVE FALSE
  OBVIOUS
<1>1. PICK n \in Bad : \A m \in Bad : n <= m
  <2>1. Bad \subseteq Nat
    OBVIOUS
  <2> HIDE DEF Bad
  <2> QED BY <2>1, LeastNat
<1>2. Good(0)
  BY DEF Runs
<1>3. n \in 1 .. Len(E) /\ n - 1 \in 0 .. Len(E) /\ n - 1 \notin Bad
  BY <1>1, <1>2
<1>4. Good(n - 1)
  BY <1>3
<1>5. f[n] = Do(f[n - 1], E[n], t) /\ E[n].loc \in Location
  <2>1. E[n] \in Edit
    BY <1>3
  <2>2. E[n].loc \in Location
    BY <2>1 DEF Edit
  <2> QED BY <1>3, <2>2 DEF Runs
<1>6. Good(n)
  BY <1>4, <1>5, IndexApplyType, IndexApplyTidy DEF Do
<1> QED BY <1>1, <1>6

LEMMA MeetEnd ==
  ASSUME NEW X, NEW Y, NEW E, E = <<>>, Meet(X, Y, E)
  PROVE  X = Y
BY DEF Meet, Runs

LEMMA MeetStep ==
  ASSUME NEW X, NEW Y, NEW E \in Seq(Edit), E # <<>>, Meet(X, Y, E)
  PROVE  Meet(Do(X, E[1], "mem"), Do(Y, E[1], "log"), Tail(E))
<1>1. PICK f, g : Runs(X, E, "mem", f) /\ Runs(Y, E, "log", g) /\ f[Len(E)] = g[Len(E)]
  BY DEF Meet
<1>2. PICK n \in Nat : Len(E) = n + 1
  <2>1. Len(E) - 1 \in Nat
    OBVIOUS
  <2> QED BY <2>1
<1>3. PICK T \in Seq(Edit) : T = Tail(E) /\ Len(T) = n /\ \A i \in 1 .. n : T[i] = E[i + 1]
  <2>1. /\ Tail(E) \in Seq(Edit) /\ Len(Tail(E)) = n
        /\ \A i \in 1 .. n : i \in DOMAIN Tail(E)
    BY <1>2, TailAt
  <2> QED BY <2>1, TailAt
<1>4. ASSUME NEW Z, NEW t, NEW h, Runs(Z, E, t, h)
      PROVE  Runs(Do(Z, E[1], t), T, t, [i \in 0 .. n |-> h[i + 1]])
  <2> DEFINE u == [i \in 0 .. n |-> h[i + 1]]
  <2>1. h[1] = Do(Z, E[1], t)
    <3>1. 1 \in 1 .. Len(E) /\ 1 - 1 = 0
      BY <1>2
    <3> QED BY <1>4, <3>1 DEF Runs
  <2>2. u[0] = h[1]
    OBVIOUS
  <2>3. ASSUME NEW i \in 1 .. n PROVE u[i] = Do(u[i - 1], T[i], t)
    <3>1. u[i] = h[i + 1] /\ u[i - 1] = h[(i - 1) + 1] /\ (i - 1) + 1 = i /\ i + 1 \in 1 .. Len(E)
          /\ (i + 1) - 1 = i
      BY <1>2
    <3>2. h[i + 1] = Do(h[(i + 1) - 1], E[i + 1], t)
      BY <1>4, <3>1 DEF Runs
    <3> QED BY <1>3, <3>1, <3>2
  <2> HIDE DEF u
  <2>4. Runs(Do(Z, E[1], t), T, t, u)
    BY <1>3, <2>1, <2>2, <2>3 DEF Runs
  <2> QED BY <2>4 DEF u
<1>5. PICK u, v : u = [i \in 0 .. n |-> f[i + 1]] /\ v = [i \in 0 .. n |-> g[i + 1]]
  OBVIOUS
<1>6. u[n] = v[n]
  BY <1>1, <1>2, <1>5
<1>7. Runs(Do(X, E[1], "mem"), T, "mem", u) /\ Runs(Do(Y, E[1], "log"), T, "log", v)
  BY <1>1, <1>4, <1>5
<1> QED BY <1>3, <1>6, <1>7 DEF Meet

-----------------------------------------------------------------------------
(* Delete writes what is left of the batches before it ends them, and does *)
(* these in the opposite order in memory.                                  *)

\* What matters of the edits of a Delete: parts for the log, ends, the same
\* parts for memory.
DeletesOf(E, X, n) ==
    /\ n = Len(X) /\ Len(E) = 5 * n
    /\ \A m \in 1 .. 2 * n :
          /\ "mem" \notin E[m].on /\ "log" \notin E[3 * n + m].on
          /\ "log" \in E[m].on <=> "mem" \in E[3 * n + m].on
          /\ E[m].loc = E[3 * n + m].loc
          /\ "log" \in E[m].on => E[m].loc.len > 0
    /\ \A j \in 1 .. n : E[2 * n + j].on \in {Both, {}} /\ E[2 * n + j].loc = DeadLoc(X[j].key)

\* The locations of X behind position i are all still in Y, in that order.
Follows(X, Y, i) ==
    \E f : /\ \A p \in (i + 1) .. Len(X) : f[p] \in 1 .. Len(Y) /\ Y[f[p]].key = X[p].key
           /\ \A p, q \in (i + 1) .. Len(X) : p < q => f[p] < f[q]

LEMMA FollowsStep ==
  ASSUME NEW X \in Seq(Location), NEW Y \in Seq(Location), NEW i \in 0 .. Len(X), i < Len(X),
         Follows(X, Y, i)
  PROVE  /\ X[i + 1].key \in IndexKeys(Y)
         /\ Follows(X, Y, i + 1) /\ Follows(X, IndexDelete(Y, X[i + 1].key), i + 1)
<1>1. PICK f : /\ \A p \in (i + 1) .. Len(X) : f[p] \in 1 .. Len(Y) /\ Y[f[p]].key = X[p].key
               /\ \A p, q \in (i + 1) .. Len(X) : p < q => f[p] < f[q]
  BY DEF Follows
<1>2. i + 1 \in (i + 1) .. Len(X) /\ \A p \in (i + 2) .. Len(X) : p \in (i + 1) .. Len(X) /\ i + 1 < p
  OBVIOUS
<1>3. PICK k \in Keys : k = X[i + 1].key
  BY LocFields
<1>4. k \in IndexKeys(Y)
  <2>1. f[i + 1] \in DOMAIN Y /\ Y[f[i + 1]].key = k
    BY <1>1, <1>2, <1>3
  <2> QED BY <2>1 DEF IndexKeys
<1>5. Follows(X, Y, i + 1)
  <2>1. (i + 1) + 1 = i + 2
    OBVIOUS
  <2> QED BY <1>1, <1>2, <2>1 DEF Follows
<1>6. PICK d \in Seq(Location) : d = IndexDelete(Y, k)
  BY IndexDeleteType
<1>7. PICK q \in 1 .. Len(Y) : DeletedAt(d, Y, k, q)
  BY <1>4, <1>6, IndexDeleteAt
<1>8. /\ Len(d) = Len(Y) - 1 /\ Len(Y) \in Nat
      /\ \A j \in 1 .. Len(Y) - 1 : d[j] = IF j < q THEN Y[j] ELSE Y[j + 1]
  BY <1>7, DeletedIs
<1>9. q <= f[i + 1]
  <2>1. \A j \in 1 .. q - 1 : Y[j].key # k
    BY <1>7 DEF DeletedAt
  <2>2. f[i + 1] \in 1 .. Len(Y) /\ Y[f[i + 1]].key = k
    BY <1>1, <1>2, <1>3
  <2> QED BY <1>7, <2>1, <2>2
<1> DEFINE g == [p \in (i + 2) .. Len(X) |-> f[p] - 1]
<1>10. ASSUME NEW p \in (i + 2) .. Len(X)
       PROVE  g[p] \in 1 .. Len(d) /\ d[g[p]].key = X[p].key
  <2>1. f[p] \in 1 .. Len(Y) /\ Y[f[p]].key = X[p].key /\ f[i + 1] < f[p] /\ f[i + 1] \in 1 .. Len(Y)
    BY <1>1, <1>2
  <2>2. g[p] = f[p] - 1
    OBVIOUS
  <2>3. f[p] - 1 \in 1 .. Len(Y) - 1 /\ ~(f[p] - 1 < q) /\ (f[p] - 1) + 1 = f[p]
    BY <1>8, <1>9, <2>1, SMTT(40)
  <2> QED BY <1>8, <2>1, <2>2, <2>3
<1>11. ASSUME NEW p \in (i + 2) .. Len(X), NEW r \in (i + 2) .. Len(X), p < r PROVE g[p] < g[r]
  <2>1. f[p] < f[r] /\ f[p] \in Int /\ f[r] \in Int
    BY <1>1, <1>2, <1>11
  <2> QED BY <2>1
<1> HIDE DEF g
<1>12. Follows(X, d, i + 1)
  <2>1. (i + 1) + 1 = i + 2
    OBVIOUS
  <2> QED BY <1>10, <1>11, <2>1 DEF Follows
<1> QED BY <1>3, <1>4, <1>5, <1>6, <1>12

\* The parts, set from the index W on.
PartsFrom(W, E, n, h) ==
    /\ h[0] = W
    /\ \A m \in 1 .. 2 * n : h[m] = Do(h[m - 1], E[m], "log")
    /\ \A m \in 0 .. 2 * n : h[m] \in Seq(Location) /\ Tidy(h[m])

\* The edits E of n batches: those that write a part in the log write a batch.
PartsLive(E, n) ==
    /\ Len(E) = 5 * n
    /\ \A m \in 1 .. 2 * n : "log" \in E[m].on => E[m].loc.len > 0

\* Ending a batch first makes no difference to what the parts lead to.
LEMMA EndFirst ==
  ASSUME NEW n \in Nat, NEW E \in Seq(Edit), PartsLive(E, n), NEW W \in Seq(Location),
         NEW h, PartsFrom(W, E, n, h), NEW k \in Keys, k \in IndexKeys(W)
  PROVE  \E g : PartsFrom(IndexDelete(W, k), E, n, g) /\ g[2 * n] = IndexDelete(h[2 * n], k)
<1> USE DEF PartsLive
<1> DEFINE g == [m \in 0 .. 2 * n |-> IndexDelete(h[m], k)]
<1>1. ASSUME NEW m \in 1 .. 2 * n PROVE E[m].loc \in Location
  <2>1. m \in 1 .. Len(E)
    OBVIOUS
  <2>2. E[m] \in Edit
    BY <2>1
  <2> QED BY <2>2 DEF Edit
<1>2. \A m \in 0 .. 2 * n : k \in IndexKeys(h[m])
  <2> DEFINE Bad == {m \in 0 .. 2 * n : k \notin IndexKeys(h[m])}
  <2> SUFFICES ASSUME Bad # {} PROVE FALSE
    OBVIOUS
  <2>1. PICK m \in Bad : \A j \in Bad : m <= j
    <3>1. Bad \subseteq Nat
      OBVIOUS
    <3> HIDE DEF Bad
    <3> QED BY <3>1, LeastNat
  <2>2. m \in 1 .. 2 * n /\ m - 1 \in 0 .. 2 * n /\ m - 1 \notin Bad
    BY <2>1 DEF PartsFrom
  <2>3. k \in IndexKeys(h[m - 1])
    BY <2>2
  <2>4. h[m] = Do(h[m - 1], E[m], "log") /\ h[m - 1] \in Seq(Location) /\ Tidy(h[m - 1])
    BY <2>2 DEF PartsFrom
  <2>5. k \in IndexKeys(h[m])
    <3>1. CASE "log" \notin E[m].on
      BY <2>3, <2>4, <3>1 DEF Do
    <3>2. CASE "log" \in E[m].on
      <4>1. h[m] = IndexSet(h[m - 1], E[m].loc)
        <5>1. E[m].loc.len # 0
          BY <2>2, <3>2
        <5> QED BY <2>4, <3>2, <5>1 DEF Do, IndexApply
      <4> QED BY <1>1, <2>2, <2>3, <2>4, <4>1, SetKeepsKeys DEF Tidy
    <3> QED BY <3>1, <3>2
  <2> QED BY <2>1, <2>5
<1>3. ASSUME NEW m \in 0 .. 2 * n PROVE g[m] \in Seq(Location) /\ Tidy(g[m])
  <2>1. h[m] \in Seq(Location) /\ Tidy(h[m]) /\ g[m] = IndexDelete(h[m], k)
    BY DEF PartsFrom
  <2> QED BY <2>1, IndexDeleteType, IndexDeleteTidy
<1>4. ASSUME NEW m \in 1 .. 2 * n PROVE g[m] = Do(g[m - 1], E[m], "log")
  <2>1. m - 1 \in 0 .. 2 * n /\ m \in 0 .. 2 * n
    OBVIOUS
  <2>2. g[m] = IndexDelete(h[m], k) /\ g[m - 1] = IndexDelete(h[m - 1], k)
    BY <2>1
  <2>3. h[m] = Do(h[m - 1], E[m], "log") /\ h[m - 1] \in Seq(Location) /\ Tidy(h[m - 1])
    BY <2>1 DEF PartsFrom
  <2>4. CASE "log" \notin E[m].on
    BY <2>2, <2>3, <2>4 DEF Do
  <2>5. CASE "log" \in E[m].on
    <3>1. PICK loc \in Location : loc = E[m].loc
      BY <1>1
    <3>2. loc.len > 0 /\ loc.len # 0
      BY <2>5, <3>1, LocNumbers
    <3>3. h[m] = IndexSet(h[m - 1], loc)
      BY <2>3, <2>5, <3>1, <3>2 DEF Do, IndexApply
    <3>4. Do(g[m - 1], E[m], "log") = IndexSet(g[m - 1], loc)
      BY <2>5, <3>1, <3>2 DEF Do, IndexApply
    <3>5. k \in IndexKeys(h[m - 1])
      BY <1>2, <2>1
    <3>6. IndexSet(IndexDelete(h[m - 1], k), loc) = IndexDelete(IndexSet(h[m - 1], loc), k)
      BY <2>3, <3>2, <3>5, SetDeleteCommute
    <3> QED BY <2>2, <3>3, <3>4, <3>6
  <2> QED BY <2>4, <2>5
<1>5. g[0] = IndexDelete(W, k)
  BY DEF PartsFrom
<1>6. g[2 * n] = IndexDelete(h[2 * n], k)
  OBVIOUS
<1> HIDE DEF g
<1>7. PartsFrom(IndexDelete(W, k), E, n, g)
  BY <1>3, <1>4, <1>5 DEF PartsFrom
<1> QED BY <1>6, <1>7

LEMMA DeadApply ==
  ASSUME NEW k, NEW e, e.loc = DeadLoc(k), NEW t
  PROVE  \A idx : Do(idx, e, t) = IF t \in e.on THEN IndexDelete(idx, k) ELSE idx
<1>1. e.loc.len = 0 /\ e.loc.key = k
  BY DEF DeadLoc
<1> QED BY <1>1 DEF Do, IndexApply

\* Although the orders differ, memory and log come to the same index.
LEMMA DeletesMeet ==
  ASSUME NEW X \in Seq(Location), Tidy(X), NEW E \in Seq(Edit), NEW n \in Nat, DeletesOf(E, X, n)
  PROVE  Meet(X, X, E)
<1>1. PICK f : Runs(X, E, "mem", f)
  BY RunsExist
<1>2. PICK g : Runs(X, E, "log", g)
  BY RunsExist
<1>3. PICK d \in Nat, t \in Nat, l \in Nat : d = 2 * n /\ t = 3 * n /\ l = 5 * n /\ t = d + n /\ l = t + d
  OBVIOUS
<1>4. Len(E) = l /\ Len(X) = n
  BY <1>3 DEF DeletesOf
<1>5. /\ \A m \in 0 .. l : f[m] \in Seq(Location) /\ Tidy(f[m])
      /\ \A m \in 0 .. l : g[m] \in Seq(Location) /\ Tidy(g[m])
  BY <1>1, <1>2, <1>4, RunsTidy
<1>6. f[0] = X /\ \A m \in 1 .. l : f[m] = Do(f[m - 1], E[m], "mem")
  BY <1>1, <1>4 DEF Runs
<1>7. g[0] = X /\ \A m \in 1 .. l : g[m] = Do(g[m - 1], E[m], "log")
  BY <1>2, <1>4 DEF Runs
<1>8. \A m \in 1 .. d : /\ "mem" \notin E[m].on /\ "log" \notin E[t + m].on
                        /\ "log" \in E[m].on <=> "mem" \in E[t + m].on
                        /\ E[m].loc = E[t + m].loc
                        /\ "log" \in E[m].on => E[m].loc.len > 0
  BY <1>3 DEF DeletesOf
<1>9. \A j \in 1 .. n : E[d + j].on \in {Both, {}} /\ E[d + j].loc = DeadLoc(X[j].key)
  BY <1>3 DEF DeletesOf
\* Before the ends, nothing happens in memory, and behind them nothing in the log.
<1>10. f[d] = X
  <2> DEFINE Bad == {m \in 0 .. d : f[m] # X}
  <2>1. Bad = {}
    <3> SUFFICES ASSUME Bad # {} PROVE FALSE
      OBVIOUS
    <3>1. PICK m \in Bad : \A k \in Bad : m <= k
      <4>1. Bad \subseteq Nat
        OBVIOUS
      <4> HIDE DEF Bad
      <4> QED BY <4>1, LeastNat
    <3>2. m \in 1 .. d /\ m - 1 \in 0 .. d /\ m - 1 \notin Bad /\ m \in 1 .. l
      BY <1>3, <1>6, <3>1
    <3>3. f[m - 1] = X
      BY <3>2
    <3>4. f[m] = Do(f[m - 1], E[m], "mem") /\ "mem" \notin E[m].on
      BY <1>6, <1>8, <3>2
    <3> QED BY <3>1, <3>3, <3>4 DEF Do
  <2> QED BY <2>1
<1>11. g[l] = g[t]
  <2> DEFINE Bad == {m \in 0 .. d : g[t + m] # g[t]}
  <2>1. Bad = {}
    <3> SUFFICES ASSUME Bad # {} PROVE FALSE
      OBVIOUS
    <3>1. PICK m \in Bad : \A k \in Bad : m <= k
      <4>1. Bad \subseteq Nat
        OBVIOUS
      <4> HIDE DEF Bad
      <4> QED BY <4>1, LeastNat
    <3>2. m \in 1 .. d /\ m - 1 \in 0 .. d /\ m - 1 \notin Bad /\ t + m \in 1 .. l
          /\ (t + m) - 1 = t + (m - 1)
      <4>1. m # 0
        BY <3>1
      <4> QED BY <1>3, <3>1, <4>1
    <3>3. g[t + (m - 1)] = g[t]
      BY <3>2
    <3>4. g[t + m] = Do(g[t + (m - 1)], E[t + m], "log") /\ "log" \notin E[t + m].on
      BY <1>7, <1>8, <3>2
    <3> QED BY <3>1, <3>3, <3>4 DEF Do
  <2>2. d \in 0 .. d /\ t + d = l
    BY <1>3
  <2> QED BY <2>1, <2>2
\* After i ends: the parts would lead from memory to the log.
<1> DEFINE Claim(i) == /\ Follows(X, f[d + i], i)
                       /\ \E h : PartsFrom(f[d + i], E, n, h) /\ h[d] = g[d + i]
<1>12. Claim(0)
  <2>1. Follows(X, X, 0)
    <3> DEFINE id == [p \in 1 .. n |-> p]
    <3>1. \A p \in (0 + 1) .. Len(X) : id[p] \in 1 .. Len(X) /\ X[id[p]].key = X[p].key
      BY <1>4
    <3>2. \A p, q \in (0 + 1) .. Len(X) : p < q => id[p] < id[q]
      BY <1>4
    <3> HIDE DEF id
    <3> QED BY <3>1, <3>2 DEF Follows
  <2> DEFINE h == [m \in 0 .. d |-> g[m]]
  <2>2. h[0] = X /\ h[d] = g[d]
    BY <1>7
  <2>3. ASSUME NEW m \in 1 .. d PROVE h[m] = Do(h[m - 1], E[m], "log")
    <3>1. m \in 1 .. l /\ m - 1 \in 0 .. d /\ m \in 0 .. d
      BY <1>3
    <3>2. h[m] = g[m] /\ h[m - 1] = g[m - 1]
      BY <3>1
    <3> QED BY <1>7, <3>1, <3>2
  <2>4. ASSUME NEW m \in 0 .. d PROVE h[m] \in Seq(Location) /\ Tidy(h[m])
    <3>1. m \in 0 .. l /\ h[m] = g[m]
      BY <1>3
    <3> QED BY <1>5, <3>1
  <2> HIDE DEF h
  <2>5. PartsFrom(X, E, n, h)
    BY <1>3, <2>2, <2>3, <2>4 DEF PartsFrom
  <2>6. d + 0 = d
    OBVIOUS
  <2> QED BY <1>10, <2>1, <2>2, <2>5, <2>6
<1>13. ASSUME NEW i \in 1 .. n, Claim(i - 1) PROVE Claim(i)
  <2>1. PICK W \in Seq(Location), Z \in Seq(Location) :
            W = f[d + (i - 1)] /\ Z = g[d + (i - 1)] /\ Tidy(W) /\ Tidy(Z)
    <3>1. d + (i - 1) \in 0 .. l
      BY <1>3
    <3> QED BY <1>5, <3>1
  <2>2. PICK h : PartsFrom(W, E, n, h) /\ h[d] = Z
    BY <1>13, <2>1
  <2>3. Follows(X, W, i - 1)
    BY <1>13, <2>1
  <2>4. PICK k \in Keys : k = X[i].key
    BY <1>4, LocNumbers
  <2>5. /\ k \in IndexKeys(W) /\ Follows(X, W, i) /\ Follows(X, IndexDelete(W, k), i)
    <3>1. i - 1 \in 0 .. Len(X) /\ i - 1 < Len(X) /\ (i - 1) + 1 = i
      BY <1>4
    <3>2. /\ X[(i - 1) + 1].key \in IndexKeys(W)
          /\ Follows(X, W, (i - 1) + 1)
          /\ Follows(X, IndexDelete(W, X[(i - 1) + 1].key), (i - 1) + 1)
      BY <2>3, <3>1, FollowsStep
    <3> QED BY <2>4, <3>1, <3>2
  <2>6. f[d + i] = Do(W, E[d + i], "mem") /\ g[d + i] = Do(Z, E[d + i], "log")
    <3>1. d + i \in 1 .. l /\ (d + i) - 1 = d + (i - 1)
      BY <1>3
    <3> QED BY <1>6, <1>7, <2>1, <3>1
  <2>7. /\ f[d + i] = IF "mem" \in E[d + i].on THEN IndexDelete(W, k) ELSE W
        /\ g[d + i] = IF "log" \in E[d + i].on THEN IndexDelete(Z, k) ELSE Z
    <3>1. PICK e : e = E[d + i] /\ e.loc = DeadLoc(k)
      BY <1>9, <2>4
    <3>2. /\ \A idx : Do(idx, e, "mem") = IF "mem" \in e.on THEN IndexDelete(idx, k) ELSE idx
          /\ \A idx : Do(idx, e, "log") = IF "log" \in e.on THEN IndexDelete(idx, k) ELSE idx
      BY <3>1, DeadApply
    <3>3. f[d + i] = Do(W, e, "mem") /\ g[d + i] = Do(Z, e, "log")
      BY <2>6, <3>1
    <3>4. /\ Do(W, e, "mem") = IF "mem" \in e.on THEN IndexDelete(W, k) ELSE W
          /\ Do(Z, e, "log") = IF "log" \in e.on THEN IndexDelete(Z, k) ELSE Z
      BY <3>2
    <3> QED BY <3>1, <3>3, <3>4
  <2>8. CASE E[d + i].on = {}
    <3>1. f[d + i] = W /\ g[d + i] = Z
      BY <2>7, <2>8
    <3> QED BY <2>2, <2>5, <3>1
  <2>9. CASE E[d + i].on = Both
    <3>1. f[d + i] = IndexDelete(W, k) /\ g[d + i] = IndexDelete(Z, k)
      BY <2>7, <2>9 DEF Both
    <3>2. \E u : PartsFrom(IndexDelete(W, k), E, n, u) /\ u[2 * n] = IndexDelete(h[2 * n], k)
      <4>1. PartsLive(E, n)
        BY <1>3, <1>4, <1>8 DEF PartsLive
      <4>2. PartsFrom(W, E, n, h) /\ k \in IndexKeys(W)
        BY <2>2, <2>5
      <4> HIDE DEF Claim
      <4> QED BY ONLY <4>1, <4>2, EndFirst, n \in Nat, E \in Seq(Edit), W \in Seq(Location), k \in Keys
    <3>3. \E u : PartsFrom(IndexDelete(W, k), E, n, u) /\ u[d] = IndexDelete(Z, k)
      BY <1>3, <2>2, <3>2
    <3> QED BY <2>5, <3>1, <3>3
  <2> QED BY <1>9, <2>8, <2>9
<1> HIDE DEF Claim
<1>14. Claim(n)
  <2> DEFINE Bad == {i \in 0 .. n : ~Claim(i)}
  <2>1. Bad = {}
    <3> SUFFICES ASSUME Bad # {} PROVE FALSE
      OBVIOUS
    <3>1. PICK i \in Bad : \A k \in Bad : i <= k
      <4>1. Bad \subseteq Nat
        OBVIOUS
      <4> HIDE DEF Bad
      <4> QED BY <4>1, LeastNat
    <3>2. i \in 1 .. n /\ i - 1 \in 0 .. n /\ i - 1 \notin Bad
      BY <1>12, <3>1
    <3>3. Claim(i - 1)
      BY <3>2
    <3> QED BY <1>13, <3>1, <3>2, <3>3
  <2> QED BY <2>1
<1>15. PICK h : PartsFrom(f[t], E, n, h) /\ h[d] = g[t]
  BY <1>3, <1>14 DEF Claim
<1>16. f[l] = h[d]
  <2> DEFINE Bad == {m \in 0 .. d : f[t + m] # h[m]}
  <2>1. Bad = {}
    <3> SUFFICES ASSUME Bad # {} PROVE FALSE
      OBVIOUS
    <3>1. PICK m \in Bad : \A k \in Bad : m <= k
      <4>1. Bad \subseteq Nat
        OBVIOUS
      <4> HIDE DEF Bad
      <4> QED BY <4>1, LeastNat
    <3>2. m \in 1 .. d /\ m - 1 \in 0 .. d /\ m - 1 \notin Bad /\ t + m \in 1 .. l
          /\ (t + m) - 1 = t + (m - 1)
      <4>1. t + 0 = t /\ h[0] = f[t]
        BY <1>15 DEF PartsFrom
      <4>2. m # 0
        BY <3>1, <4>1
      <4> QED BY <1>3, <3>1, <4>2
    <3>3. f[t + (m - 1)] = h[m - 1]
      BY <3>2
    <3>4. f[t + m] = Do(h[m - 1], E[t + m], "mem")
      BY <1>6, <3>2, <3>3
    <3>5. h[m] = Do(h[m - 1], E[m], "log")
      BY <1>3, <1>15, <3>2 DEF PartsFrom
    <3>6. Do(h[m - 1], E[t + m], "mem") = Do(h[m - 1], E[m], "log")
      BY <1>8, <3>2 DEF Do
    <3> QED BY <3>1, <3>4, <3>5, <3>6
  <2>2. d \in 0 .. d /\ t + d = l
    BY <1>3
  <2> QED BY <2>1, <2>2
<1>17. f[l] = g[l]
  BY <1>11, <1>15, <1>16
<1> QED BY <1>1, <1>2, <1>4, <1>17 DEF Meet

\* bucket.Delete makes such edits.
LEMMA DeletesOfEdits ==
  ASSUME Base, NEW c \in Consumers, NEW lo \in Nat, NEW hi \in Nat
  PROVE  DeletesOf(DeleteEdits(c, lo, hi), mem[c], Len(mem[c]))
<1>1. /\ vlog \in Seq(Item) /\ mem \in [Consumers -> Seq(Location)] /\ Tidy(mem[c])
  BY BaseTypes DEF Base, AllTidy
<1>2. PICK X \in Seq(Location) : X = mem[c]
  BY <1>1
<1>3. PICK n \in Nat : n = Len(X)
  OBVIOUS
<1>4. PICK E \in Seq(Edit) : E = DeleteEdits(c, lo, hi)
  BY <1>1, DeleteEditsType
<1>5. DeleteEditsAre(E, c, lo, hi, n)
  BY <1>1, <1>2, <1>3, <1>4, DeleteEditsAt
<1>6. ASSUME NEW m \in 1 .. 2 * n
      PROVE  /\ "mem" \notin E[m].on /\ "log" \notin E[3 * n + m].on
             /\ "log" \in E[m].on <=> "mem" \in E[3 * n + m].on
             /\ E[m].loc = E[3 * n + m].loc
             /\ "log" \in E[m].on => E[m].loc.len > 0
  <2>1. PICK k \in 1 .. n : m = 2 * k - 1 \/ m = 2 * k
    BY PairAt
  <2>2. \E part, b : \A on : PartEdits(c, lo, hi, on)[m] = EditOf(IF b /\ part.len > 0 THEN on ELSE {}, c, part)
    <3>1. \A on : /\ PartEdits(c, lo, hi, on)[2 * k - 1] =
                         EditOf(IF Affected(mem[c][k], lo, hi) /\ LeftPart(mem[c][k], lo).len > 0
                                THEN on ELSE {}, c, LeftPart(mem[c][k], lo))
                  /\ PartEdits(c, lo, hi, on)[2 * k] =
                         EditOf(IF Affected(mem[c][k], lo, hi) /\ RightPart(mem[c][k], hi).len > 0
                                THEN on ELSE {}, c, RightPart(mem[c][k], hi))
      <4>1. k \in 1 .. Len(mem[c])
        BY <1>2, <1>3
      <4> QED BY <1>1, <4>1, PartAt, SMTT(40)
    <3>2. CASE m = 2 * k - 1
      BY <3>1, <3>2
    <3>3. CASE m = 2 * k
      BY <3>1, <3>3
    <3> QED BY <2>1, <3>2, <3>3
  <2>3. PICK part, b : \A on : PartEdits(c, lo, hi, on)[m] =
                                   EditOf(IF b /\ part.len > 0 THEN on ELSE {}, c, part)
    BY <2>2
  <2>4. /\ E[m] = EditOf(IF b /\ part.len > 0 THEN {"log"} ELSE {}, c, part)
        /\ E[3 * n + m] = EditOf(IF b /\ part.len > 0 THEN {"mem"} ELSE {}, c, part)
    BY <1>5, <2>3 DEF DeleteEditsAre
  <2>5. E[m].loc = part /\ E[3 * n + m].loc = part
    BY <2>4, EditOfIs
  <2>6. E[m].on = (IF b /\ part.len > 0 THEN {"log"} ELSE {})
        /\ E[3 * n + m].on = (IF b /\ part.len > 0 THEN {"mem"} ELSE {})
    BY <2>4, EditOfIs
  <2>7. CASE b /\ part.len > 0
    BY <2>5, <2>6, <2>7
  <2>8. CASE ~(b /\ part.len > 0)
    BY <2>5, <2>6, <2>8
  <2> QED BY <2>7, <2>8
<1>7. ASSUME NEW j \in 1 .. n
      PROVE  E[2 * n + j].on \in {Both, {}} /\ E[2 * n + j].loc = DeadLoc(X[j].key)
  <2>1. E[2 * n + j] = EndEdits(c, lo, hi)[j]
    BY <1>5 DEF DeleteEditsAre
  <2>2. EndEdits(c, lo, hi)[j] = EditOf(IF Affected(mem[c][j], lo, hi) THEN Both ELSE {}, c,
                                        DeadLoc(mem[c][j].key))
    BY <1>1, <1>2, <1>3, EndEditsAt
  <2> QED BY <1>2, <2>1, <2>2, EditOfIs
<1>8. Len(E) = 5 * n
  BY <1>5 DEF DeleteEditsAre
<1>9. DeletesOf(E, X, n)
  BY <1>3, <1>6, <1>7, <1>8 DEF DeletesOf
<1> QED BY <1>2, <1>3, <1>4, <1>9

LEMMA DeleteMeets ==
  ASSUME Base, NEW c \in Consumers, NEW lo \in Nat, NEW hi \in Nat
  PROVE  Meet(mem[c], mem[c], DeleteEdits(c, lo, hi))
<1>1. /\ vlog \in Seq(Item) /\ mem \in [Consumers -> Seq(Location)] /\ Tidy(mem[c])
  BY BaseTypes DEF Base, AllTidy
<1>2. PICK X \in Seq(Location) : X = mem[c]
  BY <1>1
<1>3. PICK n \in Nat : n = Len(X)
  OBVIOUS
<1>4. PICK E \in Seq(Edit) : E = DeleteEdits(c, lo, hi)
  BY <1>1, DeleteEditsType
<1>5. DeletesOf(E, X, n)
  BY <1>2, <1>3, <1>4, DeletesOfEdits
<1>6. Meet(X, X, E)
  BY <1>1, <1>2, <1>5, DeletesMeet
<1> QED BY <1>2, <1>4, <1>6

-----------------------------------------------------------------------------
(* An index that is written to a new log.                                  *)

LEMMA AppendAt ==
  ASSUME NEW S, NEW P \in Seq(S), NEW x \in S
  PROVE  /\ Append(P, x) \in Seq(S) /\ Len(Append(P, x)) = Len(P) + 1
         /\ Append(P, x)[Len(P) + 1] = x /\ \A i \in 1 .. Len(P) : Append(P, x)[i] = P[i]
OBVIOUS

\* A log with the locations of an index gives that index.
LEMMA ReplayCopy ==
  ASSUME NEW M \in Seq(Location), Tidy(M)
  PROVE  Replay(M) = M
<1>1. PICK l \in Nat : l = Len(M)
  OBVIOUS
<1> DEFINE Good(n) == Replay(SubSeq(M, 1, n)) = SubSeq(M, 1, n)
           Bad == {n \in 0 .. l : ~Good(n)}
<1>2. Good(0)
  <2>1. SubSeq(M, 1, 0) = <<>>
    OBVIOUS
  <2> QED BY <2>1, ReplayNone
<1>3. ASSUME NEW n \in 0 .. l, n < l, Good(n) PROVE Good(n + 1)
  <2>0. n \in 0 .. Len(M) /\ n < Len(M) /\ Len(M) \in Nat /\ n \in Nat
    BY <1>1, <1>3
  <2>1. PICK P \in Seq(Location) : P = SubSeq(M, 1, n) /\ Len(P) = n /\ \A i \in 1 .. n : P[i] = M[i]
    <3>1. PICK Q : Q = SubSeq(M, 1, n)
      OBVIOUS
    <3>2. Q \in Seq(Location)
      BY <2>0, <3>1, PrefixAt
    <3>3. Len(Q) = n
      BY <2>0, <3>1
    <3>4. \A i \in 1 .. n : Q[i] = M[i]
      BY <2>0, <3>1
    <3> QED BY <3>1, <3>2, <3>3, <3>4
  <2>2. PICK loc \in Location : loc = M[n + 1]
    BY <2>0, PrefixAt
  <2>3. SubSeq(M, 1, n + 1) = Append(P, loc)
    BY <2>0, <2>1, <2>2, PrefixAt
  <2>4. Replay(Append(P, loc)) = IndexApply(P, loc)
    <3>1. Replay(P) = P
      BY <1>3, <2>1
    <3> QED BY <3>1, ReplaySteps
  <2>5. loc.len > 0 /\ loc.len # 0 /\ n + 1 \in DOMAIN M /\ \A i \in 1 .. n : M[i].key <= loc.key
    <3>1. n + 1 \in DOMAIN M /\ \A i \in 1 .. n : i \in DOMAIN M /\ i < n + 1
      BY <2>0
    <3>2. loc.len > 0 /\ loc.len \in Nat
      BY <2>2, <3>1, LocNumbers DEF Tidy
    <3> QED BY <2>2, <3>1, <3>2 DEF Tidy, IndexSorted
  <2>6. IndexApply(P, loc) = IndexSet(P, loc)
    BY <2>5 DEF IndexApply
  <2>7. IndexSorted(P)
    <3>1. \A i \in DOMAIN P : i \in DOMAIN M /\ P[i] = M[i]
      BY <1>1, <2>1
    <3> QED BY <3>1 DEF Tidy, IndexSorted
  <2>8. PICK r \in Seq(Location) : r = IndexSet(P, loc)
    BY IndexSetType
  <2>9. PICK p : SetAt(r, P, loc, p)
    BY <2>7, <2>8, IndexSetAt
  <2>10. PICK s \in Seq(Location) : s = Append(P, loc) /\ Len(s) = n + 1 /\ s[n + 1] = loc
                                    /\ \A i \in 1 .. n : s[i] = P[i]
    <3>1. PICK a : a = Append(P, loc)
      OBVIOUS
    <3>2. /\ a \in Seq(Location) /\ Len(a) = Len(P) + 1 /\ a[Len(P) + 1] = loc
          /\ \A i \in 1 .. Len(P) : a[i] = P[i]
      BY <3>1, AppendAt
    <3> QED BY <2>1, <3>1, <3>2
  <2>11. SetAt(s, P, loc, n + 1)
    BY <2>1, <2>5, <2>10 DEF SetAt
  <2>12. r = s
    BY <2>9, <2>11, OnePlace
  <2> QED BY <2>3, <2>4, <2>6, <2>8, <2>10, <2>12
<1> HIDE DEF Good
<1>4. Bad = {}
  <2> SUFFICES ASSUME Bad # {} PROVE FALSE
    OBVIOUS
  <2>1. PICK n \in Bad : \A m \in Bad : n <= m
    <3>1. Bad \subseteq Nat
      OBVIOUS
    <3> HIDE DEF Bad
    <3> QED BY <3>1, LeastNat
  <2>2. n # 0
    BY <1>2, <2>1
  <2>3. n - 1 \in 0 .. l /\ n - 1 < l /\ n - 1 \notin Bad /\ (n - 1) + 1 = n
    BY <2>1, <2>2
  <2>4. Good(n - 1)
    BY <2>3
  <2> QED BY <1>3, <2>1, <2>3, <2>4
<1>5. Good(l)
  BY <1>4
<1> QED BY <1>1, <1>5, PrefixAll DEF Good

\* n locations of src are in the log of cur; the others are still to be.
Copied(src) ==
    \E n \in 0 .. Len(src) :
        /\ Len(file[cur]) = n /\ Len(todo) = Len(src) - n
        /\ \A i \in 1 .. n : file[cur][i] = src[i]
        /\ \A j \in 1 .. Len(todo) : todo[j] = EditOf({"log"}, cur, src[n + j])

\* recoverIndexFromLog, and WriteIndex for a fork.
Copies ==
    /\ Doing("rewritten") => Copied(mem[cur])
    /\ Doing("forked") /\ OkForks /\ tree = "open" => Copied(mem[call.who])

\* popSync makes all its edits in memory and in the log.
PopsBoth == pc = "journal" /\ then = "popped" => \A j \in DOMAIN todo : todo[j].on \in {Both, {}}

LEMMA InitCopies == Init => Copies /\ PopsBoth
BY DEF Init, Copies, PopsBoth, Doing

LEMMA CopiedAll ==
  ASSUME NEW src \in Seq(Location), Copied(src), todo = <<>>, file[cur] \in Seq(Location)
  PROVE  file[cur] = src
<1>1. PICK f \in Seq(Location) : f = file[cur]
  OBVIOUS
<1>2. PICK n \in 0 .. Len(src) : /\ Len(f) = n /\ Len(todo) = Len(src) - n
                                 /\ \A i \in 1 .. n : f[i] = src[i]
  BY <1>1 DEF Copied
<1>3. Len(src) \in Nat /\ Len(todo) = 0
  OBVIOUS
<1>4. n = Len(src)
  BY <1>2, <1>3
<1>5. Len(f) = Len(src) /\ \A i \in 1 .. Len(f) : f[i] = src[i]
  BY <1>2, <1>4
<1>6. f = src
  BY <1>5
<1> QED BY <1>1, <1>6

LEMMA CopyBegins ==
  ASSUME NEW src \in Seq(Location), file'[cur'] = <<>>, todo' = EditsOf({"log"}, cur', src)
  PROVE  Copied(src)'
<1>1. /\ Len(todo') = Len(src) /\ Len(src) \in Nat
      /\ \A j \in 1 .. Len(src) : todo'[j] = EditOf({"log"}, cur', src[j])
  <2>1. PICK d : d = cur'
    OBVIOUS
  <2>2. todo' = EditsOf({"log"}, d, src)
    BY <2>1
  <2> QED BY <2>1, <2>2, EditsOfAt
<1>2. /\ 0 \in 0 .. Len(src) /\ Len(file'[cur']) = 0 /\ Len(todo') = Len(src) - 0
      /\ \A i \in 1 .. 0 : file'[cur'][i] = src[i]
      /\ \A j \in 1 .. Len(todo') : todo'[j] = EditOf({"log"}, cur', src[0 + j])
  BY <1>1
<1> QED BY <1>2 DEF Copied

LEMMA CopyStep ==
  ASSUME Base, Journal, then \in {"rewritten", "forked"}, NEW src \in Seq(Location), Copied(src)
  PROVE  Copied(src)'
<1>1. /\ todo \in Seq(Edit) /\ todo # <<>> /\ cur \in Consumers
      /\ file \in [Consumers -> Seq(Location)] /\ cur' = cur /\ todo' = Tail(todo)
  BY BaseTypes DEF Journal
<1>2. PICK f \in Seq(Location) : f = file[cur]
  BY <1>1
<1>3. PICK n \in 0 .. Len(src) :
          /\ Len(f) = n /\ Len(todo) = Len(src) - n
          /\ \A i \in 1 .. n : f[i] = src[i]
          /\ \A j \in 1 .. Len(todo) : todo[j] = EditOf({"log"}, cur, src[n + j])
  BY <1>2 DEF Copied
<1>4. Len(src) \in Nat /\ Len(todo) \in Nat /\ Len(todo) > 0 /\ n < Len(src) /\ n \in Nat
  <2>1. Len(src) \in Nat /\ Len(todo) \in Nat /\ Len(todo) > 0
    BY <1>1
  <2> QED BY <1>3, <2>1
<1>5. PICK loc \in Location : loc = src[n + 1]
  BY <1>4
<1>6. Head(todo) = EditOf({"log"}, cur, loc)
  <2>1. Head(todo) = todo[1] /\ 1 \in 1 .. Len(todo)
    BY <1>1, <1>4
  <2> QED BY <1>3, <1>5, <2>1
<1>7. file' = [file EXCEPT ![cur] = Append(@, loc)]
  <2>1. PICK e : e = Head(todo)
    OBVIOUS
  <2>2. e.on = {"log"} /\ e.to = cur /\ e.loc = loc
    BY <1>6, <2>1, EditOfIs
  <2>3. file' = IF "log" \in e.on THEN [file EXCEPT ![e.to] = Append(@, e.loc)] ELSE file
    BY <2>1 DEF Journal
  <2> QED BY <2>2, <2>3
<1>8. PICK g \in Seq(Location) : /\ g = file'[cur'] /\ Len(g) = n + 1 /\ g[n + 1] = loc
                                 /\ \A i \in 1 .. n : g[i] = f[i]
  <2>1. file'[cur'] = Append(f, loc)
    BY <1>1, <1>2, <1>7
  <2>2. PICK a : a = Append(f, loc)
    OBVIOUS
  <2>3. /\ a \in Seq(Location) /\ Len(a) = Len(f) + 1 /\ a[Len(f) + 1] = loc
        /\ \A i \in 1 .. Len(f) : a[i] = f[i]
    BY <2>2, AppendAt
  <2> QED BY <1>3, <2>1, <2>2, <2>3
<1>9. ASSUME NEW i \in 1 .. n + 1 PROVE g[i] = src[i]
  <2>1. CASE i = n + 1
    BY <1>5, <1>8, <2>1
  <2>2. CASE i # n + 1
    <3>1. i \in 1 .. n
      BY <1>4, <2>2
    <3> QED BY <1>3, <1>8, <3>1
  <2> QED BY <2>1, <2>2
<1>10. /\ Len(todo') = Len(src) - (n + 1) /\ n + 1 \in 0 .. Len(src)
       /\ \A j \in 1 .. Len(todo') : todo'[j] = EditOf({"log"}, cur, src[(n + 1) + j])
  <2>1. /\ Len(todo') = Len(todo) - 1 /\ DOMAIN todo' = 1 .. Len(todo) - 1
        /\ \A j \in DOMAIN todo' : j + 1 \in DOMAIN todo /\ todo'[j] = todo[j + 1]
    BY <1>1, TailAt
  <2>2. ASSUME NEW j \in 1 .. Len(todo') PROVE todo'[j] = EditOf({"log"}, cur, src[(n + 1) + j])
    <3>1. j \in DOMAIN todo' /\ j + 1 \in 1 .. Len(todo) /\ n + (j + 1) = (n + 1) + j
      BY <1>4, <2>1
    <3>2. todo[j + 1] = EditOf({"log"}, cur, src[n + (j + 1)])
      BY <1>3, <3>1
    <3> QED BY <2>1, <3>1, <3>2
  <2>3. Len(todo') = Len(src) - (n + 1) /\ n + 1 \in 0 .. Len(src)
    BY <1>3, <1>4, <2>1
  <2> QED BY <2>2, <2>3
<1>11. \A i \in 1 .. n + 1 : file'[cur'][i] = src[i]
  BY <1>8, <1>9
<1>12. Len(file'[cur']) = n + 1
  BY <1>8
<1> QED BY <1>1, <1>10, <1>11, <1>12 DEF Copied

LEMMA QueueNotCopying ==
    ASSUME OpenInv, Program,
           Start \/ Close \/ Crash \/ CloseUnused
    PROVE  ~Doing("rewritten")' /\ ~Doing("forked")' /\ ~(pc' = "journal" /\ then' = "popped")
<1> USE DEF OpenInv, Control, Program, Doing
<1>1. CASE Start
  BY <1>1 DEF Start, disk, index, queue, oper, counters, history
<1>2. CASE Close
  BY <1>2 DEF Close, Stop, Forget, Return, disk, index, queue, oper, counters, history
<1>3. CASE Crash
  BY <1>3 DEF Crash, Stop, Forget, Return, disk, index, queue, oper, counters, history
<1>4. CASE CloseUnused
  BY <1>4 DEF CloseUnused, Forget, disk, index, queue, oper, counters, history
<1> QED BY <1>1, <1>2, <1>3, <1>4

LEMMA OpeningNotCopying ==
    ASSUME OpenInv, Program,
           Open \/ LoadIndex \/ Loaded \/ Recover \/ Rewritten \/ Reinit \/ Opened
    PROVE  ~Doing("rewritten")' /\ ~Doing("forked")' /\ ~(pc' = "journal" /\ then' = "popped")
<1> USE DEF OpenInv, Control, Program, Doing
<1>1. CASE Open
  BY <1>1 DEF Open, disk, index, queue, oper, counters, history
<1>2. CASE LoadIndex
  BY <1>2 DEF LoadIndex, ToLoad, Write, disk, index, queue, oper, counters, history
<1>3. CASE Loaded
  BY <1>3 DEF Loaded, disk, index, queue, oper, counters, history
<1>4. CASE Recover
  BY <1>4 DEF Recover, Write, disk, index, queue, oper, counters, history
<1>5. CASE Rewritten
  BY <1>5 DEF Rewritten, disk, index, queue, oper, counters, history
<1>6. CASE Reinit
  BY <1>6 DEF Reinit, Forget, disk, index, queue, oper, counters, history
<1>7. CASE Opened
  BY <1>7 DEF Opened, ToLoad, FetchedForks, disk, index, queue, oper, counters, history
<1> QED BY <1>1, <1>2, <1>3, <1>4, <1>5, <1>6, <1>7

LEMMA RemovingNotCopying ==
    ASSUME OpenInv, Program,
           RmIndex \/ RmDat \/ RmMain \/ RmDir \/ RmDirFails
    PROVE  ~Doing("rewritten")' /\ ~Doing("forked")' /\ ~(pc' = "journal" /\ then' = "popped")
<1> USE DEF OpenInv, Control, Program, Doing
<1>1. CASE RmIndex
  BY <1>1 DEF RmIndex, Named, RmIndexLog, disk, index, queue, oper, counters, history
<1>2. CASE RmDat
  BY <1>2 DEF RmDat, Named, disk, index, queue, oper, counters, history
<1>3. CASE RmMain
  BY <1>3 DEF RmMain, RmIndexLog, disk, index, queue, oper, counters, history
<1>4. CASE RmDir
  BY <1>4 DEF RmDir, Return, disk, index, queue, oper, counters, history
<1>5. CASE RmDirFails
  BY <1>5 DEF RmDirFails, OpenFails, Forget, Return, disk, index, queue, oper, counters, history
<1> QED BY <1>1, <1>2, <1>3, <1>4, <1>5

LEMMA JournalNotCopying ==
    ASSUME OpenInv, Program,
           Failed
    PROVE  ~Doing("rewritten")' /\ ~Doing("forked")' /\ ~(pc' = "journal" /\ then' = "popped")
<1> USE DEF OpenInv, Control, Program, Doing
<1>1. CASE Failed
  BY <1>1 DEF Failed, Return, disk, index, queue, oper, counters, history
<1> QED BY <1>1

LEMMA PushNotCopying ==
    ASSUME OpenInv, Program,
           Push \/ TxPush \/ WriteItem \/ PushIndex \/ PushDone
    PROVE  ~Doing("rewritten")' /\ ~Doing("forked")' /\ ~(pc' = "journal" /\ then' = "popped")
<1> USE DEF OpenInv, Control, Program, Doing
<1>1. CASE Push
  BY <1>1 DEF Push, Given, WhenOpen, disk, index, queue, oper, counters, history
<1>2. CASE TxPush
  BY <1>2 DEF TxPush, Given, disk, index, queue, oper, counters, history
<1>3. CASE WriteItem
  BY <1>3 DEF WriteItem, disk, index, queue, oper, counters, history
<1>4. CASE PushIndex
  BY <1>4 DEF PushIndex, Write, disk, index, queue, oper, counters, history
<1>5. CASE PushDone
  BY <1>5 DEF PushDone, PushOver, disk, index, queue, oper, counters, history
<1> QED BY <1>1, <1>2, <1>3, <1>4, <1>5

LEMMA ReadNotCopying ==
    ASSUME OpenInv, Program,
           Read \/ ReadFirst \/ ReadNext \/ ReadServe \/ Popped \/ PeekOnly \/ CallbackErr \/ Reap
    PROVE  ~Doing("rewritten")' /\ ~Doing("forked")' /\ ~(pc' = "journal" /\ then' = "popped")
<1> USE DEF OpenInv, Control, Program, Doing
<1>1. CASE Read
  BY <1>1 DEF Read, WhenOpen, NoCall, disk, index, queue, oper, counters, history
<1>2. CASE ReadFirst
  BY <1>2 DEF ReadFirst, disk, index, queue, oper, counters, history
<1>3. CASE ReadNext
  BY <1>3 DEF ReadNext, disk, index, queue, oper, counters, history
<1>4. CASE ReadServe
  BY <1>4 DEF ReadServe, disk, index, queue, oper, counters, history
<1>5. CASE Popped
  BY <1>5 DEF Popped, disk, index, queue, oper, counters, history
<1>6. CASE PeekOnly
  BY <1>6 DEF PeekOnly, disk, index, queue, oper, counters, history
<1>7. CASE CallbackErr
  BY <1>7 DEF CallbackErr, Return, disk, index, queue, oper, counters, history
<1>8. CASE Reap
  BY <1>8 DEF Reap, DropBucket, Forget, Return, disk, index, queue, oper, counters, history
<1> QED BY <1>1, <1>2, <1>3, <1>4, <1>5, <1>6, <1>7, <1>8

LEMMA ForksNotCopying ==
    ASSUME OpenInv, Program,
           Delete \/ DeleteBegin \/ Deleted \/ Clear \/ ForkListed \/ Forked \/ RemoveFork
    PROVE  ~Doing("rewritten")' /\ ~Doing("forked")' /\ ~(pc' = "journal" /\ then' = "popped")
<1> USE DEF OpenInv, Control, Program, Doing
<1>1. CASE Delete
  BY <1>1 DEF Delete, WhenOpen, NoCall, disk, index, queue, oper, counters, history
<1>2. CASE DeleteBegin
  BY <1>2 DEF DeleteBegin, Write, disk, index, queue, oper, counters, history
<1>3. CASE Deleted
  BY <1>3 DEF Deleted, disk, index, queue, oper, counters, history
<1>4. CASE Clear
  BY <1>4 DEF Clear, DropBucket, Forget, Return, disk, index, queue, oper, counters, history
<1>5. CASE ForkListed
  BY <1>5 DEF ForkListed, ForkMade, disk, index, queue, oper, counters, history
<1>6. CASE Forked
  BY <1>6 DEF Forked, ForkMade, Return, disk, index, queue, oper, counters, history
<1>7. CASE RemoveFork
  BY <1>7 DEF RemoveFork, RmIndexLog, DropBucket, Forget, Return, disk, index, queue, oper, counters, history
<1> QED BY <1>1, <1>2, <1>3, <1>4, <1>5, <1>6, <1>7

LEMMA FailNotCopying ==
  ASSUME OpenInv, Program, FailWrite
  PROVE  ~Doing("rewritten")' /\ ~Doing("forked")' /\ ~(pc' = "journal" /\ then' = "popped")
BY DEF FailWrite, PushOver, OpenFails, Return, Doing, OpenInv, Control

LEMMA CopiesStep ==
  ASSUME Base, Owned, Copies, PopsBoth, [Next]_vars
  PROVE  Copies' /\ PopsBoth'
<1>0. /\ mem \in [Consumers -> Seq(Location)] /\ file \in [Consumers -> Seq(Location)]
      /\ cur \in Consumers /\ call.who \in Consumers /\ rd.iters \in Seq(Iter)
      /\ forks \subseteq Consumers /\ Forks \subseteq Consumers /\ Main \in Consumers
      /\ OpenInv /\ Program /\ OnDisk /\ todo \in Seq(Edit) /\ Main \notin Forks
  BY BaseTypes DEF Base
<1>1. CASE UNCHANGED vars
  <2>1. UNCHANGED <<file, mem, tree, pc, then, cur, call, todo, known>>
    BY <1>1 DEF vars, disk, index, queue, oper, history
  <2>3. Copies'
    <3>1. (Doing("rewritten")' <=> Doing("rewritten")) /\ (Doing("forked")' <=> Doing("forked"))
          /\ (OkForks' <=> OkForks)
      BY <2>1 DEF Doing, OkForks
    <3>2. (Copied(mem[cur])' <=> Copied(mem[cur])) /\ (Copied(mem[call.who])' <=> Copied(mem[call.who]))
      BY <2>1 DEF Copied
    <3> QED BY <2>1, <3>1, <3>2 DEF Copies
  <2> QED BY <2>1, <2>3 DEF PopsBoth
<1>2. CASE Rewrite
  <2>1. /\ file' = [file EXCEPT ![cur] = <<>>] /\ todo' = EditsOf({"log"}, cur, mem[cur])
        /\ then' = "rewritten" /\ pc' = "journal" /\ cur' = cur /\ mem' = mem
    BY <1>2 DEF Rewrite, Write, index
  <2>2. PICK src \in Seq(Location) : src = mem[cur]
    BY <1>0
  <2>3. file'[cur'] = <<>>
    BY <1>0, <2>1
  <2>4. Copied(src)'
    BY <2>1, <2>2, <2>3, CopyBegins
  <2>5. Copied(mem[cur])'
    BY <2>1, <2>2, <2>4
  <2> QED BY <2>1, <2>5 DEF Copies, PopsBoth, Doing
<1>3. CASE Fork
  <2>1. PICK src \in forks \cup {Main}, dst \in Forks \ forks :
            /\ call' = [NoCall EXCEPT !.who = src] /\ cur' = dst
            /\ \/ tree = "open" /\ Write(EditsOf({"log"}, dst, mem[src]), "forked")
               \/ tree = "nil" /\ then' = "forked" /\ pc' = "journal"
    BY <1>3 DEF Fork, Write
  <2>2. /\ UNCHANGED <<mem, file, tree, known>> /\ pc = "idle" /\ call'.who = src /\ then' = "forked" /\ pc' = "journal"
        /\ dst \in Consumers /\ src \in Consumers
    BY <1>0, <1>3, <2>1 DEF Fork, Write, index, queue, history, NoCall
  <2>3. ASSUME OkForks', tree' = "open" PROVE Copied(mem[call.who])'
    <3>1. OkForks /\ tree = "open"
      BY <2>2, <2>3 DEF OkForks
    <3>2. dst \notin exist
      BY <1>0, <2>1, <2>2, <3>1 DEF Owned, Forking
    <3>3. file'[cur'] = <<>>
      BY <1>0, <2>1, <2>2, <3>2 DEF OnDisk
    <3>4. PICK s \in Seq(Location) : s = mem[src]
      BY <1>0, <2>2
    <3>5. todo' = EditsOf({"log"}, cur', s)
      BY <2>1, <3>1, <3>4 DEF Write
    <3>6. Copied(s)'
      BY <3>3, <3>5, CopyBegins
    <3> QED BY <2>2, <3>4, <3>6
  <2> QED BY <2>2, <2>3 DEF Copies, PopsBoth, Doing
<1>4. CASE Pop
  <2>1. todo' = PopEdits(call.who, rd.iters) /\ then' = "popped" /\ pc' = "journal"
    BY <1>4 DEF Pop, Write
  <2>2. PICK h \in Seq(Iter) : h = rd.iters
    BY <1>0
  <2>3. ASSUME NEW j \in DOMAIN todo' PROVE todo'[j].on \in {Both, {}}
    <3>1. Len(h) \in Nat /\ j \in 1 .. 2 * Len(h)
      BY <2>1, <2>2, PopEditsAt
    <3>2. PICK k \in 1 .. Len(h) : j = 2 * k - 1 \/ j = 2 * k
      BY <3>1, PairAt
    <3>3. CASE j = 2 * k - 1
      <4>1. todo'[j] = EditOf(IF h[k].exh THEN {} ELSE Both, call.who, CurrentLocation(h[k]))
        BY <2>1, <2>2, <3>2, <3>3, PopEditsAt
      <4> QED BY <4>1, EditOfIs
    <3>4. CASE j = 2 * k
      <4>1. todo'[j] = EditOf(Both, call.who, DeadLoc(h[k].first))
        BY <2>1, <2>2, <3>2, <3>4, PopEditsAt
      <4> QED BY <4>1, EditOfIs
    <3> QED BY <3>2, <3>3, <3>4
  <2> QED BY <2>1, <2>3 DEF Copies, PopsBoth, Doing
<1>5. CASE Journal
  <2>1. /\ pc = "journal" /\ UNCHANGED <<tree, pc, then, cur, call, known>> /\ todo' = Tail(todo) /\ todo # <<>>
    BY <1>5 DEF Journal, queue, history
  <2>2. PopsBoth'
    <3>1. \A j \in DOMAIN todo' : j + 1 \in DOMAIN todo /\ todo'[j] = todo[j + 1]
      BY <1>0, <2>1, TailAt
    <3> QED BY <2>1, <3>1 DEF PopsBoth
  <2>3. ASSUME then \in {"rewritten", "forked"}, NEW c \in Consumers, Copied(mem[c])
        PROVE  Copied(mem[c])'
    <3>1. PICK src \in Seq(Location) : src = mem[c]
      BY <1>0
    <3>2. "mem" \notin Head(todo).on
      BY <1>5, <2>1, <2>3, EditAt DEF Base, Targets
    <3>3. mem' = mem
      BY <1>5, <3>2 DEF Journal, EditMem
    <3>4. Copied(src)'
      BY <1>5, <2>3, <3>1, CopyStep
    <3> QED BY <3>1, <3>3, <3>4
  <2>4. Copies'
    <3>1. Doing("rewritten")' => Copied(mem[cur])'
      BY <1>0, <2>1, <2>3 DEF Copies, Doing
    <3>2. Doing("forked")' /\ OkForks' /\ tree' = "open" => Copied(mem[call.who])'
      BY <1>0, <2>1, <2>3 DEF Copies, Doing, OkForks
    <3> QED BY <2>1, <3>1, <3>2 DEF Copies
  <2> QED BY <2>2, <2>4
<1>6. CASE JournalEnd
  <2>1. UNCHANGED <<file, mem, tree, then, cur, call, todo, known>> /\ pc = "journal" /\ pc' = then
    BY <1>6 DEF JournalEnd, disk, index, queue, oper, history
  <2> QED BY <1>0, <2>1, ZenonT(40) DEF Copies, Copied, PopsBoth, Doing, OkForks, OpenInv, Control
<1>7. CASE ~Doing("rewritten")' /\ ~Doing("forked")' /\ ~(pc' = "journal" /\ then' = "popped")
  BY <1>7 DEF Copies, PopsBoth
<1> QED BY <1>0, <1>1, <1>2, <1>3, <1>4, <1>5, <1>6, <1>7, FailNotCopying, QueueNotCopying,
           OpeningNotCopying, RemovingNotCopying, JournalNotCopying, PushNotCopying,
           ReadNotCopying, ForksNotCopying DEF Next, Step, Environment

-----------------------------------------------------------------------------
(* The index logs agree with the indexes in memory.                        *)

Deleting == pc = "journal" /\ then = "deleted"

\* What c has in memory is what its log gives; in the middle of a Delete it
\* will be.
Agrees(c) ==
    IF Deleting /\ c = call.who THEN Meet(mem[c], Replay(file[c]), todo)
    ELSE Replay(file[c]) = mem[c]

Agree == fails = 0 => \A c \in loaded : c = Main \/ OkForks => Agrees(c)

LEMMA InitAgree == Init => Agree
BY DEF Init, Agree

\* A step that concerns neither the indexes of the open bucket nor their logs.
Quiet ==
    \/ loaded' = {}
    \/ /\ \A c \in loaded' : c \in loaded /\ file'[c] = file[c] /\ mem'[c] = mem[c]
       /\ ~Deleting /\ ~Deleting'

LEMMA QueueQuiet ==
    ASSUME OpenInv, Program, InMemory, Main \in Consumers, forks \subseteq Consumers, loaded \subseteq Consumers,
           file \in [Consumers -> Seq(Location)], mem \in [Consumers -> Seq(Location)], cur \in Consumers,
           Start \/ Close \/ Crash \/ CloseUnused
    PROVE  Quiet
<1> USE DEF OpenInv, Control, Indexes, Loading, LoadingOne, Program, InMemory, Quiet, Deleting, ForksOpen
<1>1. CASE Start
  BY <1>1 DEF Start, disk, index, queue, oper, counters, history
<1>2. CASE Close
  BY <1>2 DEF Close, Stop, Forget, Return, disk, index, queue, oper, counters, history
<1>3. CASE Crash
  BY <1>3 DEF Crash, Stop, Forget, Return, disk, index, queue, oper, counters, history
<1>4. CASE CloseUnused
  BY <1>4 DEF CloseUnused, Forget, disk, index, queue, oper, counters, history
<1> QED BY <1>1, <1>2, <1>3, <1>4

LEMMA OpeningQuiet ==
    ASSUME OpenInv, Program, InMemory, Main \in Consumers, forks \subseteq Consumers, loaded \subseteq Consumers,
           file \in [Consumers -> Seq(Location)], mem \in [Consumers -> Seq(Location)], cur \in Consumers,
           Open \/ LoadIndex \/ Recover \/ Rewrite \/ Reinit \/ Opened
    PROVE  Quiet
<1> USE DEF OpenInv, Control, Indexes, Loading, LoadingOne, Program, InMemory, Quiet, Deleting, ForksOpen
<1>1. CASE Open
  BY <1>1 DEF Open, disk, index, queue, oper, counters, history
<1>2. CASE LoadIndex
  BY <1>2 DEF LoadIndex, ToLoad, Write, disk, index, queue, oper, counters, history
<1>3. CASE Recover
  BY <1>3 DEF Recover, Write, disk, index, queue, oper, counters, history
<1>4. CASE Rewrite
  BY <1>4 DEF Rewrite, Write, disk, index, queue, oper, counters, history
<1>5. CASE Reinit
  BY <1>5 DEF Reinit, Forget, disk, index, queue, oper, counters, history
<1>6. CASE Opened
  BY <1>6 DEF Opened, ToLoad, FetchedForks, disk, index, queue, oper, counters, history
<1> QED BY <1>1, <1>2, <1>3, <1>4, <1>5, <1>6

LEMMA RemovingQuiet ==
    ASSUME OpenInv, Program, InMemory, Main \in Consumers, forks \subseteq Consumers, loaded \subseteq Consumers,
           file \in [Consumers -> Seq(Location)], mem \in [Consumers -> Seq(Location)], cur \in Consumers,
           RmIndex \/ RmDat \/ RmMain \/ RmDir \/ RmDirFails
    PROVE  Quiet
<1> USE DEF OpenInv, Control, Indexes, Loading, LoadingOne, Program, InMemory, Quiet, Deleting, ForksOpen
<1>1. CASE RmIndex
  BY <1>1 DEF RmIndex, Named, RmIndexLog, disk, index, queue, oper, counters, history
<1>2. CASE RmDat
  BY <1>2 DEF RmDat, Named, disk, index, queue, oper, counters, history
<1>3. CASE RmMain
  BY <1>3 DEF RmMain, RmIndexLog, disk, index, queue, oper, counters, history
<1>4. CASE RmDir
  BY <1>4 DEF RmDir, Return, disk, index, queue, oper, counters, history
<1>5. CASE RmDirFails
  BY <1>5 DEF RmDirFails, OpenFails, Forget, Return, disk, index, queue, oper, counters, history
<1> QED BY <1>1, <1>2, <1>3, <1>4, <1>5

LEMMA JournalQuiet ==
    ASSUME OpenInv, Program, InMemory, Main \in Consumers, forks \subseteq Consumers, loaded \subseteq Consumers,
           file \in [Consumers -> Seq(Location)], mem \in [Consumers -> Seq(Location)], cur \in Consumers,
           Failed
    PROVE  Quiet
<1> USE DEF OpenInv, Control, Indexes, Loading, LoadingOne, Program, InMemory, Quiet, Deleting, ForksOpen
<1>1. CASE Failed
  BY <1>1 DEF Failed, Return, disk, index, queue, oper, counters, history
<1> QED BY <1>1

LEMMA PushQuiet ==
    ASSUME OpenInv, Program, InMemory, Main \in Consumers, forks \subseteq Consumers, loaded \subseteq Consumers,
           file \in [Consumers -> Seq(Location)], mem \in [Consumers -> Seq(Location)], cur \in Consumers,
           Push \/ TxPush \/ WriteItem \/ PushIndex \/ PushDone
    PROVE  Quiet
<1> USE DEF OpenInv, Control, Indexes, Loading, LoadingOne, Program, InMemory, Quiet, Deleting, ForksOpen
<1>1. CASE Push
  BY <1>1 DEF Push, Given, WhenOpen, disk, index, queue, oper, counters, history
<1>2. CASE TxPush
  BY <1>2 DEF TxPush, Given, disk, index, queue, oper, counters, history
<1>3. CASE WriteItem
  BY <1>3 DEF WriteItem, disk, index, queue, oper, counters, history
<1>4. CASE PushIndex
  BY <1>4 DEF PushIndex, Write, disk, index, queue, oper, counters, history
<1>5. CASE PushDone
  BY <1>5 DEF PushDone, PushOver, disk, index, queue, oper, counters, history
<1> QED BY <1>1, <1>2, <1>3, <1>4, <1>5

LEMMA ReadQuiet ==
    ASSUME OpenInv, Program, InMemory, Main \in Consumers, forks \subseteq Consumers, loaded \subseteq Consumers,
           file \in [Consumers -> Seq(Location)], mem \in [Consumers -> Seq(Location)], cur \in Consumers,
           Read \/ ReadFirst \/ ReadNext \/ ReadServe \/ Pop \/ Popped \/ PeekOnly \/ CallbackErr \/ Reap
    PROVE  Quiet
<1> USE DEF OpenInv, Control, Indexes, Loading, LoadingOne, Program, InMemory, Quiet, Deleting, ForksOpen
<1>1. CASE Read
  BY <1>1 DEF Read, WhenOpen, NoCall, disk, index, queue, oper, counters, history
<1>2. CASE ReadFirst
  BY <1>2 DEF ReadFirst, disk, index, queue, oper, counters, history
<1>3. CASE ReadNext
  BY <1>3 DEF ReadNext, disk, index, queue, oper, counters, history
<1>4. CASE ReadServe
  BY <1>4 DEF ReadServe, disk, index, queue, oper, counters, history
<1>5. CASE Pop
  BY <1>5 DEF Pop, Write, disk, index, queue, oper, counters, history
<1>6. CASE Popped
  BY <1>6 DEF Popped, disk, index, queue, oper, counters, history
<1>7. CASE PeekOnly
  BY <1>7 DEF PeekOnly, disk, index, queue, oper, counters, history
<1>8. CASE CallbackErr
  BY <1>8 DEF CallbackErr, Return, disk, index, queue, oper, counters, history
<1>9. CASE Reap
  BY <1>9 DEF Reap, DropBucket, Forget, Return, disk, index, queue, oper, counters, history
<1> QED BY <1>1, <1>2, <1>3, <1>4, <1>5, <1>6, <1>7, <1>8, <1>9

LEMMA ForksQuiet ==
    ASSUME OpenInv, Program, InMemory, Main \in Consumers, forks \subseteq Consumers, loaded \subseteq Consumers,
           file \in [Consumers -> Seq(Location)], mem \in [Consumers -> Seq(Location)], cur \in Consumers,
           Delete \/ Deleted \/ Clear \/ ForkListed \/ Fork \/ RemoveFork
    PROVE  Quiet
<1> USE DEF OpenInv, Control, Indexes, Loading, LoadingOne, Program, InMemory, Quiet, Deleting, ForksOpen
<1>1. CASE Delete
  BY <1>1 DEF Delete, WhenOpen, NoCall, disk, index, queue, oper, counters, history
<1>2. CASE Deleted
  BY <1>2 DEF Deleted, disk, index, queue, oper, counters, history
<1>3. CASE Clear
  BY <1>3 DEF Clear, DropBucket, Forget, Return, disk, index, queue, oper, counters, history
<1>4. CASE ForkListed
  BY <1>4 DEF ForkListed, ForkMade, disk, index, queue, oper, counters, history
<1>5. CASE Fork
  BY <1>5 DEF Fork, Write, NoCall, disk, index, queue, oper, counters, history
<1>6. CASE RemoveFork
  BY <1>6 DEF RemoveFork, RmIndexLog, DropBucket, Forget, Return, disk, index, queue, oper, counters, history
<1> QED BY <1>1, <1>2, <1>3, <1>4, <1>5, <1>6

LEMMA QuietAgrees ==
  ASSUME Next, Agree, Quiet, fails' = fails
  PROVE  Agree'
<1> SUFFICES ASSUME fails = 0, NEW c \in loaded', (c = Main \/ OkForks)' PROVE Agrees(c)'
  BY DEF Agree
<1>1. c \in loaded /\ file'[c] = file[c] /\ mem'[c] = mem[c] /\ ~Deleting /\ ~Deleting'
  BY DEF Quiet
<1>2. c = Main \/ OkForks
  BY ValuesStep DEF OkForks
<1> QED BY <1>1, <1>2 DEF Agree, Agrees

\* An index more.
LEMMA OneMoreAgrees ==
  ASSUME Next, Agree, NEW d, loaded' = loaded \cup {d}, fails' = fails, ~Deleting, ~Deleting',
         \A c \in loaded : c # d => file'[c] = file[c] /\ mem'[c] = mem[c],
         fails = 0 /\ (d = Main \/ OkForks)' => Replay(file'[d]) = mem'[d]
  PROVE  Agree'
<1> SUFFICES ASSUME fails = 0, NEW c \in loaded', (c = Main \/ OkForks)' PROVE Agrees(c)'
  BY DEF Agree
<1>1. CASE c = d
  BY <1>1 DEF Agrees
<1>2. CASE c # d
  <2>1. c \in loaded /\ file'[c] = file[c] /\ mem'[c] = mem[c]
    BY <1>2
  <2>2. c = Main \/ OkForks
    BY ValuesStep DEF OkForks
  <2> QED BY <2>1, <2>2 DEF Agree, Agrees
<1> QED BY <1>1, <1>2

LEMMA ReadyAgrees ==
  ASSUME Ground, Copies, Agree, Loaded \/ Rewritten \/ Forked, Next
  PROVE  Agree'
<1>0. /\ mem \in [Consumers -> Seq(Location)] /\ file \in [Consumers -> Seq(Location)]
      /\ cur \in Consumers /\ call.who \in Consumers /\ Base /\ OpenInv /\ Program /\ LoadProgress
      /\ AllTidy /\ loaded \subseteq Consumers
  BY BaseTypes DEF Ground, Base
<1>1. CASE Loaded
  <2>1. /\ pc = "loaded" /\ UNCHANGED <<file, mem, fails>> /\ loaded' = loaded \cup {cur} /\ pc' = "openNext"
    BY <1>1 DEF Loaded, disk, counters
  <2>2. Replay(file[cur]) = mem[cur]
    BY <1>0, <2>1, LoadedAll
  <2>3. ~Deleting /\ ~Deleting' /\ Replay(file'[cur]) = mem'[cur]
    BY <2>1, <2>2 DEF Deleting
  <2> QED BY <2>1, <2>3, OneMoreAgrees
<1>2. CASE Rewritten
  <2>1. /\ pc = "rewritten" /\ UNCHANGED <<file, mem, fails>> /\ loaded' = loaded \cup {cur} /\ pc' = "openNext"
    BY <1>2 DEF Rewritten, disk, counters
  <2>2. Replay(file[cur]) = mem[cur]
    <3>1. Copied(mem[cur]) /\ todo = <<>>
      BY <1>0, <2>1 DEF Copies, Doing, Program
    <3>2. file[cur] = mem[cur]
      BY <1>0, <3>1, CopiedAll
    <3> QED BY <1>0, <3>2, ReplayCopy DEF AllTidy
  <2>3. ~Deleting /\ ~Deleting' /\ Replay(file'[cur]) = mem'[cur]
    BY <2>1, <2>2 DEF Deleting
  <2> QED BY <2>1, <2>3, OneMoreAgrees
<1>3. CASE Forked /\ tree # "open"
  <2>1. loaded' = {}
    <3>1. pc = "forked" /\ loaded' = loaded
      BY <1>3 DEF Forked
    <3> QED BY <1>0, <1>3, <3>1 DEF OpenInv, Indexes, Loading
  <2> QED BY <2>1 DEF Agree
<1>4. CASE Forked /\ tree = "open"
  <2>1. /\ pc = "forked" /\ UNCHANGED <<file, fails>> /\ loaded' = loaded \cup {cur} /\ pc' = "idle"
        /\ mem' = [mem EXCEPT ![cur] = mem[call.who]]
    BY <1>4 DEF Forked, Return, disk, counters
  <2>2. cur # Main
    BY <1>0, <2>1, BaseTypes DEF OpenInv, Indexes, Forking
  <2>3. ASSUME OkForks' PROVE Replay(file'[cur]) = mem'[cur]
    <3>1. OkForks
      BY <2>3, ValuesStep DEF OkForks
    <3>2. Copied(mem[call.who]) /\ todo = <<>>
      BY <1>0, <1>4, <2>1, <3>1 DEF Copies, Doing, Program
    <3>3. file[cur] = mem[call.who]
      BY <1>0, <3>2, CopiedAll
    <3>4. Replay(mem[call.who]) = mem[call.who]
      BY <1>0, ReplayCopy DEF AllTidy
    <3> QED BY <1>0, <2>1, <3>3, <3>4
  <2>4. ~Deleting /\ ~Deleting' /\ \A c \in loaded : c # cur => file'[c] = file[c] /\ mem'[c] = mem[c]
    BY <1>0, <2>1 DEF Deleting
  <2> QED BY <2>1, <2>2, <2>3, <2>4, OneMoreAgrees
<1> QED BY <1>1, <1>2, <1>3, <1>4

LEMMA DeleteAgrees ==
  ASSUME Base, Agree, DeleteBegin, Next
  PROVE  Agree'
<1> SUFFICES ASSUME fails = 0, NEW c \in loaded, (c = Main \/ OkForks)' PROVE Agrees(c)'
  BY DEF Agree, DeleteBegin, index, counters
<1>1. /\ UNCHANGED <<mem, file, call>> /\ todo' = DeleteEdits(call.who, call.lo, call.hi) /\ pc = "delete"
      /\ then' = "deleted" /\ pc' = "journal"
  BY DEF DeleteBegin, Write, disk, index
<1>2. c = Main \/ OkForks
  BY ValuesStep DEF OkForks
<1>3. Replay(file[c]) = mem[c]
  BY <1>1, <1>2 DEF Agree, Agrees, Deleting
<1>4. CASE c # call.who
  BY <1>1, <1>3, <1>4 DEF Agrees
<1>5. CASE c = call.who
  <2>1. PICK who \in Consumers, lo \in Nat, hi \in Nat : who = call.who /\ lo = call.lo /\ hi = call.hi
    BY BaseTypes
  <2>2. Meet(mem[who], mem[who], DeleteEdits(who, lo, hi))
    BY DeleteMeets
  <2>3. Meet(mem'[c], Replay(file'[c]), todo')
    BY <1>1, <1>3, <1>5, <2>1, <2>2
  <2> QED BY <1>1, <1>5, <2>3 DEF Agrees, Deleting
<1> QED BY <1>4, <1>5

LEMMA JournalAgrees ==
  ASSUME Base, PopsBoth, Agree, Journal, Next
  PROVE  Agree'
<1>0. /\ mem \in [Consumers -> Seq(Location)] /\ file \in [Consumers -> Seq(Location)]
      /\ loaded \subseteq Consumers /\ todo \in Seq(Edit) /\ OpenInv /\ Program /\ InMemory /\ Targets
      /\ Main \notin Forks
  BY BaseTypes DEF Base
<1>1. PICK e : e = Head(todo)
  OBVIOUS
<1>2. /\ pc = "journal" /\ e = todo[1] /\ 1 \in DOMAIN todo /\ e.to \in Consumers /\ e.loc \in Location
      /\ e.on \subseteq Both /\ todo # <<>>
  BY <1>1, EditAt
<1>3. /\ EditMem(e) /\ UNCHANGED <<pc, then, call, fails, known>> /\ todo' = Tail(todo)
      /\ file' = IF "log" \in e.on THEN [file EXCEPT ![e.to] = Append(@, e.loc)] ELSE file
  BY <1>1 DEF Journal, counters, history
<1>4. /\ mem' = IF "mem" \in e.on THEN [mem EXCEPT ![e.to] = IndexApply(@, e.loc)] ELSE mem
      /\ loaded' = loaded
  BY <1>3 DEF EditMem
<1> SUFFICES ASSUME fails = 0, NEW c \in loaded, c = Main \/ OkForks PROVE Agrees(c)'
  BY <1>3, <1>4 DEF Agree, OkForks
<1>5. c \in Consumers /\ Agrees(c) /\ (Deleting' <=> Deleting)
  BY <1>0, <1>3 DEF Agree, Deleting
<1>6. CASE c # e.to
  <2>1. mem'[c] = mem[c] /\ file'[c] = file[c]
    BY <1>0, <1>2, <1>3, <1>4, <1>5, <1>6
  <2>2. ~(Deleting /\ c = call.who)
    BY <1>0, <1>2, <1>6 DEF Targets, Deleting
  <2> QED BY <1>3, <1>5, <2>1, <2>2 DEF Agrees
<1>7. CASE c = e.to
  <2>1. PICK X \in Seq(Location), f \in Seq(Location) : X = mem[c] /\ f = file[c]
    BY <1>0, <1>5
  <2>2. mem'[c] = Do(X, e, "mem")
    BY <1>0, <1>2, <1>4, <1>7, <2>1 DEF Do
  <2>3. Replay(file'[c]) = Do(Replay(f), e, "log")
    <3>1. CASE "log" \in e.on
      <4>1. file'[c] = Append(f, e.loc)
        BY <1>0, <1>2, <1>3, <1>7, <2>1, <3>1
      <4>2. Replay(Append(f, e.loc)) = IndexApply(Replay(f), e.loc)
        BY <1>2, ReplaySteps
      <4> QED BY <3>1, <4>1, <4>2 DEF Do
    <3>2. CASE "log" \notin e.on
      BY <1>3, <2>1, <3>2 DEF Do
    <3> QED BY <3>1, <3>2
  <2>4. CASE Deleting
    <3>1. c = call.who
      BY <1>0, <1>2, <1>7, <2>4 DEF Targets, Deleting
    <3>2. Meet(X, Replay(f), todo)
      BY <1>5, <2>1, <2>4, <3>1 DEF Agrees
    <3>3. Meet(Do(X, e, "mem"), Do(Replay(f), e, "log"), Tail(todo))
      BY <1>0, <1>2, <3>2, MeetStep
    <3> QED BY <1>3, <1>5, <2>2, <2>3, <2>4, <3>1, <3>3 DEF Agrees
  <2>5. CASE ~Deleting
    <3>1. X = Replay(f)
      BY <1>5, <2>1, <2>5 DEF Agrees
    <3>2. e.on \in {Both, {}}
      <4>1. then # "failed"
        BY <1>0 DEF Program
      <4>2. then \notin {"loaded", "regenerated", "rewritten"}
        BY <1>0, <1>2, <1>7 DEF Targets, InMemory, LoadingOne, Loading
      <4>3. then # "forked"
        <5> SUFFICES ASSUME then = "forked" PROVE FALSE
          OBVIOUS
        <5>1. Forking /\ c = cur /\ ~Loading
          BY <1>0, <1>2, <1>7 DEF Targets, Forking, Loading
        <5>2. cur \in Forks /\ cur \notin forks /\ c \in forks \cup {Main}
          BY <1>0, <5>1 DEF Program, OpenInv, Indexes
        <5> QED BY <1>0, <5>1, <5>2
      <4>4. then \in {"pushed", "popped"}
        BY <1>0, <1>2, <2>5, <4>1, <4>2, <4>3 DEF OpenInv, Control, Deleting
      <4>5. CASE then = "pushed"
        BY <1>0, <1>2, <4>5 DEF Targets
      <4>6. CASE then = "popped"
        BY <1>2, <4>6 DEF PopsBoth
      <4> QED BY <4>4, <4>5, <4>6
    <3>3. Do(X, e, "mem") = Do(X, e, "log")
      BY <3>2 DEF Do, Both
    <3> QED BY <1>5, <2>2, <2>3, <2>5, <3>1, <3>3 DEF Agrees
  <2> QED BY <2>4, <2>5
<1> QED BY <1>6, <1>7

LEMMA JournalEndAgrees ==
  ASSUME OpenInv, Agree, JournalEnd
  PROVE  Agree'
<1>1. /\ pc = "journal" /\ todo = <<>> /\ pc' = then /\ pc' # "journal"
      /\ UNCHANGED <<mem, file, loaded, call, known, fails>>
  BY DEF JournalEnd, disk, index, oper, history, counters, OpenInv, Control
<1> SUFFICES ASSUME fails = 0, NEW c \in loaded, c = Main \/ OkForks PROVE Agrees(c)'
  BY <1>1 DEF Agree, OkForks
<1>2. Agrees(c) /\ ~Deleting'
  BY <1>1 DEF Agree, Deleting
<1>3. Replay(file[c]) = mem[c]
  BY <1>1, <1>2, MeetEnd DEF Agrees
<1> QED BY <1>1, <1>2, <1>3 DEF Agrees

LEMMA QueueSameFails ==
    ASSUME Start \/ Close \/ Crash \/ CloseUnused
    PROVE  fails' = fails
<1> USE DEF counters
<1>1. CASE Start
  BY <1>1 DEF Start, disk, index, queue, oper, history
<1>2. CASE Close
  BY <1>2 DEF Close, Stop, Forget, Return, disk, index, queue, oper, history
<1>3. CASE Crash
  BY <1>3 DEF Crash, Stop, Forget, Return, disk, index, queue, oper, history
<1>4. CASE CloseUnused
  BY <1>4 DEF CloseUnused, Forget, disk, index, queue, oper, history
<1> QED BY <1>1, <1>2, <1>3, <1>4

LEMMA OpeningSameFails ==
    ASSUME Open \/ LoadIndex \/ Loaded \/ Recover \/ Rewrite \/ Rewritten \/ Reinit \/ Opened
    PROVE  fails' = fails
<1> USE DEF counters
<1>1. CASE Open
  BY <1>1 DEF Open, disk, index, queue, oper, history
<1>2. CASE LoadIndex
  BY <1>2 DEF LoadIndex, ToLoad, Write, disk, index, queue, oper, history
<1>3. CASE Loaded
  BY <1>3 DEF Loaded, disk, index, queue, oper, history
<1>4. CASE Recover
  BY <1>4 DEF Recover, Write, disk, index, queue, oper, history
<1>5. CASE Rewrite
  BY <1>5 DEF Rewrite, Write, disk, index, queue, oper, history
<1>6. CASE Rewritten
  BY <1>6 DEF Rewritten, disk, index, queue, oper, history
<1>7. CASE Reinit
  BY <1>7 DEF Reinit, Forget, disk, index, queue, oper, history
<1>8. CASE Opened
  BY <1>8 DEF Opened, ToLoad, FetchedForks, disk, index, queue, oper, history
<1> QED BY <1>1, <1>2, <1>3, <1>4, <1>5, <1>6, <1>7, <1>8

LEMMA RemovingSameFails ==
    ASSUME RmIndex \/ RmDat \/ RmMain \/ RmDir \/ RmDirFails
    PROVE  fails' = fails
<1> USE DEF counters
<1>1. CASE RmIndex
  BY <1>1 DEF RmIndex, Named, RmIndexLog, disk, index, queue, oper, history
<1>2. CASE RmDat
  BY <1>2 DEF RmDat, Named, disk, index, queue, oper, history
<1>3. CASE RmMain
  BY <1>3 DEF RmMain, RmIndexLog, disk, index, queue, oper, history
<1>4. CASE RmDir
  BY <1>4 DEF RmDir, Return, disk, index, queue, oper, history
<1>5. CASE RmDirFails
  BY <1>5 DEF RmDirFails, OpenFails, Forget, Return, disk, index, queue, oper, history
<1> QED BY <1>1, <1>2, <1>3, <1>4, <1>5

LEMMA JournalSameFails ==
    ASSUME Journal \/ JournalEnd \/ Failed
    PROVE  fails' = fails
<1> USE DEF counters
<1>1. CASE Journal
  BY <1>1 DEF Journal, EditMem, disk, index, queue, oper, history
<1>2. CASE JournalEnd
  BY <1>2 DEF JournalEnd, disk, index, queue, oper, history
<1>3. CASE Failed
  BY <1>3 DEF Failed, Return, disk, index, queue, oper, history
<1> QED BY <1>1, <1>2, <1>3

LEMMA PushSameFails ==
    ASSUME Push \/ TxPush \/ WriteItem \/ PushIndex \/ PushDone
    PROVE  fails' = fails
<1> USE DEF counters
<1>1. CASE Push
  BY <1>1 DEF Push, Given, WhenOpen, disk, index, queue, oper, history
<1>2. CASE TxPush
  BY <1>2 DEF TxPush, Given, disk, index, queue, oper, history
<1>3. CASE WriteItem
  BY <1>3 DEF WriteItem, disk, index, queue, oper, history
<1>4. CASE PushIndex
  BY <1>4 DEF PushIndex, Write, disk, index, queue, oper, history
<1>5. CASE PushDone
  BY <1>5 DEF PushDone, PushOver, disk, index, queue, oper, history
<1> QED BY <1>1, <1>2, <1>3, <1>4, <1>5

LEMMA ReadSameFails ==
    ASSUME Read \/ ReadFirst \/ ReadNext \/ ReadServe \/ Pop \/ Popped \/ PeekOnly \/ CallbackErr \/ Reap
    PROVE  fails' = fails
<1> USE DEF counters
<1>1. CASE Read
  BY <1>1 DEF Read, WhenOpen, NoCall, disk, index, queue, oper, history
<1>2. CASE ReadFirst
  BY <1>2 DEF ReadFirst, disk, index, queue, oper, history
<1>3. CASE ReadNext
  BY <1>3 DEF ReadNext, disk, index, queue, oper, history
<1>4. CASE ReadServe
  BY <1>4 DEF ReadServe, disk, index, queue, oper, history
<1>5. CASE Pop
  BY <1>5 DEF Pop, Write, disk, index, queue, oper, history
<1>6. CASE Popped
  BY <1>6 DEF Popped, disk, index, queue, oper, history
<1>7. CASE PeekOnly
  BY <1>7 DEF PeekOnly, disk, index, queue, oper, history
<1>8. CASE CallbackErr
  BY <1>8 DEF CallbackErr, Return, disk, index, queue, oper, history
<1>9. CASE Reap
  BY <1>9 DEF Reap, DropBucket, Forget, Return, disk, index, queue, oper, history
<1> QED BY <1>1, <1>2, <1>3, <1>4, <1>5, <1>6, <1>7, <1>8, <1>9

LEMMA ForksSameFails ==
    ASSUME Delete \/ DeleteBegin \/ Deleted \/ Clear \/ ForkListed \/ Fork \/ Forked \/ RemoveFork
    PROVE  fails' = fails
<1> USE DEF counters
<1>1. CASE Delete
  BY <1>1 DEF Delete, WhenOpen, NoCall, disk, index, queue, oper, history
<1>2. CASE DeleteBegin
  BY <1>2 DEF DeleteBegin, Write, disk, index, queue, oper, history
<1>3. CASE Deleted
  BY <1>3 DEF Deleted, disk, index, queue, oper, history
<1>4. CASE Clear
  BY <1>4 DEF Clear, DropBucket, Forget, Return, disk, index, queue, oper, history
<1>5. CASE ForkListed
  BY <1>5 DEF ForkListed, ForkMade, disk, index, queue, oper, history
<1>6. CASE Fork
  BY <1>6 DEF Fork, Write, NoCall, disk, index, queue, oper, history
<1>7. CASE Forked
  BY <1>7 DEF Forked, ForkMade, Return, disk, index, queue, oper, history
<1>8. CASE RemoveFork
  BY <1>8 DEF RemoveFork, RmIndexLog, DropBucket, Forget, Return, disk, index, queue, oper, history
<1> QED BY <1>1, <1>2, <1>3, <1>4, <1>5, <1>6, <1>7, <1>8

LEMMA AgreeStep ==
  ASSUME Ground, Copies, PopsBoth, Agree, [Next]_vars
  PROVE  Agree'
<1>0. /\ Base /\ OpenInv /\ Program /\ InMemory /\ Main \in Consumers /\ forks \subseteq Consumers
      /\ loaded \subseteq Consumers /\ file \in [Consumers -> Seq(Location)]
      /\ mem \in [Consumers -> Seq(Location)] /\ cur \in Consumers /\ fails \in Nat
  BY BaseTypes DEF Ground, Base
<1>1. CASE UNCHANGED vars
  <2>1. UNCHANGED <<file, mem, loaded, pc, then, call, todo, known, fails>>
    BY <1>1 DEF vars, disk, index, oper, history, counters
  <2> QED BY <2>1 DEF Agree, Agrees, Deleting, OkForks
<1>2. CASE FailWrite
  <2>1. fails' # 0
    BY <1>0, <1>2 DEF FailWrite
  <2> QED BY <2>1 DEF Agree
<1>3. CASE Next /\ Quiet /\ fails' = fails
  BY <1>3, QuietAgrees
<1>4. CASE Next /\ (Loaded \/ Rewritten \/ Forked)
  BY <1>4, ReadyAgrees
<1>5. CASE Next /\ DeleteBegin
  BY <1>0, <1>5, DeleteAgrees
<1>6. CASE Next /\ Journal
  BY <1>0, <1>6, JournalAgrees
<1>7. CASE Next /\ JournalEnd
  BY <1>0, <1>7, JournalEndAgrees
<1>8. CASE Next /\ ~FailWrite /\ ~(Loaded \/ Rewritten \/ Forked) /\ ~DeleteBegin /\ ~Journal /\ ~JournalEnd
  <2>1. fails' = fails
    BY <1>8, QueueSameFails, OpeningSameFails, RemovingSameFails, JournalSameFails,
       PushSameFails, ReadSameFails, ForksSameFails DEF Next, Step, Environment
  <2>2. Quiet
    BY <1>0, <1>8, QueueQuiet, OpeningQuiet, RemovingQuiet, JournalQuiet, PushQuiet, ReadQuiet,
       ForksQuiet DEF Next, Step, Environment
  <2> QED BY <1>3, <1>8, <2>1, <2>2
<1> QED BY <1>1, <1>2, <1>4, <1>5, <1>6, <1>7, <1>8

\* The index log of every consumer to whom nothing bad is known to have
\* happened gives, read from its beginning, what its index in memory has, as
\* long as no write has failed: after any mix of pushes, pops, deletions,
\* forks, removed forks, crashes and buckets that were closed, cleaned up and
\* opened again, although bucket.Delete makes its changes to the two in
\* different orders (index.Load, bucket.Delete, bucket.Fork).
THEOREM LogsAgree == Spec => []ReplayAgrees
<1>1. Init => Ground /\ Copies /\ PopsBoth /\ Agree
  BY InitBase, InitOwned, InitProgress, InitCopies, InitAgree DEF Ground
<1>2. Ground /\ Copies /\ PopsBoth /\ Agree /\ [Next]_vars => (Ground /\ Copies /\ PopsBoth /\ Agree)'
  BY GroundStep, CopiesStep, AgreeStep DEF Ground
<1>3. Ground /\ Copies /\ PopsBoth /\ Agree => ReplayAgrees
  <2> SUFFICES ASSUME Ground, Agree, Settled, tree = "open", fails = 0, NEW c \in Sound
               PROVE  Replay(file[c]) = mem[c]
    BY DEF ReplayAgrees
  <2>1. OpenInv /\ Owned /\ loaded = forks \cup {Main}
    BY DEF Ground, Base, OpenInv, Indexes, ForksOpen
  <2>2. pc = "idle"
    BY DEF Settled
  <2>3. c \in loaded /\ (c = Main \/ OkForks)
    <3>1. CASE c = Main
      BY <2>1, <3>1
    <3>2. CASE c # Main
      <4>1. c \in made /\ OkForks
        BY <3>2 DEF Sound, Trouble, OkForks
      <4> QED BY <2>1, <2>2, <4>1 DEF Owned
    <3> QED BY <3>1, <3>2
  <2>4. Agrees(c)
    BY <2>3 DEF Agree
  <2> QED BY <2>2, <2>4 DEF Agrees, Deleting
<1> QED BY <1>1, <1>2, <1>3, PTL DEF Spec

=============================================================================
