------------------------------- MODULE Power -------------------------------
(***************************************************************************)
(* The queue with one bucket of Bucket, without forks, on a machine that   *)
(* may lose power.  What was written is in the page cache; it is certain   *)
(* to be on disk once it is synced.  The queue runs with SyncFull.         *)
(*                                                                         *)
(* As the README asks for, the file system is a journaling one: files are  *)
(* created and removed in order, and of the writes to one file that are    *)
(* not synced, a power failure leaves the first few.  A batch in dat.log   *)
(* that is cut short inside an item is the subject of Scan.                *)
(***************************************************************************)
EXTENDS Bucket

VARIABLES vsync,   \* how many items of dat.log are synced
          fsync,   \* how many records of the index logs are
          firm,    \* what a consumer had to get when its index log was synced
          loose    \* an index was regenerated from items that are not synced

power == <<vsync, fsync, firm, loose>>

-----------------------------------------------------------------------------

\* A step syncs the index logs of cs, and the value log if data; what is
\* removed is no longer synced either.
Syncs(cs, data) ==
    /\ vsync' = IF data THEN Len(vlog') ELSE Min({vsync, Len(vlog')})
    /\ fsync' = [c \in Consumers |->
                    IF c \in cs THEN Len(file'[c]) ELSE Min({fsync[c], Len(file'[c])})]
    /\ firm' = [c \in Consumers |-> IF c \in cs THEN must'[c] ELSE firm[c]]
    /\ loose' = (vsync' < Len(vlog') /\ (loose \/ pc = "regenerated"))

\* Variant of PushSyncs: vlog.Push does not sync.
PushSyncs_Not == PushIndex /\ Syncs({}, FALSE)

\* vlog.Push syncs the items before the indexes get their location.
PushSyncs == PushIndex /\ Syncs({}, TRUE)

\* Variant of JournalSyncs: popSync does not sync.
JournalSyncs_Not == JournalEnd /\ Syncs({}, FALSE)

\* popSync and Delete end by syncing the index log; bucket.Push and WriteIndex
\* do not.
JournalSyncs ==
    JournalEnd /\ Syncs(IF then \in {"popped", "deleted"} THEN {call.who} ELSE {}, FALSE)

\* Closing a bucket syncs its files, also when it is going to be removed.
CloseSyncs == Close /\ Syncs(loaded, TRUE)

DropSyncs ==
    (Reinit \/ Reap \/ Clear) /\ LET drop == pc' = "rmIdx" IN Syncs(IF drop THEN loaded ELSE {}, drop)

\* Queue.Sync
Sync ==
    /\ pc = "idle" /\ tree = "open" /\ UNCHANGED vars
    /\ Syncs(loaded, TRUE)

\* Everything else.
Unsynced ==
    /\ \/ Start \/ Crash \/ Open \/ LoadIndex \/ Loaded \/ Recover \/ Rewrite \/ Rewritten \/ Opened
       \/ RmIndex \/ RmDat \/ RmMain \/ RmDir \/ Journal
       \/ Push \/ TxPush \/ WriteItem \/ PushDone
       \/ Read \/ ReadFirst \/ ReadNext \/ ReadServe \/ Pop \/ Popped \/ PeekOnly \/ CallbackErr
       \/ Delete \/ DeleteBegin \/ Deleted
    /\ Syncs({}, FALSE)

\* The power fails.  What was pushed since the last sync of an index log may
\* be lost.
PowerLoss ==
    /\ stops < MaxStops /\ stops' = stops + 1
    /\ \E n \in vsync .. Len(vlog) : vlog' = SubSeq(vlog, 1, n)
    /\ \E n \in fsync[Main] .. Len(file[Main]) : file' = [file EXCEPT ![Main] = SubSeq(@, 1, n)]
    /\ must' = [c \in Consumers |-> must[c] \cap firm[c]]
    /\ may' = [c \in Consumers |-> may[c] \cup must[c]]
    /\ forks' = {} /\ tree' = "absent" /\ Forget /\ Return("down")
    /\ crashed' = TRUE
    /\ known' = known \cup Cut \cup (IF loose THEN {"unsyncedData"} ELSE {}) /\ loose' = FALSE
    /\ vsync' = Len(vlog') /\ fsync' = [c \in Consumers |-> Len(file'[c])]
    /\ UNCHANGED <<dir, dat, exist, nextId, closes, fails, made, firm>>

PowerInit ==
    /\ Init /\ vsync = 0 /\ fsync = [c \in Consumers |-> 0]
    /\ firm = [c \in Consumers |-> {}] /\ loose = FALSE

PowerNext ==
    PushSyncs \/ JournalSyncs \/ CloseSyncs \/ DropSyncs \/ Sync \/ Unsynced \/ PowerLoss

PowerSpec == PowerInit /\ [][PowerNext]_<<vars, power>>

-----------------------------------------------------------------------------

\* What an index log refers to is on disk before the index log can be: the
\* batches of any index that a power failure may leave are among the synced
\* items (vlog.Push, bucket.Push).  The exception is a regenerated index:
\* recoverIndexFromLog does not sync dat.log, which a crash of the process in
\* the middle of a Push leaves in the page cache only.
IndexAfterData ==
    dat /\ ~loose => \A c \in Sound : \A n \in fsync[c] .. Len(file[c]) :
        LET idx == Replay(SubSeq(file[c], 1, n))
        IN  \A i \in DOMAIN idx : BatchFits(SubSeq(vlog, 1, vsync), idx[i])
=============================================================================
