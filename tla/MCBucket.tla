------------------------------ MODULE MCBucket ------------------------------
(***************************************************************************)
(* Bucket with the batches, ranges and bounds of the cfg files.            *)
(***************************************************************************)
EXTENDS Bucket

CONSTANTS MCBatchLen   \* the longest batch that is pushed

MCBatches ==
    {b \in UNION {[1 .. l -> Keys] : l \in 1 .. MCBatchLen} :
        \A i \in 1 .. Len(b) - 1 : b[i] <= b[i + 1]}

MCSymmetry == Permutations(Forks)

MCNoRanges == {}

MCRanges == {r \in Keys \X Keys : r[1] <= r[2]}
=============================================================================
