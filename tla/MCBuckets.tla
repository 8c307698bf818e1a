----------------------------- MODULE MCBuckets -----------------------------
(***************************************************************************)
(* Buckets with the batches, ranges and options of the cfg files.          *)
(***************************************************************************)
EXTENDS Buckets

CONSTANTS MCLimits   \* values of MaxParallelOpenBuckets

MCKeys == -1 .. 2

\* Buckets of two keys.
MCSplitConf == [kind |-> "shift", size |-> 1]

\* One item per bucket, two for one bucket, and two for the outer buckets in
\* the wrong order.
MCBatches == {<<-1>>, <<1>>, <<1, 0>>, <<2, -1>>}

MCRanges == {<<-1, 0>>, <<1, 2>>}

MCOptions == {[max |-> l, abort |-> l > 0] : l \in MCLimits}

MCNs == {2, All}
=============================================================================
