----------------------------- MODULE MCPeekLoop -----------------------------
(***************************************************************************)
(* PeekLoop on every log of MCLen items with keys of Keys, and every index *)
(* of at most MCBatches batches that covers it, or of none.                *)
(***************************************************************************)
EXTENDS PeekLoop

CONSTANTS MCLen, MCBatches

MCLogs == {[p \in 1 .. MCLen |-> [key |-> f[p], id |-> p]] : f \in [1 .. MCLen -> Keys]}

Places == {[key |-> k, off |-> o, len |-> l] :
              k \in Keys, o \in 0 .. MCLen - 1, l \in 1 .. MCLen}

\* Indexes of m batches, built by adding a batch at the end.
MCIndexes ==
    LET Usable[m \in 0 .. MCBatches] ==
            IF m = 0 THEN {<<>>}
            ELSE {t \in {Append(s, l) : s \in Usable[m - 1],
                                        l \in {p \in Places : p.off + p.len <= MCLen}} :
                     IndexSorted(t) /\ NoSlotTwice(t)}
    IN  {t \in UNION {Usable[m] : m \in 0 .. MCBatches} :
            Cardinality(Slots(t)) \in {0, MCLen}}
=============================================================================
