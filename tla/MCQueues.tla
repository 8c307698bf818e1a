------------------------------ MODULE MCQueues ------------------------------
(***************************************************************************)
(* Queues with two queues, of which one is shovelled into the other.       *)
(***************************************************************************)
EXTENDS Queues, TLC

CONSTANTS qa, qb   \* the queues

MCNested == {<<qa, qb>>}

MCSymmetry == Permutations(Procs)
=============================================================================
