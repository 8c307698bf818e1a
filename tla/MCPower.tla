------------------------------ MODULE MCPower ------------------------------
(***************************************************************************)
(* Power with batches that share their first key, one of them with a       *)
(* second key, so that a Read or a Delete may leave a part of it.          *)
(***************************************************************************)
EXTENDS Power

MCBatches == {<<1>>, <<1, 2>>}

MCRanges == {<<1, 1>>, <<2, 2>>}
=============================================================================
