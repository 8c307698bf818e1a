------------------------------- MODULE MCScan -------------------------------
(***************************************************************************)
(* Scan over all short logs.                                               *)
(***************************************************************************)
EXTENDS Scan

MCKeys == -1 .. 1
=============================================================================
