------------------------- MODULE MCAttributionWorker -------------------------
(***************************************************************************)
(* Instances of AttributionWorker for TLC.                                 *)
(***************************************************************************)
EXTENDS AttributionWorker, TLC
=============================================================================
