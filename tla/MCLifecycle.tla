----------------------------- MODULE MCLifecycle -----------------------------
(***************************************************************************)
(* Instances of Lifecycle for TLC.  The run checks liveness too, so it has *)
(* no symmetry.                                                            *)
(***************************************************************************)
EXTENDS Lifecycle, TLC
=============================================================================
