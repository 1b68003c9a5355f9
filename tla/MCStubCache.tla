---------------------------- MODULE MCStubCache -----------------------------
(***************************************************************************)
(* The simulator with the cache students start from, and the stall report. *)
(***************************************************************************)
EXTENDS StallReport
=============================================================================
