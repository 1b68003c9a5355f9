---------------------------- MODULE MCDebugRepl -----------------------------
(***************************************************************************)
(* The debugger over every short simulation: the interconnect, which       *)
(* reports its state changes, and one component that never does.           *)
(***************************************************************************)
EXTENDS DebugRepl
=============================================================================
