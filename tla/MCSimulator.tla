---------------------------- MODULE MCSimulator -----------------------------
(***************************************************************************)
(* The whole simulator with short delays and short traces.                 *)
(***************************************************************************)
EXTENDS Simulator
=============================================================================
