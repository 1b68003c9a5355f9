---------------------------- MODULE MCCoherence -----------------------------
(***************************************************************************)
(* The coherence protocol over the bus, with short delays.                 *)
(***************************************************************************)
EXTENDS Coherence
=============================================================================
