--------------------------- MODULE MCInterconnect ---------------------------
(***************************************************************************)
(* The bus under any environment, with short delays, and the turns of the  *)
(* processors that wait for it.                                            *)
(***************************************************************************)
EXTENDS RoundRobin
=============================================================================
