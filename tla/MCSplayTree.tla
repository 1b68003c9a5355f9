---------------------------- MODULE MCSplayTree -----------------------------
(***************************************************************************)
(* Every tree of five keys that insertions and removals can build.         *)
(***************************************************************************)
EXTENDS SplayTree
=============================================================================
