------------------------------ MODULE KeyStore ------------------------------
(***************************************************************************)
(* What the search trees of stree.c promise: a record per key, written by  *)
(* an insertion and forgotten by a removal.                                *)
(***************************************************************************)
CONSTANTS StoredKeys, StoredRecords, Missing

VARIABLES store,       \* the record of every key, or Missing
          lastCall     \* the call made last: its name, key and record

storeVars == <<store, lastCall>>

StoreInit ==
    /\ store = [k \in StoredKeys |-> Missing]
    /\ lastCall = [name |-> "none"]

Put(k, r) ==
    /\ store' = [store EXCEPT ![k] = r]
    /\ lastCall' = [name |-> "insert", key |-> k, record |-> r]

Delete(k) ==
    /\ store' = [store EXCEPT ![k] = Missing]
    /\ lastCall' = [name |-> "remove", key |-> k]

StoreNext ==
    \E k \in StoredKeys : Delete(k) \/ \E r \in StoredRecords : Put(k, r)

StoreSpec == StoreInit /\ [][StoreNext]_storeVars
=============================================================================
