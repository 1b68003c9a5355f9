----------------------------- MODULE SplayTree ------------------------------
(***************************************************************************)
(* coherence/stree.c, the splay tree that holds a processor's line states, *)
(* and its copy simpleCache/stree.c.  The two differ in one place: what an *)
(* insertion of a key that is already there does with the record.          *)
(*                                                                         *)
(* A node is named by its key (a tree never holds two nodes of one key:    *)
(* the search that precedes every insertion finds the first).  The links   *)
(* are the code's pointers, child["left"], child["right"] and parent; the  *)
(* links of a node that is not in the tree are NULL.                       *)
(***************************************************************************)
EXTENDS Integers, FiniteSets

CONSTANTS Keys, Records, NULL

ASSUME KeysAssumption ==
    Keys \subseteq Int /\ IsFiniteSet(Keys) /\ NULL \notin Keys \cup Records

VARIABLES tree,              \* the links of the nodes, and the root
          records,           \* the record of every node, NULL where there is none
          nodeCount,         \* tree->node_count
          lastCall           \* the call made last: its name, key and record

treeVars == <<tree, records, nodeCount, lastCall>>

Sides == {"left", "right"}

Link == Keys \cup {NULL}

\* tree_new.
NewTree == [root |-> NULL,
            child |-> [s \in Sides |-> [k \in Keys |-> NULL]],
            parent |-> [k \in Keys |-> NULL]]

Opposite(s) == IF s = "left" THEN "right" ELSE "left"

\* The side of its parent a node hangs on.
SideOf(t, x) == IF t.child["left"][t.parent[x]] = x THEN "left" ELSE "right"

-----------------------------------------------------------------------------
(***************************************************************************)
(* The pointer operations.                                                 *)
(***************************************************************************)

\* x->side = y, and y->parent = x where there is a y.
Attach(t, x, side, y) ==
    [t EXCEPT !.child[side][x] = y,
              !.parent = IF y = NULL THEN @ ELSE [@ EXCEPT ![y] = x]]

\* v takes the place of u under u's parent.
Replace(t, u, v) ==
    LET p == t.parent[u]
        up == [t EXCEPT !.parent = IF v = NULL THEN @ ELSE [@ EXCEPT ![v] = p]]
    IN  IF p = NULL THEN [up EXCEPT !.root = v]
                    ELSE [up EXCEPT !.child[SideOf(t, u)][p] = v]

\* right_rotate (side = "left") and left_rotate (side = "right") of x: its
\* child y on that side takes its place.  splay rotates a node only when it
\* has that child, so the code's tests of y are always true.
Rotate(t, x, side) ==
    LET y == t.child[side][x]
        lowered == Attach(t, x, side, t.child[Opposite(side)][y])
    IN  Attach(Replace(lowered, x, y), y, Opposite(side), x)

\* One iteration of splay's loop: zig, zig-zig or zig-zag.
SplayStep(t, x) ==
    LET p == t.parent[x]
        g == t.parent[p]
    IN  IF g = NULL THEN Rotate(t, p, SideOf(t, x))
        ELSE IF SideOf(t, x) = SideOf(t, p)
             THEN Rotate(Rotate(t, g, SideOf(t, p)), p, SideOf(t, x))
             ELSE Rotate(Rotate(t, p, SideOf(t, x)), g, SideOf(t, p))

\* splay: until x has no parent.  A step raises x by a level at least, so
\* Cardinality(Keys) steps are enough.
Splay(t, x) ==
    LET raised[n \in 0..Cardinality(Keys)] ==
            IF n = 0 THEN t
            ELSE LET before == raised[n - 1] IN
                 IF before.parent[x] = NULL THEN before ELSE SplayStep(before, x)
    IN  raised[Cardinality(Keys)]

-----------------------------------------------------------------------------
(***************************************************************************)
(* Searching: the nodes on the way down from the root towards k.           *)
(***************************************************************************)
Toward(k, x) == IF k > x THEN "right" ELSE "left"

Path(t, k) ==
    LET below[x \in Link] ==
            IF x = NULL THEN {}
            ELSE IF x = k THEN {x}
            ELSE {x} \cup below[t.child[Toward(k, x)][x]]
    IN  below[t.root]

\* tree_find.
Find(k) == IF k \in Path(tree, k) THEN records[k] ELSE NULL

\* Mutant: the search keeps the first smaller key it meets, not the greatest.
FindNearestFirst(k) ==
    LET smaller == {x \in Path(tree, k) : x < k} IN
    IF k \in Path(tree, k) THEN k
    ELSE IF smaller = {} THEN NULL
    ELSE CHOOSE x \in smaller : \A y \in smaller : y >= x

\* tree_find_nearest: the greatest of the smaller keys the search met.
FindNearest(k) ==
    LET smaller == {x \in Path(tree, k) : x < k} IN
    IF k \in Path(tree, k) THEN k
    ELSE IF smaller = {} THEN NULL
    ELSE CHOOSE x \in smaller : \A y \in smaller : y <= x

-----------------------------------------------------------------------------
(***************************************************************************)
(* tree_insert.                                                            *)
(***************************************************************************)
TreeInit ==
    /\ tree = NewTree
    /\ records = [k \in Keys |-> NULL]
    /\ nodeCount = 0
    /\ lastCall = [name |-> "none"]

\* A new leaf where the search ended, raised to the root.
InsertNew(k, r) ==
    LET path == Path(tree, k) IN
    /\ k \notin path
    /\ \/ path = {} /\ tree' = [tree EXCEPT !.root = k]
       \/ \E p \in path :
            /\ tree.child[Toward(k, p)][p] = NULL
            /\ tree' = Splay(Attach(tree, p, Toward(k, p), k), k)
    /\ records' = [records EXCEPT ![k] = r]
    /\ nodeCount' = nodeCount + 1

\* Mutant: the record of a key that is there is left alone.
InsertExistingIgnored(k, r) ==
    k \in Path(tree, k) /\ r \in Records /\ UNCHANGED <<tree, records, nodeCount>>

InsertExisting(k, r) ==
    /\ k \in Path(tree, k)
    /\ records' = [records EXCEPT ![k] = r]
    /\ UNCHANGED <<tree, nodeCount>>

Insert(k, r) ==
    /\ InsertNew(k, r) \/ InsertExisting(k, r)
    /\ lastCall' = [name |-> "insert", key |-> k, record |-> r]

-----------------------------------------------------------------------------
(***************************************************************************)
(* tree_remove.                                                            *)
(***************************************************************************)

\* subtree_minimum.
LeftMost(t, u) ==
    LET down[x \in Keys] ==
            IF t.child["left"][x] = NULL THEN x ELSE down[t.child["left"][x]]
    IN  down[u]

\* Mutant: the left subtree of the removed node is not handed on.
PutSuccessorWithoutLeft(t, z) ==
    LET y == LeftMost(t, t.child["right"][z])
        freed == Replace(t, y, t.child["right"][y])
        above == IF t.parent[y] = z THEN t
                 ELSE Attach(freed, y, "right", freed.child["right"][z])
    IN  Replace(above, z, y)

\* Mutant: the successor's old parent keeps it.
PutSuccessorTwice(t, z) ==
    LET y == LeftMost(t, t.child["right"][z])
        above == IF t.parent[y] = z THEN t ELSE Attach(t, y, "right", t.child["right"][z])
    IN  Attach(Replace(above, z, y), y, "left", t.child["left"][z])

\* The successor y of the root z takes its place, with both its subtrees.
PutSuccessor(t, z) ==
    LET y == LeftMost(t, t.child["right"][z])
        freed == Replace(t, y, t.child["right"][y])
        above == IF t.parent[y] = z THEN t
                 ELSE Attach(freed, y, "right", freed.child["right"][z])
    IN  Attach(Replace(above, z, y), y, "left", t.child["left"][z])

TakeOut(t, z) ==
    IF t.child["left"][z] = NULL THEN Replace(t, z, t.child["right"][z])
    ELSE IF t.child["right"][z] = NULL THEN Replace(t, z, t.child["left"][z])
    ELSE PutSuccessor(t, z)

\* free(z).
Forget(t, z) ==
    [t EXCEPT !.child["left"][z] = NULL, !.child["right"][z] = NULL,
              !.parent[z] = NULL]

Remove(k) ==
    /\ \/ /\ k \in Path(tree, k)
          /\ tree' = Forget(TakeOut(Splay(tree, k), k), k)
          /\ records' = [records EXCEPT ![k] = NULL]
          /\ nodeCount' = nodeCount - 1
       \/ k \notin Path(tree, k) /\ UNCHANGED <<tree, records, nodeCount>>
    /\ lastCall' = [name |-> "remove", key |-> k]

TreeNext ==
    \/ \E k \in Keys, r \in Records : Insert(k, r)
    \/ \E k \in Keys : Remove(k)

TreeSpec == TreeInit /\ [][TreeNext]_treeVars

-----------------------------------------------------------------------------
(***************************************************************************)
(* Properties.                                                             *)
(***************************************************************************)
Allocated == {k \in Keys : records[k] # NULL}

\* The links survive every mix of rotations and removals: child and parent
\* agree, and no link leads to a node that was freed.
LinksAgree ==
    /\ tree.root # NULL => tree.root \in Allocated /\ tree.parent[tree.root] = NULL
    /\ \A k \in Allocated, s \in Sides :
          LET c == tree.child[s][k] IN
          c # NULL => c \in Allocated /\ tree.parent[c] = k
    /\ \A k \in Allocated \ {tree.root} :
          /\ tree.parent[k] \in Allocated
          /\ tree.child[SideOf(tree, k)][tree.parent[k]] = k

\* No removal or rotation loses a key or moves it where a search would miss
\* it, and node_count counts the nodes a search finds.
SearchFindsAll ==
    /\ \A k \in Keys : k \in Path(tree, k) <=> k \in Allocated
    /\ nodeCount = Cardinality({k \in Keys : k \in Path(tree, k)})

\* stree.h:42 ("Find element with largest key <= given key"), although the
\* search visits only one path.
NearestIsLargestBelow ==
    \A k \in Keys :
        LET atMost == {x \in Allocated : x <= k} IN
        IF atMost = {} THEN FindNearest(k) = NULL
        ELSE FindNearest(k) \in atMost /\ \A x \in atMost : x <= FindNearest(k)

\* The tree, seen through tree_find, is a store of one record per key.
Store == INSTANCE KeyStore
             WITH StoredKeys <- Keys, StoredRecords <- Records, Missing <- NULL,
                  store <- [k \in Keys |-> Find(k)]

ImplementsStore == Store!StoreSpec
=============================================================================
