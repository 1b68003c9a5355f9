---------------------------- MODULE SplayProofs -----------------------------
(***************************************************************************)
(* The splay tree of stree.c is a search tree, and so a store of one       *)
(* record per key, for every finite set of integer keys.                   *)
(***************************************************************************)
EXTENDS SplayTree, FiniteSetTheorems, TLAPS

-----------------------------------------------------------------------------
(***************************************************************************)
(* The order: Toward says on which side of a node a key belongs.           *)
(***************************************************************************)
LEMMA KeysAreInts == \A k \in Keys : k \in Int /\ k # NULL
  BY KeysAssumption

LEMMA SidesDiffer ==
  /\ \A s \in Sides : Opposite(s) \in Sides /\ Opposite(s) # s
                      /\ Opposite(Opposite(s)) = s
  /\ \A r, s \in Sides : r = s \/ r = Opposite(s)
  BY DEF Sides, Opposite

LEMMA TowardSide == \A j, x : Toward(j, x) \in Sides
  BY DEF Toward, Sides

LEMMA TowardFlips ==
  ASSUME NEW j \in Keys, NEW x \in Keys, j # x
  PROVE  Toward(x, j) = Opposite(Toward(j, x))
  BY KeysAreInts DEF Toward, Opposite

\* What is on one side of a node is on that side of all on the other side.
LEMMA TowardAcross ==
  ASSUME NEW j \in Keys, NEW y \in Keys, NEW x \in Keys, y # x, j # x,
         Toward(j, x) # Toward(y, x)
  PROVE  j # y /\ Toward(j, y) = Toward(j, x)
  BY KeysAreInts DEF Toward

-----------------------------------------------------------------------------
(***************************************************************************)
(* What the pointer operations do to each field of each node.              *)
(***************************************************************************)
Trees == [root : Link, child : [Sides -> [Keys -> Link]], parent : [Keys -> Link]]

LEMMA TreeFields ==
  ASSUME NEW t \in Trees
  PROVE  /\ t.root \in Link
         /\ \A s \in Sides, w \in Keys : t.child[s][w] \in Link
         /\ \A w \in Keys : t.parent[w] \in Link
         /\ \A w \in Keys : SideOf(t, w) \in Sides
  BY DEF Trees, SideOf, Sides

LEMMA AttachFields ==
  ASSUME NEW t \in Trees, NEW x \in Keys, NEW side \in Sides, NEW y \in Link
  PROVE  LET a == Attach(t, x, side, y) IN
         /\ a \in Trees
         /\ a.root = t.root
         /\ \A s \in Sides, w \in Keys :
               a.child[s][w] = IF s = side /\ w = x THEN y ELSE t.child[s][w]
         /\ \A w \in Keys : a.parent[w] = IF w = y THEN x ELSE t.parent[w]
<1> DEFINE C == [t.child EXCEPT ![side][x] = y]
           P == IF y = NULL THEN t.parent ELSE [t.parent EXCEPT ![y] = x]
<1>1. Attach(t, x, side, y) = [root |-> t.root, child |-> C, parent |-> P]
  <2>1. t = [root |-> t.root, child |-> t.child, parent |-> t.parent]
    BY DEF Trees
  <2>2. [t EXCEPT !.child = C, !.parent = P]
           = [root |-> t.root, child |-> C, parent |-> P]
    <3> HIDE DEF C, P
    <3>1. [t EXCEPT !.child = C] = [root |-> t.root, child |-> C, parent |-> t.parent]
      BY <2>1
    <3>2. \A u : u = [root |-> t.root, child |-> C, parent |-> t.parent]
               => [u EXCEPT !.parent = P] = [root |-> t.root, child |-> C, parent |-> P]
      OBVIOUS
    <3> QED
      BY <3>1, <3>2, Zenon
  <2>3. CASE y = NULL
    BY <2>2, <2>3 DEF Attach
  <2>4. CASE y # NULL
    BY <2>2, <2>4 DEF Attach
  <2> QED
    BY <2>3, <2>4
<1>2. t.child \in [Sides -> [Keys -> Link]] /\ t.parent \in [Keys -> Link]
      /\ t.root \in Link
  BY DEF Trees
<1>3. /\ C \in [Sides -> [Keys -> Link]]
      /\ \A s \in Sides, w \in Keys :
               C[s][w] = IF s = side /\ w = x THEN y ELSE t.child[s][w]
  BY <1>2
<1>4. /\ P \in [Keys -> Link]
      /\ \A w \in Keys : P[w] = IF w = y THEN x ELSE t.parent[w]
  BY <1>2, KeysAreInts DEF Link
<1> HIDE DEF C, P
<1> QED
  BY <1>1, <1>2, <1>3, <1>4 DEF Trees

LEMMA ReplaceFields ==
  ASSUME NEW t \in Trees, NEW u \in Keys, NEW v \in Link
  PROVE  LET a == Replace(t, u, v)
             p == t.parent[u]
         IN
         /\ a \in Trees
         /\ a.root = IF p = NULL THEN v ELSE t.root
         /\ \A s \in Sides, w \in Keys :
               a.child[s][w] = IF w = p /\ s = SideOf(t, u) THEN v
                                                           ELSE t.child[s][w]
         /\ \A w \in Keys : a.parent[w] = IF w = v THEN p ELSE t.parent[w]
<1> DEFINE p == t.parent[u]
           side == SideOf(t, u)
           R == IF p = NULL THEN v ELSE t.root
           C == IF p = NULL THEN t.child ELSE [t.child EXCEPT ![side][p] = v]
           P == IF v = NULL THEN t.parent ELSE [t.parent EXCEPT ![v] = p]
<1>1. Replace(t, u, v) = [root |-> R, child |-> C, parent |-> P]
  <2>1. CASE p = NULL
    BY <2>1 DEF Replace, Trees
  <2>2. CASE p # NULL
    BY <2>2 DEF Replace, Trees
  <2> QED
    BY <2>1, <2>2
<1>2. /\ t.child \in [Sides -> [Keys -> Link]] /\ t.parent \in [Keys -> Link]
      /\ t.root \in Link
      /\ side \in Sides /\ p \in Link
  BY TreeFields DEF Trees
<1>3. /\ C \in [Sides -> [Keys -> Link]]
      /\ \A s \in Sides, w \in Keys :
               C[s][w] = IF w = p /\ s = side THEN v ELSE t.child[s][w]
  <2> HIDE DEF side, p
  <2>1. CASE p = NULL
    BY <1>2, <2>1, KeysAreInts
  <2>2. CASE p # NULL
    <3>1. p \in Keys
      BY <1>2, <2>2 DEF Link
    <3> QED
      BY <1>2, <2>2, <3>1
  <2> QED
    BY <2>1, <2>2
<1>4. /\ P \in [Keys -> Link]
      /\ \A w \in Keys : P[w] = IF w = v THEN p ELSE t.parent[w]
  <2> HIDE DEF p
  <2> QED
    BY <1>2, KeysAreInts DEF Link
<1>5. R \in Link
  BY <1>2
<1> HIDE DEF C, P, R, side
<1>6. [root |-> R, child |-> C, parent |-> P] \in Trees
  BY <1>3, <1>4, <1>5 DEF Trees
<1> QED
  BY <1>1, <1>3, <1>4, <1>6 DEF R, side

-----------------------------------------------------------------------------
(***************************************************************************)
(* The invariant.  The links of the nodes A agree; and there is a set D[x] *)
(* of the nodes below and at each x, which makes the tree a search tree:   *)
(* what hangs on a side of x belongs on that side.  That D exists rules    *)
(* out cycles, nodes that hang nowhere and keys on the wrong side.         *)
(***************************************************************************)
Linked(t, A) ==
  /\ t \in Trees /\ A \in SUBSET Keys
  /\ t.root = NULL <=> A = {}
  /\ t.root # NULL => t.root \in A /\ t.parent[t.root] = NULL
  /\ \A x \in A, s \in Sides :
        t.child[s][x] # NULL =>
            t.child[s][x] \in A /\ t.parent[t.child[s][x]] = x
  /\ \A x \in A : x # t.root =>
        t.parent[x] \in A /\ t.child[SideOf(t, x)][t.parent[x]] = x
  /\ \A x \in Keys \ A :
        t.parent[x] = NULL /\ \A s \in Sides : t.child[s][x] = NULL

\* j hangs below x on side s.
Under(t, D, s, x, j) == t.child[s][x] # NULL /\ j \in D[t.child[s][x]]

Ordered(t, A, D) ==
  /\ D \in [A -> SUBSET A]
  /\ t.root # NULL => D[t.root] = A
  /\ \A x, j \in A : j \in D[x] <=> j = x \/ \E s \in Sides : Under(t, D, s, x, j)
  /\ \A x, j \in A, s \in Sides : Under(t, D, s, x, j) => j # x /\ Toward(j, x) = s

\* The neighbours of a node are other nodes.
LEMMA Neighbours ==
  ASSUME NEW t, NEW A, NEW D, Linked(t, A), Ordered(t, A, D),
         NEW x \in A, NEW s \in Sides, t.child[s][x] # NULL
  PROVE  LET y == t.child[s][x] IN
         /\ x \in Keys /\ y \in A /\ y \in Keys /\ y # NULL
         /\ t.parent[y] = x /\ y # t.root
         /\ y # x /\ Toward(y, x) = s
         /\ SideOf(t, y) = s
         /\ D[y] \subseteq D[x] /\ x \notin D[y] /\ y \in D[y]
         /\ \A r \in Sides : t.child[r][y] # x /\ t.child[r][y] # y
<1> DEFINE y == t.child[s][x]
<1>1. y \in A /\ t.parent[y] = x /\ y # t.root /\ y # NULL /\ x \in Keys /\ x # NULL
  BY KeysAreInts DEF Linked
<1>2. y \in D[y]
  BY <1>1 DEF Ordered
<1>3. y # x /\ Toward(y, x) = s
  BY <1>1, <1>2 DEF Ordered, Under
<1>4. D[y] \subseteq D[x]
  BY <1>1 DEF Ordered, Under
<1>5. x \notin D[y]
  BY <1>1 DEF Ordered, Under
<1>6. \A r \in Sides : t.child[r][y] # x /\ t.child[r][y] # y
  <2> SUFFICES ASSUME NEW r \in Sides, t.child[r][y] # NULL
               PROVE  t.child[r][y] # x /\ t.child[r][y] # y
    BY <1>1
  <2>1. t.child[r][y] \in A /\ t.child[r][y] \in D[t.child[r][y]]
    BY <1>1 DEF Linked, Ordered
  <2>2. t.child[r][y] \in D[y] /\ t.child[r][y] # y
    BY <1>1, <2>1 DEF Ordered, Under
  <2> QED
    BY <1>5, <2>2
<1>7. SideOf(t, y) = s
  <2>1. t.child[SideOf(t, y)][x] = y
    BY <1>1 DEF Linked
  <2>2. SideOf(t, y) \in Sides
    BY DEF SideOf, Sides
  <2> QED
    BY <1>1, <1>2, <1>3, <2>1, <2>2 DEF Ordered, Under
<1>8. y \in Keys
  BY <1>1 DEF Linked
<1> QED
  BY <1>1, <1>2, <1>3, <1>4, <1>5, <1>6, <1>7, <1>8

\* The same, of a child that has a name.
LEMMA NeighbourIs ==
  ASSUME NEW t, NEW A, NEW D, Linked(t, A), Ordered(t, A, D),
         NEW x \in A, NEW s \in Sides, NEW y, y = t.child[s][x], y # NULL
  PROVE  /\ x \in Keys /\ y \in A /\ y \in Keys
         /\ t.parent[y] = x /\ y # t.root /\ y # x
         /\ SideOf(t, y) = s
         /\ D[y] \subseteq D[x] /\ x \notin D[y]
  BY Neighbours

\* A node below a parent.
LEMMA ParentOf ==
  ASSUME NEW t, NEW A, NEW D, Linked(t, A), Ordered(t, A, D),
         NEW x \in A, t.parent[x] # NULL
  PROVE  LET p == t.parent[x] IN
         /\ x # t.root
         /\ p \in A
         /\ SideOf(t, x) \in Sides
         /\ t.child[SideOf(t, x)][p] = x
         /\ p # x /\ \A r \in Sides : t.child[r][x] # p
<1>1. x # t.root
  BY KeysAreInts DEF Linked
<1>2. t.parent[x] \in A /\ t.child[SideOf(t, x)][t.parent[x]] = x
      /\ SideOf(t, x) \in Sides /\ x # NULL
  BY <1>1, KeysAreInts DEF Linked, SideOf, Sides
<1> QED
  BY <1>1, <1>2, Neighbours

-----------------------------------------------------------------------------
(***************************************************************************)
(* A rotation keeps the search tree.                                       *)
(***************************************************************************)

\* The links after the rotation of x and its child y: y takes x's place and
\* hands its child b on the other side to x.
LEMMA RotateFields ==
  ASSUME NEW t, NEW A, NEW D, Linked(t, A), Ordered(t, A, D),
         NEW x \in A, NEW side \in Sides, t.child[side][x] # NULL
  PROVE  LET R == Rotate(t, x, side)
             y == t.child[side][x]
             b == t.child[Opposite(side)][y]
             p == t.parent[x]
         IN
         /\ R \in Trees
         /\ R.root = IF p = NULL THEN y ELSE t.root
         /\ \A s \in Sides, w \in Keys :
               R.child[s][w] = IF w = x /\ s = side THEN b
                               ELSE IF w = y /\ s = Opposite(side) THEN x
                               ELSE IF w = p /\ s = SideOf(t, x) THEN y
                               ELSE t.child[s][w]
         /\ \A w \in Keys :
               R.parent[w] = IF w = x THEN y
                             ELSE IF w = y THEN p
                             ELSE IF w = b THEN x
                             ELSE t.parent[w]
<1> DEFINE y == t.child[side][x]
           opp == Opposite(side)
           b == t.child[opp][y]
           p == t.parent[x]
           lowered == Attach(t, x, side, b)
           moved == Replace(lowered, x, y)
<1>1. /\ t \in Trees /\ opp \in Sides /\ opp # side
      /\ x \in Keys /\ y \in Keys /\ b \in Link /\ p \in Link
      /\ y # x /\ b # x /\ b # y /\ p # x /\ p # y
      /\ SideOf(t, x) \in Sides
  <2>1. t \in Trees /\ opp \in Sides /\ opp # side
    BY SidesDiffer DEF Linked
  <2>2. x \in Keys /\ y \in Keys /\ y # x /\ b # x /\ b # y /\ y # NULL /\ x # NULL
    BY <2>1, Neighbours, KeysAreInts
  <2>3. b \in Link /\ p \in Link /\ SideOf(t, x) \in Sides
    BY <2>1, <2>2, TreeFields
  <2>4. p # x /\ p # y
    BY <2>2, ParentOf
  <2> QED
    BY <2>1, <2>2, <2>3, <2>4
<1>2. Rotate(t, x, side) = Attach(moved, y, opp, x)
  BY DEF Rotate
<1> HIDE DEF y, opp, b, p
<1>3. /\ lowered \in Trees
      /\ lowered.root = t.root
      /\ \A s \in Sides, w \in Keys :
            lowered.child[s][w] = IF s = side /\ w = x THEN b ELSE t.child[s][w]
      /\ \A w \in Keys : lowered.parent[w] = IF w = b THEN x ELSE t.parent[w]
  <2>1. t \in Trees /\ x \in Keys /\ side \in Sides /\ b \in Link
    BY <1>1
  <2>2. lowered = Attach(t, x, side, b)
    OBVIOUS
  <2> HIDE DEF lowered
  <2> QED
    BY <2>1, <2>2, AttachFields
<1>4. lowered.parent[x] = p
  BY <1>1, <1>3 DEF p
<1>5. p # NULL => SideOf(lowered, x) = SideOf(t, x)
  <2>1. p # NULL => p \in Keys /\ p # x
    BY <1>1 DEF Link
  <2>2. "left" \in Sides
    BY DEF Sides
  <2>3. p # NULL => lowered.child["left"][p] = t.child["left"][p]
    BY <2>1, <2>2, <1>3
  <2> QED
    BY <2>3, <1>4 DEF SideOf, p
<1> HIDE DEF lowered
<1>6. /\ moved \in Trees
      /\ moved.root = IF p = NULL THEN y ELSE t.root
      /\ \A s \in Sides, w \in Keys :
            moved.child[s][w] = IF w = p /\ s = SideOf(t, x) THEN y
                                ELSE lowered.child[s][w]
      /\ \A w \in Keys : moved.parent[w] = IF w = y THEN p ELSE lowered.parent[w]
  <2>1. y \in Link
    BY <1>1 DEF Link
  <2>2. /\ moved \in Trees
        /\ moved.root = IF p = NULL THEN y ELSE lowered.root
        /\ \A s \in Sides, w \in Keys :
              moved.child[s][w] = IF w = p /\ s = SideOf(lowered, x) THEN y
                                  ELSE lowered.child[s][w]
        /\ \A w \in Keys : moved.parent[w] = IF w = y THEN p ELSE lowered.parent[w]
    <3>1. /\ Replace(lowered, x, y) \in Trees
          /\ Replace(lowered, x, y).root
                = IF lowered.parent[x] = NULL THEN y ELSE lowered.root
          /\ \A s \in Sides, w \in Keys :
                Replace(lowered, x, y).child[s][w]
                   = IF w = lowered.parent[x] /\ s = SideOf(lowered, x) THEN y
                     ELSE lowered.child[s][w]
          /\ \A w \in Keys :
                Replace(lowered, x, y).parent[w]
                   = IF w = y THEN lowered.parent[x] ELSE lowered.parent[w]
      <4>1. lowered \in Trees /\ x \in Keys /\ y \in Link
        BY <1>1, <1>3, <2>1
      <4> QED
        BY <4>1, ReplaceFields
    <3> QED
      BY <1>4, <3>1
  <2> QED
    BY <1>3, <1>5, <2>2, KeysAreInts
<1> HIDE DEF moved
<1> DEFINE R == Attach(moved, y, opp, x)
<1>7. /\ R \in Trees
      /\ R.root = moved.root
      /\ \A s \in Sides, w \in Keys :
            R.child[s][w] = IF s = opp /\ w = y THEN x ELSE moved.child[s][w]
      /\ \A w \in Keys : R.parent[w] = IF w = x THEN y ELSE moved.parent[w]
  <2>1. x \in Link
    BY <1>1 DEF Link
  <2>2. moved \in Trees /\ y \in Keys /\ opp \in Sides
    BY <1>1, <1>6
  <2> QED
    BY <2>1, <2>2, AttachFields
<1> HIDE DEF R
<1>8. \A s \in Sides, w \in Keys :
         R.child[s][w] = IF w = x /\ s = side THEN b
                         ELSE IF w = y /\ s = opp THEN x
                         ELSE IF w = p /\ s = SideOf(t, x) THEN y
                         ELSE t.child[s][w]
  BY <1>1, <1>3, <1>6, <1>7
<1>9. \A w \in Keys :
         R.parent[w] = IF w = x THEN y
                       ELSE IF w = y THEN p
                       ELSE IF w = b THEN x
                       ELSE t.parent[w]
  BY <1>1, <1>3, <1>6, <1>7
<1>10. Rotate(t, x, side) = R
  BY <1>2 DEF R
<1>11. R \in Trees /\ R.root = IF p = NULL THEN y ELSE t.root
  BY <1>6, <1>7
<1> QED
  BY <1>8, <1>9, <1>10, <1>11 DEF y, opp, b, p

\* The same, of nodes that have names.
LEMMA RotateFieldsAre ==
  ASSUME NEW t, NEW A, NEW D, Linked(t, A), Ordered(t, A, D),
         NEW x \in A, NEW side \in Sides,
         NEW y, y = t.child[side][x], y # NULL,
         NEW b, b = t.child[Opposite(side)][y],
         NEW p, p = t.parent[x]
  PROVE  LET R == Rotate(t, x, side) IN
         /\ R \in Trees
         /\ R.root = IF p = NULL THEN y ELSE t.root
         /\ \A s \in Sides, w \in Keys :
               R.child[s][w] = IF w = x /\ s = side THEN b
                               ELSE IF w = y /\ s = Opposite(side) THEN x
                               ELSE IF w = p /\ s = SideOf(t, x) THEN y
                               ELSE t.child[s][w]
         /\ \A w \in Keys :
               R.parent[w] = IF w = x THEN y
                             ELSE IF w = y THEN p
                             ELSE IF w = b THEN x
                             ELSE t.parent[w]
  BY RotateFields

\* A child of its parent hangs where SideOf finds it.
LEMMA HangsThere ==
  ASSUME NEW t, NEW w, NEW s \in Sides, t.child[s][t.parent[w]] = w
  PROVE  t.child[SideOf(t, w)][t.parent[w]] = w
  BY DEF SideOf, Sides

\* The nodes below each node afterwards: y has those of x, and x has lost
\* those that stay with y.
Rotated(t, A, D, x, side) ==
  LET y == t.child[side][x] IN
  [w \in A |-> IF w = y THEN D[x]
               ELSE IF w = x
                    THEN {j \in D[x] : \/ j \notin D[y]
                                       \/ Under(t, D, Opposite(side), y, j)}
               ELSE D[w]]

LEMMA RotateKeeps ==
  ASSUME NEW t, NEW A, NEW D, Linked(t, A), Ordered(t, A, D),
         NEW x \in A, NEW side \in Sides, t.child[side][x] # NULL
  PROVE  /\ Linked(Rotate(t, x, side), A)
         /\ Ordered(Rotate(t, x, side), A, Rotated(t, A, D, x, side))
<1> DEFINE y == t.child[side][x]
           opp == Opposite(side)
           b == t.child[opp][y]
           p == t.parent[x]
           R == Rotate(t, x, side)
           E == Rotated(t, A, D, x, side)
<1>0. /\ y = t.child[side][x] /\ y # NULL
      /\ opp = Opposite(side)
      /\ b = t.child[opp][y]
      /\ p = t.parent[x]
  OBVIOUS
<1>1. /\ R \in Trees
      /\ R.root = IF p = NULL THEN y ELSE t.root
      /\ \A s \in Sides, w \in Keys :
            R.child[s][w] = IF w = x /\ s = side THEN b
                            ELSE IF w = y /\ s = opp THEN x
                            ELSE IF w = p /\ s = SideOf(t, x) THEN y
                            ELSE t.child[s][w]
      /\ \A w \in Keys :
            R.parent[w] = IF w = x THEN y
                          ELSE IF w = y THEN p
                          ELSE IF w = b THEN x
                          ELSE t.parent[w]
  BY <1>0, RotateFieldsAre
<1> HIDE DEF y, opp, b, p, E
<1>2. /\ opp \in Sides /\ opp # side
      /\ x \in Keys /\ x # NULL /\ y \in A /\ y \in Keys /\ y # NULL
      /\ t.parent[y] = x /\ y # t.root /\ Toward(y, x) = side
      /\ y # x /\ b # x /\ b # y /\ SideOf(t, y) = side
      /\ D[y] \subseteq D[x] /\ x \notin D[y] /\ y \in D[y]
  BY <1>0, SidesDiffer, Neighbours, KeysAreInts
<1>3. b # NULL => /\ b \in A /\ b \in Keys /\ t.parent[b] = y
                  /\ b # t.root /\ SideOf(t, b) = opp
  BY <1>0, <1>2, NeighbourIs
<1>4. p # NULL => /\ x # t.root /\ p \in A /\ SideOf(t, x) \in Sides
                  /\ t.child[SideOf(t, x)][p] = x /\ p # x /\ p # y
  BY <1>0, <1>2, ParentOf
<1>5. p = NULL => x = t.root
  BY <1>0, KeysAreInts DEF Linked
<1>6. A \in SUBSET Keys /\ A # {} /\ D \in [A -> SUBSET A]
      /\ t.root # NULL /\ t.root \in A /\ t.parent[t.root] = NULL
  BY DEF Linked, Ordered
\* The other nodes keep their children, but for x in p's place.
<1>7. \A s \in Sides, w \in A :
         /\ w # x /\ t.child[s][w] = y => FALSE
         /\ t.child[s][w] = x <=> p # NULL /\ w = p /\ s = SideOf(t, x)
  <2> SUFFICES ASSUME NEW s \in Sides, NEW w \in A, t.child[s][w] # NULL
               PROVE  /\ w # x /\ t.child[s][w] = y => FALSE
                      /\ t.child[s][w] = x <=> p # NULL /\ w = p /\ s = SideOf(t, x)
    BY <1>2, <1>4
  <2>1. t.parent[t.child[s][w]] = w /\ SideOf(t, t.child[s][w]) = s /\ w # NULL
    BY Neighbours, KeysAreInts, <1>6
  <2> QED
    BY <2>1, <1>0, <1>2, <1>4
<1> HIDE DEF R
<1>8. Linked(R, A)
  <2>1. R.root # NULL /\ R.root \in A /\ R.parent[R.root] = NULL
    <3>1. CASE p = NULL
      BY <3>1, <1>1, <1>2
    <3>2. CASE p # NULL
      BY <3>2, <1>1, <1>2, <1>3, <1>4, <1>6
    <3> QED
      BY <3>1, <3>2
  <2>2. ASSUME NEW w \in A, NEW s \in Sides, R.child[s][w] # NULL
        PROVE  R.child[s][w] \in A /\ R.parent[R.child[s][w]] = w
    <3>0. w \in Keys
      BY <1>6
    <3>1. CASE w = x /\ s = side
      BY <3>0, <3>1, <2>2, <1>1, <1>2, <1>3
    <3>2. CASE w = y /\ s = opp
      BY <3>0, <3>2, <1>1, <1>2
    <3>3. CASE p # NULL /\ w = p /\ s = SideOf(t, x)
      BY <3>0, <3>3, <1>1, <1>2, <1>4
    <3>4. CASE /\ ~(w = x /\ s = side) /\ ~(w = y /\ s = opp)
               /\ ~(p # NULL /\ w = p /\ s = SideOf(t, x))
      <4>1. R.child[s][w] = t.child[s][w]
        BY <3>0, <3>4, <1>1, <1>6, KeysAreInts
      <4>2. t.child[s][w] \in A /\ t.parent[t.child[s][w]] = w
        BY <4>1, <2>2 DEF Linked
      <4>3. t.child[s][w] \in Keys
        BY <4>2, <1>6
      <4>4. t.child[s][w] # x
        BY <3>4, <1>7
      <4>5. t.child[s][w] # y
        <5>1. t.child[s][w] = y => w = x /\ s = side
          BY <4>1, <2>2, <1>0, <1>2, NeighbourIs
        <5> QED
          BY <5>1, <3>4
      <4>6. t.child[s][w] # b
        <5>1. t.child[s][w] = b => w = y /\ s = opp
          <6> SUFFICES ASSUME t.child[s][w] = b PROVE w = y /\ s = opp
            OBVIOUS
          <6>1. t.child[s][w] # NULL /\ b # NULL
            BY <4>1, <2>2
          <6>2. SideOf(t, t.child[s][w]) = s
            BY <6>1, Neighbours
          <6> QED
            BY <6>1, <6>2, <4>2, <1>3
        <5> QED
          BY <5>1, <3>4
      <4> QED
        BY <4>1, <4>2, <4>3, <4>4, <4>5, <4>6, <1>1
    <3> QED
      BY <3>1, <3>2, <3>3, <3>4
  <2>3. ASSUME NEW w \in A, w # R.root
        PROVE  R.parent[w] \in A /\ R.child[SideOf(R, w)][R.parent[w]] = w
    <3>0. w \in Keys /\ w # NULL
      BY <1>6, KeysAreInts
    <3>1. CASE w = x
      <4>1. R.parent[w] = y /\ R.child[opp][y] = w
        BY <3>1, <1>1, <1>2
      <4> QED
        BY <4>1, <1>2, HangsThere
    <3>2. CASE w = y
      <4>1. p # NULL
        BY <3>2, <2>3, <1>1
      <4>2. p \in Keys
        BY <4>1, <1>4, <1>6
      <4>3. R.parent[w] = p
        BY <3>2, <1>1, <1>2
      <4>4. R.child[SideOf(t, x)][p] = w
        BY <3>2, <4>1, <4>2, <1>1, <1>4
      <4>5. R.child[SideOf(R, w)][R.parent[w]] = w
        BY <4>1, <4>3, <4>4, <1>4, HangsThere
      <4> QED
        BY <4>1, <4>3, <4>5, <1>4
    <3>3. CASE w = b /\ w # x /\ w # y
      <4>1. R.parent[w] = x /\ R.child[side][x] = w
        BY <3>0, <3>3, <1>1, <1>2
      <4> QED
        BY <4>1, HangsThere
    <3>4. CASE w # x /\ w # y /\ w # b
      <4>1. w # t.root
        BY <3>4, <2>3, <1>1, <1>5
      <4> DEFINE q == t.parent[w]
                 s == SideOf(t, w)
      <4>2. q \in A /\ t.child[s][q] = w /\ s \in Sides /\ q \in Keys
        BY <4>1, <1>6 DEF Linked, SideOf, Sides
      <4>3. R.parent[w] = q
        BY <3>0, <3>4, <1>1
      <4> HIDE DEF q, s
      <4>4. /\ ~(q = x /\ s = side) /\ ~(q = y /\ s = opp)
            /\ ~(q = p /\ s = SideOf(t, x))
        <5>1. q = p => p # NULL
          BY <1>0, <4>2, KeysAreInts
        <5> QED
          BY <1>0, <5>1, <3>4, <4>2, <1>4
      <4>5. R.child[s][q] = w
        BY <4>2, <4>4, <1>1
      <4> QED
        BY <4>2, <4>3, <4>5, HangsThere
    <3> QED
      BY <3>1, <3>2, <3>3, <3>4
  <2>4. ASSUME NEW w \in Keys \ A
        PROVE  R.parent[w] = NULL /\ \A s \in Sides : R.child[s][w] = NULL
    <3>1. t.parent[w] = NULL /\ \A s \in Sides : t.child[s][w] = NULL
      BY DEF Linked
    <3>2. w # x /\ w # y /\ w # b /\ w # p
      BY <1>2, <1>3, <1>4, KeysAreInts
    <3> QED
      BY <3>1, <3>2, <1>1
  <2> QED
    BY <2>1, <2>2, <2>3, <2>4, <1>1, <1>6 DEF Linked
\* What hangs below each node afterwards.
<1>a. E = [w \in A |-> IF w = y THEN D[x]
                      ELSE IF w = x
                           THEN {j \in D[x] : j \notin D[y] \/ Under(t, D, opp, y, j)}
                      ELSE D[w]]
  BY <1>0 DEF Rotated, E
<1>9. /\ E \in [A -> SUBSET A]
      /\ E[y] = D[x]
      /\ E[x] = {j \in D[x] : j \notin D[y] \/ Under(t, D, opp, y, j)}
      /\ \A w \in A : w # x /\ w # y => E[w] = D[w]
  BY <1>2, <1>6, <1>a
<1> HIDE DEF E
<1>10. ASSUME NEW w \in A, w # x, w # y, NEW s \in Sides, NEW j \in A
       PROVE  Under(R, E, s, w, j) <=> Under(t, D, s, w, j)
  <2>0. w \in Keys /\ w # NULL
    BY <1>6, KeysAreInts
  <2>1. CASE w = p /\ s = SideOf(t, x)
    <3>1. R.child[s][w] = y /\ t.child[s][w] = x
      BY <2>0, <2>1, <1>1, <1>4, <1>10
    <3> QED
      BY <3>1, <1>2, <1>9 DEF Under
  <2>2. CASE ~(w = p /\ s = SideOf(t, x))
    <3>1. R.child[s][w] = t.child[s][w]
      BY <2>0, <2>2, <1>1, <1>10
    <3>2. t.child[s][w] # y /\ t.child[s][w] # x
      BY <2>2, <1>7, <1>10
    <3>3. t.child[s][w] # NULL => t.child[s][w] \in A
      BY DEF Linked
    <3> QED
      BY <3>1, <3>2, <3>3, <1>9 DEF Under
  <2> QED
    BY <2>1, <2>2
<1>11. ASSUME NEW j \in A
       PROVE  /\ Under(R, E, side, x, j) <=> Under(t, D, opp, y, j)
              /\ Under(R, E, opp, x, j) <=> Under(t, D, opp, x, j)
              /\ Under(R, E, side, y, j) <=> Under(t, D, side, y, j)
              /\ Under(R, E, opp, y, j) <=> j \in E[x]
  <2>1. /\ R.child[side][x] = b
        /\ R.child[opp][x] = t.child[opp][x]
        /\ R.child[side][y] = t.child[side][y]
        /\ R.child[opp][y] = x
    BY <1>1, <1>2, <1>4
  <2>2. b # NULL => E[b] = D[b]
    BY <1>2, <1>3, <1>9
  <2>3. LET c == t.child[opp][x] IN c # NULL => c \in A /\ c # x /\ c # y
    BY <1>2, NeighbourIs
  <2>4. LET c == t.child[side][y] IN c # NULL => c \in A /\ c # x /\ c # y
    BY <1>2, NeighbourIs
  <2>5. /\ Under(R, E, side, x, j) <=> Under(t, D, opp, y, j)
        /\ Under(R, E, opp, y, j) <=> j \in E[x]
    BY <1>0, <2>1, <2>2, <1>2 DEF Under
  <2>6. Under(R, E, opp, x, j) <=> Under(t, D, opp, x, j)
    BY <2>1, <2>3, <1>9 DEF Under
  <2>7. Under(R, E, side, y, j) <=> Under(t, D, side, y, j)
    BY <2>1, <2>4, <1>9 DEF Under
  <2> QED
    BY <2>5, <2>6, <2>7
<1>12. ASSUME NEW w \in A, NEW j \in A
       PROVE  /\ j \in D[w] <=> \/ j = w
                                \/ Under(t, D, side, w, j) \/ Under(t, D, opp, w, j)
              /\ \A s \in Sides : Under(t, D, s, w, j) => j # w /\ Toward(j, w) = s
              /\ j \in Keys /\ w \in Keys
  BY <1>2, <1>6, SidesDiffer DEF Ordered
<1>13. \A j \in A : /\ Under(t, D, side, x, j) <=> j \in D[y]
                    /\ j \in D[y] => Toward(j, x) = side
  BY <1>0, <1>2, <1>12 DEF Under
<1>14. R.root # NULL => E[R.root] = A
  <2>1. CASE p = NULL
    BY <2>1, <1>1, <1>5, <1>6, <1>9 DEF Ordered
  <2>2. CASE p # NULL
    BY <2>2, <1>1, <1>2, <1>4, <1>6, <1>9 DEF Ordered
  <2> QED
    BY <2>1, <2>2
<1>15. ASSUME NEW w \in A, NEW j \in A
       PROVE  j \in E[w] <=> j = w \/ \E s \in Sides : Under(R, E, s, w, j)
  <2>0. (\E s \in Sides : Under(R, E, s, w, j))
           <=> Under(R, E, side, w, j) \/ Under(R, E, opp, w, j)
    BY <1>2, SidesDiffer
  <2>1. CASE w = x
    BY <2>0, <2>1, <1>2, <1>9, <1>11, <1>12, <1>13
  <2>2. CASE w = y
    BY <2>0, <2>2, <1>2, <1>9, <1>11, <1>12, <1>13
  <2>3. CASE w # x /\ w # y
    BY <2>0, <2>3, <1>2, <1>9, <1>10, <1>12
  <2> QED
    BY <2>1, <2>2, <2>3
<1>16. ASSUME NEW w \in A, NEW j \in A, NEW s \in Sides, Under(R, E, s, w, j)
       PROVE  j # w /\ Toward(j, w) = s
  <2>1. CASE w = x
    <3>1. CASE s = side
      BY <2>1, <3>1, <1>16, <1>0, <1>2, <1>11, <1>12, <1>13
    <3>2. CASE s = opp
      BY <2>1, <3>2, <1>16, <1>2, <1>11, <1>12
    <3> QED
      BY <1>0, <3>1, <3>2, SidesDiffer
  <2>2. CASE w = y
    <3>1. CASE s = side
      BY <2>2, <3>1, <1>16, <1>0, <1>2, <1>11, <1>12
    <3>2. CASE s = opp
      <4>1. Toward(x, y) = opp
        BY <1>0, <1>2, TowardFlips
      <4>2. j = x \/ Under(t, D, opp, x, j) \/ Under(t, D, opp, y, j)
        BY <2>2, <3>2, <1>16, <1>2, <1>9, <1>11, <1>12, <1>13
      <4>3. CASE j = x
        BY <2>2, <3>2, <4>1, <4>3, <1>2
      <4>4. CASE Under(t, D, opp, x, j)
        <5>1. j # x /\ Toward(j, x) = opp /\ j \in Keys
          BY <4>4, <1>2, <1>12
        <5> QED
          BY <2>2, <3>2, <5>1, <1>2, TowardAcross
      <4>5. CASE Under(t, D, opp, y, j)
        BY <2>2, <3>2, <4>5, <1>0, <1>2, <1>12
      <4> QED
        BY <4>2, <4>3, <4>4, <4>5
    <3> QED
      BY <1>0, <3>1, <3>2, SidesDiffer
  <2>3. CASE w # x /\ w # y
    BY <2>3, <1>16, <1>10, <1>12
  <2> QED
    BY <2>1, <2>2, <2>3
<1>17. Ordered(R, A, E)
  BY <1>9, <1>14, <1>15, <1>16 DEF Ordered
<1> QED
  BY <1>8, <1>17 DEF R, E

-----------------------------------------------------------------------------
(***************************************************************************)
(* Splaying keeps the search tree, and ends with the node at the root.     *)
(***************************************************************************)

\* An iteration puts below x all that was below one of its ancestors.
LEMMA SplayStepKeeps ==
  ASSUME NEW t, NEW A, NEW D, Linked(t, A), Ordered(t, A, D),
         NEW x \in A, t.parent[x] # NULL
  PROVE  \E E : /\ Linked(SplayStep(t, x), A)
                /\ Ordered(SplayStep(t, x), A, E)
                /\ D[x] \subseteq E[x] /\ D[x] # E[x]
<1> DEFINE p == t.parent[x]
           g == t.parent[p]
           sx == SideOf(t, x)
           sp == SideOf(t, p)
<1>0. p = t.parent[x] /\ g = t.parent[p] /\ sx = SideOf(t, x) /\ sp = SideOf(t, p)
  OBVIOUS
<1>s. SplayStep(t, x) = IF g = NULL THEN Rotate(t, p, sx)
                        ELSE IF sx = sp THEN Rotate(Rotate(t, g, sp), p, sx)
                        ELSE Rotate(Rotate(t, p, sx), g, sp)
  BY DEF SplayStep
<1> HIDE DEF p, g, sx, sp
<1>1. /\ p \in A /\ sx \in Sides /\ t.child[sx][p] = x /\ p # x
      /\ x # NULL /\ p # NULL /\ p \in Keys /\ x \in Keys
      /\ D[x] \subseteq D[p] /\ p \notin D[x] /\ p \in D[p]
  <2>1. p \in A /\ sx \in Sides /\ t.child[sx][p] = x /\ p # x /\ x # NULL
    BY <1>0, ParentOf, KeysAreInts DEF Linked
  <2>2. D[x] \subseteq D[p] /\ p \notin D[x] /\ p \in Keys /\ x \in Keys
    BY <2>1, Neighbours
  <2>3. p \in D[p]
    BY <2>1 DEF Ordered
  <2> QED
    BY <2>1, <2>2, <2>3, KeysAreInts
<1>2. CASE g = NULL
  <2>1. SplayStep(t, x) = Rotate(t, p, sx)
    BY <1>2, <1>s
  <2> DEFINE E == Rotated(t, A, D, p, sx)
  <2>2. Linked(Rotate(t, p, sx), A) /\ Ordered(Rotate(t, p, sx), A, E)
    BY <1>1, RotateKeeps
  <2>3. E[x] = D[p]
    BY <1>1 DEF Rotated
  <2> HIDE DEF E
  <2> QED
    BY <1>1, <2>1, <2>2, <2>3
<1>3. CASE g # NULL
  <2>1. /\ g \in A /\ sp \in Sides /\ t.child[sp][g] = p /\ g # p
        /\ \A r \in Sides : t.child[r][p] # g
    BY <1>0, <1>1, <1>3, ParentOf
  <2>2. D[p] \subseteq D[g] /\ g \in Keys /\ g # x
    BY <1>1, <2>1, NeighbourIs
  <2>3. CASE sx = sp
    <3> DEFINE t1 == Rotate(t, g, sp)
               E1 == Rotated(t, A, D, g, sp)
               E2 == Rotated(t1, A, E1, p, sx)
    <3>1. SplayStep(t, x) = Rotate(t1, p, sx)
      BY <1>3, <2>3, <1>s
    <3>2. Linked(t1, A) /\ Ordered(t1, A, E1)
      BY <1>1, <2>1, RotateKeeps
    <3>3. t1.child[sx][p] = x
      <4>1. sx # Opposite(sp)
        BY <2>1, <2>3, SidesDiffer
      <4>2. t.parent[g] # p
        BY <1>1, <2>1, ParentOf
      <4>3. t1.child[sx][p] = t.child[sx][p]
        <5> HIDE DEF t1
        <5>1. t1 = Rotate(t, g, sp)
          BY DEF t1
        <5> QED
          BY <1>1, <2>1, <2>2, <4>1, <4>2, <5>1, RotateFieldsAre
      <4> QED
        BY <1>1, <4>3
    <3>4. E1[p] = D[g]
      BY <1>1, <2>1 DEF Rotated
    <3> HIDE DEF t1, E1
    <3>5. Linked(Rotate(t1, p, sx), A) /\ Ordered(Rotate(t1, p, sx), A, E2)
      BY <1>1, <3>2, <3>3, RotateKeeps
    <3>6. E2[x] = E1[p]
      BY <1>1, <3>3 DEF Rotated
    <3> HIDE DEF E2
    <3> QED
      BY <1>1, <2>2, <3>1, <3>4, <3>5, <3>6
  <2>4. CASE sx # sp
    <3> DEFINE t1 == Rotate(t, p, sx)
               E1 == Rotated(t, A, D, p, sx)
               E2 == Rotated(t1, A, E1, g, sp)
    <3>1. SplayStep(t, x) = Rotate(t1, g, sp)
      BY <1>3, <2>4, <1>s
    <3>2. Linked(t1, A) /\ Ordered(t1, A, E1)
      BY <1>1, RotateKeeps
    <3>3. t1.child[sp][g] = x
      <4> HIDE DEF t1
      <4>1. t1 = Rotate(t, p, sx)
        BY DEF t1
      <4>2. x = t.child[sx][p] /\ x # NULL /\ g = t.parent[p]
        BY <1>0, <1>1
      <4>3. \A s \in Sides, w \in Keys :
               w = g /\ s = SideOf(t, p) /\ w # p /\ w # x => t1.child[s][w] = x
        BY <1>1, <4>1, <4>2, RotateFieldsAre
      <4> QED
        BY <1>0, <2>1, <2>2, <4>3
    <3>4. E1[g] = D[g]
      BY <1>1, <2>1, <2>2 DEF Rotated
    <3> HIDE DEF t1, E1
    <3>5. Linked(Rotate(t1, g, sp), A) /\ Ordered(Rotate(t1, g, sp), A, E2)
      BY <1>1, <2>1, <3>2, <3>3, RotateKeeps
    <3>6. E2[x] = E1[g]
      BY <1>1, <3>3 DEF Rotated
    <3> HIDE DEF E2
    <3> QED
      BY <1>1, <2>2, <3>1, <3>4, <3>5, <3>6
  <2> QED
    BY <2>3, <2>4
<1> QED
  BY <1>2, <1>3

\* A turn of splay's loop, and what splaying does in so many turns.
Turn(t, x) == IF t.parent[x] = NULL THEN t ELSE SplayStep(t, x)

Turns(t, x, m, f) ==
  f = [n \in 0..m |-> IF n = 0 THEN t ELSE Turn(f[n - 1], x)]

LEMMA LeastElement ==
  ASSUME NEW T, T \subseteq Nat, T # {}
  PROVE  \E x \in T : \A y \in T : x <= y
<1> DEFINE R == OpToRel(<, Nat)
<1>1. IsWellFoundedOn(R, Nat)
  BY NatLessThanWellFounded
<1>2. \A x, y \in Nat : y < x => <<y, x>> \in R
  BY DEF OpToRel
<1> HIDE DEF R
<1>3. \E x \in T : \A y \in T : ~(<<y, x>> \in R)
  BY <1>1, WFMin
<1>4. \E x \in T : \A y \in T : ~(y < x)
  BY <1>2, <1>3, Zenon
<1> QED
  BY <1>4

\* The recursion defines the turns: no number is the least without.
LEMMA TurnsExist ==
  ASSUME NEW t, NEW x, NEW N \in Nat
  PROVE  \E f : Turns(t, x, N, f)
<1> DEFINE None == {m \in Nat : ~\E f : Turns(t, x, m, f)}
<1>1. SUFFICES ASSUME None # {} PROVE FALSE
  OBVIOUS
<1>2. PICK m \in None : \A n \in None : m <= n
  BY <1>1, LeastElement
<1>3. m \in Nat
  BY <1>2
<1>4. CASE m = 0
  <2>1. Turns(t, x, 0, [n \in 0..0 |-> t])
    BY DEF Turns
  <2> QED
    BY <1>2, <1>4, <2>1
<1>5. CASE m # 0
  <2>1. m - 1 \in Nat /\ m - 1 \notin None
    BY <1>2, <1>5
  <2>2. PICK f : Turns(t, x, m - 1, f)
    BY <2>1
  <2> DEFINE h == [n \in 0..m |-> IF n = m THEN Turn(f[m - 1], x) ELSE f[n]]
  <2>3. ASSUME NEW n \in 0..m
        PROVE  h[n] = IF n = 0 THEN t ELSE Turn(h[n - 1], x)
    <3>1. CASE n = m
      BY <1>3, <1>5, <3>1
    <3>2. CASE n # m
      <4>1. n \in 0..(m - 1) /\ (n # 0 => n - 1 \in 0..m /\ n - 1 # m)
        BY <1>3, <3>2
      <4>2. h[n] = f[n] /\ (n # 0 => h[n - 1] = f[n - 1])
        BY <3>2, <4>1
      <4> HIDE DEF h
      <4> QED
        BY <2>2, <4>1, <4>2 DEF Turns
    <3> QED
      BY <3>1, <3>2
  <2>4. Turns(t, x, m, h)
    BY <2>3 DEF Turns
  <2> QED
    BY <1>2, <2>4
<1> QED
  BY <1>4, <1>5

LEMMA SplayIs ==
  ASSUME NEW t, NEW x
  PROVE  /\ Cardinality(Keys) \in Nat
         /\ \E f : /\ Turns(t, x, Cardinality(Keys), f)
                   /\ Splay(t, x) = f[Cardinality(Keys)]
<1>1. Cardinality(Keys) \in Nat
  BY KeysAssumption, FS_CardinalityType
<1> DEFINE f == CHOOSE f : Turns(t, x, Cardinality(Keys), f)
<1>2. Turns(t, x, Cardinality(Keys), f)
  BY <1>1, TurnsExist
<1>3. Splay(t, x) = f[Cardinality(Keys)]
  BY DEF Splay, Turns, Turn
<1> QED
  BY <1>1, <1>2, <1>3

\* Every turn keeps the search tree, and puts one more node below x or finds
\* x at the root: Cardinality(Keys) turns are enough.
LEMMA SplayKeeps ==
  ASSUME NEW t, NEW A, NEW D, Linked(t, A), Ordered(t, A, D), NEW x \in A
  PROVE  /\ \E E : Linked(Splay(t, x), A) /\ Ordered(Splay(t, x), A, E)
         /\ Splay(t, x).parent[x] = NULL
<1> DEFINE N == Cardinality(Keys)
           Good(u, n) == \E E : /\ Linked(u, A) /\ Ordered(u, A, E)
                                /\ \/ u.parent[x] = NULL
                                   \/ n < Cardinality(E[x])
<1>1. N \in Nat
  BY SplayIs
<1>2. PICK f : Turns(t, x, N, f) /\ Splay(t, x) = f[N]
  BY SplayIs
<1>3. ASSUME NEW u, NEW E, Linked(u, A), Ordered(u, A, E)
      PROVE  /\ x \in E[x] /\ E[x] \in SUBSET Keys
             /\ IsFiniteSet(E[x]) /\ Cardinality(E[x]) \in Nat
             /\ Cardinality(E[x]) <= N
  <2>1. x \in E[x] /\ E[x] \in SUBSET Keys
    BY <1>3 DEF Linked, Ordered
  <2> QED
    BY <2>1, KeysAssumption, FS_Subset, FS_CardinalityType
<1> HIDE DEF N
<1>4. Good(t, 0)
  <2>1. Cardinality(D[x]) # 0
    BY <1>3, FS_EmptySet
  <2>2. 0 < Cardinality(D[x])
    BY <2>1, <1>3
  <2> QED
    BY <2>2
<1>5. ASSUME NEW u, NEW n \in Nat, Good(u, n)
      PROVE  Good(Turn(u, x), n + 1)
  <2>1. PICK E : /\ Linked(u, A) /\ Ordered(u, A, E)
                 /\ u.parent[x] = NULL \/ n < Cardinality(E[x])
    BY <1>5
  <2>2. CASE u.parent[x] = NULL
    BY <2>1, <2>2 DEF Turn
  <2>3. CASE u.parent[x] # NULL
    <3>1. PICK F : /\ Linked(SplayStep(u, x), A)
                   /\ Ordered(SplayStep(u, x), A, F)
                   /\ E[x] \subseteq F[x] /\ E[x] # F[x]
      BY <2>1, <2>3, SplayStepKeeps
    <3>2. /\ Cardinality(E[x]) \in Nat
          /\ IsFiniteSet(F[x]) /\ Cardinality(F[x]) \in Nat
      BY <1>3, <2>1, <3>1
    <3>3. Cardinality(E[x]) <= Cardinality(F[x])
          /\ Cardinality(E[x]) # Cardinality(F[x])
      BY <3>1, <3>2, FS_Subset
    <3>4. n + 1 < Cardinality(F[x])
      BY <2>1, <2>3, <3>2, <3>3
    <3> QED
      BY <2>3, <3>1, <3>4 DEF Turn
  <2> QED
    BY <2>2, <2>3
<1> HIDE DEF Good
<1>6. Good(f[N], N)
  <2> DEFINE Bad == {n \in 0..N : ~Good(f[n], n)}
  <2>1. SUFFICES ASSUME Bad # {} PROVE FALSE
    BY <1>1
  <2>2. PICK m \in Bad : \A n \in Bad : m <= n
    <3>1. Bad \subseteq Nat
      BY <1>1
    <3> HIDE DEF Bad
    <3> QED
      BY <2>1, <3>1, LeastElement
  <2>3. m # 0
    BY <1>1, <1>2, <1>4, <2>2 DEF Turns
  <2>4. m - 1 \in 0..N /\ m - 1 \notin Bad /\ m - 1 \in Nat /\ (m - 1) + 1 = m
    BY <1>1, <2>2, <2>3
  <2>5. f[m] = Turn(f[m - 1], x)
    BY <1>1, <1>2, <2>2, <2>3 DEF Turns
  <2> QED
    BY <1>5, <2>2, <2>4, <2>5
<1>7. PICK E : /\ Linked(f[N], A) /\ Ordered(f[N], A, E)
               /\ f[N].parent[x] = NULL \/ N < Cardinality(E[x])
  BY <1>6 DEF Good
<1>8. f[N].parent[x] = NULL
  BY <1>1, <1>3, <1>7
<1> QED
  BY <1>2, <1>7, <1>8
-----------------------------------------------------------------------------
(***************************************************************************)
(* Searching.                                                              *)
(***************************************************************************)

\* Among any nodes there is one whose children are not among them.
LEMMA LowestNode ==
  ASSUME NEW t, NEW A, NEW D, Linked(t, A), Ordered(t, A, D),
         NEW B, B \subseteq A, B # {}
  PROVE  \E x \in B : \A s \in Sides : t.child[s][x] \notin B
<1> DEFINE sizes == {Cardinality(D[x]) : x \in B}
<1>1. \A x \in A : IsFiniteSet(D[x]) /\ Cardinality(D[x]) \in Nat
  <2> TAKE x \in A
  <2>1. D[x] \in SUBSET Keys
    BY DEF Linked, Ordered
  <2> QED
    BY <2>1, KeysAssumption, FS_Subset, FS_CardinalityType
<1>2. PICK n \in sizes : \A m \in sizes : n <= m
  <2>1. sizes \subseteq Nat /\ sizes # {}
    BY <1>1
  <2> QED
    BY <2>1, LeastElement
<1>3. PICK x \in B : n = Cardinality(D[x])
  BY <1>2
<1>4. ASSUME NEW s \in Sides, t.child[s][x] \in B
      PROVE  FALSE
  <2> DEFINE y == t.child[s][x]
  <2>1. y # NULL
    BY <1>4, KeysAreInts DEF Linked
  <2>2. D[y] \subseteq D[x] /\ x \notin D[y] /\ x \in D[x]
    BY <2>1, Neighbours DEF Ordered
  <2>3. Cardinality(D[y]) <= Cardinality(D[x]) /\ Cardinality(D[y]) # Cardinality(D[x])
    BY <1>1, <2>2, FS_Subset
  <2>4. Cardinality(D[x]) <= Cardinality(D[y])
    BY <1>2, <1>3, <1>4
  <2> QED
    BY <1>1, <1>4, <2>3, <2>4
<1> QED
  BY <1>4

LEMMA BelowIsTransitive ==
  ASSUME NEW t, NEW A, NEW D, Linked(t, A), Ordered(t, A, D),
         NEW x \in A, NEW w \in D[x]
  PROVE  D[w] \subseteq D[x] /\ (x \in D[w] => w = x)
<1> DEFINE Bad == {z \in A : \E v \in D[z] : ~(D[v] \subseteq D[z])}
<1>1. Bad = {}
  <2> SUFFICES ASSUME Bad # {} PROVE FALSE
    OBVIOUS
  <2>1. PICK z \in Bad : \A s \in Sides : t.child[s][z] \notin Bad
    BY LowestNode
  <2>2. PICK v \in D[z] : ~(D[v] \subseteq D[z])
    BY <2>1
  <2>3. v \in A /\ v # z
    BY <2>2 DEF Ordered
  <2>4. PICK s \in Sides : t.child[s][z] # NULL /\ v \in D[t.child[s][z]]
    BY <2>2, <2>3 DEF Ordered, Under
  <2>5. t.child[s][z] \in A /\ D[t.child[s][z]] \subseteq D[z]
    BY <2>4, Neighbours
  <2> QED
    BY <2>1, <2>2, <2>4, <2>5
<1>2. D[w] \subseteq D[x]
  BY <1>1
<1>3. ASSUME x \in D[w], w # x PROVE FALSE
  <2>1. w \in A
    BY DEF Ordered
  <2>2. PICK s \in Sides : t.child[s][x] # NULL /\ w \in D[t.child[s][x]]
    BY <1>3, <2>1 DEF Ordered, Under
  <2>3. t.child[s][x] \in A /\ x \notin D[t.child[s][x]]
    BY <2>2, Neighbours
  <2> QED
    BY <1>1, <1>3, <2>2, <2>3
<1> QED
  BY <1>2, <1>3

\* The nodes a walk reaches from x: every set that holds x and is closed
\* under a step of the walk holds them.
Reached(next, x) ==
  {w \in Keys : \A S \in SUBSET Keys :
      x \in S /\ (\A y \in S : next[y] # NULL => next[y] \in S) => w \in S}

LEMMA ReachedStep ==
  ASSUME NEW next \in [Keys -> Link], NEW x \in Keys
  PROVE  Reached(next, x) = {x} \cup IF next[x] = NULL THEN {}
                                     ELSE Reached(next, next[x])
<1> DEFINE rest == IF next[x] = NULL THEN {} ELSE Reached(next, next[x])
<1>1. ASSUME NEW w \in {x} \cup rest PROVE w \in Reached(next, x)
  BY DEF Reached
<1>2. {x} \cup rest \in SUBSET Keys
  BY DEF Reached
<1>3. ASSUME NEW y \in {x} \cup rest, next[y] # NULL
      PROVE  next[y] \in {x} \cup rest
  <2>1. CASE y = x
    <3>1. next[x] \in Keys
      BY <1>3, <2>1 DEF Link
    <3> QED
      BY <1>3, <2>1, <3>1 DEF Reached
  <2>2. CASE y # x
    <3>1. next[x] # NULL /\ y \in Reached(next, next[x])
      BY <2>2
    <3>2. next[y] \in Keys
      BY <1>3, <3>1 DEF Link, Reached
    <3>3. next[y] \in Reached(next, next[x])
      BY <1>3, <3>1, <3>2 DEF Reached
    <3> QED
      BY <3>1, <3>3
  <2> QED
    BY <2>1, <2>2
<1>4. ASSUME NEW w \in Reached(next, x) PROVE w \in {x} \cup rest
  <2> HIDE DEF rest
  <2> QED
    BY <1>2, <1>3 DEF Reached
<1> QED
  BY <1>1, <1>4

\* The search is the recursion that tree_find's loop is.
Searches(t, k, below) ==
  below = [x \in Link |->
             IF x = NULL THEN {}
             ELSE IF x = k THEN {x}
             ELSE {x} \cup below[t.child[Toward(k, x)][x]]]

LEMMA PathIs ==
  ASSUME NEW t \in Trees, NEW k
  PROVE  \E below : Searches(t, k, below) /\ Path(t, k) = below[t.root]
<1> DEFINE next == [x \in Keys |-> IF x = k THEN NULL ELSE t.child[Toward(k, x)][x]]
           W == [x \in Link |-> IF x = NULL THEN {} ELSE Reached(next, x)]
<1>1. next \in [Keys -> Link]
  BY TowardSide, TreeFields DEF Link
<1>2. ASSUME NEW x \in Link
      PROVE  W[x] = IF x = NULL THEN {}
                    ELSE IF x = k THEN {x}
                    ELSE {x} \cup W[t.child[Toward(k, x)][x]]
  <2>1. CASE x = NULL
    BY <2>1
  <2>2. CASE x # NULL
    <3>1. x \in Keys
      BY <2>2 DEF Link
    <3>2. W[x] = {x} \cup IF next[x] = NULL THEN {} ELSE Reached(next, next[x])
      BY <1>1, <2>2, <3>1, ReachedStep
    <3>3. next[x] = IF x = k THEN NULL ELSE t.child[Toward(k, x)][x]
      BY <3>1
    <3>4. t.child[Toward(k, x)][x] \in Link
      BY <3>1, TowardSide, TreeFields
    <3> HIDE DEF next
    <3> QED
      BY <2>2, <3>2, <3>3, <3>4
  <2> QED
    BY <2>1, <2>2
<1> HIDE DEF next
<1>3. Searches(t, k, W)
  BY <1>2 DEF Searches
<1> DEFINE below == CHOOSE below : Searches(t, k, below)
<1>4. Searches(t, k, below)
  BY <1>3
<1>5. Path(t, k) = below[t.root]
  BY DEF Path, Searches
<1> QED
  BY <1>4, <1>5

\* One step of the search, at a node of the tree.
LEMMA SearchStep ==
  ASSUME NEW t, NEW A, NEW D, Linked(t, A), Ordered(t, A, D),
         NEW k, NEW below, Searches(t, k, below), NEW x \in A
  PROVE  LET c == t.child[Toward(k, x)][x] IN
         /\ x \in below[x]
         /\ \/ below[x] = {x}
            \/ (c # NULL /\ x # k /\ below[x] = {x} \cup below[c])
         /\ (c # NULL /\ x # k) => below[x] = {x} \cup below[c]
         /\ c # NULL => /\ c \in A /\ Toward(k, x) \in Sides
                        /\ D[c] \subseteq D[x]
<1> DEFINE c == t.child[Toward(k, x)][x]
<1>1. x \in Link /\ x # NULL
  BY KeysAreInts DEF Linked, Link
<1>2. c \in Link /\ Toward(k, x) \in Sides
  BY <1>1, TowardSide, TreeFields DEF Linked, Link
<1>3. below[x] = IF x = k THEN {x} ELSE {x} \cup below[c]
  BY <1>1 DEF Searches
<1>4. below[NULL] = {}
  BY DEF Searches, Link
<1>5. c # NULL => c \in A /\ D[c] \subseteq D[x]
  BY <1>2, Neighbours
<1> HIDE DEF c
<1> QED
  BY <1>2, <1>3, <1>4, <1>5 DEF c

\* A search stays below the node it is at.
LEMMA SearchStays ==
  ASSUME NEW t, NEW A, NEW D, Linked(t, A), Ordered(t, A, D),
         NEW k, NEW below, Searches(t, k, below), NEW x \in A
  PROVE  below[x] \subseteq D[x]
<1> DEFINE Bad == {z \in A : ~(below[z] \subseteq D[z])}
<1> SUFFICES ASSUME Bad # {} PROVE FALSE
  OBVIOUS
<1>1. PICK z \in Bad : \A s \in Sides : t.child[s][z] \notin Bad
  BY LowestNode
<1>2. z \in D[z]
  BY DEF Ordered
<1> QED
  BY <1>1, <1>2, SearchStep

\* It finds every node that k is on the same side of as, all the way down.
LEMMA SearchFinds ==
  ASSUME NEW t, NEW A, NEW D, Linked(t, A), Ordered(t, A, D),
         NEW k, NEW m \in A,
         \A x \in A : x # m => x # k /\ Toward(k, x) = Toward(m, x)
  PROVE  m \in Path(t, k)
<1>0. t \in Trees
  BY DEF Linked
<1>1. PICK below : Searches(t, k, below) /\ Path(t, k) = below[t.root]
  BY <1>0, PathIs
<1> DEFINE Bad == {z \in A : m \in D[z] /\ m \notin below[z]}
<1>2. Bad = {}
  <2> SUFFICES ASSUME Bad # {} PROVE FALSE
    OBVIOUS
  <2>1. PICK z \in Bad : \A s \in Sides : t.child[s][z] \notin Bad
    BY LowestNode
  <2>2. m # z
    BY <1>1, SearchStep
  <2>3. PICK s \in Sides : Under(t, D, s, z, m)
    BY <2>2 DEF Ordered
  <2>4. s = Toward(k, z) /\ z # k
    BY <2>2, <2>3 DEF Ordered
  <2>5. t.child[s][z] # NULL /\ m \in D[t.child[s][z]]
    BY <2>3 DEF Under
  <2> QED
    BY <1>1, <2>1, <2>4, <2>5, SearchStep
<1>3. t.root \in A /\ m \in D[t.root]
  BY DEF Linked, Ordered
<1> QED
  BY <1>1, <1>2, <1>3

\* What it finds on its way is on the side of k from all nodes above.
LEMMA SearchSide ==
  ASSUME NEW t, NEW A, NEW D, Linked(t, A), Ordered(t, A, D),
         NEW k, NEW q \in Path(t, k)
  PROVE  /\ q \in A
         /\ \A w \in A : q \in D[w] /\ w # q => w # k /\ Toward(k, w) = Toward(q, w)
<1>0. t \in Trees
  BY DEF Linked
<1>1. PICK below : Searches(t, k, below) /\ Path(t, k) = below[t.root]
  BY <1>0, PathIs
<1>2. t.root \in A /\ D[t.root] = A
  <2>1. t.root # NULL
    BY <1>1 DEF Searches, Link
  <2> QED
    BY <2>1 DEF Linked, Ordered
<1>3. q \in A
  BY <1>1, <1>2, SearchStays
<1> DEFINE Side(v, w) == w # k /\ Toward(k, w) = Toward(v, w)
           Bad == {z \in A : \E v \in below[z], w \in D[z] :
                                v \in D[w] /\ w # v /\ ~Side(v, w)}
<1>4. Bad = {}
  <2> SUFFICES ASSUME Bad # {} PROVE FALSE
    OBVIOUS
  <2>1. PICK z \in Bad : \A s \in Sides : t.child[s][z] \notin Bad
    BY LowestNode
  <2>2. PICK v \in below[z], w \in D[z] : v \in D[w] /\ w # v /\ ~Side(v, w)
    BY <2>1
  <2> DEFINE s == Toward(k, z)
             c == t.child[s][z]
  <2>3. v # z /\ w \in A
    BY <2>2, BelowIsTransitive DEF Ordered
  <2>4. c # NULL /\ z # k /\ v \in below[c] /\ c \in A /\ s \in Sides
    BY <1>1, <2>2, <2>3, SearchStep
  <2>5. v \in D[c] /\ v \in A
    BY <1>1, <2>4, SearchStays DEF Ordered
  <2>6. Toward(v, z) = s
    BY <2>4, <2>5 DEF Ordered, Under
  <2>7. w # z
    BY <2>2, <2>4, <2>6
  <2>8. PICK r \in Sides : t.child[r][z] # NULL /\ w \in D[t.child[r][z]]
    BY <2>2, <2>3, <2>7 DEF Ordered, Under
  <2>9. t.child[r][z] \in A
    BY <2>8, Neighbours
  <2>10. v \in D[t.child[r][z]]
    BY <2>2, <2>8, <2>9, BelowIsTransitive
  <2>11. r = s
    BY <2>5, <2>6, <2>8, <2>10 DEF Ordered, Under
  <2> QED
    BY <2>1, <2>2, <2>4, <2>8, <2>11
<1> QED
  BY <1>1, <1>2, <1>3, <1>4

LEMMA SearchFindsKeys ==
  ASSUME NEW t, NEW A, NEW D, Linked(t, A), Ordered(t, A, D), NEW k
  PROVE  k \in Path(t, k) <=> k \in A
  BY SearchFinds, SearchSide

\* A tree that holds a node is searched from its root.
LEMMA SearchStarts ==
  ASSUME NEW t, NEW A, NEW D, Linked(t, A), Ordered(t, A, D),
         NEW k, A # {}
  PROVE  Path(t, k) # {}
<1>0. t \in Trees /\ t.root \in A
  BY DEF Linked
<1>1. PICK below : Searches(t, k, below) /\ Path(t, k) = below[t.root]
  BY <1>0, PathIs
<1> QED
  BY <1>0, <1>1, SearchStep

-----------------------------------------------------------------------------
(***************************************************************************)
(* A new leaf where the search ended.                                      *)
(***************************************************************************)
LEMMA FirstKeeps ==
  ASSUME NEW t, Linked(t, {}), NEW k \in Keys
  PROVE  \E E : /\ Linked([t EXCEPT !.root = k], {k})
                /\ Ordered([t EXCEPT !.root = k], {k}, E)
<1> DEFINE R == [t EXCEPT !.root = k]
           E == [w \in {k} |-> {k}]
<1>1. R = [root |-> k, child |-> t.child, parent |-> t.parent]
  BY DEF Linked, Trees
<1>2. R \in Trees
  BY <1>1 DEF Linked, Trees, Link
<1>3. R.root = k /\ R.child = t.child /\ R.parent = t.parent
  BY <1>1
<1> HIDE DEF R
<1>4. \A w \in Keys : R.parent[w] = NULL /\ \A s \in Sides : R.child[s][w] = NULL
  BY <1>3 DEF Linked
<1>5. Linked(R, {k})
  BY <1>2, <1>3, <1>4, KeysAreInts DEF Linked
<1>6. Ordered(R, {k}, E)
  BY <1>3, <1>4 DEF Ordered, Under
<1> QED
  BY <1>5, <1>6 DEF R

LEMMA LeafKeeps ==
  ASSUME NEW t, NEW A, NEW D, Linked(t, A), Ordered(t, A, D),
         NEW k \in Keys \ A, NEW p \in Path(t, k),
         t.child[Toward(k, p)][p] = NULL
  PROVE  LET R == Attach(t, p, Toward(k, p), k)
         IN  \E E : Linked(R, A \cup {k}) /\ Ordered(R, A \cup {k}, E)
<1> DEFINE side == Toward(k, p)
           R == Attach(t, p, side, k)
           A2 == A \cup {k}
           E == [w \in A2 |-> IF w = k THEN {k}
                              ELSE IF p \in D[w] THEN D[w] \cup {k} ELSE D[w]]
<1>1. /\ p \in A /\ side \in Sides /\ t \in Trees /\ A \subseteq Keys
      /\ k \in Keys /\ k \notin A /\ k # NULL /\ k \in Link /\ k # p
      /\ t.child[side][p] = NULL
  BY SearchSide, TowardSide, KeysAreInts DEF Linked, Link
<1>2. \A w \in A : p \in D[w] /\ w # p => Toward(k, w) = Toward(p, w)
  BY SearchSide
<1>3. /\ R \in Trees
      /\ R.root = t.root
      /\ \A s \in Sides, w \in Keys :
            R.child[s][w] = IF s = side /\ w = p THEN k ELSE t.child[s][w]
      /\ \A w \in Keys : R.parent[w] = IF w = k THEN p ELSE t.parent[w]
  BY <1>1, AttachFields
<1>4. Toward(k, p) = side
  OBVIOUS
<1> HIDE DEF R, side
<1>5. /\ \A s \in Sides, w \in A : t.child[s][w] # NULL =>
            t.child[s][w] \in A /\ t.parent[t.child[s][w]] = w
      /\ \A w \in A : w # t.root =>
            t.parent[w] \in A /\ t.child[SideOf(t, w)][t.parent[w]] = w
            /\ SideOf(t, w) \in Sides
      /\ \A w \in Keys \ A : \A s \in Sides : t.child[s][w] = NULL
      /\ \A w \in Keys \ A : t.parent[w] = NULL
      /\ t.root \in A /\ t.parent[t.root] = NULL /\ t.root # NULL
  BY <1>1, KeysAreInts DEF Linked, SideOf, Sides
<1>6. Linked(R, A2)
  <2>1. ASSUME NEW w \in A2, w # R.root
        PROVE  R.parent[w] \in A2 /\ R.child[SideOf(R, w)][R.parent[w]] = w
    <3>1. CASE w = k
      <4>1. R.parent[w] = p /\ R.child[side][p] = w
        BY <1>1, <1>3, <3>1
      <4> QED
        BY <1>1, <4>1, HangsThere
    <3>2. CASE w # k
      <4>1. w \in A /\ w # t.root /\ R.parent[w] = t.parent[w] /\ w # NULL
        BY <1>1, <1>3, <2>1, <3>2, KeysAreInts
      <4>2. t.parent[w] \in A /\ t.child[SideOf(t, w)][t.parent[w]] = w
            /\ SideOf(t, w) \in Sides
        BY <1>5, <4>1
      <4>3. R.child[SideOf(t, w)][t.parent[w]] = w
        BY <1>1, <1>3, <4>1, <4>2
      <4> QED
        BY <4>1, <4>2, <4>3, HangsThere
    <3> QED
      BY <3>1, <3>2
  <2>2. ASSUME NEW w \in A2, NEW s \in Sides, R.child[s][w] # NULL
        PROVE  R.child[s][w] \in A2 /\ R.parent[R.child[s][w]] = w
    <3>1. CASE s = side /\ w = p
      BY <1>1, <1>3, <3>1
    <3>2. CASE ~(s = side /\ w = p)
      <4>1. w \in Keys /\ R.child[s][w] = t.child[s][w]
        BY <1>1, <1>3, <3>2
      <4>2. w \in A /\ t.child[s][w] \in A /\ t.parent[t.child[s][w]] = w
        BY <1>1, <1>5, <2>2, <4>1
      <4> QED
        BY <1>1, <1>3, <4>1, <4>2
    <3> QED
      BY <3>1, <3>2
  <2>3. A2 \in SUBSET Keys /\ A2 # {} /\ R.root # NULL /\ R.root \in A2
        /\ R.parent[R.root] = NULL
    BY <1>1, <1>3, <1>5
  <2>4. \A w \in Keys \ A2 : R.parent[w] = NULL /\ \A s \in Sides : R.child[s][w] = NULL
    BY <1>1, <1>3, <1>5
  <2> HIDE DEF A2
  <2> QED
    BY <1>3, <2>1, <2>2, <2>3, <2>4 DEF Linked
<1>7. /\ D \in [A -> SUBSET A]
      /\ D[t.root] = A
      /\ \A x, j \in A : j \in D[x] <=> j = x \/ \E s \in Sides : Under(t, D, s, x, j)
      /\ \A x, j \in A, s \in Sides : Under(t, D, s, x, j) => j # x /\ Toward(j, x) = s
  BY <1>5 DEF Ordered
<1>8. /\ E \in [A2 -> SUBSET A2]
      /\ E[k] = {k}
      /\ \A w, j \in A : j \in E[w] <=> j \in D[w]
      /\ \A w \in A : k \in E[w] <=> p \in D[w]
  BY <1>1, <1>7
<1> HIDE DEF E
\* Old nodes hang where they hung, and k below what p is below.
<1>9. /\ \A x, j \in A, s \in Sides : Under(R, E, s, x, j) <=> Under(t, D, s, x, j)
      /\ \A x \in A, s \in Sides : Under(R, E, s, x, k)
            <=> \/ x = p /\ s = side
                \/ Under(t, D, s, x, p)
      /\ \A j \in A2, s \in Sides : ~Under(R, E, s, k, j)
  <2>1. ASSUME NEW x \in A, NEW j \in A, NEW s \in Sides
        PROVE  Under(R, E, s, x, j) <=> Under(t, D, s, x, j)
    <3>1. CASE s = side /\ x = p
      BY <1>1, <1>3, <1>8, <3>1 DEF Under
    <3>2. CASE ~(s = side /\ x = p)
      <4>1. R.child[s][x] = t.child[s][x]
        BY <1>1, <1>3, <3>2
      <4> QED
        BY <1>5, <1>8, <4>1 DEF Under
    <3> QED
      BY <3>1, <3>2
  <2>2. ASSUME NEW x \in A, NEW s \in Sides
        PROVE  Under(R, E, s, x, k) <=> (x = p /\ s = side) \/ Under(t, D, s, x, p)
    <3>1. CASE s = side /\ x = p
      BY <1>1, <1>3, <1>8, <3>1 DEF Under
    <3>2. CASE ~(s = side /\ x = p)
      <4>1. R.child[s][x] = t.child[s][x]
        BY <1>1, <1>3, <3>2
      <4> QED
        BY <1>5, <1>8, <3>2, <4>1 DEF Under
    <3> QED
      BY <3>1, <3>2
  <2>3. ASSUME NEW j \in A2, NEW s \in Sides
        PROVE  ~Under(R, E, s, k, j)
    BY <1>1, <1>3, <1>5 DEF Under
  <2> QED
    BY <2>1, <2>2, <2>3
<1>10. Ordered(R, A2, E)
  <2>1. E[R.root] = A2
    <3>1. p \in D[t.root]
      BY <1>1, <1>7
    <3>2. \A j \in A2 : j \in E[t.root]
      BY <1>1, <1>5, <1>7, <1>8, <3>1
    <3>3. E[t.root] \in SUBSET A2
      BY <1>5, <1>8
    <3> QED
      BY <1>3, <3>2, <3>3
  <2>2. ASSUME NEW x \in A2, NEW j \in A2
        PROVE  j \in E[x] <=> j = x \/ \E s \in Sides : Under(R, E, s, x, j)
    <3>1. CASE x = k
      BY <1>8, <1>9, <3>1
    <3>2. CASE x \in A /\ j \in A
      BY <1>7, <1>8, <1>9, <3>2
    <3>3. CASE x \in A /\ j = k
      <4>1. k \in E[x] <=> p \in D[x]
        BY <1>8, <3>3
      <4>2. p \in D[x] <=> p = x \/ \E s \in Sides : Under(t, D, s, x, p)
        BY <1>1, <1>7, <3>3
      <4> QED
        BY <1>1, <1>9, <3>3, <4>1, <4>2
    <3> QED
      BY <3>1, <3>2, <3>3
  <2>3. ASSUME NEW x \in A2, NEW j \in A2, NEW s \in Sides, Under(R, E, s, x, j)
        PROVE  j # x /\ Toward(j, x) = s
    <3>1. CASE x = k
      BY <1>9, <2>3, <3>1
    <3>2. CASE x \in A /\ j \in A
      BY <1>7, <1>9, <2>3, <3>2
    <3>3. CASE x \in A /\ j = k
      <4>1. CASE x = p /\ s = side
        BY <1>1, <1>4, <3>3, <4>1
      <4>2. CASE Under(t, D, s, x, p)
        <5>1. p # x /\ Toward(p, x) = s /\ p \in D[x]
          BY <1>1, <1>7, <3>3, <4>2
        <5> QED
          BY <1>1, <1>2, <3>3, <5>1
      <4> QED
        BY <1>9, <2>3, <3>3, <4>1, <4>2
    <3> QED
      BY <3>1, <3>2, <3>3
  <2> HIDE DEF A2
  <2> QED
    BY <1>8, <2>1, <2>2, <2>3 DEF Ordered
<1> QED
  BY <1>6, <1>10 DEF R, side

-----------------------------------------------------------------------------
(***************************************************************************)
(* A node that leaves.                                                     *)
(***************************************************************************)
LEMMA ForgetFields ==
  ASSUME NEW t \in Trees, NEW z \in Keys
  PROVE  LET a == Forget(t, z) IN
         /\ a \in Trees
         /\ a.root = t.root
         /\ \A s \in Sides, w \in Keys :
               a.child[s][w] = IF w = z THEN NULL ELSE t.child[s][w]
         /\ \A w \in Keys : a.parent[w] = IF w = z THEN NULL ELSE t.parent[w]
<1> DEFINE L == [t EXCEPT !.child["left"][z] = NULL]
           B == [L EXCEPT !.child["right"][z] = NULL]
           F == [B EXCEPT !.parent[z] = NULL]
<1>1. Forget(t, z) = F
  BY DEF Forget
<1>2. /\ L \in Trees /\ L.root = t.root /\ L.parent = t.parent
      /\ \A s \in Sides, w \in Keys :
            L.child[s][w] = IF s = "left" /\ w = z THEN NULL ELSE t.child[s][w]
  BY DEF Trees, Sides, Link
<1> HIDE DEF L
<1>3. /\ B \in Trees /\ B.root = L.root /\ B.parent = L.parent
      /\ \A s \in Sides, w \in Keys :
            B.child[s][w] = IF s = "right" /\ w = z THEN NULL ELSE L.child[s][w]
  BY <1>2 DEF Trees, Sides, Link
<1> HIDE DEF B
<1>4. /\ F \in Trees /\ F.root = B.root /\ F.child = B.child
      /\ \A w \in Keys : F.parent[w] = IF w = z THEN NULL ELSE B.parent[w]
  BY <1>3 DEF Trees, Link
<1> HIDE DEF F
<1>5. \A s \in Sides, w \in Keys :
         F.child[s][w] = IF w = z THEN NULL ELSE t.child[s][w]
  BY <1>2, <1>3, <1>4 DEF Sides
<1> QED
  BY <1>1, <1>2, <1>3, <1>4, <1>5

LEMMA SpliceFields ==
  ASSUME NEW t \in Trees, NEW z \in Keys, NEW c \in Link
  PROVE  LET p == t.parent[z]
             side == SideOf(t, z)
             R == Forget(Replace(t, z, c), z)
         IN
         /\ R \in Trees
         /\ R.root = IF p = NULL THEN c ELSE t.root
         /\ \A r \in Sides, w \in Keys :
               R.child[r][w] = IF w = z THEN NULL
                               ELSE IF w = p /\ r = side THEN c ELSE t.child[r][w]
         /\ \A w \in Keys :
               R.parent[w] = IF w = z THEN NULL
                             ELSE IF w = c THEN p ELSE t.parent[w]
<1> DEFINE p == t.parent[z]
           side == SideOf(t, z)
           T == Replace(t, z, c)
<1>1. /\ T \in Trees
      /\ T.root = IF p = NULL THEN c ELSE t.root
      /\ \A r \in Sides, w \in Keys :
            T.child[r][w] = IF w = p /\ r = side THEN c ELSE t.child[r][w]
      /\ \A w \in Keys : T.parent[w] = IF w = c THEN p ELSE t.parent[w]
  BY ReplaceFields
<1> HIDE DEF T, p, side
<1>2. /\ Forget(T, z) \in Trees
      /\ Forget(T, z).root = T.root
      /\ \A r \in Sides, w \in Keys :
            Forget(T, z).child[r][w] = IF w = z THEN NULL ELSE T.child[r][w]
      /\ \A w \in Keys :
            Forget(T, z).parent[w] = IF w = z THEN NULL ELSE T.parent[w]
  BY <1>1, ForgetFields
<1> QED
  BY <1>1, <1>2 DEF T, p, side

\* A node with no child on one side gives its place to the other child.
LEMMA SpliceKeeps ==
  ASSUME NEW t, NEW A, NEW D, Linked(t, A), Ordered(t, A, D),
         NEW z \in A, NEW s \in Sides, t.child[Opposite(s)][z] = NULL
  PROVE  LET R == Forget(Replace(t, z, t.child[s][z]), z)
         IN  \E E : Linked(R, A \ {z}) /\ Ordered(R, A \ {z}, E)
<1> DEFINE c == t.child[s][z]
           p == t.parent[z]
           side == SideOf(t, z)
           R == Forget(Replace(t, z, c), z)
           A2 == A \ {z}
           E == [w \in A2 |-> D[w] \ {z}]
<1>1. /\ t \in Trees /\ A \subseteq Keys /\ z \in Keys /\ z # NULL
      /\ c \in Link /\ p \in Link /\ side \in Sides
  BY KeysAreInts, TreeFields DEF Linked
<1>2. /\ R \in Trees
      /\ R.root = IF p = NULL THEN c ELSE t.root
      /\ \A r \in Sides, w \in Keys :
            R.child[r][w] = IF w = z THEN NULL
                            ELSE IF w = p /\ r = side THEN c ELSE t.child[r][w]
      /\ \A w \in Keys :
            R.parent[w] = IF w = z THEN NULL
                          ELSE IF w = c THEN p ELSE t.parent[w]
  BY <1>1, SpliceFields
<1>3. c # NULL => /\ c \in A /\ c # z /\ c # t.root /\ t.parent[c] = z
                  /\ c \in Keys
  BY Neighbours
<1>4. p # NULL => /\ z # t.root /\ p \in A /\ p # z
                  /\ t.child[side][p] = z
  BY ParentOf
<1>5. p = NULL => z = t.root
  BY KeysAreInts DEF Linked
<1>6. /\ D \in [A -> SUBSET A] /\ D[t.root] = A
      /\ t.root \in A /\ t.root # NULL /\ t.parent[t.root] = NULL
      /\ \A x, j \in A : j \in D[x] <=> j = x \/ \E r \in Sides : Under(t, D, r, x, j)
      /\ \A x, j \in A, r \in Sides : Under(t, D, r, x, j) => j # x /\ Toward(j, x) = r
  BY DEF Linked, Ordered
\* z's only child is c, and z is p's child on one side only.
<1>7. /\ \A w \in A, r \in Sides : t.child[r][w] = z <=> p # NULL /\ w = p /\ r = side
      /\ \A r \in Sides : t.child[r][z] # NULL => r = s
      /\ \A w \in A, r \in Sides : w # z /\ t.child[r][w] # NULL => t.child[r][w] # c
  <2>1. ASSUME NEW w \in A, NEW r \in Sides, t.child[r][w] = z
        PROVE  p # NULL /\ w = p /\ r = side
    BY <1>1, <2>1, Neighbours, KeysAreInts
  <2>2. ASSUME NEW w \in A, NEW r \in Sides, w # z, t.child[r][w] # NULL
        PROVE  t.child[r][w] # c
    BY <1>3, <2>2, Neighbours
  <2>3. \A r \in Sides : t.child[r][z] # NULL => r = s
    BY SidesDiffer
  <2> QED
    BY <1>4, <2>1, <2>2, <2>3
<1>8. D[z] \cap A2 = IF c = NULL THEN {} ELSE D[c] \cap A2
  BY <1>3, <1>6, <1>7 DEF Under
<1> HIDE DEF R, c, p, side
<1>9. Linked(R, A2)
  <2>1. A2 \in SUBSET Keys /\ (R.root = NULL <=> A2 = {})
    <3>1. CASE p = NULL
      BY <1>1, <1>2, <1>3, <1>5, <1>6, <1>8, <3>1
    <3>2. CASE p # NULL
      BY <1>1, <1>2, <1>4, <1>6, <3>2
    <3> QED
      BY <3>1, <3>2
  <2>2. R.root # NULL => R.root \in A2 /\ R.parent[R.root] = NULL
    <3>1. CASE p = NULL
      BY <1>1, <1>2, <1>3, <3>1
    <3>2. CASE p # NULL
      BY <1>1, <1>2, <1>3, <1>4, <1>6, <3>2
    <3> QED
      BY <3>1, <3>2
  <2>3. ASSUME NEW w \in A2, NEW r \in Sides, R.child[r][w] # NULL
        PROVE  R.child[r][w] \in A2 /\ R.parent[R.child[r][w]] = w
    <3>0. w \in Keys /\ w \in A /\ w # z
      BY <1>1
    <3>1. CASE w = p /\ r = side
      BY <1>2, <1>3, <2>3, <3>0, <3>1
    <3>2. CASE ~(w = p /\ r = side)
      <4>1. R.child[r][w] = t.child[r][w]
        BY <1>2, <3>0, <3>2
      <4>2. t.child[r][w] \in A /\ t.parent[t.child[r][w]] = w
        BY <2>3, <3>0, <4>1 DEF Linked
      <4>3. t.child[r][w] # z /\ t.child[r][w] # c
        BY <1>7, <2>3, <3>0, <3>2, <4>1
      <4> QED
        BY <1>1, <1>2, <4>1, <4>2, <4>3
    <3> QED
      BY <3>1, <3>2
  <2>4. ASSUME NEW w \in A2, w # R.root
        PROVE  R.parent[w] \in A2 /\ R.child[SideOf(R, w)][R.parent[w]] = w
    <3>0. w \in Keys /\ w \in A /\ w # z /\ w # NULL
      BY <1>1, KeysAreInts
    <3>1. CASE w = c
      <4>1. p # NULL /\ p \in Keys
        BY <1>1, <1>2, <1>4, <2>4, <3>1
      <4>2. R.parent[w] = p /\ R.child[side][p] = w /\ p \in A2
        BY <1>1, <1>2, <1>4, <3>0, <3>1, <4>1
      <4> QED
        BY <1>1, <4>2, HangsThere
    <3>2. CASE w # c
      <4>1. w # t.root
        BY <1>2, <1>5, <2>4, <3>0
      <4>2. /\ t.parent[w] \in A /\ t.child[SideOf(t, w)][t.parent[w]] = w
            /\ SideOf(t, w) \in Sides
        BY <3>0, <4>1 DEF Linked, SideOf, Sides
      <4>3. t.parent[w] # z
        BY <1>7, <3>0, <3>2, <4>2 DEF c
      <4>4. R.parent[w] = t.parent[w]
        BY <1>2, <3>0, <3>2
      <4>5. R.child[SideOf(t, w)][t.parent[w]] = w
        BY <1>1, <1>2, <1>4, <3>0, <4>2, <4>3, KeysAreInts
      <4> QED
        BY <4>2, <4>3, <4>4, <4>5, HangsThere
    <3> QED
      BY <3>1, <3>2
  <2>5. ASSUME NEW w \in Keys \ A2
        PROVE  R.parent[w] = NULL /\ \A r \in Sides : R.child[r][w] = NULL
    <3>1. CASE w = z
      BY <1>2, <3>1
    <3>2. CASE w # z
      <4>1. w \notin A /\ t.parent[w] = NULL /\ \A r \in Sides : t.child[r][w] = NULL
        BY <3>2 DEF Linked
      <4>2. w # c /\ w # p
        BY <1>3, <1>4, <4>1, KeysAreInts
      <4> QED
        BY <1>2, <3>2, <4>1, <4>2
    <3> QED
      BY <3>1, <3>2
  <2> HIDE DEF A2
  <2> QED
    BY <1>2, <2>1, <2>2, <2>3, <2>4, <2>5 DEF Linked
<1>10. E \in [A2 -> SUBSET A2] /\ \A w, j \in A2 : j \in E[w] <=> j \in D[w]
  BY <1>6
<1> HIDE DEF E
<1>11. ASSUME NEW x \in A2, NEW j \in A2, NEW r \in Sides
       PROVE  Under(R, E, r, x, j) <=> Under(t, D, r, x, j)
  <2>0. x \in A /\ x \in Keys /\ j \in A /\ x # z /\ j # z
    BY <1>1
  <2>1. CASE x = p /\ r = side
    <3>1. R.child[r][x] = c /\ t.child[r][x] = z
      BY <1>2, <1>4, <2>0, <2>1, KeysAreInts
    <3>2. c # NULL => c \in A2
      BY <1>3
    <3>3. j \in D[z] <=> c # NULL /\ j \in D[c]
      BY <1>8
    <3> QED
      BY <1>1, <1>10, <3>1, <3>2, <3>3 DEF Under
  <2>2. CASE ~(x = p /\ r = side)
    <3>1. R.child[r][x] = t.child[r][x]
      BY <1>2, <2>0, <2>2
    <3>2. t.child[r][x] # NULL => t.child[r][x] \in A2
      BY <1>7, <2>0, <2>2, <3>1 DEF Linked
    <3> QED
      BY <1>10, <3>1, <3>2 DEF Under
  <2> QED
    BY <2>1, <2>2
<1>12. Ordered(R, A2, E)
  <2>1. R.root # NULL => E[R.root] = A2
    <3>0. R.root # NULL => R.root \in A2
      BY <1>9 DEF Linked
    <3>1. CASE p = NULL
      <4>1. R.root # NULL => \A j \in A2 : j \in D[R.root]
        BY <1>2, <1>5, <1>6, <1>8, <3>1
      <4> QED
        BY <1>10, <3>0, <4>1
    <3>2. CASE p # NULL
      <4>1. \A j \in A2 : j \in D[R.root]
        BY <1>2, <1>6, <3>2
      <4> QED
        BY <1>10, <3>0, <4>1
    <3> QED
      BY <3>1, <3>2
  <2>2. \A x, j \in A2 : j \in E[x] <=> j = x \/ \E r \in Sides : Under(R, E, r, x, j)
    BY <1>6, <1>10, <1>11
  <2>3. \A x, j \in A2, r \in Sides : Under(R, E, r, x, j) => j # x /\ Toward(j, x) = r
    BY <1>6, <1>11
  <2> HIDE DEF A2
  <2> QED
    BY <1>10, <2>1, <2>2, <2>3 DEF Ordered
<1> QED
  BY <1>9, <1>12 DEF R, c

\* The leftmost node at and below x: all others lie to its right.
IsLeftmost(D, x, m) ==
  m \in D[x] /\ \A j \in D[x] : j # m => Toward(j, m) = "right"

\* The leftmost node is below the left child, where there is one.
LEMMA LeftmostBelow ==
  ASSUME NEW t, NEW A, NEW D, Linked(t, A), Ordered(t, A, D), NEW x \in A
  PROVE  LET l == t.child["left"][x] IN
         /\ l = NULL => IsLeftmost(D, x, x)
         /\ l # NULL => /\ l \in A
                        /\ \A m : IsLeftmost(D, l, m) => IsLeftmost(D, x, m)
<1> DEFINE l == t.child["left"][x]
<1>1. A \subseteq Keys /\ D \in [A -> SUBSET A] /\ x \in D[x]
      /\ "left" \in Sides /\ "right" \in Sides
      /\ \A r \in Sides : r = "left" \/ r = "right"
  BY DEF Linked, Ordered, Sides
<1>2. \A j \in D[x] : j = x \/ Under(t, D, "left", x, j) \/ Under(t, D, "right", x, j)
  BY <1>1 DEF Ordered
<1>3. \A j \in A : /\ Under(t, D, "left", x, j) => j # x /\ Toward(j, x) = "left"
                   /\ Under(t, D, "right", x, j) => j # x /\ Toward(j, x) = "right"
  BY <1>1 DEF Ordered
<1>4. CASE l = NULL
  BY <1>1, <1>2, <1>3, <1>4 DEF IsLeftmost, Under
<1>5. CASE l # NULL
  <2>1. l \in A
    BY <1>1, <1>5, Neighbours
  <2>2. ASSUME NEW m, IsLeftmost(D, l, m)
        PROVE  IsLeftmost(D, x, m)
    <3>1. m \in A /\ Under(t, D, "left", x, m)
      BY <1>1, <1>5, <2>1, <2>2 DEF IsLeftmost, Under
    <3>2. m \in D[x] /\ m # x /\ Toward(m, x) = "left"
      BY <1>1, <1>3, <3>1 DEF Ordered
    <3>3. ASSUME NEW j \in D[x], j # m
          PROVE  Toward(j, m) = "right"
      <4>0. j \in Keys /\ m \in Keys /\ x \in Keys /\ j \in A
        BY <1>1, <3>1
      <4>1. CASE Under(t, D, "left", x, j)
        BY <2>2, <3>3, <4>1 DEF IsLeftmost, Under
      <4>2. CASE j = x \/ Under(t, D, "right", x, j)
        <5>1. j >= x
          <6>1. j = x \/ Toward(j, x) = "right"
            BY <1>3, <4>0, <4>2
          <6> QED
            BY <4>0, <6>1, KeysAreInts DEF Toward
        <5>2. ~(m > x)
          BY <3>2 DEF Toward
        <5> QED
          BY <3>3, <4>0, <5>1, <5>2, KeysAreInts DEF Toward
      <4> QED
        BY <1>2, <4>1, <4>2
    <3> QED
      BY <3>2, <3>3 DEF IsLeftmost
  <2> QED
    BY <1>5, <2>1, <2>2
<1> QED
  BY <1>4, <1>5

LEMMA LeftmostIsOne ==
  ASSUME NEW t, NEW A, NEW D, Linked(t, A), Ordered(t, A, D), NEW x \in A,
         NEW m, IsLeftmost(D, x, m), NEW n, IsLeftmost(D, x, n)
  PROVE  m = n
<1>1. m \in Keys /\ n \in Keys
  BY DEF Linked, Ordered, IsLeftmost
<1>2. m # n => m > n /\ n > m
  BY DEF IsLeftmost, Toward
<1> QED
  BY <1>1, <1>2, KeysAreInts

LEMMA LeftmostExists ==
  ASSUME NEW t, NEW A, NEW D, Linked(t, A), Ordered(t, A, D), NEW x \in A
  PROVE  \E m : IsLeftmost(D, x, m)
<1> DEFINE Bad == {z \in A : ~\E m : IsLeftmost(D, z, m)}
<1> SUFFICES ASSUME Bad # {} PROVE FALSE
  OBVIOUS
<1>1. PICK z \in Bad : \A s \in Sides : t.child[s][z] \notin Bad
  BY LowestNode
<1>2. "left" \in Sides
  BY DEF Sides
<1> QED
  BY <1>1, <1>2, LeftmostBelow

\* subtree_minimum finds it.
LEMMA LeftMostFinds ==
  ASSUME NEW t, NEW A, NEW D, Linked(t, A), Ordered(t, A, D), NEW u \in A
  PROVE  IsLeftmost(D, u, LeftMost(t, u))
<1> DEFINE Downs(down) ==
             down = [x \in Keys |-> IF t.child["left"][x] = NULL THEN x
                                    ELSE down[t.child["left"][x]]]
           W == [x \in Keys |-> IF x \in A THEN CHOOSE m : IsLeftmost(D, x, m)
                                           ELSE x]
<1>0. A \subseteq Keys /\ "left" \in Sides
  BY DEF Linked, Sides
<1>1. Downs(W)
  <2>1. ASSUME NEW x \in Keys
        PROVE  W[x] = IF t.child["left"][x] = NULL THEN x
                      ELSE W[t.child["left"][x]]
    <3>1. CASE x \notin A
      <4>1. t.child["left"][x] = NULL
        BY <1>0, <3>1 DEF Linked
      <4> QED
        BY <3>1, <4>1
    <3>2. CASE x \in A /\ t.child["left"][x] = NULL
      <4>1. IsLeftmost(D, x, x) /\ W[x] = CHOOSE m : IsLeftmost(D, x, m)
        BY <3>2, LeftmostBelow
      <4>2. IsLeftmost(D, x, W[x])
        BY <4>1
      <4> HIDE DEF W
      <4> QED
        BY <3>2, <4>1, <4>2, LeftmostIsOne
    <3>3. CASE x \in A /\ t.child["left"][x] # NULL
      <4> DEFINE l == t.child["left"][x]
      <4>1. l \in A /\ l \in Keys /\ \A m : IsLeftmost(D, l, m) => IsLeftmost(D, x, m)
        BY <1>0, <3>3, LeftmostBelow
      <4> HIDE DEF l
      <4>2. IsLeftmost(D, l, W[l])
        BY <4>1, LeftmostExists
      <4>3. IsLeftmost(D, x, W[x])
        BY <3>3, LeftmostExists
      <4> HIDE DEF W
      <4>4. W[x] = W[l]
        BY <3>3, <4>1, <4>2, <4>3, LeftmostIsOne
      <4> QED
        BY <3>3, <4>4 DEF l
    <3> QED
      BY <3>1, <3>2, <3>3
  <2> QED
    BY <2>1
<1> HIDE DEF W
<1> DEFINE down == CHOOSE down : Downs(down)
<1>2. Downs(down)
  BY <1>1
<1>3. LeftMost(t, u) = down[u]
  BY DEF LeftMost
<1> HIDE DEF down
<1>4. \A x \in Keys : down[x] = IF t.child["left"][x] = NULL THEN x
                                ELSE down[t.child["left"][x]]
  BY <1>2
<1> DEFINE Bad == {z \in A : ~IsLeftmost(D, z, down[z])}
<1>5. Bad = {}
  <2> SUFFICES ASSUME Bad # {} PROVE FALSE
    OBVIOUS
  <2>1. PICK z \in Bad : \A s \in Sides : t.child[s][z] \notin Bad
    BY LowestNode
  <2>2. z \in Keys
    BY <1>0
  <2> QED
    BY <1>0, <1>4, <2>1, <2>2, LeftmostBelow
<1> QED
  BY <1>3, <1>5

\* The key y of a node outside the tree takes the place of the root's.
Renamed(t, z, y, R) ==
  /\ R \in Trees
  /\ R.root = y
  /\ \A s \in Sides, w \in Keys :
        R.child[s][w] = IF w = z THEN NULL
                        ELSE IF w = y THEN t.child[s][z] ELSE t.child[s][w]
  /\ \A w \in Keys :
        R.parent[w] = IF w = z \/ w = y THEN NULL
                      ELSE IF t.parent[w] = z THEN y ELSE t.parent[w]

LEMMA RenameKeeps ==
  ASSUME NEW t, NEW A, NEW D, Linked(t, A), Ordered(t, A, D),
         NEW z \in A, z = t.root, NEW y \in Keys \ A,
         \A j \in A \ {z} : Toward(j, y) = Toward(j, z),
         NEW R, Renamed(t, z, y, R)
  PROVE  LET A2 == (A \ {z}) \cup {y}
         IN  \E E : Linked(R, A2) /\ Ordered(R, A2, E)
<1> DEFINE A2 == (A \ {z}) \cup {y}
           E == [w \in A2 |-> IF w = y THEN A2 ELSE D[w]]
<1>1. /\ A \subseteq Keys /\ z \in Keys /\ z # NULL /\ y \in Keys /\ y # NULL
      /\ y # z /\ y \notin A /\ z \notin A2
  BY KeysAreInts DEF Linked
<1>2. /\ R \in Trees
      /\ R.root = y
      /\ \A s \in Sides, w \in Keys :
            R.child[s][w] = IF w = z THEN NULL
                            ELSE IF w = y THEN t.child[s][z] ELSE t.child[s][w]
      /\ \A w \in Keys :
            R.parent[w] = IF w = z \/ w = y THEN NULL
                          ELSE IF t.parent[w] = z THEN y ELSE t.parent[w]
  BY DEF Renamed
<1>3. /\ D \in [A -> SUBSET A] /\ D[z] = A
      /\ \A x, j \in A : j \in D[x] <=> j = x \/ \E r \in Sides : Under(t, D, r, x, j)
      /\ \A x, j \in A, r \in Sides : Under(t, D, r, x, j) => j # x /\ Toward(j, x) = r
  BY <1>1 DEF Linked, Ordered
<1>4. \A w \in A, s \in Sides : t.child[s][w] # NULL =>
         /\ t.child[s][w] \in A \ {z} /\ t.parent[t.child[s][w]] = w
         /\ SideOf(t, t.child[s][w]) = s
  BY Neighbours
<1>5. \A w \in A : w # z =>
         /\ t.parent[w] \in A /\ t.child[SideOf(t, w)][t.parent[w]] = w
         /\ SideOf(t, w) \in Sides
  BY DEF Linked, SideOf, Sides
<1>6. \A w \in A : w # z => z \notin D[w]
  BY <1>3, BelowIsTransitive
<1>7. Linked(R, A2)
  <2>1. A2 \in SUBSET Keys /\ A2 # {} /\ R.root # NULL /\ R.root \in A2
        /\ R.parent[R.root] = NULL
    BY <1>1, <1>2
  <2>2. ASSUME NEW w \in A2, NEW s \in Sides, R.child[s][w] # NULL
        PROVE  R.child[s][w] \in A2 /\ R.parent[R.child[s][w]] = w
    <3>1. CASE w = y
      <4>1. R.child[s][w] = t.child[s][z]
        BY <1>1, <1>2, <3>1
      <4>2. t.child[s][z] \in A \ {z} /\ t.parent[t.child[s][z]] = z
        BY <1>4, <2>2, <4>1
      <4> QED
        BY <1>1, <1>2, <3>1, <4>1, <4>2
    <3>2. CASE w # y
      <4>1. w \in A /\ w # z /\ w \in Keys /\ R.child[s][w] = t.child[s][w]
        BY <1>1, <1>2, <3>2
      <4>2. t.child[s][w] \in A \ {z} /\ t.parent[t.child[s][w]] = w
        BY <1>4, <2>2, <4>1
      <4> QED
        BY <1>1, <1>2, <4>1, <4>2
    <3> QED
      BY <3>1, <3>2
  <2>3. ASSUME NEW w \in A2, w # R.root
        PROVE  R.parent[w] \in A2 /\ R.child[SideOf(R, w)][R.parent[w]] = w
    <3>1. /\ w \in A /\ w # z /\ w # y /\ w \in Keys
          /\ R.parent[w] = IF t.parent[w] = z THEN y ELSE t.parent[w]
      BY <1>1, <1>2, <2>3
    <3>2. t.parent[w] \in A /\ t.child[SideOf(t, w)][t.parent[w]] = w
          /\ SideOf(t, w) \in Sides
      BY <1>5, <3>1
    <3>3. R.parent[w] \in A2 /\ R.child[SideOf(t, w)][R.parent[w]] = w
      BY <1>1, <1>2, <3>1, <3>2
    <3> QED
      BY <3>2, <3>3, HangsThere
  <2>4. ASSUME NEW w \in Keys \ A2
        PROVE  R.parent[w] = NULL /\ \A s \in Sides : R.child[s][w] = NULL
    <3>1. CASE w = z
      BY <1>2, <3>1
    <3>2. CASE w # z
      <4>1. w \notin A /\ t.parent[w] = NULL /\ \A s \in Sides : t.child[s][w] = NULL
        BY <3>2 DEF Linked
      <4> QED
        BY <1>1, <1>2, <3>2, <4>1
    <3> QED
      BY <3>1, <3>2
  <2> HIDE DEF A2
  <2> QED
    BY <1>2, <2>1, <2>2, <2>3, <2>4 DEF Linked
<1>8. /\ E \in [A2 -> SUBSET A2] /\ E[y] = A2
      /\ \A w \in A \ {z} : E[w] = D[w]
  BY <1>1, <1>3, <1>6
<1> HIDE DEF E
<1>9. ASSUME NEW x \in A2, NEW j \in A2, NEW r \in Sides
      PROVE  LET v == IF x = y THEN z ELSE x IN
             Under(R, E, r, x, j) <=> j # y /\ Under(t, D, r, v, j)
  <2> DEFINE v == IF x = y THEN z ELSE x
  <2>1. v \in A /\ R.child[r][x] = t.child[r][v]
    BY <1>1, <1>2
  <2> HIDE DEF v
  <2>2. t.child[r][v] # NULL => t.child[r][v] \in A \ {z}
    BY <1>4, <2>1
  <2>3. t.child[r][v] # NULL => E[t.child[r][v]] = D[t.child[r][v]]
                                /\ y \notin D[t.child[r][v]]
    BY <1>1, <1>3, <1>8, <2>2
  <2>4. Under(R, E, r, x, j) <=> j # y /\ Under(t, D, r, v, j)
    BY <2>1, <2>3 DEF Under
  <2> QED
    BY <2>4 DEF v
<1>10. Ordered(R, A2, E)
  <2>1. ASSUME NEW x \in A2, NEW j \in A2
        PROVE  j \in E[x] <=> j = x \/ \E r \in Sides : Under(R, E, r, x, j)
    <3>1. CASE x = y /\ j = y
      BY <1>8, <3>1
    <3>2. CASE x = y /\ j # y
      <4>1. j \in A /\ j # z /\ j \in D[z]
        BY <1>3, <3>2
      <4>2. \E r \in Sides : Under(t, D, r, z, j)
        BY <1>3, <4>1
      <4> QED
        BY <1>8, <1>9, <3>2, <4>2
    <3>3. CASE x # y /\ j = y
      <4>1. x \in A \ {z}
        BY <3>3
      <4> QED
        BY <1>1, <1>3, <1>8, <1>9, <3>3, <4>1
    <3>4. CASE x # y /\ j # y
      <4>1. x \in A \ {z} /\ j \in A
        BY <3>4
      <4> QED
        BY <1>3, <1>8, <1>9, <3>4, <4>1
    <3> QED
      BY <3>1, <3>2, <3>3, <3>4
  <2>2. ASSUME NEW x \in A2, NEW j \in A2, NEW r \in Sides, Under(R, E, r, x, j)
        PROVE  j # x /\ Toward(j, x) = r
    <3>1. CASE x = y
      <4>1. j # y /\ Under(t, D, r, z, j)
        BY <1>9, <2>2, <3>1
      <4>2. j \in A \ {z} /\ Toward(j, z) = r
        BY <1>1, <1>3, <4>1
      <4> QED
        BY <3>1, <4>1, <4>2
    <3>2. CASE x # y
      <4>1. j # y /\ Under(t, D, r, x, j)
        BY <1>9, <2>2, <3>2
      <4>2. j \in A /\ x \in A
        BY <3>2, <4>1
      <4> QED
        BY <1>3, <4>1, <4>2
    <3> QED
      BY <3>1, <3>2
  <2> HIDE DEF A2
  <2> QED
    BY <1>2, <1>8, <2>1, <2>2 DEF Ordered
<1> QED
  BY <1>7, <1>10

-----------------------------------------------------------------------------
(***************************************************************************)
(* Taking out the root: with two children, the leftmost node below the     *)
(* right one leaves its place and is put in the root's.                    *)
(***************************************************************************)
LEMMA PutSuccessorKeeps ==
  ASSUME NEW t, NEW A, NEW D, Linked(t, A), Ordered(t, A, D),
         NEW z \in A, z = t.root,
         t.child["left"][z] # NULL, t.child["right"][z] # NULL
  PROVE  LET R == Forget(PutSuccessor(t, z), z)
         IN  \E E : Linked(R, A \ {z}) /\ Ordered(R, A \ {z}, E)
<1> DEFINE l == t.child["left"][z]
           u == t.child["right"][z]
           y == LeftMost(t, u)
           b == t.child["right"][y]
           q == t.parent[y]
           side == SideOf(t, y)
           S == Forget(Replace(t, y, b), y)
           R == Forget(PutSuccessor(t, z), z)
<1>0. /\ "left" \in Sides /\ "right" \in Sides
      /\ \A s \in Sides : s = "left" \/ s = "right"
      /\ Opposite("right") = "left" /\ "left" # "right"
  BY DEF Sides, Opposite
<1>1. /\ t \in Trees /\ A \subseteq Keys /\ z \in Keys /\ z # NULL
      /\ t.parent[z] = NULL
      /\ D \in [A -> SUBSET A] /\ D[z] = A
  BY KeysAreInts DEF Linked, Ordered
<1>2. /\ l \in A /\ l # z /\ t.parent[l] = z /\ l \in Keys
      /\ u \in A /\ u # z /\ t.parent[u] = z /\ u \in Keys
      /\ Toward(u, z) = "right" /\ Toward(l, z) = "left" /\ SideOf(t, u) = "right"
      /\ u # l
  BY <1>0, Neighbours
<1>n. y = LeftMost(t, u) /\ b = t.child["right"][y] /\ q = t.parent[y]
      /\ side = SideOf(t, y)
  OBVIOUS
<1> HIDE DEF y
<1>3. IsLeftmost(D, u, y)
  BY <1>2, <1>n, LeftMostFinds
<1>4. /\ y \in A /\ y \in Keys /\ y \in D[u]
      /\ \A j \in D[u] : j # y => Toward(j, y) = "right"
  BY <1>1, <1>2, <1>3 DEF IsLeftmost
<1>5. y # z /\ Toward(y, z) = "right"
  <2>1. Under(t, D, "right", z, y)
    BY <1>4 DEF Under
  <2> HIDE DEF u
  <2> QED
    BY <1>0, <1>4, <2>1 DEF Ordered
<1>6. t.child["left"][y] = NULL
  <2> SUFFICES ASSUME t.child["left"][y] # NULL PROVE FALSE
    OBVIOUS
  <2> DEFINE c == t.child["left"][y]
  <2>1. c \in D[c] /\ D[c] \subseteq D[y] /\ c # y /\ Toward(c, y) = "left" /\ c \in A
    BY <1>0, <1>4, Neighbours
  <2>2. D[y] \subseteq D[u]
    <3>1. u \in A /\ y \in D[u]
      BY <1>2, <1>4
    <3> HIDE DEF u
    <3> QED
      BY <3>1, BelowIsTransitive
  <2> QED
    BY <1>0, <1>4, <2>1, <2>2
<1>7. /\ q \in A /\ q \in Keys /\ q # y /\ q # NULL /\ b \in Link /\ side \in Sides
      /\ t.child[side][q] = y
  <2>1. q \in A /\ t.child[side][q] = y
    BY <1>4, <1>5 DEF Linked
  <2>2. q # NULL /\ q \in Keys
    BY <1>1, <2>1, KeysAreInts
  <2> QED
    BY <1>0, <1>1, <1>4, <2>1, <2>2, ParentOf, TreeFields
<1>8. b # NULL => b \in A /\ t.parent[b] = y /\ b # y /\ b # z
  BY <1>0, <1>4, <1>5, Neighbours
<1>9. \A w \in Keys : t.parent[w] = z <=> w = l \/ w = u
  <2> SUFFICES ASSUME NEW w \in Keys, t.parent[w] = z PROVE w = l \/ w = u
    BY <1>2
  <2>1. w \in A
    BY <1>1 DEF Linked
  <2>2. w # t.root
    BY <1>1
  <2>3. t.child[SideOf(t, w)][z] = w
    BY <2>1, <2>2 DEF Linked
  <2>4. SideOf(t, w) \in Sides
    BY <1>0 DEF SideOf
  <2> QED
    BY <1>0, <2>3, <2>4
<1>10. q = z <=> y = u
  <2>1. q = z => y = l \/ y = u
    BY <1>4, <1>9
  <2>2. y # l
    BY <1>0, <1>2, <1>5
  <2> QED
    BY <1>2, <2>1, <2>2
<1>11. y # l /\ u # b /\ l # b
  BY <1>0, <1>2, <1>5, <1>8, <1>4, KeysAreInts
<1>12. /\ S \in Trees /\ S.root = z
       /\ \A r \in Sides, w \in Keys :
             S.child[r][w] = IF w = y THEN NULL
                             ELSE IF w = q /\ r = side THEN b ELSE t.child[r][w]
       /\ \A w \in Keys :
             S.parent[w] = IF w = y THEN NULL
                           ELSE IF w = b THEN q ELSE t.parent[w]
  <2>1. t \in Trees /\ y \in Keys /\ b \in Link /\ q # NULL /\ t.root = z
    BY <1>1, <1>4, <1>7
  <2>2. /\ S \in Trees
        /\ S.root = IF q = NULL THEN b ELSE t.root
        /\ \A r \in Sides, w \in Keys :
              S.child[r][w] = IF w = y THEN NULL
                              ELSE IF w = q /\ r = side THEN b ELSE t.child[r][w]
        /\ \A w \in Keys :
              S.parent[w] = IF w = y THEN NULL
                            ELSE IF w = b THEN q ELSE t.parent[w]
    <3> HIDE DEF b
    <3> QED
      BY <2>1, SpliceFields
  <2> HIDE DEF S, b, q, side
  <2> QED
    BY <2>1, <2>2
<1>13. \E E : Linked(S, A \ {y}) /\ Ordered(S, A \ {y}, E)
  BY <1>0, <1>4, <1>6, SpliceKeeps
<1> DEFINE freed == Replace(t, y, b)
           above == IF q = z THEN t
                    ELSE Attach(freed, y, "right", freed.child["right"][z])
           put == Attach(Replace(above, z, y), y, "left", l)
<1>14. R = Forget(put, z)
  BY DEF PutSuccessor, y
<1> HIDE DEF S, l, u, b, q, side
<1>15. /\ above \in Trees
       /\ \A r \in Sides, w \in Keys :
             above.child[r][w] = IF q = z THEN t.child[r][w]
                                 ELSE IF w = y /\ r = "right" THEN u
                                 ELSE IF w = q /\ r = side THEN b
                                 ELSE t.child[r][w]
       /\ \A w \in Keys :
             above.parent[w] = IF q = z THEN t.parent[w]
                               ELSE IF w = u THEN y
                               ELSE IF w = b THEN q
                               ELSE t.parent[w]
  <2>1. CASE q = z
    BY <1>1, <2>1
  <2>2. CASE q # z
    <3>1. /\ freed \in Trees
          /\ \A r \in Sides, w \in Keys :
                freed.child[r][w] = IF w = q /\ r = side THEN b ELSE t.child[r][w]
          /\ \A w \in Keys : freed.parent[w] = IF w = b THEN q ELSE t.parent[w]
      BY <1>1, <1>4, <1>7, ReplaceFields DEF q, side
    <3>2. freed.child["right"][z] = u /\ u \in Link
      BY <1>0, <1>1, <1>2, <2>2, <3>1 DEF u, Link
    <3> HIDE DEF freed
    <3>3. /\ Attach(freed, y, "right", u) \in Trees
          /\ \A r \in Sides, w \in Keys :
                Attach(freed, y, "right", u).child[r][w]
                   = IF r = "right" /\ w = y THEN u ELSE freed.child[r][w]
          /\ \A w \in Keys :
                Attach(freed, y, "right", u).parent[w]
                   = IF w = u THEN y ELSE freed.parent[w]
      BY <1>0, <1>4, <3>1, <3>2, AttachFields
    <3>4. above = Attach(freed, y, "right", u)
      BY <2>2, <3>2
    <3> HIDE DEF above
    <3> QED
      BY <2>2, <3>1, <3>3, <3>4
  <2> QED
    BY <2>1, <2>2
<1> HIDE DEF above
<1>16. above.parent[z] = NULL
  BY <1>1, <1>2, <1>8, <1>15, KeysAreInts
<1> DEFINE repl == Replace(above, z, y)
<1>17. /\ repl \in Trees
       /\ repl.root = y
       /\ \A r \in Sides, w \in Keys : repl.child[r][w] = above.child[r][w]
       /\ \A w \in Keys : repl.parent[w] = IF w = y THEN NULL ELSE above.parent[w]
  <2>1. y \in Link
    BY <1>4 DEF Link
  <2> HIDE DEF repl
  <2>2. /\ repl \in Trees
        /\ repl.root = IF above.parent[z] = NULL THEN y ELSE above.root
        /\ \A r \in Sides, w \in Keys :
              repl.child[r][w] = IF w = above.parent[z] /\ r = SideOf(above, z)
                                 THEN y ELSE above.child[r][w]
        /\ \A w \in Keys :
              repl.parent[w] = IF w = y THEN above.parent[z] ELSE above.parent[w]
    BY <1>1, <1>15, <2>1, ReplaceFields DEF repl
  <2> QED
    BY <1>16, <2>2, KeysAreInts
<1>18. /\ put \in Trees
       /\ put.root = y
       /\ \A r \in Sides, w \in Keys :
             put.child[r][w] = IF r = "left" /\ w = y THEN l ELSE repl.child[r][w]
       /\ \A w \in Keys : put.parent[w] = IF w = l THEN y ELSE repl.parent[w]
  <2>1. l \in Link
    BY <1>2 DEF Link
  <2> HIDE DEF repl
  <2>2. put = Attach(repl, y, "left", l)
    BY DEF repl
  <2> HIDE DEF put
  <2> QED
    BY <1>0, <1>4, <1>17, <2>1, <2>2, AttachFields
<1> HIDE DEF repl, put, R
<1>19. /\ R \in Trees
       /\ R.root = y
       /\ \A r \in Sides, w \in Keys :
             R.child[r][w] = IF w = z THEN NULL ELSE put.child[r][w]
       /\ \A w \in Keys : R.parent[w] = IF w = z THEN NULL ELSE put.parent[w]
  BY <1>1, <1>14, <1>18, ForgetFields
<1>20. Renamed(S, z, y, R)
  <2>1. ASSUME NEW s \in Sides, NEW w \in Keys
        PROVE  R.child[s][w] = IF w = z THEN NULL
                               ELSE IF w = y THEN S.child[s][z] ELSE S.child[s][w]
    <3>1. R.child[s][w] = IF w = z THEN NULL
                          ELSE IF s = "left" /\ w = y THEN l
                          ELSE above.child[s][w]
      BY <1>17, <1>18, <1>19
    <3>2. CASE q = z
      <4>1. y = u /\ side = "right"
        BY <1>2, <1>10, <3>2 DEF side
      <4> QED
        BY <1>0, <1>1, <1>4, <1>5, <1>12, <1>15, <3>1, <3>2, <4>1 DEF l, b
    <3>3. CASE q # z
      BY <1>0, <1>1, <1>4, <1>5, <1>7, <1>12, <1>15, <3>1, <3>3 DEF l, u
    <3> QED
      BY <3>2, <3>3
  <2>2. ASSUME NEW w \in Keys
        PROVE  R.parent[w] = IF w = z \/ w = y THEN NULL
                             ELSE IF S.parent[w] = z THEN y ELSE S.parent[w]
    <3>1. R.parent[w] = IF w = z THEN NULL
                        ELSE IF w = l THEN y
                        ELSE IF w = y THEN NULL
                        ELSE above.parent[w]
      BY <1>17, <1>18, <1>19
    <3>2. w # z /\ w # y /\ w = b => t.parent[w] = y
      BY <1>8, KeysAreInts
    <3>3. CASE q = z
      BY <1>9, <1>10, <1>11, <1>12, <1>15, <3>1, <3>2, <3>3
    <3>4. CASE q # z
      BY <1>5, <1>9, <1>10, <1>11, <1>12, <1>15, <3>1, <3>2, <3>4
    <3> QED
      BY <3>3, <3>4
  <2> QED
    BY <1>19, <2>1, <2>2 DEF Renamed
<1>21. ASSUME NEW j \in (A \ {y}) \ {z}
       PROVE  Toward(j, y) = Toward(j, z)
  <2>1. j \in A /\ j # y /\ j # z /\ j \in Keys /\ j \in D[z]
    BY <1>1
  <2>2. PICK s \in Sides : Under(t, D, s, z, j)
    BY <2>1 DEF Ordered
  <2>3. Toward(j, z) = s
    BY <2>1, <2>2 DEF Ordered
  <2>4. CASE s = "right"
    BY <1>4, <2>1, <2>2, <2>3, <2>4 DEF Under, u
  <2>5. CASE s = "left"
    BY <1>1, <1>4, <1>5, <2>1, <2>3, <2>5, TowardAcross
  <2> QED
    BY <1>0, <2>4, <2>5
<1>22. PICK E : Linked(S, A \ {y}) /\ Ordered(S, A \ {y}, E)
  BY <1>13
<1>23. z \in A \ {y} /\ z = S.root /\ y \in Keys \ (A \ {y})
       /\ ((A \ {y}) \ {z}) \cup {y} = A \ {z}
  BY <1>4, <1>5, <1>12
<1> DEFINE B == A \ {y}
<1> HIDE DEF B
<1>24. \E F : Linked(R, (B \ {z}) \cup {y}) /\ Ordered(R, (B \ {z}) \cup {y}, F)
  BY <1>20, <1>21, <1>22, <1>23, RenameKeeps DEF B
<1> QED
  BY <1>23, <1>24 DEF R, B

LEMMA TakeOutKeeps ==
  ASSUME NEW t, NEW A, NEW D, Linked(t, A), Ordered(t, A, D),
         NEW z \in A, t.parent[z] = NULL
  PROVE  LET R == Forget(TakeOut(t, z), z)
         IN  \E E : Linked(R, A \ {z}) /\ Ordered(R, A \ {z}, E)
<1>1. "left" \in Sides /\ "right" \in Sides
      /\ Opposite("left") = "right" /\ Opposite("right") = "left"
  BY DEF Sides, Opposite
<1>2. z = t.root
  BY KeysAreInts DEF Linked
<1>3. CASE t.child["left"][z] = NULL
  <2>1. TakeOut(t, z) = Replace(t, z, t.child["right"][z])
    BY <1>3 DEF TakeOut
  <2> QED
    BY <1>1, <1>3, <2>1, SpliceKeeps
<1>4. CASE t.child["left"][z] # NULL /\ t.child["right"][z] = NULL
  <2>1. TakeOut(t, z) = Replace(t, z, t.child["left"][z])
    BY <1>4 DEF TakeOut
  <2> QED
    BY <1>1, <1>4, <2>1, SpliceKeeps
<1>5. CASE t.child["left"][z] # NULL /\ t.child["right"][z] # NULL
  <2>1. TakeOut(t, z) = PutSuccessor(t, z)
    BY <1>5 DEF TakeOut
  <2> QED
    BY <1>2, <1>5, <2>1, PutSuccessorKeeps
<1> QED
  BY <1>3, <1>4, <1>5

-----------------------------------------------------------------------------
(***************************************************************************)
(* The invariant, and what follows from it.                                *)
(***************************************************************************)
TreeInv ==
  /\ records \in [Keys -> Records \cup {NULL}]
  /\ nodeCount = Cardinality(Allocated)
  /\ \E D : Linked(tree, Allocated) /\ Ordered(tree, Allocated, D)

LEMMA TreeInvInit == TreeInit => TreeInv
<1> SUFFICES ASSUME TreeInit PROVE TreeInv
  OBVIOUS
<1>1. Allocated = {} /\ records \in [Keys -> Records \cup {NULL}]
  BY DEF TreeInit, Allocated
<1>2. nodeCount = Cardinality(Allocated)
  BY <1>1, FS_EmptySet DEF TreeInit
<1>3. /\ tree \in Trees /\ tree.root = NULL
      /\ \A x \in Keys : tree.parent[x] = NULL
                         /\ \A s \in Sides : tree.child[s][x] = NULL
  BY DEF TreeInit, NewTree, Trees, Link
<1>4. Linked(tree, {})
  BY <1>3 DEF Linked
<1>5. Ordered(tree, {}, [x \in {} |-> {}])
  BY <1>3 DEF Ordered
<1> QED
  BY <1>1, <1>2, <1>4, <1>5 DEF TreeInv

LEMMA RecordKept ==
  ASSUME TreeInv, NEW k \in Keys, NEW r \in Records \cup {NULL},
         records' = [records EXCEPT ![k] = r]
  PROVE  /\ records' \in [Keys -> Records \cup {NULL}]
         /\ Allocated' = IF r = NULL THEN Allocated \ {k} ELSE Allocated \cup {k}
  BY DEF TreeInv, Allocated

LEMMA InsertKeeps ==
  ASSUME TreeInv, NEW k \in Keys, NEW r \in Records, Insert(k, r)
  PROVE  TreeInv'
<1>1. PICK D : Linked(tree, Allocated) /\ Ordered(tree, Allocated, D)
  BY DEF TreeInv
<1>2. r # NULL /\ records' = [records EXCEPT ![k] = r]
  BY KeysAssumption DEF Insert, InsertNew, InsertExisting
<1>3. /\ records' \in [Keys -> Records \cup {NULL}]
      /\ Allocated' = Allocated \cup {k}
  BY <1>2, RecordKept
<1>4. k \in Path(tree, k) <=> k \in Allocated
  BY <1>1, SearchFindsKeys
<1>5. CASE InsertNew(k, r)
  <2>1. k \notin Allocated /\ nodeCount' = nodeCount + 1
    BY <1>4, <1>5 DEF InsertNew
  <2>2. nodeCount' = Cardinality(Allocated')
    <3>1. IsFiniteSet(Allocated)
      BY KeysAssumption, FS_Subset DEF Allocated
    <3> QED
      BY <1>3, <2>1, <3>1, FS_AddElement DEF TreeInv
  <2>3. CASE Path(tree, k) = {} /\ tree' = [tree EXCEPT !.root = k]
    <3>1. Allocated = {}
      BY <1>1, <2>3, SearchStarts
    <3>2. \E E : Linked(tree', {k}) /\ Ordered(tree', {k}, E)
      BY <1>1, <2>3, <3>1, FirstKeeps
    <3>3. Allocated' = {k}
      BY <1>3, <3>1
    <3> QED
      BY <1>3, <2>2, <3>2, <3>3 DEF TreeInv
  <2>4. CASE \E p \in Path(tree, k) :
                /\ tree.child[Toward(k, p)][p] = NULL
                /\ tree' = Splay(Attach(tree, p, Toward(k, p), k), k)
    <3>1. PICK p \in Path(tree, k) :
                /\ tree.child[Toward(k, p)][p] = NULL
                /\ tree' = Splay(Attach(tree, p, Toward(k, p), k), k)
      BY <2>4
    <3> DEFINE T == Attach(tree, p, Toward(k, p), k)
               B == Allocated \cup {k}
    <3>2. k \in Keys \ Allocated
      BY <2>1
    <3>3. PICK E : Linked(T, B) /\ Ordered(T, B, E)
      BY <1>1, <3>1, <3>2, LeafKeeps
    <3>4. k \in B
      OBVIOUS
    <3> HIDE DEF T, B
    <3>5. \E F : Linked(Splay(T, k), B) /\ Ordered(Splay(T, k), B, F)
      BY <3>3, <3>4, SplayKeeps
    <3> QED
      BY <1>3, <2>2, <3>1, <3>5 DEF TreeInv, T, B
  <2> QED
    BY <1>5, <2>3, <2>4 DEF InsertNew
<1>6. CASE InsertExisting(k, r)
  <2>1. Allocated' = Allocated /\ tree' = tree /\ nodeCount' = nodeCount
    BY <1>3, <1>4, <1>6 DEF InsertExisting
  <2> QED
    BY <1>1, <1>3, <2>1 DEF TreeInv
<1> QED
  BY <1>5, <1>6 DEF Insert

LEMMA RemoveKeeps ==
  ASSUME TreeInv, NEW k \in Keys, Remove(k)
  PROVE  TreeInv'
<1>1. PICK D : Linked(tree, Allocated) /\ Ordered(tree, Allocated, D)
  BY DEF TreeInv
<1>2. k \in Path(tree, k) <=> k \in Allocated
  BY <1>1, SearchFindsKeys
<1>3. CASE k \in Allocated
  <2>1. /\ tree' = Forget(TakeOut(Splay(tree, k), k), k)
        /\ records' = [records EXCEPT ![k] = NULL]
        /\ nodeCount' = nodeCount - 1
    BY <1>2, <1>3 DEF Remove
  <2>2. /\ records' \in [Keys -> Records \cup {NULL}]
        /\ Allocated' = Allocated \ {k}
    BY <2>1, RecordKept
  <2>3. nodeCount' = Cardinality(Allocated')
    <3>1. IsFiniteSet(Allocated)
      BY KeysAssumption, FS_Subset DEF Allocated
    <3> QED
      BY <1>3, <2>1, <2>2, <3>1, FS_RemoveElement DEF TreeInv
  <2> DEFINE T == Splay(tree, k)
  <2>4. PICK E : Linked(T, Allocated) /\ Ordered(T, Allocated, E)
    BY <1>1, <1>3, SplayKeeps
  <2>5. T.parent[k] = NULL
    BY <1>1, <1>3, SplayKeeps
  <2> HIDE DEF T
  <2>6. \E F : /\ Linked(Forget(TakeOut(T, k), k), Allocated \ {k})
               /\ Ordered(Forget(TakeOut(T, k), k), Allocated \ {k}, F)
    BY <1>3, <2>4, <2>5, TakeOutKeeps
  <2> QED
    BY <2>1, <2>2, <2>3, <2>6 DEF TreeInv, T
<1>4. CASE k \notin Allocated
  BY <1>2, <1>4 DEF Remove, TreeInv, Allocated
<1> QED
  BY <1>3, <1>4

\* Whatever calls are made, the tree stays a search tree of the keys that
\* have a record.
THEOREM TreeStaysSearchTree == TreeSpec => []TreeInv
<1>1. TreeInv /\ [TreeNext]_treeVars => TreeInv'
  <2> SUFFICES ASSUME TreeInv, [TreeNext]_treeVars PROVE TreeInv'
    OBVIOUS
  <2>1. CASE \E k \in Keys, r \in Records : Insert(k, r)
    BY <2>1, InsertKeeps
  <2>2. CASE \E k \in Keys : Remove(k)
    BY <2>2, RemoveKeeps
  <2>3. CASE UNCHANGED treeVars
    BY <2>3 DEF treeVars, TreeInv, Allocated
  <2> QED
    BY <2>1, <2>2, <2>3 DEF TreeNext
<1> QED
  BY <1>1, TreeInvInit, PTL DEF TreeSpec

\* No mix of rotations and removals leaves a link that its other end does not
\* return, or one to a node that was freed (stree.c, every pointer operation).
THEOREM LinksSurvive == TreeSpec => []LinksAgree
<1>1. TreeInv => LinksAgree
  <2> SUFFICES ASSUME TreeInv PROVE LinksAgree
    OBVIOUS
  <2>1. Linked(tree, Allocated)
    BY DEF TreeInv
  <2>2. /\ tree.root # NULL => tree.root \in Allocated /\ tree.parent[tree.root] = NULL
        /\ \A k \in Allocated, s \in Sides :
              tree.child[s][k] # NULL =>
                  tree.child[s][k] \in Allocated /\ tree.parent[tree.child[s][k]] = k
        /\ \A k \in Allocated : k # tree.root =>
              tree.parent[k] \in Allocated
              /\ tree.child[SideOf(tree, k)][tree.parent[k]] = k
    BY <2>1 DEF Linked
  <2> QED
    BY <2>2 DEF LinksAgree
<1> QED
  BY <1>1, TreeStaysSearchTree, PTL

\* tree_find finds every key that was inserted and not removed, no other, and
\* node_count counts them.
THEOREM FindsAll == TreeSpec => []SearchFindsAll
<1>1. TreeInv => SearchFindsAll
  <2> SUFFICES ASSUME TreeInv PROVE SearchFindsAll
    OBVIOUS
  <2>1. \A k \in Keys : k \in Path(tree, k) <=> k \in Allocated
    BY SearchFindsKeys DEF TreeInv
  <2>2. {k \in Keys : k \in Path(tree, k)} = Allocated
    BY <2>1 DEF Allocated
  <2> QED
    BY <2>1, <2>2 DEF SearchFindsAll, TreeInv
<1> QED
  BY <1>1, TreeStaysSearchTree, PTL

LEMMA GreatestElement ==
  ASSUME NEW S, S \subseteq Keys, S # {}
  PROVE  \E x \in S : \A y \in S : y <= x
<1> DEFINE Above(x) == {y \in S : y > x}
           sizes == {Cardinality(Above(x)) : x \in S}
<1>1. ASSUME NEW x
      PROVE  IsFiniteSet(Above(x)) /\ Cardinality(Above(x)) \in Nat
  <2>1. Above(x) \subseteq Keys
    OBVIOUS
  <2> HIDE DEF Above
  <2> QED
    BY <2>1, KeysAssumption, FS_Subset, FS_CardinalityType
<1> HIDE DEF Above
<1>2. PICK n \in sizes : \A m \in sizes : n <= m
  <2>1. sizes \subseteq Nat /\ sizes # {}
    BY <1>1
  <2> HIDE DEF sizes
  <2> QED
    BY <2>1, LeastElement
<1>3. PICK x \in S : n = Cardinality(Above(x))
  BY <1>2
<1>4. ASSUME NEW y \in S, y > x
      PROVE  FALSE
  <2>1. Above(y) \subseteq Above(x) /\ y \in Above(x) /\ y \notin Above(y)
    BY <1>4, KeysAreInts DEF Above
  <2>2. Cardinality(Above(y)) <= Cardinality(Above(x))
        /\ Cardinality(Above(y)) # Cardinality(Above(x))
    BY <1>1, <2>1, FS_Subset
  <2>3. Cardinality(Above(x)) <= Cardinality(Above(y))
    BY <1>2, <1>3, <1>4
  <2> QED
    BY <1>1, <2>2, <2>3
<1> QED
  BY <1>4, KeysAreInts

\* tree_find_nearest returns the largest key that is at most the one asked
\* for, although it visits only the nodes on one path.
THEOREM NearestFound == TreeSpec => []NearestIsLargestBelow
<1>1. TreeInv => NearestIsLargestBelow
  <2> SUFFICES ASSUME TreeInv, NEW k \in Keys
               PROVE  LET atMost == {x \in Allocated : x <= k} IN
                      IF atMost = {} THEN FindNearest(k) = NULL
                      ELSE FindNearest(k) \in atMost
                           /\ \A x \in atMost : x <= FindNearest(k)
    BY DEF NearestIsLargestBelow
  <2> DEFINE atMost == {x \in Allocated : x <= k}
             smaller == {x \in Path(tree, k) : x < k}
  <2>1. PICK D : Linked(tree, Allocated) /\ Ordered(tree, Allocated, D)
    BY DEF TreeInv
  <2>2. k \in Path(tree, k) <=> k \in Allocated
    BY <2>1, SearchFindsKeys
  <2>3. Path(tree, k) \subseteq Allocated /\ Allocated \subseteq Keys
    BY <2>1, SearchSide DEF Linked
  <2>4. smaller \subseteq atMost
    BY <2>3, KeysAreInts
  <2>5. CASE k \in Allocated
    BY <2>2, <2>5, KeysAreInts DEF FindNearest
  <2>6. CASE k \notin Allocated /\ atMost = {}
    BY <2>2, <2>4, <2>6 DEF FindNearest
  <2>7. CASE k \notin Allocated /\ atMost # {}
    <3>1. PICK m \in atMost : \A y \in atMost : y <= m
      <4>1. atMost \subseteq Keys
        BY <2>3
      <4> HIDE DEF atMost
      <4> QED
        BY <2>7, <4>1, GreatestElement
    <3>2. m \in Allocated /\ m \in Keys /\ m < k
      BY <2>3, <2>7, <3>1, KeysAreInts
    <3>3. ASSUME NEW x \in Allocated, x # m
          PROVE  x # k /\ Toward(k, x) = Toward(m, x)
      <4>1. x \in Int /\ k \in Int /\ m \in Int /\ x # k
        BY <2>3, <2>7, <3>2, KeysAreInts
      <4>2. x <= k => x <= m
        BY <3>1
      <4> QED
        BY <3>2, <3>3, <4>1, <4>2 DEF Toward
    <3>4. m \in Path(tree, k)
      BY <2>1, <3>2, <3>3, SearchFinds
    <3>5. m \in smaller /\ \A y \in smaller : y <= m
      BY <2>4, <3>1, <3>2, <3>4
    <3> DEFINE f == CHOOSE x \in smaller : \A y \in smaller : y <= x
    <3>6. FindNearest(k) = f
      BY <2>2, <2>7, <3>5 DEF FindNearest
    <3> HIDE DEF smaller, atMost
    <3>7. f \in smaller /\ \A y \in smaller : y <= f
      BY <3>5
    <3>8. f \in atMost /\ m <= f
      BY <2>4, <3>5, <3>7
    <3> HIDE DEF f
    <3>9. \A x \in atMost : x \in Int
      BY <2>3, KeysAreInts DEF atMost
    <3>10. \A x \in atMost : x <= f
      BY <3>1, <3>8, <3>9
    <3> QED
      BY <2>7, <3>6, <3>8, <3>10 DEF atMost
  <2> QED
    BY <2>5, <2>6, <2>7
<1> QED
  BY <1>1, TreeStaysSearchTree, PTL

\* splay's loop ends: as many turns as there are keys raise any node of the
\* tree to the root.
THEOREM SplayReachesRoot ==
  TreeSpec => [](\A k \in Allocated : Splay(tree, k).parent[k] = NULL)
<1>1. TreeInv => \A k \in Allocated : Splay(tree, k).parent[k] = NULL
  BY SplayKeeps DEF TreeInv
<1> QED
  BY <1>1, TreeStaysSearchTree, PTL

-----------------------------------------------------------------------------
(***************************************************************************)
(* The tree implements the store of KeyStore.                              *)
(***************************************************************************)
FindsRecords == [k \in Keys |-> Find(k)] = records

LEMMA StoreIsRecords == TreeInv => FindsRecords
<1> SUFFICES ASSUME TreeInv PROVE [k \in Keys |-> Find(k)] = records
  BY DEF FindsRecords
<1>1. ASSUME NEW k \in Keys
      PROVE  Find(k) = records[k]
  <2>1. k \in Path(tree, k) <=> k \in Allocated
    BY SearchFindsKeys DEF TreeInv
  <2> QED
    BY <2>1 DEF Find, Allocated
<1> QED
  BY <1>1 DEF TreeInv

\* An insertion puts its record, a removal deletes the one there is, and no
\* call changes what tree_find answers for any other key.
THEOREM TreeIsStore == TreeSpec => ImplementsStore
<1>1. TreeInit => Store!StoreInit
  <2> SUFFICES ASSUME TreeInit PROVE Store!StoreInit
    OBVIOUS
  <2>1. [k \in Keys |-> Find(k)] = records
    BY TreeInvInit, StoreIsRecords DEF FindsRecords
  <2> QED
    BY <2>1 DEF TreeInit, Store!StoreInit
<1>2. TreeInv' => FindsRecords'
  BY StoreIsRecords, PTL
<1>3. TreeInv /\ TreeInv' /\ [TreeNext]_treeVars
        => [Store!StoreNext]_(Store!storeVars)
  <2> SUFFICES ASSUME TreeInv, TreeInv', [TreeNext]_treeVars
               PROVE  [Store!StoreNext]_(Store!storeVars)
    OBVIOUS
  <2>1. /\ [k \in Keys |-> Find(k)] = records
        /\ [k \in Keys |-> Find(k)]' = records'
    BY <1>2, StoreIsRecords DEF FindsRecords
  <2>2. ASSUME NEW k \in Keys, NEW r \in Records, Insert(k, r)
        PROVE  Store!Put(k, r)
    BY <2>1, <2>2 DEF Store!Put, Insert, InsertNew, InsertExisting
  <2>3. ASSUME NEW k \in Keys, Remove(k)
        PROVE  Store!Delete(k)
    <3>1. records' = [records EXCEPT ![k] = NULL]
      <4>1. k \in Path(tree, k) <=> k \in Allocated
        BY SearchFindsKeys DEF TreeInv
      <4> QED
        BY <2>3, <4>1 DEF Remove, TreeInv, Allocated
    <3> QED
      BY <2>1, <2>3, <3>1 DEF Store!Delete, Remove
  <2>4. CASE UNCHANGED treeVars
    BY <2>1, <2>4 DEF treeVars, Store!storeVars
  <2> QED
    BY <2>2, <2>3, <2>4 DEF TreeNext, Store!StoreNext
<1> QED
  BY <1>1, <1>3, TreeStaysSearchTree, PTL
     DEF TreeSpec, ImplementsStore, Store!StoreSpec
=============================================================================
