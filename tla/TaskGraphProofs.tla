-------------------------- MODULE TaskGraphProofs ---------------------------
(***************************************************************************)
(* Task graphs of any size: a task is read back from a file as it was      *)
(* written, what removes and appends tasks keeps the links known at both   *)
(* of their ends, and each context is handed its own operations in order.  *)
(***************************************************************************)
EXTENDS TaskGraph, FiniteSetTheorems, SequenceTheorems, WellFoundedInduction, TLAPS

-----------------------------------------------------------------------------
(***************************************************************************)
(* Natural numbers and minima.                                             *)
(***************************************************************************)
LEMMA LeastOf ==
  ASSUME NEW S, S \subseteq Nat, S # {}
  PROVE  \E x \in S : \A y \in S : x <= y
<1> DEFINE R == OpToRel(<, Nat)
<1>1. IsWellFoundedOn(R, Nat)
  BY NatLessThanWellFounded
<1>2. \A x, y \in Nat : y < x => <<y, x>> \in R
  BY DEF OpToRel
<1> HIDE DEF R
<1>3. \E x \in S : \A y \in S : ~(<<y, x>> \in R)
  BY <1>1, WFMin
<1>4. \E x \in S : \A y \in S : ~(y < x)
  BY <1>2, <1>3, Zenon
<1> QED
  BY <1>4

LEMMA MinIs ==
  ASSUME NEW S, S \subseteq Nat, S # {}
  PROVE  Min(S) \in S /\ \A y \in S : Min(S) <= y
  BY LeastOf DEF Min

\* Induction up to N, with the set of the numbers for which something holds.
LEMMA CountingUp ==
  ASSUME NEW N \in Nat, NEW G, 0 \in G,
         \A n \in 1..N : n - 1 \in G => n \in G
  PROVE  \A n \in 0..N : n \in G
<1> DEFINE Bad == {n \in 0..N : n \notin G}
<1> SUFFICES ASSUME Bad # {} PROVE FALSE
  OBVIOUS
<1>0. Bad \subseteq Nat
  OBVIOUS
<1>1. PICK x \in Bad : \A y \in Bad : x <= y
  <2> HIDE DEF Bad
  <2> QED
    BY <1>0, LeastOf
<1>2. x \in 1..N /\ x - 1 \in 0..N
  BY <1>1
<1>3. x - 1 \notin Bad
  BY <1>1, <1>2
<1> QED
  BY <1>1, <1>2, <1>3

\* A definition by recursion over 0..N, with the steps as functions.
Steps(N, S) == [1..N -> [S -> S]]

Iterates(f, N, S, base, step) ==
    /\ f \in [0..N -> S]
    /\ f[0] = base
    /\ \A n \in 1..N : f[n] = step[n][f[n - 1]]

LEMMA Iterated ==
  ASSUME NEW N \in Nat, NEW S, NEW base \in S, NEW step \in Steps(N, S)
  PROVE  \E f : Iterates(f, N, S, base, step)
<1> USE DEF Steps
<1> DEFINE Good(n, f) == /\ f[0] = base
                         /\ \A m \in 1..n : f[m] = step[m][f[m - 1]]
           G == {n \in 0..N : \E f \in [0..n -> S] : Good(n, f)}
<1>1. 0 \in G
  <2> DEFINE f == [m \in 0..0 |-> base]
  <2>1. f \in [0..0 -> S] /\ Good(0, f)
    OBVIOUS
  <2> HIDE DEF f
  <2>2. \E h \in [0..0 -> S] : Good(0, h)
    BY <2>1
  <2> QED
    BY <2>2
<1>2. ASSUME NEW n \in 1..N, n - 1 \in G PROVE n \in G
  <2>1. PICK f \in [0..(n - 1) -> S] : Good(n - 1, f)
    BY <1>2
  <2> DEFINE g == [m \in 0..n |-> IF m = n THEN step[n][f[n - 1]] ELSE f[m]]
  <2>2. step[n][f[n - 1]] \in S
    BY <2>1
  <2>3. g \in [0..n -> S]
    BY <2>2
  <2>4. g[0] = base
    BY <2>1
  <2>5. ASSUME NEW m \in 1..n PROVE g[m] = step[m][g[m - 1]]
    <3>1. g[m - 1] = f[m - 1]
      BY <2>5
    <3>2. CASE m = n
      BY <3>1, <3>2
    <3>3. CASE m # n
      <4>1. m \in 1..(n - 1) /\ g[m] = f[m]
        BY <3>3
      <4> QED
        BY <3>1, <4>1, <2>1
    <3> QED
      BY <3>2, <3>3
  <2> HIDE DEF g
  <2>6. \E h \in [0..n -> S] : Good(n, h)
    BY <2>3, <2>4, <2>5
  <2> QED
    BY <2>6
<1> HIDE DEF G, Steps
<1>3. \A n \in 1..N : n - 1 \in G => n \in G
  BY <1>2
<1>4. \A n \in 0..N : n \in G
  BY <1>1, <1>3, CountingUp
<1>5. N \in G
  BY <1>4
<1> QED
  BY <1>5 DEF G, Iterates

-----------------------------------------------------------------------------
(***************************************************************************)
(* Lists: replacing an entry, and counting.                                *)
(***************************************************************************)

\* Replacing changes one entry, which is old, or finds none.
Replaces(r, list, old, new) ==
    \E k \in DOMAIN list :
        /\ list[k] = old /\ r[k] = new
        /\ \A i \in DOMAIN list : i # k => r[i] = list[i]

LEMMA ReplaceFirstIs ==
  ASSUME NEW S, NEW list \in Seq(S), NEW old, NEW new \in S
  PROVE  LET r == ReplaceFirst(list, old, new) IN
         /\ r \in Seq(S) /\ DOMAIN r = DOMAIN list
         /\ Contains(list, old) => Replaces(r, list, old, new)
         /\ ~Contains(list, old) => r = list
<1> DEFINE I == {i \in 1..Len(list) : list[i] = old}
<1>1. DOMAIN list = 1..Len(list) /\ Len(list) \in Nat
  OBVIOUS
<1>2. ReplaceFirst(list, old, new) =
         IF I # {} THEN (IF Min(I) = 0 THEN list ELSE [list EXCEPT ![Min(I)] = new])
                   ELSE list
  BY DEF ReplaceFirst, SelectInSeq, ReplaceAt
<1>3. Contains(list, old) <=> I # {}
  BY DEF Contains
<1>4. I # {} => Min(I) \in I
  <2>1. I \subseteq Nat
    OBVIOUS
  <2> HIDE DEF I
  <2> QED
    BY <2>1, MinIs
<1>5. I # {} => Min(I) \in DOMAIN list /\ Min(I) # 0 /\ list[Min(I)] = old
  BY <1>1, <1>4
<1> HIDE DEF I
<1>6. CASE I # {}
  <2> DEFINE k == Min(I)
  <2>1. k \in DOMAIN list /\ list[k] = old
        /\ ReplaceFirst(list, old, new) = [list EXCEPT ![k] = new]
    BY <1>2, <1>5, <1>6
  <2> HIDE DEF k
  <2>2. [list EXCEPT ![k] = new] \in Seq(S)
        /\ DOMAIN [list EXCEPT ![k] = new] = DOMAIN list
        /\ [list EXCEPT ![k] = new][k] = new
        /\ \A i \in DOMAIN list : i # k => [list EXCEPT ![k] = new][i] = list[i]
    BY <2>1
  <2>3. Replaces(ReplaceFirst(list, old, new), list, old, new)
    BY <2>1, <2>2 DEF Replaces
  <2> QED
    BY <2>1, <2>2, <2>3, <1>3, <1>6
<1>7. CASE I = {}
  BY <1>2, <1>3, <1>7
<1> QED
  BY <1>6, <1>7

-----------------------------------------------------------------------------
(***************************************************************************)
(* The record of a task in a file.                                         *)
(***************************************************************************)

\* The entries of a concatenation.
LEMMA ConcatIs ==
  ASSUME NEW W, NEW x \in Seq(W), NEW y \in Seq(W)
  PROVE  /\ x \o y \in Seq(W)
         /\ Len(x \o y) = Len(x) + Len(y)
         /\ \A i \in 1..Len(x) : (x \o y)[i] = x[i]
         /\ \A i \in 1..Len(y) : (x \o y)[Len(x) + i] = y[i]
  OBVIOUS

\* The two words of the entries of a list.
LEMMA LongWordsAre ==
  ASSUME NEW V, NEW list \in Seq(V), NEW W,
         \A v \in V : <<v, 1>> \in W /\ <<v, 2>> \in W
  PROVE  LET w == LongWords(list) IN
         /\ w \in Seq(W)
         /\ Len(w) = 2 * Len(list)
         /\ \A i \in 1..Len(list) : w[2 * i - 1][1] = list[i]
<1>1. Len(list) \in Nat /\ 2 * Len(list) \in Nat
  OBVIOUS
<1>2. ASSUME NEW k \in 1..2 * Len(list)
      PROVE  LongWord(list[(k + 1) \div 2])[2 - (k % 2)] \in W
  <2>1. (k + 1) \div 2 \in 1..Len(list)
    BY <1>1
  <2>2. list[(k + 1) \div 2] \in V
    BY <2>1
  <2>3. 2 - (k % 2) = 1 \/ 2 - (k % 2) = 2
    OBVIOUS
  <2> QED
    BY <2>2, <2>3 DEF LongWord
<1>3. LongWords(list) \in [1..2 * Len(list) -> W]
  BY <1>2 DEF LongWords
<1>4. LongWords(list) \in Seq(W) /\ Len(LongWords(list)) = 2 * Len(list)
  BY <1>1, <1>3
<1>5. ASSUME NEW i \in 1..Len(list)
      PROVE  LongWords(list)[2 * i - 1][1] = list[i]
  <2>1. 2 * i - 1 \in 1..2 * Len(list)
    BY <1>1
  <2>2. (2 * i - 1 + 1) \div 2 = i /\ 2 - ((2 * i - 1) % 2) = 1
    OBVIOUS
  <2>3. LongWords(list)[2 * i - 1] = LongWord(list[i])[1]
    BY <2>1, <2>2 DEF LongWords
  <2> QED
    BY <2>3 DEF LongWord
<1> QED
  BY <1>4, <1>5

LEMMA WordIs ==
  ASSUME NEW W, NEW v, <<v>> \in W
  PROVE  Word(v) \in Seq(W) /\ Len(Word(v)) = 1 /\ Word(v)[1] = <<v>>
<1> DEFINE e == <<v>>
<1>1. e \in W /\ Word(v) = <<e>>
  BY DEF Word
<1> HIDE DEF e
<1>2. <<e>> \in Seq(W) /\ Len(<<e>>) = 1 /\ <<e>>[1] = e
  BY <1>1
<1>3. Word(v) \in Seq(W) /\ Len(Word(v)) = 1 /\ Word(v)[1] = e
  BY <1>1, <1>2
<1> QED
  BY <1>3 DEF e

LEMMA LongWordIs ==
  ASSUME NEW W, NEW v, <<v, 1>> \in W, <<v, 2>> \in W
  PROVE  /\ LongWord(v) \in Seq(W) /\ Len(LongWord(v)) = 2
         /\ LongWord(v)[1] = <<v, 1>>
<1> DEFINE e == <<v, 1>>
           f == <<v, 2>>
<1>1. e \in W /\ f \in W /\ LongWord(v) = <<e, f>>
  BY DEF LongWord
<1> HIDE DEF e, f
<1>2. <<e, f>> \in Seq(W) /\ Len(<<e, f>>) = 2 /\ <<e, f>>[1] = e
  BY <1>1
<1>3. /\ LongWord(v) \in Seq(W) /\ Len(LongWord(v)) = 2
      /\ LongWord(v)[1] = e
  BY <1>1, <1>2
<1> QED
  BY <1>3 DEF e

\* What starts with a list, and what comes behind it.
StartsWith(z, x) == Len(x) <= Len(z) /\ \A i \in 1..Len(x) : z[i] = x[i]

Holds(z, at, y) == \A i \in 1..Len(y) : z[at + i] = y[i]

LEMMA StartsWithPart ==
  ASSUME NEW W, NEW x \in Seq(W), NEW y \in Seq(W), NEW z, Len(z) \in Nat,
         StartsWith(z, x \o y)
  PROVE  StartsWith(z, x) /\ Holds(z, Len(x), y)
<1>1. /\ Len(x \o y) = Len(x) + Len(y)
      /\ Len(x) \in Nat /\ Len(y) \in Nat
      /\ \A i \in 1..Len(x) : (x \o y)[i] = x[i]
      /\ \A i \in 1..Len(y) : (x \o y)[Len(x) + i] = y[i]
  BY ConcatIs
<1> DEFINE m == Len(x)
           n == Len(y)
           xy == x \o y
<1>2. /\ Len(xy) = m + n /\ m \in Nat /\ n \in Nat
      /\ \A i \in 1..m : xy[i] = x[i]
      /\ \A i \in 1..n : xy[m + i] = y[i]
      /\ Len(xy) <= Len(z) /\ \A i \in 1..Len(xy) : z[i] = xy[i]
  BY <1>1 DEF StartsWith
<1> HIDE DEF m, n, xy
<1>3. \A i \in 1..m : z[i] = x[i]
  BY <1>2
<1>4. \A i \in 1..n : z[m + i] = y[i]
  <2> SUFFICES ASSUME NEW i \in 1..n PROVE z[m + i] = y[i]
    OBVIOUS
  <2>1. m + i \in 1..(m + n)
    BY <1>2
  <2> QED
    BY <1>2, <2>1
<1>5. m <= Len(z)
  BY <1>2
<1> QED
  BY <1>3, <1>4, <1>5 DEF m, n, StartsWith, Holds

LEMMA CountedIs ==
  ASSUME NEW V, NEW list \in Seq(V), NEW W,
         \A v \in V : <<v, 1>> \in W /\ <<v, 2>> \in W,
         \A n \in Nat : <<n>> \in W
  PROVE  LET w == Counted(list) IN
         /\ w \in Seq(W)
         /\ Len(w) = 1 + 2 * Len(list)
         /\ w[1][1] = Len(list)
         /\ \A i \in 1..Len(list) : w[2 * i][1] = list[i]
<1> DEFINE n == Len(list)
           x == Word(n)
           y == LongWords(list)
<1>1. n \in Nat
  OBVIOUS
<1>2. x \in Seq(W) /\ Len(x) = 1 /\ x[1] = <<n>>
  BY <1>1, WordIs
<1>3. /\ y \in Seq(W)
      /\ Len(y) = 2 * n
      /\ \A i \in 1..n : y[2 * i - 1][1] = list[i]
  BY LongWordsAre
<1>4. Counted(list) = x \o y /\ n = Len(list)
  BY DEF Counted
<1> HIDE DEF x, y, n
<1>5. /\ x \o y \in Seq(W)
      /\ Len(x \o y) = Len(x) + Len(y)
      /\ \A i \in 1..Len(x) : (x \o y)[i] = x[i]
      /\ \A i \in 1..Len(y) : (x \o y)[Len(x) + i] = y[i]
  <2>1. x \in Seq(W) /\ y \in Seq(W)
    BY <1>2, <1>3
  <2> QED
    BY <2>1, ConcatIs
<1> DEFINE xy == x \o y
<1>6. /\ xy[1] = x[1]
      /\ \A i \in 1..2 * n : xy[1 + i] = y[i]
      /\ Len(xy) = 1 + 2 * n
  BY <1>1, <1>2, <1>3, <1>5
<1> HIDE DEF xy
<1>7. ASSUME NEW i \in 1..n PROVE xy[2 * i][1] = list[i]
  <2>1. 2 * i - 1 \in 1..2 * n /\ 1 + (2 * i - 1) = 2 * i
    BY <1>1
  <2>2. xy[2 * i] = y[2 * i - 1]
    BY <1>6, <2>1
  <2> QED
    BY <2>2, <1>3
<1>8. xy[1][1] = n
  BY <1>2, <1>6
<1> QED
  BY <1>4, <1>5, <1>6, <1>7, <1>8 DEF xy

LEMMA CountedReadsBack ==
  ASSUME NEW V, NEW list \in Seq(V), NEW W,
         \A v \in V : <<v, 1>> \in W /\ <<v, 2>> \in W,
         \A n \in Nat : <<n>> \in W,
         NEW words, NEW at \in Nat, Holds(words, at, Counted(list))
  PROVE  /\ CountedAt(words, at + 1) = list
         /\ BehindCounted(words, at + 1) = at + Len(Counted(list)) + 1
<1> DEFINE w == Counted(list)
           n == Len(list)
<1>1. n \in Nat
  OBVIOUS
<1>2. /\ Len(w) = 1 + 2 * n
      /\ w[1][1] = n
      /\ \A i \in 1..n : w[2 * i][1] = list[i]
  BY CountedIs
<1>3. \A i \in 1..Len(w) : words[at + i] = w[i]
  BY DEF Holds
<1>4. [i \in 1..n |-> list[i]] = list
  OBVIOUS
<1> HIDE DEF w, n
<1>5. words[at + 1][1] = n
  <2>1. 1 \in 1..Len(w)
    BY <1>1, <1>2
  <2> QED
    BY <1>2, <1>3, <2>1
<1>6. ASSUME NEW i \in 1..n PROVE words[at + 1 + 2 * i - 1][1] = list[i]
  <2>1. 2 * i \in 1..Len(w) /\ at + 1 + 2 * i - 1 = at + 2 * i
    BY <1>1, <1>2
  <2> QED
    BY <1>2, <1>3, <2>1
<1>7. CountedAt(words, at + 1) = [i \in 1..n |-> list[i]]
  BY <1>5, <1>6 DEF CountedAt, WordAt
<1>8. BehindCounted(words, at + 1) = at + 1 + 1 + 2 * n
  BY <1>5 DEF BehindCounted, WordAt
<1>9. CountedAt(words, at + 1) = list
  BY <1>4, <1>7
<1>10. at + 1 + 1 + 2 * n = at + Len(w) + 1
  BY <1>1, <1>2
<1>11. BehindCounted(words, at + 1) = at + Len(w) + 1
  BY <1>8, <1>10
<1> QED
  BY <1>9, <1>11 DEF w

\* Task.cpp:287 and 399: a task is read back as it was written, and the record
\* has the length that was computed beforehand.
THEOREM TaskReadsBack ==
  ASSUME NEW task \in Tasks, task.bbCount = BlocksIn(task.a)
  PROVE  /\ ReadTask(WriteTask(task)) = task
         /\ 4 * Len(WriteTask(task)) = RecordLength(task)
<1> DEFINE V == Nat \cup TaskIds \cup TaskActions \cup TaskTypes \cup SyncTypes
           W == {<<v>> : v \in V} \cup {<<v, 1>> : v \in V}
                    \cup {<<v, 2>> : v \in V}
<1>1. /\ task.taskId \in V /\ task.startTime \in V /\ task.endTime \in V
      /\ task.type \in V /\ task.syncType \in V
      /\ task.a \in Seq(V) /\ task.s \in Seq(V) /\ task.p \in Seq(V)
  <2>1. /\ task.taskId \in V /\ task.startTime \in V /\ task.endTime \in V
        /\ task.type \in V /\ task.syncType \in V
    BY DEF Tasks
  <2>2. task.a \in Seq(TaskActions) /\ task.s \in Seq(TaskIds)
        /\ task.p \in Seq(TaskIds)
    BY DEF Tasks
  <2>3. TaskActions \subseteq V /\ TaskIds \subseteq V
    OBVIOUS
  <2> HIDE DEF V
  <2> QED
    BY <2>1, <2>2, <2>3
<1>2. \A v \in V : <<v>> \in W /\ <<v, 1>> \in W /\ <<v, 2>> \in W
  OBVIOUS
<1>3. Nat \subseteq V
  OBVIOUS
<1> HIDE DEF V, W
<1>4. /\ \A v \in V : <<v, 1>> \in W /\ <<v, 2>> \in W
      /\ \A n \in Nat : <<n>> \in W
  BY <1>2, <1>3
<1> DEFINE id == LongWord(task.taskId)
           st == LongWord(task.startTime)
           et == LongWord(task.endTime)
           ca == Counted(task.a)
           cs == Counted(task.s)
           cp == Counted(task.p)
           wt == Word(task.type)
           wy == Word(task.syncType)
<1>5. /\ id \in Seq(W) /\ Len(id) = 2 /\ id[1] = <<task.taskId, 1>>
      /\ st \in Seq(W) /\ Len(st) = 2 /\ st[1] = <<task.startTime, 1>>
      /\ et \in Seq(W) /\ Len(et) = 2 /\ et[1] = <<task.endTime, 1>>
  BY <1>1, <1>2, LongWordIs
<1>6. /\ wt \in Seq(W) /\ Len(wt) = 1 /\ wt[1] = <<task.type>>
      /\ wy \in Seq(W) /\ Len(wy) = 1 /\ wy[1] = <<task.syncType>>
  BY <1>1, <1>2, WordIs
<1>7. /\ ca \in Seq(W) /\ Len(ca) = 1 + 2 * Len(task.a)
      /\ cs \in Seq(W) /\ Len(cs) = 1 + 2 * Len(task.s)
      /\ cp \in Seq(W) /\ Len(cp) = 1 + 2 * Len(task.p)
  <2>1. task.a \in Seq(V) /\ task.s \in Seq(V) /\ task.p \in Seq(V)
    BY <1>1
  <2>2. ca \in Seq(W) /\ Len(ca) = 1 + 2 * Len(task.a)
    BY <1>4, <2>1, CountedIs
  <2>3. cs \in Seq(W) /\ Len(cs) = 1 + 2 * Len(task.s)
    BY <1>4, <2>1, CountedIs
  <2>4. cp \in Seq(W) /\ Len(cp) = 1 + 2 * Len(task.p)
    BY <1>4, <2>1, CountedIs
  <2> QED
    BY <2>2, <2>3, <2>4
<1> DEFINE x2 == id \o st
           x3 == x2 \o et
           x4 == x3 \o ca
           x5 == x4 \o cs
           x6 == x5 \o cp
           x7 == x6 \o wt
           z == x7 \o wy
<1>8. WriteTask(task) = z
  BY DEF WriteTask
<1>9. /\ x2 = id \o st /\ x3 = x2 \o et /\ x4 = x3 \o ca /\ x5 = x4 \o cs
      /\ x6 = x5 \o cp /\ x7 = x6 \o wt /\ z = x7 \o wy
  OBVIOUS
<1>10. /\ Len(ca) \in Nat /\ Len(cs) \in Nat /\ Len(cp) \in Nat
  BY <1>7
<1> HIDE DEF id, st, et, ca, cs, cp, wt, wy, x2, x3, x4, x5, x6, x7, z
<1>11. /\ x2 \in Seq(W) /\ Len(x2) = 4
       /\ x3 \in Seq(W) /\ Len(x3) = 6
  <2>1. x2 \in Seq(W) /\ Len(x2) = Len(id) + Len(st)
    <3>1. id \in Seq(W) /\ st \in Seq(W) /\ x2 = id \o st
      BY <1>5, <1>9
    <3> QED
      BY <3>1, ConcatIs
  <2>2. x3 \in Seq(W) /\ Len(x3) = Len(x2) + Len(et)
    <3>1. x2 \in Seq(W) /\ et \in Seq(W) /\ x3 = x2 \o et
      BY <2>1, <1>5, <1>9
    <3> QED
      BY <3>1, ConcatIs
  <2> QED
    BY <2>1, <2>2, <1>5
<1>12. x4 \in Seq(W) /\ Len(x4) = 6 + Len(ca)
  <2>1. x3 \in Seq(W) /\ ca \in Seq(W) /\ x4 = x3 \o ca
    BY <1>7, <1>9, <1>11
  <2>2. x4 \in Seq(W) /\ Len(x4) = Len(x3) + Len(ca)
    BY <2>1, ConcatIs
  <2> QED
    BY <2>2, <1>7, <1>10, <1>11
<1>13. x5 \in Seq(W) /\ Len(x5) = 6 + Len(ca) + Len(cs)
  <2>1. x4 \in Seq(W) /\ cs \in Seq(W) /\ x5 = x4 \o cs
    BY <1>7, <1>9, <1>12
  <2>2. x5 \in Seq(W) /\ Len(x5) = Len(x4) + Len(cs)
    BY <2>1, ConcatIs
  <2> QED
    BY <2>2, <1>7, <1>10, <1>12
<1>14. x6 \in Seq(W) /\ Len(x6) = 6 + Len(ca) + Len(cs) + Len(cp)
  <2>1. x5 \in Seq(W) /\ cp \in Seq(W) /\ x6 = x5 \o cp
    BY <1>7, <1>9, <1>13
  <2>2. x6 \in Seq(W) /\ Len(x6) = Len(x5) + Len(cp)
    BY <2>1, ConcatIs
  <2> QED
    BY <2>2, <1>7, <1>10, <1>13
<1>15. x7 \in Seq(W) /\ Len(x7) = Len(x6) + 1
  <2>1. x6 \in Seq(W) /\ wt \in Seq(W) /\ x7 = x6 \o wt
    BY <1>6, <1>9, <1>14
  <2>2. x7 \in Seq(W) /\ Len(x7) = Len(x6) + Len(wt)
    BY <2>1, ConcatIs
  <2> QED
    BY <2>2, <1>6, <1>10, <1>14
<1>16. z \in Seq(W) /\ Len(z) = Len(x6) + 2
  <2>1. x7 \in Seq(W) /\ wy \in Seq(W) /\ z = x7 \o wy
    BY <1>6, <1>9, <1>15
  <2>2. z \in Seq(W) /\ Len(z) = Len(x7) + Len(wy)
    BY <2>1, ConcatIs
  <2> QED
    BY <2>2, <1>6, <1>10, <1>15, <1>14
<1>17. Len(z) \in Nat /\ StartsWith(z, z)
  BY <1>16 DEF StartsWith
<1>18. StartsWith(z, x7) /\ Holds(z, Len(x7), wy)
  <2>1. x7 \in Seq(W) /\ wy \in Seq(W) /\ StartsWith(z, x7 \o wy)
    BY <1>6, <1>9, <1>15, <1>17
  <2>2. Len(z) \in Nat
    BY <1>17
  <2> QED
    BY <2>1, <2>2, StartsWithPart
<1>19. StartsWith(z, x6) /\ Holds(z, Len(x6), wt)
  <2>1. x6 \in Seq(W) /\ wt \in Seq(W) /\ StartsWith(z, x6 \o wt)
    BY <1>6, <1>9, <1>14, <1>17, <1>18
  <2>2. Len(z) \in Nat
    BY <1>17
  <2> QED
    BY <2>1, <2>2, StartsWithPart
<1>20. StartsWith(z, x5) /\ Holds(z, Len(x5), cp)
  <2>1. x5 \in Seq(W) /\ cp \in Seq(W) /\ StartsWith(z, x5 \o cp)
    BY <1>7, <1>9, <1>13, <1>17, <1>19
  <2>2. Len(z) \in Nat
    BY <1>17
  <2> QED
    BY <2>1, <2>2, StartsWithPart
<1>21. StartsWith(z, x4) /\ Holds(z, Len(x4), cs)
  <2>1. x4 \in Seq(W) /\ cs \in Seq(W) /\ StartsWith(z, x4 \o cs)
    BY <1>7, <1>9, <1>12, <1>17, <1>20
  <2>2. Len(z) \in Nat
    BY <1>17
  <2> QED
    BY <2>1, <2>2, StartsWithPart
<1>22. StartsWith(z, x3) /\ Holds(z, Len(x3), ca)
  <2>1. x3 \in Seq(W) /\ ca \in Seq(W) /\ StartsWith(z, x3 \o ca)
    BY <1>7, <1>9, <1>11, <1>17, <1>21
  <2>2. Len(z) \in Nat
    BY <1>17
  <2> QED
    BY <2>1, <2>2, StartsWithPart
<1>23. StartsWith(z, x2) /\ Holds(z, Len(x2), et)
  <2>1. x2 \in Seq(W) /\ et \in Seq(W) /\ StartsWith(z, x2 \o et)
    BY <1>5, <1>9, <1>11, <1>17, <1>22
  <2>2. Len(z) \in Nat
    BY <1>17
  <2> QED
    BY <2>1, <2>2, StartsWithPart
<1>24. StartsWith(z, id) /\ Holds(z, Len(id), st)
  <2>1. id \in Seq(W) /\ st \in Seq(W) /\ StartsWith(z, id \o st)
    BY <1>5, <1>9, <1>17, <1>23
  <2>2. Len(z) \in Nat
    BY <1>17
  <2> QED
    BY <2>1, <2>2, StartsWithPart
<1>25. /\ z[1] = id[1] /\ z[3] = st[1] /\ z[5] = et[1]
  BY <1>5, <1>11, <1>23, <1>24 DEF StartsWith, Holds
<1>26. /\ z[Len(x6) + 1] = wt[1] /\ z[Len(x6) + 1 + 1] = wy[1]
  BY <1>6, <1>15, <1>18, <1>19 DEF Holds
<1>27. /\ CountedAt(z, 7) = task.a
       /\ BehindCounted(z, 7) = Len(x4) + 1
  <2>1. /\ CountedAt(z, Len(x3) + 1) = task.a
        /\ BehindCounted(z, Len(x3) + 1) = Len(x3) + Len(ca) + 1
    <3>1. Len(x3) \in Nat /\ Holds(z, Len(x3), Counted(task.a))
      BY <1>11, <1>22 DEF ca
    <3> QED
      BY <3>1, <1>1, <1>4, CountedReadsBack DEF ca
  <2> QED
    BY <2>1, <1>10, <1>11, <1>12
<1>28. /\ CountedAt(z, Len(x4) + 1) = task.s
       /\ BehindCounted(z, Len(x4) + 1) = Len(x5) + 1
  <2>1. /\ CountedAt(z, Len(x4) + 1) = task.s
        /\ BehindCounted(z, Len(x4) + 1) = Len(x4) + Len(cs) + 1
    <3>1. Len(x4) \in Nat /\ Holds(z, Len(x4), Counted(task.s))
      BY <1>12, <1>21 DEF cs
    <3> QED
      BY <3>1, <1>1, <1>4, CountedReadsBack DEF cs
  <2> QED
    BY <2>1, <1>10, <1>12, <1>13
<1>29. /\ CountedAt(z, Len(x5) + 1) = task.p
       /\ BehindCounted(z, Len(x5) + 1) = Len(x6) + 1
  <2>1. /\ CountedAt(z, Len(x5) + 1) = task.p
        /\ BehindCounted(z, Len(x5) + 1) = Len(x5) + Len(cp) + 1
    <3>1. Len(x5) \in Nat /\ Holds(z, Len(x5), Counted(task.p))
      BY <1>13, <1>20 DEF cp
    <3> QED
      BY <3>1, <1>1, <1>4, CountedReadsBack DEF cp
  <2> QED
    BY <2>1, <1>10, <1>13, <1>14
<1>30. ReadTask(z) =
          [taskId |-> z[1][1], startTime |-> z[3][1], endTime |-> z[5][1],
           a |-> task.a, s |-> task.s, p |-> task.p,
           type |-> z[Len(x6) + 1][1], syncType |-> z[Len(x6) + 1 + 1][1],
           bbCount |-> BlocksIn(task.a)]
  BY <1>27, <1>28, <1>29 DEF ReadTask, WordAt
<1>31. ReadTask(z) = task
  <2>1. /\ z[1][1] = task.taskId /\ z[3][1] = task.startTime
        /\ z[5][1] = task.endTime
    BY <1>5, <1>25
  <2>2. /\ z[Len(x6) + 1][1] = task.type
        /\ z[Len(x6) + 1 + 1][1] = task.syncType
    BY <1>6, <1>26
  <2>3. task = [taskId |-> task.taskId, startTime |-> task.startTime,
                endTime |-> task.endTime, a |-> task.a, s |-> task.s,
                p |-> task.p, type |-> task.type, syncType |-> task.syncType,
                bbCount |-> task.bbCount]
    BY DEF Tasks
  <2> QED
    BY <1>30, <2>1, <2>2, <2>3
<1>32. 4 * Len(z) = RecordLength(task)
  <2> DEFINE na == Len(task.a)
             ns == Len(task.s)
             np == Len(task.p)
  <2>1. na \in Nat /\ ns \in Nat /\ np \in Nat
    BY <1>1
  <2>2. Len(ca) = 1 + 2 * na /\ Len(cs) = 1 + 2 * ns /\ Len(cp) = 1 + 2 * np
    BY <1>7
  <2>3. RecordLength(task) =
           8 + 8 + 8 + 4 + 8 * na + 4 + 8 * ns + 4 + 8 * np + 4 + 4
    BY DEF RecordLength
  <2>4. Len(z) = 8 + Len(ca) + Len(cs) + Len(cp)
    BY <1>10, <1>14, <1>16
  <2> HIDE DEF na, ns, np
  <2> QED
    BY <2>1, <2>2, <2>3, <2>4
<1> QED
  BY <1>8, <1>31, <1>32

-----------------------------------------------------------------------------
(***************************************************************************)
(* Counting in lists.                                                      *)
(***************************************************************************)

LEMMA PositionsAreFinite ==
  ASSUME NEW S, NEW list \in Seq(S), NEW I \in SUBSET DOMAIN list
  PROVE  IsFiniteSet(I) /\ Cardinality(I) \in Nat
<1>1. DOMAIN list = 1..Len(list) /\ Len(list) \in Nat
  OBVIOUS
<1>2. IsFiniteSet(DOMAIN list)
  BY <1>1, FS_Interval
<1>3. IsFiniteSet(I)
  BY <1>2, FS_Subset
<1> QED
  BY <1>3, FS_CardinalityType

\* As many numbers are left when all are shifted.
LEMMA ShiftKeepsCardinality ==
  ASSUME NEW I \in SUBSET Nat, IsFiniteSet(I), NEW n \in Nat
  PROVE  LET J == {n + i : i \in I} IN
         IsFiniteSet(J) /\ Cardinality(J) = Cardinality(I)
<1> DEFINE J == {n + i : i \in I}
           f == [i \in I |-> n + i]
<1>1. f \in [I -> J] /\ \A i \in I : f[i] = n + i
  OBVIOUS
<1>2. \A j \in J : \E i \in I : f[i] = j
  OBVIOUS
<1>3. \A i, k \in I : f[i] = f[k] => i = k
  <2>1. \A i, k \in I : n + i = n + k => i = k
    OBVIOUS
  <2> HIDE DEF f
  <2> QED
    BY <1>1, <2>1
<1> HIDE DEF f, J
<1>4. f \in Bijection(I, J)
  BY <1>1, <1>2, <1>3 DEF Bijection, Injection, Surjection, IsInjective
<1>5. ExistsBijection(I, J)
  BY <1>4 DEF ExistsBijection
<1>6. IsFiniteSet(J) /\ Cardinality(J) = Cardinality(I)
  BY <1>5, FS_Bijection
<1> QED
  BY <1>6 DEF J

LEMMA BlocksAreCounted ==
  ASSUME NEW x \in Seq(TaskActions)
  PROVE  BlocksIn(x) \in Nat
<1> DEFINE I == {i \in DOMAIN x : IsBasicBlock(x[i])}
<1>1. I \in SUBSET DOMAIN x
  OBVIOUS
<1>2. BlocksIn(x) = Cardinality(I)
  BY DEF BlocksIn
<1> HIDE DEF I
<1> QED
  BY <1>1, <1>2, PositionsAreFinite

\* Task.cpp:58: the blocks of a task that others are appended to.
LEMMA BlocksOfConcat ==
  ASSUME NEW x \in Seq(TaskActions), NEW y \in Seq(TaskActions)
  PROVE  BlocksIn(x \o y) = BlocksIn(x) + BlocksIn(y)
<1> DEFINE n == Len(x)
           I == {i \in 1..n : IsBasicBlock(x[i])}
           J == {i \in 1..Len(y) : IsBasicBlock(y[i])}
           K == {n + i : i \in J}
<1>1. /\ DOMAIN x = 1..n /\ n \in Nat /\ DOMAIN y = 1..Len(y) /\ Len(y) \in Nat
  OBVIOUS
<1>2. BlocksIn(x) = Cardinality(I) /\ BlocksIn(y) = Cardinality(J)
  BY <1>1 DEF BlocksIn
<1>3. IsFiniteSet(I) /\ IsFiniteSet(J)
  <2>1. I \in SUBSET DOMAIN x /\ J \in SUBSET DOMAIN y
    BY <1>1
  <2> HIDE DEF I, J
  <2> QED
    BY <2>1, PositionsAreFinite
<1>4. IsFiniteSet(K) /\ Cardinality(K) = Cardinality(J)
  <2>1. J \in SUBSET Nat
    OBVIOUS
  <2> HIDE DEF J, n
  <2> QED
    BY <1>1, <1>3, <2>1, ShiftKeepsCardinality
<1>5. I \cap K = {}
  BY <1>1
<1>6. {i \in DOMAIN (x \o y) : IsBasicBlock((x \o y)[i])} = I \cup K
  <2>1. /\ x \o y \in Seq(TaskActions)
        /\ Len(x \o y) = n + Len(y)
        /\ \A i \in 1..n : (x \o y)[i] = x[i]
        /\ \A i \in 1..Len(y) : (x \o y)[n + i] = y[i]
    BY ConcatIs
  <2> DEFINE m == Len(y)
             xy == x \o y
  <2>2. DOMAIN xy = 1..n + m /\ m \in Nat
    BY <2>1, <1>1
  <2>3. /\ \A i \in 1..n : xy[i] = x[i]
        /\ \A i \in 1..m : xy[n + i] = y[i]
    BY <2>1
  <2>4. /\ I = {i \in 1..n : IsBasicBlock(x[i])}
        /\ J = {i \in 1..m : IsBasicBlock(y[i])}
        /\ K = {n + i : i \in J}
    OBVIOUS
  <2> HIDE DEF xy, m, n, I, J, K
  <2>5. ASSUME NEW i \in 1..n + m, IsBasicBlock(xy[i]) PROVE i \in I \cup K
    <3>1. CASE i <= n
      <4>1. i \in 1..n
        BY <1>1, <2>2, <3>1
      <4> QED
        BY <2>3, <2>4, <2>5, <4>1
    <3>2. CASE i > n
      <4>1. i - n \in 1..m /\ n + (i - n) = i
        BY <1>1, <2>2, <3>2
      <4> QED
        BY <2>3, <2>4, <2>5, <4>1
    <3> QED
      BY <1>1, <3>1, <3>2
  <2>6. ASSUME NEW i \in I PROVE i \in 1..n + m /\ IsBasicBlock(xy[i])
    <3>1. i \in 1..n /\ IsBasicBlock(x[i])
      BY <2>4
    <3> QED
      BY <1>1, <2>2, <2>3, <3>1
  <2>7. ASSUME NEW k \in K PROVE k \in 1..n + m /\ IsBasicBlock(xy[k])
    <3>1. PICK j \in 1..m : IsBasicBlock(y[j]) /\ k = n + j
      BY <2>4
    <3> QED
      BY <1>1, <2>2, <2>3, <3>1
  <2>8. {i \in DOMAIN xy : IsBasicBlock(xy[i])} = I \cup K
    BY <2>2, <2>5, <2>6, <2>7
  <2> QED
    BY <2>8 DEF xy
<1>7. Cardinality(I \cup K) = Cardinality(I) + Cardinality(K)
  <2>1. Cardinality(I) \in Nat /\ Cardinality(K) \in Nat
    <3> HIDE DEF I, K
    <3> QED
      BY <1>3, <1>4, FS_CardinalityType
  <2> HIDE DEF I, K
  <2>2. Cardinality(I \cup K) =
           Cardinality(I) + Cardinality(K) - Cardinality(I \cap K)
    BY <1>3, <1>4, FS_Union
  <2>3. Cardinality(I \cap K) = 0
    BY <1>5, FS_EmptySet
  <2> QED
    BY <2>1, <2>2, <2>3
<1>8. BlocksIn(x \o y) = Cardinality(I \cup K)
  BY <1>6 DEF BlocksIn
<1> HIDE DEF I, J, K
<1> QED
  BY <1>2, <1>4, <1>7, <1>8

-----------------------------------------------------------------------------
(***************************************************************************)
(* What an edit does to the tasks.                                         *)
(***************************************************************************)

\* Graphs of the same tasks, but for their links.
Alike(g) ==
    {h \in [DOMAIN g -> Tasks] :
        \A t \in DOMAIN g : /\ h[t].taskId = g[t].taskId
                            /\ h[t].type = g[t].type
                            /\ h[t].a = g[t].a
                            /\ h[t].bbCount = g[t].bbCount}

LEMMA AlikeIsGraph ==
  ASSUME NEW g, IsGraph(g), NEW h \in Alike(g)
  PROVE  IsGraph(h)
  BY DEF IsGraph, Alike

LEMMA LinksAreLists ==
  ASSUME NEW g, IsGraph(g), NEW t \in DOMAIN g
  PROVE  /\ g[t] \in Tasks /\ t \in TaskIds
         /\ g[t].s \in Seq(TaskIds)
         /\ g[t].p \in Seq(TaskIds)
         /\ g[t].a \in Seq(TaskActions)
         /\ g[t].bbCount = BlocksIn(g[t].a)
  BY DEF IsGraph, Tasks

\* Other links in a task.
LEMMA WithLinks ==
  ASSUME NEW task \in Tasks, NEW list \in Seq(TaskIds)
  PROVE  LET s == [task EXCEPT !.s = list]
             p == [task EXCEPT !.p = list]
         IN  /\ s \in Tasks /\ s.s = list /\ s.p = task.p
             /\ s.taskId = task.taskId /\ s.type = task.type
             /\ s.a = task.a /\ s.bbCount = task.bbCount
             /\ p \in Tasks /\ p.p = list /\ p.s = task.s
             /\ p.taskId = task.taskId /\ p.type = task.type
             /\ p.a = task.a /\ p.bbCount = task.bbCount
<1> DEFINE s == [task EXCEPT !.s = list]
           p == [task EXCEPT !.p = list]
<1>1. /\ s \in Tasks /\ s.s = list /\ s.p = task.p
      /\ s.taskId = task.taskId /\ s.type = task.type
      /\ s.a = task.a /\ s.bbCount = task.bbCount
  BY DEF Tasks
<1>2. /\ p \in Tasks /\ p.p = list /\ p.s = task.s
      /\ p.taskId = task.taskId /\ p.type = task.type
      /\ p.a = task.a /\ p.bbCount = task.bbCount
  BY DEF Tasks
<1> QED
  BY <1>1, <1>2

LEMMA ReplaceFirstIsList ==
  ASSUME NEW list \in Seq(TaskIds), NEW old, NEW new \in TaskIds
  PROVE  ReplaceFirst(list, old, new) \in Seq(TaskIds)
  BY ReplaceFirstIs

\* Relinking changes the successors of the one and the predecessors of the
\* other.
LEMMA RelinkFields ==
  ASSUME NEW g, IsGraph(g), NEW pred \in DOMAIN g, NEW succ \in DOMAIN g, NEW rem
  PROVE  LET h == Relink(g, pred, succ, rem) IN
         /\ h \in Alike(g)
         /\ \A t \in DOMAIN g :
               /\ h[t].s = IF t = pred THEN ReplaceFirst(g[t].s, rem, succ)
                                       ELSE g[t].s
               /\ h[t].p = IF t = succ THEN ReplaceFirst(g[t].p, rem, pred)
                                       ELSE g[t].p
<1> DEFINE ns == ReplaceFirst(g[pred].s, rem, succ)
           np == ReplaceFirst(g[succ].p, rem, pred)
           k == [g EXCEPT ![pred] = [@ EXCEPT !.s = ns]]
           h == Relink(g, pred, succ, rem)
<1>1. \A t \in DOMAIN g : /\ g[t] \in Tasks /\ t \in TaskIds
                          /\ g[t].s \in Seq(TaskIds) /\ g[t].p \in Seq(TaskIds)
  BY LinksAreLists
<1>2. ns \in Seq(TaskIds) /\ np \in Seq(TaskIds)
  BY <1>1, ReplaceFirstIsList
<1>3. g = [t \in DOMAIN g |-> g[t]]
  BY DEF IsGraph
<1>4. /\ g[pred] \in Tasks /\ ns = ReplaceFirst(g[pred].s, rem, succ)
      /\ np = ReplaceFirst(g[succ].p, rem, pred)
  BY <1>1
<1> HIDE DEF ns, np
<1>5. /\ k \in [DOMAIN g -> Tasks]
      /\ \A t \in DOMAIN g : t # pred => k[t] = g[t]
      /\ k[pred] = [g[pred] EXCEPT !.s = ns]
  <2>1. [g[pred] EXCEPT !.s = ns] \in Tasks
    BY <1>2, <1>4, WithLinks
  <2> QED
    BY <1>1, <1>3, <2>1
<1> HIDE DEF k
<1>6. /\ k[pred].s = ns /\ k[pred].p = g[pred].p
      /\ k[pred].taskId = g[pred].taskId /\ k[pred].type = g[pred].type
      /\ k[pred].a = g[pred].a /\ k[pred].bbCount = g[pred].bbCount
  BY <1>2, <1>4, <1>5, WithLinks
<1>7. h = [k EXCEPT ![succ] = [@ EXCEPT !.p = np]]
  <2>1. k[succ].p = g[succ].p
    BY <1>5, <1>6
  <2>2. h = [k EXCEPT ![succ].p = ReplaceFirst(@, rem, pred)]
    BY <1>3, <1>4 DEF Relink, k
  <2> HIDE DEF h
  <2> QED
    BY <2>1, <2>2, <1>4, <1>5
<1> HIDE DEF h
<1>8. k[succ] \in Tasks
  BY <1>5
<1>9. /\ h \in [DOMAIN g -> Tasks]
      /\ \A t \in DOMAIN g : t # succ => h[t] = k[t]
      /\ h[succ] = [k[succ] EXCEPT !.p = np]
  <2>1. [k[succ] EXCEPT !.p = np] \in Tasks
    BY <1>2, <1>8, WithLinks
  <2> QED
    BY <1>5, <1>7, <2>1
<1>10. /\ h[succ].p = np /\ h[succ].s = k[succ].s
       /\ h[succ].taskId = k[succ].taskId /\ h[succ].type = k[succ].type
       /\ h[succ].a = k[succ].a /\ h[succ].bbCount = k[succ].bbCount
  BY <1>2, <1>8, <1>9, WithLinks
<1>11. ASSUME NEW t \in DOMAIN g
       PROVE  /\ h[t].taskId = g[t].taskId /\ h[t].type = g[t].type
              /\ h[t].a = g[t].a /\ h[t].bbCount = g[t].bbCount
              /\ h[t].s = IF t = pred THEN ns ELSE g[t].s
              /\ h[t].p = IF t = succ THEN np ELSE g[t].p
  <2>1. /\ k[t].taskId = g[t].taskId /\ k[t].type = g[t].type
        /\ k[t].a = g[t].a /\ k[t].bbCount = g[t].bbCount
        /\ k[t].s = IF t = pred THEN ns ELSE g[t].s
        /\ k[t].p = g[t].p
    BY <1>5, <1>6
  <2> QED
    BY <1>9, <1>10, <2>1
<1>12. h \in Alike(g)
  BY <1>9, <1>11 DEF Alike
<1>13. \A t \in DOMAIN g :
          /\ h[t].s = IF t = pred THEN ReplaceFirst(g[t].s, rem, succ) ELSE g[t].s
          /\ h[t].p = IF t = succ THEN ReplaceFirst(g[t].p, rem, pred) ELSE g[t].p
  BY <1>4, <1>11
<1> QED
  BY <1>12, <1>13 DEF h

LEMMA AlikeTwice ==
  ASSUME NEW g, NEW h \in Alike(g), NEW k \in Alike(h)
  PROVE  k \in Alike(g)
  BY DEF Alike

\* What the loop of removeTask works on: the graph with some links changed.
Results == [graph : Alike(graph), ok : BOOLEAN]

LEMMA MatchIs ==
  ASSUME IsGraph(graph), NEW rem \in DOMAIN graph, Succs(rem) \subseteq DOMAIN graph,
         NEW pred \in DOMAIN graph, NEW r \in Results
  PROVE  LET q == Match(r, pred, rem)
             s == graph[rem].s
         IN  /\ q \in Results
             /\ q.ok => /\ r.ok
                        /\ Contains(r.graph[pred].s, rem)
                        /\ \E i \in DOMAIN s :
                              /\ graph[pred].type = graph[s[i]].type
                              /\ q.graph = Relink(r.graph, pred, s[i], rem)
<1> DEFINE g == r.graph
           s == graph[rem].s
           fits == {i \in DOMAIN s : /\ graph[pred].type = graph[s[i]].type
                                     /\ Contains(g[pred].s, rem)
                                     /\ s[i] = pred => Contains(g[pred].p, rem)}
           q == Match(r, pred, rem)
<1>1. q = IF ~r.ok \/ fits = {} THEN [r EXCEPT !.ok = FALSE]
          ELSE [r EXCEPT !.graph = Relink(g, pred, s[Min(fits)], rem)]
  BY DEF Match
<1>2. r \in Results /\ g \in Alike(graph) /\ r.ok \in BOOLEAN
  BY DEF Results
<1>3. CASE ~r.ok \/ fits = {}
  <2>1. q = [r EXCEPT !.ok = FALSE]
    BY <1>1, <1>3
  <2> HIDE DEF q
  <2>2. q \in Results /\ q.ok = FALSE
    BY <2>1 DEF Results
  <2> QED
    BY <2>2 DEF q
<1>4. CASE r.ok /\ fits # {}
  <2> DEFINE m == Min(fits)
             h == Relink(g, pred, s[m], rem)
  <2>1. m \in fits
    <3>1. fits \subseteq Nat
      <4>1. graph[rem].s \in Seq(TaskIds)
        BY LinksAreLists
      <4> QED
        BY <4>1
    <3> HIDE DEF fits
    <3> QED
      BY <1>4, <3>1, MinIs
  <2>2. /\ m \in DOMAIN s /\ graph[pred].type = graph[s[m]].type
        /\ Contains(g[pred].s, rem)
    BY <2>1
  <2>3. s[m] \in DOMAIN graph
    BY <2>2 DEF Succs, ToSet
  <2>4. q = [r EXCEPT !.graph = h]
    BY <1>1, <1>4
  <2>5. IsGraph(g) /\ DOMAIN g = DOMAIN graph
    <3>1. DOMAIN g = DOMAIN graph
      BY <1>2 DEF Alike
    <3> QED
      BY <1>2, <3>1, AlikeIsGraph
  <2> HIDE DEF m, g, s, q
  <2>6. h \in Alike(g)
    BY <2>3, <2>5, RelinkFields
  <2>7. h \in Alike(graph)
    BY <1>2, <2>6, AlikeTwice
  <2> HIDE DEF h
  <2>8. q \in Results /\ q.graph = h /\ q.ok = r.ok
    BY <1>2, <2>4, <2>7 DEF Results
  <2>9. \E i \in DOMAIN s : /\ graph[pred].type = graph[s[i]].type
                            /\ q.graph = Relink(g, pred, s[i], rem)
    BY <2>2, <2>8 DEF h
  <2> QED
    BY <2>2, <2>8, <2>9, <1>4 DEF g, s, q
<1> QED
  BY <1>3, <1>4, <1>2

\* The loop of removeTask, turn by turn.
LEMMA RewiredIs ==
  ASSUME IsGraph(graph), NEW rem \in DOMAIN graph,
         Preds(rem) \cup Succs(rem) \subseteq DOMAIN graph
  PROVE  LET p == graph[rem].p
             s == graph[rem].s
         IN  \E f \in [0..Len(p) -> Results] :
                /\ f[0] = [graph |-> graph, ok |-> Len(p) = Len(s)]
                /\ \A n \in 1..Len(p) : f[n] = Match(f[n - 1], p[n], rem)
                /\ Rewired(rem) = f[Len(p)]
<1> DEFINE p == graph[rem].p
           N == Len(p)
           base == [graph |-> graph, ok |-> Len(p) = Len(graph[rem].s)]
           F(f) == [n \in 0..N |-> IF n = 0 THEN base ELSE Match(f[n - 1], p[n], rem)]
           step == [n \in 1..N |-> [r \in Results |-> Match(r, p[n], rem)]]
<1>1. N \in Nat /\ \A n \in 1..N : p[n] \in DOMAIN graph
  <2>1. graph[rem].p \in Seq(TaskIds)
    BY LinksAreLists
  <2> QED
    BY <2>1 DEF Preds, ToSet
<1>2. base \in Results
  <2>1. graph \in Alike(graph)
    BY DEF IsGraph, Alike
  <2> QED
    BY <2>1 DEF Results
<1>3. \A n \in 1..N : \A r \in Results : Match(r, p[n], rem) \in Results
  <2> SUFFICES ASSUME NEW n \in 1..N, NEW r \in Results
               PROVE  Match(r, p[n], rem) \in Results
    OBVIOUS
  <2>1. p[n] \in DOMAIN graph /\ Succs(rem) \subseteq DOMAIN graph
    BY <1>1
  <2> HIDE DEF p
  <2> QED
    BY <2>1, MatchIs
<1>4. Rewired(rem) = (CHOOSE f : f = F(f))[N]
  BY DEF Rewired
<1> HIDE DEF p, base
<1>5. step \in [1..N -> [Results -> Results]]
  BY <1>3
<1>6. \A n \in 1..N : \A r \in Results : step[n][r] = Match(r, p[n], rem)
  OBVIOUS
<1> HIDE DEF step, N
<1>7. PICK f \in [0..N -> Results] :
         f[0] = base /\ \A n \in 1..N : f[n] = step[n][f[n - 1]]
  <2>1. N \in Nat /\ base \in Results /\ step \in Steps(N, Results)
    BY <1>1, <1>2, <1>5 DEF Steps
  <2>2. \E f : Iterates(f, N, Results, base, step)
    BY <2>1, Iterated
  <2> QED
    BY <2>2 DEF Iterates
<1>8. \A n \in 1..N : n - 1 \in 0..N /\ f[n - 1] \in Results
  BY <1>1, <1>7
<1>9. \A n \in 1..N : f[n] = Match(f[n - 1], p[n], rem)
  BY <1>6, <1>7, <1>8
<1>10. f = F(f)
  <2>1. \A n \in 0..N : f[n] = IF n = 0 THEN base ELSE Match(f[n - 1], p[n], rem)
    BY <1>1, <1>7, <1>9
  <2> QED
    BY <1>7, <2>1
<1>11. \A h : h = F(h) => h = f
  <2> SUFFICES ASSUME NEW h, h = F(h) PROVE h = f
    OBVIOUS
  <2>1. DOMAIN h = 0..N /\ h = [n \in 0..N |-> h[n]]
    OBVIOUS
  <2>2. \A n \in 0..N : h[n] = IF n = 0 THEN base ELSE Match(h[n - 1], p[n], rem)
    OBVIOUS
  <2> DEFINE G == {n \in 0..N : h[n] = f[n]}
  <2>3. 0 \in G
    BY <1>1, <1>7, <2>2
  <2>4. ASSUME NEW n \in 1..N, n - 1 \in G PROVE n \in G
    <3>1. n \in 0..N /\ n # 0 /\ h[n - 1] = f[n - 1]
      BY <1>1, <2>4
    <3>2. h[n] = Match(h[n - 1], p[n], rem)
      BY <2>2, <3>1
    <3> QED
      BY <1>9, <3>1, <3>2
  <2> HIDE DEF G
  <2>5. \A n \in 0..N : n \in G
    BY <1>1, <2>3, <2>4, CountingUp
  <2>6. \A n \in 0..N : h[n] = f[n]
    BY <2>5 DEF G
  <2> QED
    BY <1>7, <2>1, <2>6
<1>12. (CHOOSE h : h = F(h)) = f
  <2> HIDE DEF F
  <2> QED
    BY <1>10, <1>11
<1>13. Rewired(rem) = f[N]
  BY <1>4, <1>12
<1> QED
  BY <1>7, <1>9, <1>13 DEF N, base, p

\* appendTask: the task takes over the actions and the successors ...
LEMMA JoinedIs ==
  ASSUME NEW task \in Tasks, task.bbCount = BlocksIn(task.a),
         NEW app \in Tasks, app.bbCount = BlocksIn(app.a)
  PROVE  LET j == Joined(task, app) IN
         /\ j \in Tasks /\ j.taskId = task.taskId
         /\ j.bbCount = BlocksIn(j.a)
         /\ j.s = app.s /\ j.p = task.p
<1> DEFINE a == task.a \o app.a
           b == task.bbCount + app.bbCount
<1>1. task.a \in Seq(TaskActions) /\ app.a \in Seq(TaskActions)
      /\ app.s \in Seq(TaskIds)
  BY DEF Tasks
<1>2. a \in Seq(TaskActions) /\ b = BlocksIn(a)
  BY <1>1, BlocksOfConcat
<1>3. b \in Nat
  BY <1>2, BlocksAreCounted
<1>4. Joined(task, app) = [task EXCEPT !.a = a, !.bbCount = b, !.s = app.s]
  BY DEF Joined
<1> HIDE DEF a, b
<1>5. /\ Joined(task, app) \in Tasks
      /\ Joined(task, app).taskId = task.taskId
      /\ Joined(task, app).a = a /\ Joined(task, app).bbCount = b
      /\ Joined(task, app).s = app.s /\ Joined(task, app).p = task.p
  BY <1>1, <1>2, <1>3, <1>4 DEF Tasks
<1> QED
  BY <1>2, <1>5

LEMMA ExtendedIs ==
  ASSUME IsGraph(graph), NEW id \in DOMAIN graph, NEW app \in DOMAIN graph
  PROVE  LET h == Extended(id, app) IN
         /\ IsGraph(h) /\ DOMAIN h = DOMAIN graph
         /\ \A t \in DOMAIN graph :
               /\ h[t].p = graph[t].p
               /\ h[t].s = IF t = id THEN graph[app].s ELSE graph[t].s
<1> DEFINE j == Joined(graph[id], graph[app])
           h == Extended(id, app)
<1>1. h = [graph EXCEPT ![id] = j]
  BY DEF Extended
<1>2. /\ j \in Tasks /\ j.taskId = graph[id].taskId
      /\ j.bbCount = BlocksIn(j.a)
      /\ j.s = graph[app].s /\ j.p = graph[id].p
  BY LinksAreLists, JoinedIs
<1> HIDE DEF j, h
<1>3. /\ DOMAIN graph \subseteq TaskIds /\ graph \in [DOMAIN graph -> Tasks]
      /\ \A t \in DOMAIN graph : /\ graph[t].taskId = t
                                 /\ graph[t].bbCount = BlocksIn(graph[t].a)
  BY DEF IsGraph
<1>4. /\ h \in [DOMAIN graph -> Tasks]
      /\ h[id] = j
      /\ \A t \in DOMAIN graph : t # id => h[t] = graph[t]
  BY <1>1, <1>2, <1>3
<1>5. DOMAIN h = DOMAIN graph
  BY <1>4
<1>6. ASSUME NEW t \in DOMAIN graph
      PROVE  h[t].taskId = t /\ h[t].bbCount = BlocksIn(h[t].a)
  BY <1>2, <1>3, <1>4
<1>7. IsGraph(h)
  BY <1>3, <1>4, <1>5, <1>6 DEF IsGraph
<1>8. ASSUME NEW t \in DOMAIN graph
      PROVE  /\ h[t].p = graph[t].p
             /\ h[t].s = IF t = id THEN graph[app].s ELSE graph[t].s
  BY <1>2, <1>4
<1> QED
  BY <1>5, <1>7, <1>8 DEF h

\* ... and every successor has it for a predecessor.
LEMMA PredReplaced ==
  ASSUME NEW g, IsGraph(g), NEW u \in DOMAIN g, NEW app, NEW id \in TaskIds
  PROVE  LET h == Retold(g, u, app, id) IN
         /\ h \in Alike(g)
         /\ \A t \in DOMAIN g :
               /\ h[t].s = g[t].s
               /\ h[t].p = IF t = u THEN ReplaceFirst(g[t].p, app, id) ELSE g[t].p
<1> DEFINE np == ReplaceFirst(g[u].p, app, id)
           h == Retold(g, u, app, id)
<1>1. g[u] \in Tasks /\ np \in Seq(TaskIds)
  BY LinksAreLists, ReplaceFirstIsList
<1>2. g \in [DOMAIN g -> Tasks]
  BY DEF IsGraph
<1>3. h = [g EXCEPT ![u] = [@ EXCEPT !.p = np]]
  BY <1>2 DEF Retold
<1>4. np = ReplaceFirst(g[u].p, app, id)
  OBVIOUS
<1> HIDE DEF np, h
<1> DEFINE task == [g[u] EXCEPT !.p = np]
<1>5. /\ task \in Tasks /\ task.p = np /\ task.s = g[u].s
      /\ task.taskId = g[u].taskId /\ task.type = g[u].type
      /\ task.a = g[u].a /\ task.bbCount = g[u].bbCount
  BY <1>1, WithLinks
<1>6. h = [g EXCEPT ![u] = task]
  BY <1>3
<1> HIDE DEF task
<1>7. /\ h \in [DOMAIN g -> Tasks] /\ h[u] = task
      /\ \A t \in DOMAIN g : t # u => h[t] = g[t]
  BY <1>2, <1>5, <1>6
<1>8. h \in Alike(g)
  BY <1>5, <1>7 DEF Alike
<1>9. ASSUME NEW t \in DOMAIN g
      PROVE  /\ h[t].s = g[t].s
             /\ h[t].p = IF t = u THEN ReplaceFirst(g[t].p, app, id) ELSE g[t].p
  BY <1>4, <1>5, <1>7
<1> QED
  BY <1>8, <1>9 DEF h

\* The loop of appendTask, turn by turn.
LEMMA AppendedIs ==
  ASSUME IsGraph(graph), NEW id \in DOMAIN graph, NEW app \in DOMAIN graph,
         Succs(app) \subseteq DOMAIN graph
  PROVE  LET s == graph[app].s
             J == Extended(id, app)
         IN  \E f \in [0..Len(s) -> Alike(J)] :
                /\ f[0] = J
                /\ \A n \in 1..Len(s) : \A t \in DOMAIN graph :
                      /\ f[n][t].s = f[n - 1][t].s
                      /\ f[n][t].p = IF t = s[n]
                                     THEN ReplaceFirst(f[n - 1][t].p, app, id)
                                     ELSE f[n - 1][t].p
                /\ Appended(id, app) = Without(f[Len(s)], app)
<1> DEFINE s == graph[app].s
           J == Extended(id, app)
           N == Len(s)
           R == Alike(J)
           Turn(g, n) == Retold(g, s[n], app, id)
           F(f) == [n \in 0..N |-> IF n = 0 THEN J ELSE Turn(f[n - 1], n)]
           step == [n \in 1..N |-> [r \in R |-> Turn(r, n)]]
<1>1. N \in Nat /\ \A n \in 1..N : s[n] \in DOMAIN graph
  <2>1. graph[app].s \in Seq(TaskIds)
    BY LinksAreLists
  <2> QED
    BY <2>1 DEF Succs, ToSet
<1>2. IsGraph(J) /\ DOMAIN J = DOMAIN graph
  BY ExtendedIs
<1>3. id \in TaskIds
  BY LinksAreLists
<1>4. Appended(id, app) = Without((CHOOSE f : f = F(f))[N], app)
  BY DEF Appended
<1>5. J = Extended(id, app) /\ N = Len(graph[app].s) /\ s = graph[app].s /\ R = Alike(J)
  OBVIOUS
<1> HIDE DEF s, J, N, R
<1>6. J \in R
  BY <1>2, <1>5 DEF IsGraph, Alike
<1>7. ASSUME NEW n \in 1..N, NEW g \in R
      PROVE  /\ Turn(g, n) \in R
             /\ \A t \in DOMAIN graph :
                   /\ Turn(g, n)[t].s = g[t].s
                   /\ Turn(g, n)[t].p = IF t = s[n]
                                        THEN ReplaceFirst(g[t].p, app, id)
                                        ELSE g[t].p
  <2>1. DOMAIN g = DOMAIN graph
    BY <1>2, <1>5 DEF Alike
  <2>2. IsGraph(g)
    BY <1>2, <1>5, AlikeIsGraph
  <2>3. s[n] \in DOMAIN g
    BY <1>1, <2>1
  <2>4. /\ Turn(g, n) \in Alike(g)
        /\ \A t \in DOMAIN g :
              /\ Turn(g, n)[t].s = g[t].s
              /\ Turn(g, n)[t].p = IF t = s[n] THEN ReplaceFirst(g[t].p, app, id)
                                               ELSE g[t].p
    BY <1>3, <2>2, <2>3, PredReplaced
  <2> HIDE DEF Turn
  <2>5. Turn(g, n) \in R
    BY <1>5, <2>4, AlikeTwice
  <2> QED
    BY <2>1, <2>4, <2>5
<1> HIDE DEF Turn
<1>8. step \in [1..N -> [R -> R]]
  BY <1>7
<1>9. \A n \in 1..N : \A r \in R : step[n][r] = Turn(r, n)
  OBVIOUS
<1> HIDE DEF step
<1>10. PICK f \in [0..N -> R] :
          f[0] = J /\ \A n \in 1..N : f[n] = step[n][f[n - 1]]
  <2>1. N \in Nat /\ J \in R /\ step \in Steps(N, R)
    BY <1>1, <1>6, <1>8 DEF Steps
  <2>2. \E f : Iterates(f, N, R, J, step)
    BY <2>1, Iterated
  <2> QED
    BY <2>2 DEF Iterates
<1>11. \A n \in 1..N : n - 1 \in 0..N /\ f[n - 1] \in R
  BY <1>1, <1>10
<1>12. \A n \in 1..N : f[n] = Turn(f[n - 1], n)
  BY <1>9, <1>10, <1>11
<1>13. f = F(f)
  <2>1. \A n \in 0..N : f[n] = IF n = 0 THEN J ELSE Turn(f[n - 1], n)
    BY <1>1, <1>10, <1>12
  <2> QED
    BY <1>10, <2>1
<1>14. \A h : h = F(h) => h = f
  <2> SUFFICES ASSUME NEW h, h = F(h) PROVE h = f
    OBVIOUS
  <2>1. DOMAIN h = 0..N /\ h = [n \in 0..N |-> h[n]]
    OBVIOUS
  <2>2. \A n \in 0..N : h[n] = IF n = 0 THEN J ELSE Turn(h[n - 1], n)
    OBVIOUS
  <2> DEFINE G == {n \in 0..N : h[n] = f[n]}
  <2>3. 0 \in G
    BY <1>1, <1>10, <2>2
  <2>4. ASSUME NEW n \in 1..N, n - 1 \in G PROVE n \in G
    <3>1. n \in 0..N /\ n # 0 /\ h[n - 1] = f[n - 1]
      BY <1>1, <2>4
    <3>2. h[n] = Turn(h[n - 1], n)
      BY <2>2, <3>1
    <3> QED
      BY <1>12, <3>1, <3>2
  <2> HIDE DEF G
  <2>5. \A n \in 0..N : n \in G
    BY <1>1, <2>3, <2>4, CountingUp
  <2>6. \A n \in 0..N : h[n] = f[n]
    BY <2>5 DEF G
  <2> QED
    BY <1>10, <2>1, <2>6
<1>15. (CHOOSE h : h = F(h)) = f
  <2> HIDE DEF F
  <2> QED
    BY <1>13, <1>14
<1>16. Appended(id, app) = Without(f[N], app)
  BY <1>4, <1>15
<1>17. \A n \in 1..N : \A t \in DOMAIN graph :
          /\ f[n][t].s = f[n - 1][t].s
          /\ f[n][t].p = IF t = s[n] THEN ReplaceFirst(f[n - 1][t].p, app, id)
                                     ELSE f[n - 1][t].p
  BY <1>7, <1>11, <1>12
<1>18. \E h \in [0..N -> R] :
          /\ h[0] = J
          /\ \A n \in 1..N : \A t \in DOMAIN graph :
                /\ h[n][t].s = h[n - 1][t].s
                /\ h[n][t].p = IF t = s[n] THEN ReplaceFirst(h[n - 1][t].p, app, id)
                                           ELSE h[n - 1][t].p
          /\ Appended(id, app) = Without(h[N], app)
  BY <1>10, <1>16, <1>17
<1> QED
  BY <1>18 DEF N, R, J, s

LEMMA WithoutIsGraph ==
  ASSUME NEW g, IsGraph(g), NEW id
  PROVE  IsGraph(Without(g, id))
  BY DEF IsGraph, Without

\* Whatever is removed or appended, a graph remains.
LEMMA EditsKeepGraph ==
  ASSUME IsGraph(graph), Edit
  PROVE  IsGraph(graph')
<1>1. ASSUME NEW t \in DOMAIN graph, RemoveTask(t)
      PROVE  IsGraph(graph')
  <2> DEFINE r == Rewired(t)
  <2>1. /\ Preds(t) \cup Succs(t) \subseteq DOMAIN graph
        /\ graph' = IF r.ok THEN Without(r.graph, t) ELSE r.graph
    BY <1>1 DEF RemoveTask
  <2>2. r \in Results
    <3> DEFINE N == Len(graph[t].p)
    <3>1. PICK f \in [0..N -> Results] : r = f[N]
      BY <2>1, RewiredIs
    <3>2. N \in Nat
      BY LinksAreLists
    <3> QED
      BY <3>1, <3>2
  <2> HIDE DEF r
  <2>3. IsGraph(r.graph)
    BY <2>2, AlikeIsGraph DEF Results
  <2> QED
    BY <2>1, <2>3, WithoutIsGraph
<1>2. ASSUME NEW t \in DOMAIN graph, NEW u \in DOMAIN graph, AppendTask(t, u)
      PROVE  IsGraph(graph')
  <2> DEFINE N == Len(graph[u].s)
             J == Extended(t, u)
  <2>1. Succs(u) \subseteq DOMAIN graph /\ graph' = Appended(t, u)
    BY <1>2 DEF AppendTask
  <2>2. PICK f \in [0..N -> Alike(J)] : Appended(t, u) = Without(f[N], u)
    BY <2>1, AppendedIs
  <2>3. N \in Nat
    BY LinksAreLists
  <2>4. IsGraph(J)
    BY ExtendedIs
  <2> HIDE DEF N, J
  <2>5. f[N] \in Alike(J)
    BY <2>2, <2>3
  <2> QED
    BY <2>1, <2>2, <2>4, <2>5, AlikeIsGraph, WithoutIsGraph
<1> QED
  BY <1>1, <1>2 DEF Edit

-----------------------------------------------------------------------------
(***************************************************************************)
(* Only edits change the graph, and they keep it a graph.                  *)
(***************************************************************************)
GraphInv == IsGraph(graph)

\* What the graph holds stays well formed: a task under its own id, with the
\* count of its blocks (Task.cpp:52-139, 188-195).
THEOREM GraphStaysWellFormed == TaskSpec => []GraphInv
<1>1. TaskInit => GraphInv
  BY GraphsAssumption DEF TaskInit, EditInit, GraphInv
<1>2. GraphInv /\ [TaskNext]_taskVars => GraphInv'
  <2> SUFFICES ASSUME GraphInv, [TaskNext]_taskVars PROVE GraphInv'
    OBVIOUS
  <2>1. CASE EditGraph
    BY <2>1, EditsKeepGraph DEF EditGraph, GraphInv
  <2>2. CASE graph' = graph
    BY <2>2 DEF GraphInv
  <2>3. CASE Save
    BY <2>3, <2>2 DEF Save
  <2>4. CASE InitTaskGraph
    BY <2>4, <2>2 DEF InitTaskGraph
  <2>5. ASSUME NEW p \in Contexts, GetNextOp(p) PROVE GraphInv'
    BY <2>5, <2>2 DEF GetNextOp
  <2>6. CASE UNCHANGED taskVars
    BY <2>6, <2>2 DEF taskVars
  <2> QED
    BY <2>1, <2>3, <2>4, <2>5, <2>6 DEF TaskNext
<1> QED
  BY <1>1, <1>2, PTL DEF TaskSpec

\* Task.cpp:287 and 399: whatever was appended and removed before, every task
\* is read back as it was written, in a record of the computed length.
THEOREM TasksReadBack == TaskSpec => []ReadsBackTasks
<1>1. GraphInv => ReadsBackTasks
  <2> SUFFICES ASSUME GraphInv, NEW id \in DOMAIN graph
               PROVE  LET words == WriteTask(graph[id]) IN
                      /\ ReadTask(words) = graph[id]
                      /\ 4 * Len(words) = RecordLength(graph[id])
    BY DEF ReadsBackTasks
  <2>1. graph[id] \in Tasks /\ graph[id].bbCount = BlocksIn(graph[id].a)
    BY LinksAreLists DEF GraphInv
  <2> QED
    BY <2>1, TaskReadsBack
<1> QED
  BY <1>1, GraphStaysWellFormed, PTL

-----------------------------------------------------------------------------
(***************************************************************************)
(* How often a task occurs in a list.                                      *)
(***************************************************************************)
LEMMA OccursIs ==
  ASSUME NEW S, NEW list \in Seq(S), NEW x
  PROVE  /\ Occurs(x, list) \in Nat
         /\ IsFiniteSet({i \in DOMAIN list : list[i] = x})
         /\ Occurs(x, list) = 0 <=> ~Contains(list, x)
<1> DEFINE I == {i \in DOMAIN list : list[i] = x}
<1>1. I \in SUBSET DOMAIN list
  OBVIOUS
<1>2. Contains(list, x) <=> I # {}
  BY DEF Contains
<1>3. Occurs(x, list) = Cardinality(I)
  BY DEF Occurs
<1>4. IsFiniteSet(I) /\ Cardinality(I) \in Nat
  <2> HIDE DEF I
  <2> QED
    BY <1>1, PositionsAreFinite
<1>5. Cardinality(I) = 0 <=> I = {}
  <2> HIDE DEF I
  <2> QED
    BY <1>4, FS_EmptySet
<1> QED
  BY <1>2, <1>3, <1>4, <1>5

\* Replacing an entry by another.
LEMMA OccursReplaced ==
  ASSUME NEW S, NEW list \in Seq(S), NEW old, NEW new \in S, old # new,
         Contains(list, old), NEW x
  PROVE  LET r == ReplaceFirst(list, old, new) IN
         Occurs(x, r) = IF x = old THEN Occurs(x, list) - 1
                        ELSE IF x = new THEN Occurs(x, list) + 1
                        ELSE Occurs(x, list)
<1> DEFINE r == ReplaceFirst(list, old, new)
           I == {i \in DOMAIN list : list[i] = x}
           J == {i \in DOMAIN list : r[i] = x}
<1>1. DOMAIN r = DOMAIN list
  BY ReplaceFirstIs
<1>2. Replaces(r, list, old, new)
  BY ReplaceFirstIs
<1>3. PICK k \in DOMAIN list :
         /\ list[k] = old /\ r[k] = new
         /\ \A i \in DOMAIN list : i # k => r[i] = list[i]
  BY <1>2 DEF Replaces
<1> HIDE DEF r
<1>4. /\ Occurs(x, list) = Cardinality(I)
      /\ Occurs(x, r) = Cardinality(J)
  BY <1>1 DEF Occurs
<1>5. IsFiniteSet(I)
  BY OccursIs
<1>6. CASE x = old
  <2>1. J = I \ {k} /\ k \in I
    BY <1>3, <1>6
  <2> HIDE DEF I, J
  <2>2. Cardinality(I \ {k}) = Cardinality(I) - 1
    BY <1>5, <2>1, FS_RemoveElement
  <2> QED
    BY <1>4, <1>6, <2>1, <2>2 DEF r
<1>7. CASE x # old /\ x = new
  <2>1. J = I \cup {k} /\ k \notin I
    BY <1>3, <1>7
  <2> HIDE DEF I, J
  <2>2. Cardinality(I \cup {k}) = Cardinality(I) + 1
    BY <1>5, <2>1, FS_AddElement
  <2> QED
    BY <1>4, <1>7, <2>1, <2>2 DEF r
<1>8. CASE x # old /\ x # new
  <2>1. J = I
    BY <1>3, <1>8
  <2> QED
    BY <1>4, <1>8, <2>1 DEF r
<1> QED
  BY <1>6, <1>7, <1>8

\* Entries that differ occur once.
LEMMA OccursOnce ==
  ASSUME NEW S, NEW list \in Seq(S), NEW k \in DOMAIN list,
         \A i \in DOMAIN list : list[i] = list[k] => i = k
  PROVE  Occurs(list[k], list) = 1
<1>1. {i \in DOMAIN list : list[i] = list[k]} = {k}
  OBVIOUS
<1> QED
  BY <1>1, FS_Singleton DEF Occurs

\* A list that has lost its only entry old to another.
LEMMA ListRelinked ==
  ASSUME NEW list \in Seq(TaskIds), NEW old, NEW new \in TaskIds, old # new,
         Occurs(old, list) = 1
  PROVE  LET r == ReplaceFirst(list, old, new) IN
         /\ Occurs(old, r) = 0
         /\ \A x : x # old => Occurs(x, r) = Occurs(x, list)
                                              + IF x = new THEN 1 ELSE 0
         /\ ToSet(r) \subseteq (ToSet(list) \cup {new}) \ {old}
<1> DEFINE r == ReplaceFirst(list, old, new)
<1>1. Contains(list, old)
  <2>1. Occurs(old, list) = 0 <=> ~Contains(list, old)
    BY OccursIs
  <2> QED
    BY <2>1
<1>2. r \in Seq(TaskIds)
  BY ReplaceFirstIs
<1>3. ASSUME NEW x
      PROVE  Occurs(x, r) = IF x = old THEN Occurs(x, list) - 1
                            ELSE IF x = new THEN Occurs(x, list) + 1
                            ELSE Occurs(x, list)
  BY <1>1, OccursReplaced
<1>4. Replaces(r, list, old, new) /\ DOMAIN r = DOMAIN list
  BY <1>1, ReplaceFirstIs
<1> HIDE DEF r
<1>5. Occurs(old, r) = 0
  BY <1>3
<1>6. \A x : Occurs(x, list) \in Nat
  BY OccursIs
<1>7. \A x : x # old => Occurs(x, r) = Occurs(x, list) + IF x = new THEN 1 ELSE 0
  BY <1>3, <1>6
<1>8. \A i \in DOMAIN r : r[i] \in ToSet(list) \cup {new}
  BY <1>4 DEF Replaces, ToSet
<1>9. \A i \in DOMAIN r : r[i] # old
  <2>1. ~Contains(r, old)
    BY <1>2, <1>5, OccursIs
  <2> QED
    BY <1>2, <2>1 DEF Contains
<1>10. ToSet(r) \subseteq (ToSet(list) \cup {new}) \ {old}
  BY <1>8, <1>9 DEF ToSet
<1> QED
  BY <1>5, <1>7, <1>10 DEF r

-----------------------------------------------------------------------------
(***************************************************************************)
(* Removal: each predecessor p[k] is linked to a successor q[k] of its     *)
(* type, and no successor is left over.                                    *)
(***************************************************************************)
Assigned(h, rem, q) ==
    LET p == graph[rem].p
        s == graph[rem].s
        K == 1..Len(p)
    IN  /\ q \in [K -> DOMAIN graph]
        /\ \A k \in K : graph[q[k]].type = graph[p[k]].type
        /\ \A k \in K : Occurs(p[k], p) = 1 /\ Occurs(q[k], s) = 1
        /\ ToSet(s) = {q[k] : k \in K}
        /\ \A k \in K : /\ h[p[k]].s = ReplaceFirst(graph[p[k]].s, rem, q[k])
                        /\ h[q[k]].p = ReplaceFirst(graph[q[k]].p, rem, p[k])
        /\ \A t \in DOMAIN graph :
              /\ t \notin ToSet(p) => h[t].s = graph[t].s
              /\ t \notin ToSet(s) => h[t].p = graph[t].p

LEMMA AssignedKeepsLinks ==
  ASSUME IsGraph(graph), Linked(graph), NEW rem \in DOMAIN graph,
         TypesDiffer(rem), NEW h, DOMAIN h = DOMAIN graph,
         NEW q, Assigned(h, rem, q)
  PROVE  Linked(Without(h, rem))
<1> DEFINE p == graph[rem].p
           s == graph[rem].s
           K == 1..Len(p)
           Pair(t, u) == \E k \in K : p[k] = t /\ q[k] = u
<1>1. /\ p \in Seq(TaskIds) /\ s \in Seq(TaskIds)
      /\ DOMAIN p = K
      /\ \A t \in DOMAIN graph : /\ t \in TaskIds
                                 /\ graph[t].s \in Seq(TaskIds)
                                 /\ graph[t].p \in Seq(TaskIds)
  BY LinksAreLists
<1>2. /\ q \in [K -> DOMAIN graph]
      /\ \A k \in K : graph[q[k]].type = graph[p[k]].type
      /\ \A k \in K : Occurs(p[k], p) = 1 /\ Occurs(q[k], s) = 1
      /\ ToSet(s) = {q[k] : k \in K}
      /\ \A k \in K : /\ h[p[k]].s = ReplaceFirst(graph[p[k]].s, rem, q[k])
                      /\ h[q[k]].p = ReplaceFirst(graph[q[k]].p, rem, p[k])
      /\ \A t \in DOMAIN graph : /\ t \notin ToSet(p) => h[t].s = graph[t].s
                                 /\ t \notin ToSet(s) => h[t].p = graph[t].p
  BY DEF Assigned
<1>3. /\ ToSet(p) = {p[k] : k \in K}
      /\ \A x : Contains(p, x) <=> x \in ToSet(p)
      /\ \A x : Contains(s, x) <=> x \in ToSet(s)
  BY <1>1 DEF ToSet, Contains
<1>4. \A i, j \in K : graph[p[i]].type = graph[p[j]].type => i = j
  BY <1>1 DEF TypesDiffer
<1>5. \A t \in DOMAIN graph :
         /\ ToSet(graph[t].s) \subseteq DOMAIN graph
         /\ ToSet(graph[t].p) \subseteq DOMAIN graph
         /\ \A u \in DOMAIN graph : Occurs(u, graph[t].s) = Occurs(t, graph[u].p)
  BY DEF Linked
<1>6. \A k \in K : p[k] \in DOMAIN graph /\ q[k] \in DOMAIN graph
                   /\ p[k] \in ToSet(p) /\ q[k] \in ToSet(s)
  BY <1>2, <1>3, <1>5
<1>7. \A x : (Occurs(x, p) = 0 <=> x \notin ToSet(p))
             /\ (Occurs(x, s) = 0 <=> x \notin ToSet(s))
  BY <1>1, <1>3, OccursIs
<1>8. rem \in ToSet(p) <=> rem \in ToSet(s)
  BY <1>5, <1>7
<1> HIDE DEF K, p, s
<1>9. ASSUME NEW k \in K PROVE p[k] = rem <=> q[k] = rem
  <2>1. ASSUME q[k] = rem PROVE p[k] = rem
    <3>1. PICK l \in K : p[l] = rem
      BY <1>3, <1>6, <1>8, <2>1
    <3>2. graph[p[k]].type = graph[p[l]].type
      BY <1>2, <2>1, <3>1
    <3> QED
      BY <1>4, <3>1, <3>2
  <2>2. ASSUME p[k] = rem PROVE q[k] = rem
    <3>1. PICK l \in K : q[l] = rem
      BY <1>2, <1>6, <1>8, <2>2
    <3>2. graph[p[k]].type = graph[p[l]].type
      BY <1>2, <2>2, <3>1
    <3> QED
      BY <1>4, <3>1, <3>2
  <2> QED
    BY <2>1, <2>2
\* What becomes of the successors ...
<1>10. ASSUME NEW t \in DOMAIN graph, t # rem
       PROVE  /\ ToSet(h[t].s) \subseteq DOMAIN graph \ {rem}
              /\ \A u \in DOMAIN graph \ {rem} :
                    Occurs(u, h[t].s) =
                       Occurs(u, graph[t].s) + IF Pair(t, u) THEN 1 ELSE 0
  <2>0. Occurs(rem, graph[t].s) = Occurs(t, p)
    BY <1>5, <1>10 DEF p
  <2>1. CASE t \in ToSet(p)
    <3>1. PICK k \in K : t = p[k]
      BY <1>3, <2>1
    <3>2. q[k] # rem /\ q[k] \in TaskIds /\ q[k] \in DOMAIN graph
      BY <1>1, <1>6, <1>9, <1>10, <3>1
    <3>3. h[t].s = ReplaceFirst(graph[t].s, rem, q[k])
      BY <1>2, <3>1
    <3>4. Occurs(rem, graph[t].s) = 1
      BY <2>0, <1>2, <3>1
    <3>5. graph[t].s \in Seq(TaskIds)
      BY <1>1
    <3>6. /\ \A x : x # rem => Occurs(x, h[t].s) =
                       Occurs(x, graph[t].s) + IF x = q[k] THEN 1 ELSE 0
          /\ ToSet(h[t].s) \subseteq (ToSet(graph[t].s) \cup {q[k]}) \ {rem}
      BY <3>2, <3>3, <3>4, <3>5, ListRelinked
    <3>7. \A u : Pair(t, u) <=> u = q[k]
      <4>1. \A l \in K : p[l] = t => l = k
        BY <1>4, <3>1
      <4> QED
        BY <3>1, <4>1
    <3> QED
      BY <3>2, <3>6, <3>7, <1>5, <1>10
  <2>2. CASE t \notin ToSet(p)
    <3>1. h[t].s = graph[t].s
      BY <1>2, <2>2
    <3>2. Occurs(rem, graph[t].s) = 0
      BY <2>0, <1>7, <2>2
    <3>3. rem \notin ToSet(graph[t].s)
      <4>1. graph[t].s \in Seq(TaskIds) /\ ~Contains(graph[t].s, rem)
        BY <1>1, <3>2, OccursIs
      <4> QED
        BY <4>1 DEF Contains, ToSet
    <3>4. \A u : ~Pair(t, u)
      BY <1>3, <2>2
    <3>5. \A u : Occurs(u, graph[t].s) \in Nat
      BY <1>1, OccursIs
    <3> QED
      BY <3>1, <3>3, <3>4, <3>5, <1>5, <1>10
  <2> QED
    BY <2>1, <2>2
\* ... and of the predecessors.
<1>11. ASSUME NEW u \in DOMAIN graph, u # rem
       PROVE  /\ ToSet(h[u].p) \subseteq DOMAIN graph \ {rem}
              /\ \A t \in DOMAIN graph \ {rem} :
                    Occurs(t, h[u].p) =
                       Occurs(t, graph[u].p) + IF Pair(t, u) THEN 1 ELSE 0
  <2>0. Occurs(rem, graph[u].p) = Occurs(u, s)
    BY <1>5, <1>11 DEF s
  <2>1. CASE u \in ToSet(s)
    <3>1. PICK k \in K : u = q[k]
      BY <1>2, <2>1
    <3>2. p[k] # rem /\ p[k] \in TaskIds /\ p[k] \in DOMAIN graph
      BY <1>1, <1>6, <1>9, <1>11, <3>1
    <3>3. h[u].p = ReplaceFirst(graph[u].p, rem, p[k])
      BY <1>2, <3>1
    <3>4. Occurs(rem, graph[u].p) = 1
      BY <2>0, <1>2, <3>1
    <3>5. graph[u].p \in Seq(TaskIds)
      BY <1>1
    <3>6. /\ \A x : x # rem => Occurs(x, h[u].p) =
                       Occurs(x, graph[u].p) + IF x = p[k] THEN 1 ELSE 0
          /\ ToSet(h[u].p) \subseteq (ToSet(graph[u].p) \cup {p[k]}) \ {rem}
      BY <3>2, <3>3, <3>4, <3>5, ListRelinked
    <3>7. \A t : Pair(t, u) <=> t = p[k]
      <4>1. \A l \in K : q[l] = u => l = k
        BY <1>2, <1>4, <3>1
      <4> QED
        BY <3>1, <4>1
    <3> QED
      BY <3>2, <3>6, <3>7, <1>5, <1>11
  <2>2. CASE u \notin ToSet(s)
    <3>1. h[u].p = graph[u].p
      BY <1>2, <2>2
    <3>2. Occurs(rem, graph[u].p) = 0
      BY <2>0, <1>7, <2>2
    <3>3. rem \notin ToSet(graph[u].p)
      <4>1. graph[u].p \in Seq(TaskIds) /\ ~Contains(graph[u].p, rem)
        BY <1>1, <3>2, OccursIs
      <4> QED
        BY <4>1 DEF Contains, ToSet
    <3>4. \A t : ~Pair(t, u)
      BY <1>2, <2>2
    <3>5. \A t : Occurs(t, graph[u].p) \in Nat
      BY <1>1, OccursIs
    <3> QED
      BY <3>1, <3>3, <3>4, <3>5, <1>5, <1>11
  <2> QED
    BY <2>1, <2>2
<1> HIDE DEF Pair
<1>12. /\ DOMAIN Without(h, rem) = DOMAIN graph \ {rem}
       /\ \A t \in DOMAIN graph \ {rem} : Without(h, rem)[t] = h[t]
  BY DEF Without
<1>13. \A t, u \in DOMAIN graph \ {rem} :
          Occurs(u, h[t].s) = Occurs(t, h[u].p)
  BY <1>5, <1>10, <1>11
<1> QED
  BY <1>10, <1>11, <1>12, <1>13 DEF Linked

LEMMA RewiredAssigns ==
  ASSUME IsGraph(graph), NEW rem \in DOMAIN graph,
         Preds(rem) \cup Succs(rem) \subseteq DOMAIN graph,
         TypesDiffer(rem), Rewired(rem).ok
  PROVE  LET h == Rewired(rem).graph IN
         DOMAIN h = DOMAIN graph /\ \E q : Assigned(h, rem, q)
<1> DEFINE p == graph[rem].p
           s == graph[rem].s
           N == Len(p)
           K == 1..N
<1>1. /\ p \in Seq(TaskIds) /\ s \in Seq(TaskIds) /\ N \in Nat
      /\ DOMAIN p = K /\ DOMAIN s = 1..Len(s) /\ Len(s) \in Nat
  BY LinksAreLists
<1>2. /\ \A k \in K : p[k] \in DOMAIN graph
      /\ \A i \in DOMAIN s : s[i] \in DOMAIN graph
      /\ Succs(rem) \subseteq DOMAIN graph
  BY <1>1 DEF Preds, Succs, ToSet
<1>3. PICK f \in [0..N -> Results] :
         /\ f[0] = [graph |-> graph, ok |-> N = Len(s)]
         /\ \A n \in K : f[n] = Match(f[n - 1], p[n], rem)
         /\ Rewired(rem) = f[N]
  BY RewiredIs
<1> DEFINE Fits(k, i) ==
             /\ graph[p[k]].type = graph[s[i]].type
             /\ f[k].graph = Relink(f[k - 1].graph, p[k], s[i], rem)
<1>4. ASSUME NEW k \in K, f[k].ok
      PROVE  f[k - 1].ok /\ \E i \in DOMAIN s : Fits(k, i)
  <2>1. f[k - 1] \in Results /\ p[k] \in DOMAIN graph
        /\ f[k] = Match(f[k - 1], p[k], rem)
    BY <1>1, <1>2, <1>3
  <2> DEFINE r == f[k - 1]
             pred == p[k]
  <2>2. r \in Results /\ pred \in DOMAIN graph /\ f[k] = Match(r, pred, rem)
    BY <2>1
  <2> HIDE DEF r, pred
  <2>3. f[k].ok =>
           /\ r.ok
           /\ \E i \in DOMAIN graph[rem].s :
                 /\ graph[pred].type = graph[graph[rem].s[i]].type
                 /\ f[k].graph = Relink(r.graph, pred, graph[rem].s[i], rem)
    BY <1>2, <2>2, MatchIs
  <2> QED
    BY <1>4, <2>3 DEF r, pred
<1> HIDE DEF Fits
\* No turn failed, so there are as many successors as predecessors.
<1>5. \A k \in 0..N : f[k].ok
  <2> DEFINE G == {k \in 0..N : f[N - k].ok}
  <2>1. 0 \in G
    BY <1>1, <1>3
  <2>2. ASSUME NEW k \in 1..N, k - 1 \in G PROVE k \in G
    <3>1. N - (k - 1) \in K /\ f[N - (k - 1)].ok /\ N - (k - 1) - 1 = N - k
      BY <1>1, <2>2
    <3>2. f[N - (k - 1) - 1].ok
      BY <3>1, <1>4
    <3> QED
      BY <1>1, <3>1, <3>2
  <2> HIDE DEF G
  <2>3. \A k \in 0..N : k \in G
    <3> HIDE DEF N
    <3> QED
      BY <1>1, <2>1, <2>2, CountingUp
  <2>4. \A k \in 0..N : N - k \in 0..N /\ N - (N - k) = k
    BY <1>1
  <2>5. \A k \in 0..N : f[N - k].ok
    BY <2>3 DEF G
  <2> QED
    BY <2>4, <2>5
<1>6. N = Len(s)
  <2> SUFFICES ASSUME N # Len(s) PROVE FALSE
    OBVIOUS
  <2>1. (N = Len(s)) = FALSE
    OBVIOUS
  <2>2. f[0] = [graph |-> graph, ok |-> FALSE]
    BY <1>3, <2>1
  <2>3. 0 \in 0..N
    BY <1>1
  <2> QED
    BY <1>5, <2>2, <2>3
<1> DEFINE m == [k \in K |-> CHOOSE i \in DOMAIN s : Fits(k, i)]
           q == [k \in K |-> s[m[k]]]
<1>7. \A k \in K : m[k] \in DOMAIN s /\ Fits(k, m[k])
  <2>1. \A k \in K : f[k].ok
    BY <1>1, <1>5
  <2> QED
    BY <1>4, <2>1
<1>8. \A k \in K : q[k] = s[m[k]]
  OBVIOUS
<1>9. DOMAIN s = K /\ m \in [K -> K]
  BY <1>1, <1>6, <1>7
<1> HIDE DEF m, q
<1>10. \A k \in K : /\ graph[q[k]].type = graph[p[k]].type
                    /\ f[k].graph = Relink(f[k - 1].graph, p[k], q[k], rem)
                    /\ q[k] \in DOMAIN graph
  BY <1>2, <1>7, <1>8 DEF Fits
<1>11. q \in [K -> DOMAIN graph]
  BY <1>10 DEF q
\* Different types: no predecessor twice, and no successor for two of them.
<1>12. \A i, j \in K : graph[p[i]].type = graph[p[j]].type => i = j
  BY <1>1 DEF TypesDiffer
<1>13. \A i, j \in K : p[i] = p[j] => i = j
  BY <1>12
<1>14. \A i, j \in K : q[i] = q[j] => i = j
  <2> SUFFICES ASSUME NEW i \in K, NEW j \in K, q[i] = q[j] PROVE i = j
    OBVIOUS
  <2>1. graph[p[i]].type = graph[p[j]].type
    BY <1>10
  <2> QED
    BY <1>12, <2>1
<1> HIDE DEF K, N, p, s
<1>15. \A j \in K : \E k \in K : m[k] = j
  <2>1. \A i, j \in K : m[i] = m[j] => i = j
    BY <1>8, <1>14
  <2>2. m \in Injection(K, K)
    BY <1>9, <2>1 DEF Injection, IsInjective
  <2>3. IsFiniteSet(K)
    BY <1>1, FS_Interval DEF K
  <2>4. m \in Surjection(K, K)
    BY <2>2, <2>3, FS_Injection
  <2> QED
    BY <2>4 DEF Surjection
<1>16. ToSet(s) = {q[k] : k \in K}
  BY <1>8, <1>9, <1>15 DEF ToSet
<1>17. \A k \in K : Occurs(p[k], p) = 1 /\ Occurs(q[k], s) = 1
  <2> SUFFICES ASSUME NEW k \in K PROVE Occurs(p[k], p) = 1 /\ Occurs(q[k], s) = 1
    OBVIOUS
  <2>1. Occurs(p[k], p) = 1
    BY <1>1, <1>13, OccursOnce
  <2>2. \A i \in DOMAIN s : s[i] = s[m[k]] => i = m[k]
    BY <1>8, <1>9, <1>14, <1>15
  <2>3. Occurs(s[m[k]], s) = 1
    <3> DEFINE j == m[k]
    <3>1. j \in DOMAIN s /\ \A i \in DOMAIN s : s[i] = s[j] => i = j
      BY <1>7, <2>2
    <3> HIDE DEF j
    <3>2. Occurs(s[j], s) = 1
      BY <1>1, <3>1, OccursOnce
    <3> QED
      BY <3>2 DEF j
  <2> QED
    BY <1>8, <2>1, <2>3
\* After k turns, the first k predecessors are linked.
<1> DEFINE Done(k) ==
             LET g == f[k].graph IN
             \A t \in DOMAIN graph :
                /\ (\A l \in 1..k : p[l] # t) => g[t].s = graph[t].s
                /\ (\A l \in 1..k : q[l] # t) => g[t].p = graph[t].p
                /\ \A l \in 1..k :
                      /\ p[l] = t => g[t].s = ReplaceFirst(graph[t].s, rem, q[l])
                      /\ q[l] = t => g[t].p = ReplaceFirst(graph[t].p, rem, p[l])
           G == {k \in 0..N : Done(k)}
<1>18. 0 \in G
  <2>1. f[0].graph = graph /\ 0 \in 0..N
    BY <1>1, <1>3
  <2> QED
    BY <2>1
<1>19. ASSUME NEW k \in 1..N, k - 1 \in G PROVE k \in G
  <2> DEFINE g == f[k - 1].graph
             h == f[k].graph
  <2>0. k \in K /\ k \in 0..N /\ k - 1 \in 0..N
    BY <1>1 DEF K
  <2>1. IsGraph(g) /\ DOMAIN g = DOMAIN graph
    <3>1. g \in Alike(graph)
      BY <1>3, <2>0 DEF Results
    <3>2. DOMAIN g = DOMAIN graph
      BY <3>1 DEF Alike
    <3> QED
      BY <3>1, <3>2, AlikeIsGraph
  <2>2. h = Relink(g, p[k], q[k], rem) /\ p[k] \in DOMAIN graph /\ q[k] \in DOMAIN graph
    BY <1>2, <1>10, <2>0
  <2>3. Done(k - 1)
    BY <1>19
  <2>4. \A t \in DOMAIN graph :
           /\ (\A l \in 1..(k - 1) : p[l] # t) => g[t].s = graph[t].s
           /\ (\A l \in 1..(k - 1) : q[l] # t) => g[t].p = graph[t].p
           /\ \A l \in 1..(k - 1) :
                 /\ p[l] = t => g[t].s = ReplaceFirst(graph[t].s, rem, q[l])
                 /\ q[l] = t => g[t].p = ReplaceFirst(graph[t].p, rem, p[l])
    BY <2>3
  <2> HIDE DEF Done, g, h
  <2>5. \A t \in DOMAIN graph :
           /\ h[t].s = IF t = p[k] THEN ReplaceFirst(g[t].s, rem, q[k]) ELSE g[t].s
           /\ h[t].p = IF t = q[k] THEN ReplaceFirst(g[t].p, rem, p[k]) ELSE g[t].p
    <3> DEFINE pk == p[k]
               qk == q[k]
    <3>1. pk \in DOMAIN g /\ qk \in DOMAIN g /\ h = Relink(g, pk, qk, rem)
      BY <2>1, <2>2
    <3> HIDE DEF pk, qk
    <3>2. \A t \in DOMAIN g :
             /\ h[t].s = IF t = pk THEN ReplaceFirst(g[t].s, rem, qk) ELSE g[t].s
             /\ h[t].p = IF t = qk THEN ReplaceFirst(g[t].p, rem, pk) ELSE g[t].p
      BY <2>1, <3>1, RelinkFields
    <3> QED
      BY <2>1, <3>2 DEF pk, qk
  <2>6. /\ \A l \in 1..(k - 1) : l \in K /\ l # k
        /\ \A l \in 1..k : l \in 1..(k - 1) \/ l = k
    BY <1>1 DEF K
  <2>7. \A l \in 1..(k - 1) : p[l] # p[k] /\ q[l] # q[k]
    BY <1>13, <1>14, <2>0, <2>6
  <2>8. ASSUME NEW t \in DOMAIN graph
        PROVE  /\ (\A l \in 1..k : p[l] # t) => h[t].s = graph[t].s
               /\ \A l \in 1..k :
                     p[l] = t => h[t].s = ReplaceFirst(graph[t].s, rem, q[l])
    <3>1. CASE t = p[k]
      <4>1. h[t].s = ReplaceFirst(graph[t].s, rem, q[k])
        BY <2>4, <2>5, <2>7, <3>1
      <4>2. k \in 1..k /\ \A l \in 1..k : p[l] = t => l = k
        BY <2>0, <2>6, <2>7, <3>1
      <4> QED
        BY <3>1, <4>1, <4>2
    <3>2. CASE t # p[k]
      <4>1. h[t].s = g[t].s
        BY <2>5, <3>2
      <4>2. \A l \in 1..(k - 1) : l \in 1..k
        OBVIOUS
      <4> QED
        BY <2>4, <2>6, <3>2, <4>1, <4>2
    <3> QED
      BY <3>1, <3>2
  <2>9. ASSUME NEW t \in DOMAIN graph
        PROVE  /\ (\A l \in 1..k : q[l] # t) => h[t].p = graph[t].p
               /\ \A l \in 1..k :
                     q[l] = t => h[t].p = ReplaceFirst(graph[t].p, rem, p[l])
    <3>1. CASE t = q[k]
      <4>1. h[t].p = ReplaceFirst(graph[t].p, rem, p[k])
        BY <2>4, <2>5, <2>7, <3>1
      <4>2. k \in 1..k /\ \A l \in 1..k : q[l] = t => l = k
        BY <2>0, <2>6, <2>7, <3>1
      <4> QED
        BY <3>1, <4>1, <4>2
    <3>2. CASE t # q[k]
      <4>1. h[t].p = g[t].p
        BY <2>5, <3>2
      <4>2. \A l \in 1..(k - 1) : l \in 1..k
        OBVIOUS
      <4> QED
        BY <2>4, <2>6, <3>2, <4>1, <4>2
    <3> QED
      BY <3>1, <3>2
  <2>10. Done(k)
    BY <2>8, <2>9 DEF Done, h
  <2> QED
    BY <2>0, <2>10
<1> HIDE DEF G
<1>20. N \in G
  <2>1. \A k \in 0..N : k \in G
    BY <1>1, <1>18, <1>19, CountingUp
  <2> QED
    BY <1>1, <2>1
<1>21. Done(N)
  BY <1>20 DEF G
<1> DEFINE h == Rewired(rem).graph
<1>22. DOMAIN h = DOMAIN graph
  BY <1>1, <1>3 DEF Results, Alike
<1>23. h = f[N].graph /\ K = 1..N
  BY <1>3 DEF K
<1>24. \A t \in DOMAIN graph :
          /\ (\A l \in K : p[l] # t) => h[t].s = graph[t].s
          /\ (\A l \in K : q[l] # t) => h[t].p = graph[t].p
          /\ \A l \in K :
                /\ p[l] = t => h[t].s = ReplaceFirst(graph[t].s, rem, q[l])
                /\ q[l] = t => h[t].p = ReplaceFirst(graph[t].p, rem, p[l])
  BY <1>21, <1>23
<1> HIDE DEF Done, h
<1>25. /\ \A k \in K : /\ h[p[k]].s = ReplaceFirst(graph[p[k]].s, rem, q[k])
                       /\ h[q[k]].p = ReplaceFirst(graph[q[k]].p, rem, p[k])
       /\ \A t \in DOMAIN graph :
             /\ t \notin ToSet(p) => h[t].s = graph[t].s
             /\ t \notin ToSet(s) => h[t].p = graph[t].p
  <2>1. ToSet(p) = {p[k] : k \in K}
    BY <1>1 DEF ToSet
  <2> QED
    BY <1>2, <1>10, <1>16, <1>24, <2>1
<1>26. Assigned(h, rem, q)
  BY <1>10, <1>11, <1>16, <1>17, <1>25 DEF Assigned, K, N, p, s
<1> QED
  BY <1>22, <1>26 DEF h

-----------------------------------------------------------------------------
(***************************************************************************)
(* Appending: every successor of app has app replaced as often as app has  *)
(* it for a successor.                                                     *)
(***************************************************************************)

\* How often u is still to come in a list after n turns.
Rest(list, n, u) == Cardinality({i \in DOMAIN list : i > n /\ list[i] = u})

LEMMA RestIs ==
  ASSUME NEW S, NEW list \in Seq(S), NEW u
  PROVE  /\ Rest(list, 0, u) = Occurs(u, list)
         /\ Rest(list, Len(list), u) = 0
         /\ \A n \in 1..Len(list) :
               /\ Rest(list, n, u) \in Nat
               /\ Rest(list, n - 1, u) =
                     Rest(list, n, u) + IF list[n] = u THEN 1 ELSE 0
<1> DEFINE I(n) == {i \in DOMAIN list : i > n /\ list[i] = u}
<1>1. DOMAIN list = 1..Len(list) /\ Len(list) \in Nat
  OBVIOUS
<1>2. Rest(list, 0, u) = Occurs(u, list)
  <2>1. I(0) = {i \in DOMAIN list : list[i] = u}
    BY <1>1
  <2> QED
    BY <2>1 DEF Rest, Occurs
<1>3. Rest(list, Len(list), u) = 0
  <2>1. I(Len(list)) = {}
    BY <1>1
  <2> QED
    BY <2>1, FS_EmptySet DEF Rest
<1>4. ASSUME NEW n \in 1..Len(list)
      PROVE  /\ Rest(list, n, u) \in Nat
             /\ Rest(list, n - 1, u) =
                   Rest(list, n, u) + IF list[n] = u THEN 1 ELSE 0
  <2>1. I(n) \in SUBSET DOMAIN list
    OBVIOUS
  <2>2. n \notin I(n)
    BY <1>1
  <2>3. I(n - 1) = IF list[n] = u THEN I(n) \cup {n} ELSE I(n)
    <3>1. \A i \in DOMAIN list : i > n - 1 <=> i > n \/ i = n
      BY <1>1
    <3> QED
      BY <1>1, <3>1
  <2>4. Rest(list, n, u) = Cardinality(I(n))
        /\ Rest(list, n - 1, u) = Cardinality(I(n - 1))
    BY DEF Rest
  <2> DEFINE J == I(n)
  <2>5. IsFiniteSet(J) /\ Cardinality(J) \in Nat
    <3>1. J \in SUBSET DOMAIN list
      BY <2>1
    <3> HIDE DEF J
    <3> QED
      BY <3>1, PositionsAreFinite
  <2>6. n \notin J /\ J = I(n)
    BY <2>2
  <2> HIDE DEF J
  <2>7. Cardinality(J \cup {n}) = Cardinality(J) + 1
    BY <2>5, <2>6, FS_AddElement
  <2> HIDE DEF I
  <2> QED
    BY <2>3, <2>4, <2>5, <2>6, <2>7
<1> QED
  BY <1>2, <1>3, <1>4

\* A task that app comes before has id before it instead, as often.
LEMMA AppendedLinks ==
  ASSUME IsGraph(graph), Linked(graph), NEW id \in DOMAIN graph,
         NEW app \in DOMAIN graph, Succs(app) \subseteq DOMAIN graph, id # app
  PROVE  \E h : /\ Appended(id, app) = Without(h, app)
                /\ DOMAIN h = DOMAIN graph
                /\ \A u \in DOMAIN graph :
                      /\ h[u].s = IF u = id THEN graph[app].s ELSE graph[u].s
                      /\ Occurs(app, h[u].p) = 0
                      /\ Occurs(id, h[u].p) =
                            Occurs(id, graph[u].p) + Occurs(app, graph[u].p)
                      /\ \A t : t # id /\ t # app =>
                            Occurs(t, h[u].p) = Occurs(t, graph[u].p)
                      /\ ToSet(h[u].p) \subseteq (ToSet(graph[u].p) \cup {id}) \ {app}
<1> DEFINE s == graph[app].s
           N == Len(s)
           J == Extended(id, app)
<1>1. /\ s \in Seq(TaskIds) /\ N \in Nat /\ id \in TaskIds
      /\ \A u \in DOMAIN graph : graph[u].p \in Seq(TaskIds)
  BY LinksAreLists
<1>2. PICK f \in [0..N -> Alike(J)] :
         /\ f[0] = J
         /\ \A n \in 1..N : \A t \in DOMAIN graph :
               /\ f[n][t].s = f[n - 1][t].s
               /\ f[n][t].p = IF t = s[n]
                              THEN ReplaceFirst(f[n - 1][t].p, app, id)
                              ELSE f[n - 1][t].p
         /\ Appended(id, app) = Without(f[N], app)
  BY AppendedIs
<1>3. /\ IsGraph(J) /\ DOMAIN J = DOMAIN graph
      /\ \A t \in DOMAIN graph :
            /\ J[t].p = graph[t].p
            /\ J[t].s = IF t = id THEN graph[app].s ELSE graph[t].s
  BY ExtendedIs
<1>4. \A u \in DOMAIN graph : Occurs(app, graph[u].p) = Occurs(u, s)
  BY DEF Linked
<1>5. s = graph[app].s /\ N = Len(s)
  OBVIOUS
<1> HIDE DEF s, N, J
<1>6. \A n \in 0..N : \A u \in DOMAIN graph : f[n][u].p \in Seq(TaskIds)
  <2> SUFFICES ASSUME NEW n \in 0..N, NEW u \in DOMAIN graph
               PROVE  f[n][u].p \in Seq(TaskIds)
    OBVIOUS
  <2>1. f[n] \in Alike(J)
    BY <1>2
  <2>2. IsGraph(f[n]) /\ DOMAIN f[n] = DOMAIN graph
    <3>1. DOMAIN f[n] = DOMAIN graph
      BY <1>3, <2>1 DEF Alike
    <3> DEFINE g == f[n]
    <3> HIDE DEF g
    <3>2. g \in Alike(J)
      BY <2>1 DEF g
    <3>3. IsGraph(g)
      BY <1>3, <3>2, AlikeIsGraph
    <3> QED
      BY <3>1, <3>3 DEF g
  <2> QED
    BY <2>2, LinksAreLists
<1> DEFINE Done(n) ==
             \A u \in DOMAIN graph :
                /\ f[n][u].s = J[u].s
                /\ Occurs(app, f[n][u].p) = Rest(s, n, u)
                /\ Occurs(id, f[n][u].p) + Occurs(app, f[n][u].p) =
                      Occurs(id, graph[u].p) + Occurs(app, graph[u].p)
                /\ \A t : t # id /\ t # app =>
                      Occurs(t, f[n][u].p) = Occurs(t, graph[u].p)
                /\ ToSet(f[n][u].p) \subseteq ToSet(graph[u].p) \cup {id}
           G == {n \in 0..N : Done(n)}
<1>7. \A u : /\ Rest(s, 0, u) = Occurs(u, s)
             /\ Rest(s, N, u) = 0
             /\ \A n \in 1..N : /\ Rest(s, n, u) \in Nat
                                /\ Rest(s, n - 1, u) =
                                      Rest(s, n, u) + IF s[n] = u THEN 1 ELSE 0
  BY <1>1, <1>5, RestIs
<1>8. 0 \in G
  <2>1. 0 \in 0..N
    BY <1>1
  <2> QED
    BY <2>1, <1>2, <1>3, <1>4, <1>7
<1>9. ASSUME NEW n \in 1..N, n - 1 \in G PROVE n \in G
  <2>1. n \in 0..N /\ n - 1 \in 0..N /\ Done(n - 1)
    <3> HIDE DEF Done
    <3> QED
      BY <1>1, <1>9
  <2>2. ASSUME NEW u \in DOMAIN graph
        PROVE  /\ f[n][u].s = J[u].s
               /\ Occurs(app, f[n][u].p) = Rest(s, n, u)
               /\ Occurs(id, f[n][u].p) + Occurs(app, f[n][u].p) =
                     Occurs(id, graph[u].p) + Occurs(app, graph[u].p)
               /\ \A t : t # id /\ t # app =>
                     Occurs(t, f[n][u].p) = Occurs(t, graph[u].p)
               /\ ToSet(f[n][u].p) \subseteq ToSet(graph[u].p) \cup {id}
    <3> DEFINE x == f[n - 1][u].p
               y == f[n][u].p
    <3>1. /\ f[n - 1][u].s = J[u].s
          /\ Occurs(app, x) = Rest(s, n - 1, u)
          /\ Occurs(id, x) + Occurs(app, x) =
                Occurs(id, graph[u].p) + Occurs(app, graph[u].p)
          /\ \A t : t # id /\ t # app => Occurs(t, x) = Occurs(t, graph[u].p)
          /\ ToSet(x) \subseteq ToSet(graph[u].p) \cup {id}
      BY <2>1
    <3>2. f[n][u].s = J[u].s
      BY <1>2, <3>1
    <3>3. y = IF u = s[n] THEN ReplaceFirst(x, app, id) ELSE x
      BY <1>2
    <3>4. x \in Seq(TaskIds) /\ y \in Seq(TaskIds)
      BY <1>6, <2>1
    <3> HIDE DEF x, y, Done, G
    <3>5. /\ Rest(s, n, u) \in Nat
          /\ Rest(s, n - 1, u) = Rest(s, n, u) + IF s[n] = u THEN 1 ELSE 0
      BY <1>7
    <3>6. CASE u = s[n]
      <4>1. y = ReplaceFirst(x, app, id) /\ Occurs(app, x) = Rest(s, n, u) + 1
        BY <3>1, <3>3, <3>5, <3>6
      <4>2. Contains(x, app)
        <5>1. Occurs(app, x) = 0 <=> ~Contains(x, app)
          BY <3>4, OccursIs
        <5> QED
          BY <3>5, <4>1, <5>1
      <4>3. \A t : Occurs(t, y) = IF t = app THEN Occurs(t, x) - 1
                                  ELSE IF t = id THEN Occurs(t, x) + 1
                                  ELSE Occurs(t, x)
        BY <1>1, <3>4, <4>1, <4>2, OccursReplaced
      <4>4. Replaces(y, x, app, id) /\ DOMAIN y = DOMAIN x
        BY <1>1, <3>4, <4>1, <4>2, ReplaceFirstIs
      <4>5. ToSet(y) \subseteq ToSet(x) \cup {id}
        BY <4>4 DEF Replaces, ToSet
      <4>6. Occurs(app, x) \in Nat /\ Occurs(id, x) \in Nat
        BY <3>4, OccursIs
      <4>7. Occurs(app, y) = Rest(s, n, u)
        BY <3>5, <4>1, <4>3
      <4>8. Occurs(id, y) + Occurs(app, y) = Occurs(id, x) + Occurs(app, x)
        BY <4>3, <4>6
      <4> QED
        BY <3>1, <3>2, <4>3, <4>5, <4>7, <4>8 DEF y
    <3>7. CASE u # s[n]
      <4>1. y = x /\ Rest(s, n - 1, u) = Rest(s, n, u)
        BY <3>3, <3>5, <3>7
      <4> QED
        BY <3>1, <3>2, <4>1 DEF y
    <3> QED
      BY <3>6, <3>7
  <2>3. Done(n)
    BY <2>2
  <2> HIDE DEF Done
  <2> QED
    BY <2>1, <2>3
<1> HIDE DEF G
<1>10. N \in G
  <2>1. \A n \in 0..N : n \in G
    BY <1>1, <1>8, <1>9, CountingUp
  <2> QED
    BY <1>1, <2>1
<1>11. Done(N)
  <2> HIDE DEF Done
  <2> QED
    BY <1>10 DEF G
<1> DEFINE h == f[N]
<1>12. h \in Alike(J) /\ Appended(id, app) = Without(h, app)
  BY <1>1, <1>2
<1>13. \A u \in DOMAIN graph :
          /\ h[u].p \in Seq(TaskIds)
          /\ h[u].s = J[u].s
          /\ Occurs(app, h[u].p) = Rest(s, N, u)
          /\ Occurs(id, h[u].p) + Occurs(app, h[u].p) =
                Occurs(id, graph[u].p) + Occurs(app, graph[u].p)
          /\ \A t : t # id /\ t # app =>
                Occurs(t, h[u].p) = Occurs(t, graph[u].p)
          /\ ToSet(h[u].p) \subseteq ToSet(graph[u].p) \cup {id}
  <2>1. N \in 0..N
    BY <1>1
  <2>2. \A u \in DOMAIN graph : h[u].p \in Seq(TaskIds)
    BY <1>6, <2>1
  <2> QED
    BY <1>11, <2>2
<1> HIDE DEF Done, h
<1>14. DOMAIN h = DOMAIN graph
  BY <1>3, <1>12 DEF Alike
<1>15. ASSUME NEW u \in DOMAIN graph
       PROVE  /\ h[u].s = IF u = id THEN graph[app].s ELSE graph[u].s
              /\ Occurs(app, h[u].p) = 0
              /\ Occurs(id, h[u].p) =
                    Occurs(id, graph[u].p) + Occurs(app, graph[u].p)
              /\ \A t : t # id /\ t # app =>
                    Occurs(t, h[u].p) = Occurs(t, graph[u].p)
              /\ ToSet(h[u].p) \subseteq (ToSet(graph[u].p) \cup {id}) \ {app}
  <2> DEFINE y == h[u].p
  <2>1. y \in Seq(TaskIds) /\ Occurs(app, y) = 0
    BY <1>7, <1>13
  <2>2. Occurs(id, y) \in Nat
    BY <2>1, OccursIs
  <2>3. app \notin ToSet(y)
    <3> HIDE DEF y
    <3>1. ~Contains(y, app)
      BY <2>1, OccursIs
    <3> QED
      BY <2>1, <3>1 DEF Contains, ToSet
  <2>4. h[u].s = IF u = id THEN graph[app].s ELSE graph[u].s
    BY <1>3, <1>13
  <2>5. Occurs(id, y) = Occurs(id, graph[u].p) + Occurs(app, graph[u].p)
    BY <1>13, <2>1, <2>2
  <2> QED
    BY <1>13, <2>1, <2>3, <2>4, <2>5
<1> QED
  BY <1>12, <1>14, <1>15

\* A task is among the successors of its predecessors.
LEMMA LinksAgreeInGraph ==
  ASSUME NEW g, IsGraph(g), Linked(g), NEW t \in DOMAIN g, NEW u \in DOMAIN g
  PROVE  /\ u \in ToSet(g[t].s) <=> t \in ToSet(g[u].p)
         /\ Occurs(u, g[t].s) = 0 <=> u \notin ToSet(g[t].s)
<1> DEFINE s == g[t].s
           p == g[u].p
<1>1. s \in Seq(TaskIds) /\ p \in Seq(TaskIds)
  BY LinksAreLists
<1>2. Occurs(u, s) = Occurs(t, p)
  BY DEF Linked
<1> HIDE DEF s, p
<1>3. Occurs(u, s) = 0 <=> ~Contains(s, u)
  BY <1>1, OccursIs
<1>4. Occurs(t, p) = 0 <=> ~Contains(p, t)
  BY <1>1, OccursIs
<1>5. (Contains(s, u) <=> u \in ToSet(s)) /\ (Contains(p, t) <=> t \in ToSet(p))
  BY <1>1 DEF Contains, ToSet
<1> QED
  BY <1>2, <1>3, <1>4, <1>5 DEF s, p

LEMMA AppendKeepsLinks ==
  ASSUME IsGraph(graph), Linked(graph), NEW id \in DOMAIN graph,
         NEW app \in DOMAIN graph, Succs(app) \subseteq DOMAIN graph, Chained(id, app)
  PROVE  Linked(Appended(id, app))
<1>1. /\ ToSet(graph[id].s) = {app}
      /\ ToSet(graph[app].p) = {id}
  BY DEF Chained, Succs, Preds
<1>2. \A t \in DOMAIN graph :
         /\ ToSet(graph[t].s) \subseteq DOMAIN graph
         /\ ToSet(graph[t].p) \subseteq DOMAIN graph
         /\ \A u \in DOMAIN graph :
               /\ Occurs(u, graph[t].s) = Occurs(t, graph[u].p)
               /\ u \in ToSet(graph[t].s) <=> t \in ToSet(graph[u].p)
               /\ Occurs(u, graph[t].s) = 0 <=> u \notin ToSet(graph[t].s)
  <2>1. \A t \in DOMAIN graph :
           /\ ToSet(graph[t].s) \subseteq DOMAIN graph
           /\ ToSet(graph[t].p) \subseteq DOMAIN graph
           /\ \A u \in DOMAIN graph :
                 Occurs(u, graph[t].s) = Occurs(t, graph[u].p)
    BY DEF Linked
  <2>2. \A t, u \in DOMAIN graph :
           /\ u \in ToSet(graph[t].s) <=> t \in ToSet(graph[u].p)
           /\ Occurs(u, graph[t].s) = 0 <=> u \notin ToSet(graph[t].s)
    BY LinksAgreeInGraph
  <2> QED
    BY <2>1, <2>2
<1>3. \A t \in DOMAIN graph : app \in ToSet(graph[t].s) => t = id
  BY <1>1, <1>2
<1>4. CASE id # app
  <2>1. PICK h :
           /\ Appended(id, app) = Without(h, app)
           /\ DOMAIN h = DOMAIN graph
           /\ \A u \in DOMAIN graph :
                 /\ h[u].s = IF u = id THEN graph[app].s ELSE graph[u].s
                 /\ Occurs(app, h[u].p) = 0
                 /\ Occurs(id, h[u].p) =
                       Occurs(id, graph[u].p) + Occurs(app, graph[u].p)
                 /\ \A t : t # id /\ t # app =>
                       Occurs(t, h[u].p) = Occurs(t, graph[u].p)
                 /\ ToSet(h[u].p) \subseteq (ToSet(graph[u].p) \cup {id}) \ {app}
    BY <1>4, AppendedLinks
  <2>2. ASSUME NEW t \in DOMAIN graph \ {app}
        PROVE  /\ ToSet(h[t].s) \subseteq DOMAIN graph \ {app}
               /\ ToSet(h[t].p) \subseteq DOMAIN graph \ {app}
    BY <1>2, <1>3, <1>4, <2>1
  <2>3. ASSUME NEW t \in DOMAIN graph \ {app}, NEW u \in DOMAIN graph \ {app}
        PROVE  Occurs(u, h[t].s) = Occurs(t, h[u].p)
    <3>1. CASE t = id
      <4>1. Occurs(u, h[t].s) = Occurs(app, graph[u].p)
        BY <1>2, <2>1, <3>1
      <4>2. Occurs(id, graph[u].p) = 0
        BY <1>1, <1>2
      <4>3. Occurs(app, graph[u].p) \in Nat
        <5>1. graph[u].p \in Seq(TaskIds)
          BY LinksAreLists
        <5> QED
          BY <5>1, OccursIs
      <4> QED
        BY <2>1, <3>1, <4>1, <4>2, <4>3
    <3>2. CASE t # id
      BY <1>2, <2>1, <3>2
    <3> QED
      BY <3>1, <3>2
  <2>4. /\ DOMAIN Without(h, app) = DOMAIN graph \ {app}
        /\ \A t \in DOMAIN graph \ {app} : Without(h, app)[t] = h[t]
    BY <2>1 DEF Without
  <2> QED
    BY <2>1, <2>2, <2>3, <2>4 DEF Linked
\* A task that has but itself for a neighbour.
<1>5. CASE id = app
  <2> DEFINE s == graph[app].s
             N == Len(s)
             J == Extended(id, app)
  <2>1. N \in Nat /\ \A n \in 1..N : s[n] = app
    <3>1. s \in Seq(TaskIds)
      BY LinksAreLists
    <3>2. ToSet(s) = {app}
      BY <1>1, <1>5
    <3> HIDE DEF s
    <3>3. DOMAIN s = 1..N /\ N \in Nat
      BY <3>1
    <3> QED
      BY <3>2, <3>3 DEF ToSet
  <2>2. PICK f \in [0..N -> Alike(J)] :
           /\ f[0] = J
           /\ \A n \in 1..N : \A t \in DOMAIN graph :
                 /\ f[n][t].s = f[n - 1][t].s
                 /\ f[n][t].p = IF t = s[n]
                                THEN ReplaceFirst(f[n - 1][t].p, app, id)
                                ELSE f[n - 1][t].p
           /\ Appended(id, app) = Without(f[N], app)
    BY AppendedIs
  <2>3. /\ DOMAIN J = DOMAIN graph
        /\ \A t \in DOMAIN graph : J[t].p = graph[t].p
        /\ \A t \in DOMAIN graph : t # id => J[t].s = graph[t].s
    BY ExtendedIs
  <2> HIDE DEF s, N, J
  <2> DEFINE Same(n) == \A t \in DOMAIN graph \ {app} :
                           f[n][t].s = graph[t].s /\ f[n][t].p = graph[t].p
             G == {n \in 0..N : Same(n)}
  <2>4. 0 \in G
    BY <1>5, <2>1, <2>2, <2>3
  <2>5. ASSUME NEW n \in 1..N, n - 1 \in G PROVE n \in G
    <3>1. n \in 0..N /\ Same(n - 1)
      <4> HIDE DEF Same
      <4> QED
        BY <2>1, <2>5
    <3>2. Same(n)
      BY <2>1, <2>2, <3>1
    <3> HIDE DEF Same
    <3> QED
      BY <3>1, <3>2
  <2> HIDE DEF G
  <2>6. N \in G
    <3>1. \A n \in 0..N : n \in G
      BY <2>1, <2>4, <2>5, CountingUp
    <3> QED
      BY <2>1, <3>1
  <2>7. Same(N)
    <3> HIDE DEF Same
    <3> QED
      BY <2>6 DEF G
  <2> DEFINE h == f[N]
  <2>8. DOMAIN h = DOMAIN graph
    BY <2>1, <2>2, <2>3 DEF Alike
  <2>9. \A t \in DOMAIN graph \ {app} :
           h[t].s = graph[t].s /\ h[t].p = graph[t].p
    BY <2>7
  <2>10. Appended(id, app) = Without(h, app)
    BY <2>2
  <2> HIDE DEF h, Same
  <2>11. /\ DOMAIN Without(h, app) = DOMAIN graph \ {app}
         /\ \A t \in DOMAIN graph \ {app} : Without(h, app)[t] = h[t]
    BY <2>8 DEF Without
  <2>12. ASSUME NEW t \in DOMAIN graph \ {app}
         PROVE  /\ ToSet(graph[t].s) \subseteq DOMAIN graph \ {app}
                /\ ToSet(graph[t].p) \subseteq DOMAIN graph \ {app}
    BY <1>1, <1>2, <1>3, <1>5
  <2> QED
    BY <1>2, <2>9, <2>10, <2>11, <2>12 DEF Linked
<1> QED
  BY <1>4, <1>5

\* Task.cpp:137: a removal that succeeds between predecessors of different
\* types, and appending a task to the only one before it, leave all links
\* known at both ends, in graphs of any size and shape.
THEOREM LinksAreKept == TaskSpec => EditsKeepLinks
<1> DEFINE Kept ==
             Linked(graph) =>
                \A t \in DOMAIN graph :
                   /\ RemoveTask(t) /\ Gone(t) /\ TypesDiffer(t) => Linked(graph')
                   /\ \A u \in DOMAIN graph :
                         AppendTask(t, u) /\ Chained(t, u) => Linked(graph')
<1>1. GraphInv => Kept
  <2> SUFFICES ASSUME IsGraph(graph), Linked(graph), NEW t \in DOMAIN graph
               PROVE  /\ RemoveTask(t) /\ Gone(t) /\ TypesDiffer(t) => Linked(graph')
                      /\ \A u \in DOMAIN graph :
                            AppendTask(t, u) /\ Chained(t, u) => Linked(graph')
    BY DEF GraphInv
  <2>1. ASSUME RemoveTask(t), Gone(t), TypesDiffer(t) PROVE Linked(graph')
    <3> DEFINE r == Rewired(t)
               h == r.graph
    <3>1. /\ Preds(t) \cup Succs(t) \subseteq DOMAIN graph
          /\ graph' = IF r.ok THEN Without(h, t) ELSE h
      BY <2>1 DEF RemoveTask
    <3>2. DOMAIN h = DOMAIN graph
      <4>1. Len(graph[t].p) \in Nat
        BY LinksAreLists
      <4>2. PICK f \in [0..Len(graph[t].p) -> Results] : r = f[Len(graph[t].p)]
        BY <3>1, RewiredIs
      <4>3. r \in Results
        BY <4>1, <4>2
      <4> HIDE DEF r
      <4> QED
        BY <4>3 DEF Results, Alike
    <3>3. r.ok
      BY <2>1, <3>1, <3>2 DEF Gone
    <3>4. PICK q : Assigned(h, t, q)
      BY <2>1, <3>1, <3>3, RewiredAssigns
    <3> HIDE DEF h, r
    <3>5. Linked(Without(h, t))
      BY <2>1, <3>2, <3>4, AssignedKeepsLinks
    <3> QED
      BY <3>1, <3>3, <3>5
  <2>2. ASSUME NEW u \in DOMAIN graph, AppendTask(t, u), Chained(t, u)
        PROVE  Linked(graph')
    <3>1. Succs(u) \subseteq DOMAIN graph /\ graph' = Appended(t, u)
      BY <2>2 DEF AppendTask
    <3> QED
      BY <2>2, <3>1, AppendKeepsLinks
  <2> QED
    BY <2>1, <2>2
<1>2. TaskSpec => [][Kept]_graph
  <2>1. TaskSpec => []GraphInv
    BY GraphStaysWellFormed
  <2> HIDE DEF Kept
  <2> QED
    BY <1>1, <2>1, PTL
<1> QED
  BY <1>2 DEF EditsKeepLinks

-----------------------------------------------------------------------------
(***************************************************************************)
(* Lists of lists, joined one after the other.                             *)
(***************************************************************************)
Joins(f, N, S, list) ==
    /\ f \in [0..N -> Seq(S)]
    /\ f[0] = <<>>
    /\ \A n \in 1..N : f[n] = f[n - 1] \o list[n]

LEMMA FlattenIs ==
  ASSUME NEW S, NEW N \in Nat, NEW list \in [1..N -> Seq(S)]
  PROVE  \E f : Joins(f, N, S, list) /\ FlattenSeq(list) = f[N]
<1> DEFINE R == Seq(S)
           step == [n \in 1..N |-> [r \in R |-> r \o list[n]]]
           F(h) == [i \in 1..N |-> IF i = 1 THEN list[i] ELSE h[i - 1] \o list[i]]
<1>1. <<>> \in R
  OBVIOUS
<1>2. step \in Steps(N, R)
  <2>1. \A n \in 1..N : \A r \in R : r \o list[n] \in R
    OBVIOUS
  <2> HIDE DEF R
  <2> QED
    BY <2>1 DEF Steps
<1>3. \A n \in 1..N : \A r \in R : step[n][r] = r \o list[n]
  OBVIOUS
<1> HIDE DEF step
<1>4. PICK f : Iterates(f, N, R, <<>>, step)
  BY <1>1, <1>2, Iterated
<1>5. /\ f \in [0..N -> R] /\ f[0] = <<>>
      /\ \A n \in 1..N : f[n] = f[n - 1] \o list[n]
  <2>1. /\ f \in [0..N -> R] /\ f[0] = <<>>
        /\ \A n \in 1..N : f[n] = step[n][f[n - 1]]
    BY <1>4 DEF Iterates
  <2>2. \A n \in 1..N : f[n - 1] \in R
    BY <2>1
  <2> QED
    BY <1>3, <2>1, <2>2
<1>6. list \in Seq(Seq(S)) /\ Len(list) = N
  OBVIOUS
<1>7. FlattenSeq(list) = f[N]
  <2>1. CASE N = 0
    <3>1. list = <<>>
      BY <2>1, <1>6
    <3> QED
      BY <1>5, <1>6, <2>1, <3>1 DEF FlattenSeq
  <2>2. CASE N # 0
    <3> DEFINE g == [i \in 1..N |-> f[i]]
    <3>1. FlattenSeq(list) = (CHOOSE h : h = F(h))[N]
      BY <1>6, <2>2 DEF FlattenSeq
    <3>2. \A i \in 1..N : g[i] = IF i = 1 THEN list[i] ELSE g[i - 1] \o list[i]
      <4> SUFFICES ASSUME NEW i \in 1..N
                   PROVE  g[i] = IF i = 1 THEN list[i] ELSE g[i - 1] \o list[i]
        OBVIOUS
      <4>1. g[i] = f[i - 1] \o list[i]
        BY <1>5
      <4>2. CASE i = 1
        <5>1. f[i - 1] = <<>> /\ list[i] \in Seq(S)
          BY <1>5, <4>2
        <5> QED
          BY <4>1, <4>2, <5>1, ConcatEmptySeq
      <4>3. CASE i # 1
        <5>1. i - 1 \in 1..N
          BY <4>3
        <5> QED
          BY <4>1, <4>3, <5>1
      <4> QED
        BY <4>2, <4>3
    <3>3. g = F(g)
      BY <3>2
    <3>4. \A h : h = F(h) => h = g
      <4> SUFFICES ASSUME NEW h, h = F(h) PROVE h = g
        OBVIOUS
      <4>1. h = [i \in 1..N |-> h[i]]
        OBVIOUS
      <4>2. \A i \in 1..N : h[i] = IF i = 1 THEN list[i] ELSE h[i - 1] \o list[i]
        OBVIOUS
      <4> HIDE DEF F, g
      <4> DEFINE G == {n \in 0..N : n = 0 \/ h[n] = g[n]}
      <4>3. 0 \in G
        OBVIOUS
      <4>4. ASSUME NEW n \in 1..N, n - 1 \in G PROVE n \in G
        <5>1. n - 1 # 0 => h[n - 1] = g[n - 1]
          BY <4>4
        <5>2. h[n] = g[n]
          <6>1. CASE n = 1
            BY <3>2, <4>2, <6>1
          <6>2. CASE n # 1
            BY <3>2, <4>2, <5>1, <6>2
          <6> QED
            BY <6>1, <6>2
        <5> QED
          BY <5>2
      <4> HIDE DEF G
      <4>5. \A n \in 0..N : n \in G
        BY <4>3, <4>4, CountingUp
      <4>6. \A n \in 1..N : h[n] = g[n]
        BY <4>5 DEF G
      <4>7. g = [i \in 1..N |-> g[i]]
        BY DEF g
      <4> QED
        BY <4>1, <4>6, <4>7
    <3>5. g[N] = f[N]
      BY <2>2
    <3>6. (CHOOSE h : h = F(h)) = g
      <4> HIDE DEF F, g
      <4> QED
        BY <3>3, <3>4
    <3> QED
      BY <3>1, <3>5, <3>6
  <2> QED
    BY <2>1, <2>2
<1> QED
  BY <1>5, <1>7 DEF Joins, R

\* The first n lists of a list, joined.
UpTo(list, n) == FlattenSeq([i \in 1..n |-> list[i]])

LEMMA UpToIs ==
  ASSUME NEW S, NEW N \in Nat, NEW list \in [1..N -> Seq(S)]
  PROVE  /\ UpTo(list, 0) = <<>>
         /\ \A n \in 0..N : UpTo(list, n) \in Seq(S)
         /\ \A n \in 1..N : UpTo(list, n) = UpTo(list, n - 1) \o list[n]
         /\ UpTo(list, N) = FlattenSeq(list)
<1>0. PICK f : Joins(f, N, S, list)
  BY FlattenIs
<1>1. /\ f \in [0..N -> Seq(S)] /\ f[0] = <<>>
      /\ \A n \in 1..N : f[n] = f[n - 1] \o list[n]
  BY <1>0 DEF Joins
<1>2. ASSUME NEW n \in 0..N PROVE UpTo(list, n) = f[n]
  <2> DEFINE part == [i \in 1..n |-> list[i]]
  <2>1. n \in Nat /\ part \in [1..n -> Seq(S)]
    OBVIOUS
  <2>2. \A i \in 1..n : part[i] = list[i]
    OBVIOUS
  <2>3. UpTo(list, n) = FlattenSeq(part)
    BY DEF UpTo
  <2> HIDE DEF part
  <2>4. PICK g : Joins(g, n, S, part) /\ FlattenSeq(part) = g[n]
    BY <2>1, FlattenIs
  <2>g. g[0] = <<>> /\ \A m \in 1..n : g[m] = g[m - 1] \o part[m]
    BY <2>4 DEF Joins
  <2> DEFINE G == {m \in 0..n : g[m] = f[m]}
  <2>5. 0 \in G
    BY <1>1, <2>1, <2>g
  <2>6. ASSUME NEW m \in 1..n, m - 1 \in G PROVE m \in G
    <3>1. g[m - 1] = f[m - 1] /\ m \in 1..N /\ m \in 0..n
      BY <2>6
    <3>2. g[m] = g[m - 1] \o list[m] /\ f[m] = f[m - 1] \o list[m]
      BY <1>1, <2>2, <2>g, <3>1
    <3> QED
      BY <3>1, <3>2
  <2> HIDE DEF G
  <2>7. n \in G
    <3>1. \A m \in 0..n : m \in G
      BY <2>1, <2>5, <2>6, CountingUp
    <3> QED
      BY <2>1, <3>1
  <2> QED
    BY <2>3, <2>4, <2>7 DEF G
<1>3. [i \in 1..N |-> list[i]] = list
  OBVIOUS
<1>4. UpTo(list, N) = FlattenSeq(list)
  BY <1>3 DEF UpTo
<1>5. 0 \in 0..N /\ \A n \in 1..N : n \in 0..N /\ n - 1 \in 0..N
  OBVIOUS
<1>6. UpTo(list, 0) = <<>> /\ \A n \in 0..N : UpTo(list, n) \in Seq(S)
  BY <1>1, <1>2, <1>5
<1>7. ASSUME NEW n \in 1..N
      PROVE  UpTo(list, n) = UpTo(list, n - 1) \o list[n]
  <2>1. UpTo(list, n) = f[n] /\ UpTo(list, n - 1) = f[n - 1]
    BY <1>2, <1>5
  <2> QED
    BY <1>1, <2>1
<1> QED
  BY <1>4, <1>6, <1>7

\* Empty lists add nothing.
EmptyBetween(list, m, n) == \A i \in m + 1..n : list[i] = <<>>

LEMMA UpToStays ==
  ASSUME NEW S, NEW N \in Nat, NEW list \in [1..N -> Seq(S)],
         NEW m \in 0..N, NEW n \in m..N, EmptyBetween(list, m, n)
  PROVE  UpTo(list, n) = UpTo(list, m)
<1> DEFINE G == {k \in 0..n : k >= m => UpTo(list, k) = UpTo(list, m)}
<1>1. 0 \in G
  BY Z3
<1>2. ASSUME NEW k \in 1..n, k - 1 \in G PROVE k \in G
  <2>1. k \in 0..n /\ k \in 1..N /\ k - 1 \in 0..N
    OBVIOUS
  <2>2. CASE k <= m
    BY <2>1, <2>2
  <2>3. CASE k > m
    <3>1. UpTo(list, k - 1) = UpTo(list, m) /\ list[k] = <<>>
      BY <1>2, <2>3 DEF EmptyBetween
    <3>a. /\ \A i \in 0..N : UpTo(list, i) \in Seq(S)
          /\ \A i \in 1..N : UpTo(list, i) = UpTo(list, i - 1) \o list[i]
      BY UpToIs
    <3>2. UpTo(list, k) = UpTo(list, k - 1) \o <<>> /\ UpTo(list, k - 1) \in Seq(S)
      BY <2>1, <3>1, <3>a
    <3>3. UpTo(list, k) = UpTo(list, k - 1)
      BY <3>2, ConcatEmptySeq
    <3> QED
      BY <2>1, <3>1, <3>3
  <2> QED
    BY <2>2, <2>3
<1> HIDE DEF G
<1>3. n \in Nat /\ n \in 0..n
  OBVIOUS
<1>4. n \in G
  <2>1. \A k \in 0..n : k \in G
    BY <1>1, <1>2, <1>3, CountingUp
  <2> QED
    BY <1>3, <2>1
<1> QED
  BY <1>4 DEF G

\* y begins with x.
Begins(x, y) == Len(x) <= Len(y) /\ \A i \in 1..Len(x) : y[i] = x[i]

LEMMA BeginsConcat ==
  ASSUME NEW S, NEW x \in Seq(S), NEW y \in Seq(S)
  PROVE  Begins(x, x \o y)
<1>1. /\ x \o y \in Seq(S) /\ Len(x \o y) = Len(x) + Len(y)
      /\ \A i \in 1..Len(x) : (x \o y)[i] = x[i]
  OBVIOUS
<1> QED
  BY <1>1 DEF Begins

LEMMA BeginsTwice ==
  ASSUME NEW S, NEW x \in Seq(S), NEW y \in Seq(S), NEW z \in Seq(S),
         Begins(x, y), Begins(y, z)
  PROVE  Begins(x, z)
<1>1. Len(x) \in Nat /\ Len(y) \in Nat /\ Len(z) \in Nat
  OBVIOUS
<1>2. /\ Len(x) <= Len(y) /\ \A i \in 1..Len(x) : y[i] = x[i]
      /\ Len(y) <= Len(z) /\ \A i \in 1..Len(y) : z[i] = y[i]
  BY DEF Begins
<1>3. ASSUME NEW i \in 1..Len(x) PROVE z[i] = x[i]
  <2>1. i \in 1..Len(y)
    BY <1>1, <1>2
  <2> QED
    BY <1>2, <2>1
<1> QED
  BY <1>1, <1>2, <1>3 DEF Begins

LEMMA ConcatBegins ==
  ASSUME NEW S, NEW x \in Seq(S), NEW y \in Seq(S), NEW z \in Seq(S), Begins(y, z)
  PROVE  Begins(x \o y, x \o z)
<1>1. /\ Len(x \o y) = Len(x) + Len(y) /\ Len(x \o z) = Len(x) + Len(z)
      /\ \A i \in 1..Len(x) + Len(y) :
            (x \o y)[i] = IF i <= Len(x) THEN x[i] ELSE y[i - Len(x)]
      /\ \A i \in 1..Len(x) + Len(z) :
            (x \o z)[i] = IF i <= Len(x) THEN x[i] ELSE z[i - Len(x)]
  BY ConcatProperties
<1>2. Len(x) \in Nat /\ Len(y) \in Nat /\ Len(z) \in Nat /\ Len(y) <= Len(z)
      /\ \A i \in 1..Len(y) : z[i] = y[i]
  BY DEF Begins
<1>3. ASSUME NEW i \in 1..Len(x) + Len(y) PROVE (x \o z)[i] = (x \o y)[i]
  <2>1. i \in 1..Len(x) + Len(z) /\ (i <= Len(x) \/ i - Len(x) \in 1..Len(y))
    BY <1>2
  <2> QED
    BY <1>1, <1>2, <2>1
<1> QED
  BY <1>1, <1>2, <1>3 DEF Begins

LEMMA UpToBegins ==
  ASSUME NEW S, NEW N \in Nat, NEW list \in [1..N -> Seq(S)], NEW m \in 0..N
  PROVE  Begins(UpTo(list, m), FlattenSeq(list))
<1> DEFINE x == UpTo(list, m)
           G == {k \in 0..N : k >= m => Begins(x, UpTo(list, k))}
<1>1. x \in Seq(S) /\ Begins(x, x)
  <2>1. x \in Seq(S)
    BY UpToIs
  <2> HIDE DEF x
  <2> QED
    BY <2>1 DEF Begins
<1>2. \A k \in 0..N : k = m => k \in G
  BY <1>1
<1>3. 0 \in G
  <2>1. 0 >= m => m = 0
    OBVIOUS
  <2> QED
    BY <1>2, <2>1
<1>4. ASSUME NEW k \in 1..N, k - 1 \in G PROVE k \in G
  <2>1. k \in 0..N /\ k - 1 \in 0..N
    OBVIOUS
  <2>2. CASE k <= m
    BY <1>2, <2>1, <2>2
  <2>3. CASE k > m
    <3>1. Begins(x, UpTo(list, k - 1))
      BY <1>4, <2>3
    <3>2. UpTo(list, k) = UpTo(list, k - 1) \o list[k]
          /\ UpTo(list, k - 1) \in Seq(S) /\ UpTo(list, k) \in Seq(S)
          /\ list[k] \in Seq(S)
      BY <2>1, UpToIs
    <3> HIDE DEF x
    <3>3. Begins(UpTo(list, k - 1), UpTo(list, k))
      BY <3>2, BeginsConcat
    <3>4. Begins(x, UpTo(list, k))
      BY <1>1, <3>1, <3>2, <3>3, BeginsTwice
    <3> QED
      BY <2>1, <3>4
  <2> QED
    BY <2>2, <2>3
<1> HIDE DEF G, x
<1>5. N \in G
  <2>1. \A k \in 0..N : k \in G
    BY <1>3, <1>4, CountingUp
  <2> QED
    BY <2>1
<1>6. UpTo(list, N) = FlattenSeq(list)
  BY UpToIs
<1>7. Begins(x, UpTo(list, N))
  BY <1>5 DEF G
<1> QED
  BY <1>6, <1>7 DEF x

-----------------------------------------------------------------------------
(***************************************************************************)
(* What the tasks of a context yield.                                      *)
(***************************************************************************)
Operations == [op : {"MEM_LOAD", "MEM_STORE"}, memAddress : Nat]

\* What the actions of a task yield, and the tasks of a context.
Yields(task) == [i \in DOMAIN task.a |-> YieldOf(task.a, i)]
Parts(p) == [i \in 1..TaskCount(p) |-> Yield(ContextTasks(p)[i])]

LEMMA YieldIs ==
  ASSUME NEW task \in Tasks
  PROVE  /\ Len(task.a) \in Nat
         /\ Yields(task) \in [1..Len(task.a) -> Seq(Operations)]
         /\ Yield(task) \in Seq(Operations)
         /\ task.type = "basic_blocks" => Yield(task) = FlattenSeq(Yields(task))
         /\ task.type # "basic_blocks" \/ task.a = <<>> => Yield(task) = <<>>
<1>1. task.a \in Seq(TaskActions) /\ DOMAIN task.a = 1..Len(task.a)
      /\ Len(task.a) \in Nat
  BY DEF Tasks
<1>2. ASSUME NEW i \in 1..Len(task.a)
      PROVE  YieldOf(task.a, i) \in Seq(Operations)
  <2>1. task.a[i] \in TaskActions
    BY <1>1
  <2>2. OpOf(task.a[i]) \in Operations
    BY <2>1 DEF OpOf, Operations, TaskActions
  <2> QED
    BY <2>2 DEF YieldOf
<1>3. Yields(task) \in [1..Len(task.a) -> Seq(Operations)]
  BY <1>1, <1>2 DEF Yields
<1>4. task.type = "basic_blocks" => Yield(task) = FlattenSeq(Yields(task))
  BY DEF Yield, Yields
<1>5. task.type # "basic_blocks" => Yield(task) = <<>>
  BY DEF Yield
<1>6. UpTo(Yields(task), 0) = <<>>
      /\ UpTo(Yields(task), Len(task.a)) = FlattenSeq(Yields(task))
      /\ UpTo(Yields(task), Len(task.a)) \in Seq(Operations)
  <2> DEFINE N == Len(task.a)
  <2>1. N \in Nat /\ Yields(task) \in [1..N -> Seq(Operations)]
    BY <1>1, <1>3
  <2> HIDE DEF N
  <2>2. /\ UpTo(Yields(task), 0) = <<>>
        /\ \A n \in 0..N : UpTo(Yields(task), n) \in Seq(Operations)
        /\ UpTo(Yields(task), N) = FlattenSeq(Yields(task))
    BY <2>1, UpToIs
  <2> QED
    BY <2>1, <2>2 DEF N
<1>7. task.a = <<>> => Len(task.a) = 0
  OBVIOUS
<1>8. Yield(task) \in Seq(Operations)
  <2>1. <<>> \in Seq(Operations)
    OBVIOUS
  <2> QED
    BY <2>1, <1>4, <1>5, <1>6
<1> QED
  BY <1>1, <1>3, <1>4, <1>5, <1>6, <1>7, <1>8

LEMMA TaskCountIs ==
  ASSUME IsFiniteSet(DOMAIN graph), NEW p
  PROVE  LET n == TaskCount(p) IN
         /\ n \in 0..Cardinality(DOMAIN graph)
         /\ <<p, n>> \notin DOMAIN graph
         /\ \A m \in 0..n - 1 : <<p, m>> \in DOMAIN graph
<1> DEFINE K == Cardinality(DOMAIN graph)
           I == {n \in 0..K : <<p, n>> \notin DOMAIN graph}
<1>1. K \in Nat
  BY FS_CardinalityType
<1>2. I # {}
  <2> SUFFICES ASSUME I = {} PROVE FALSE
    OBVIOUS
  <2> DEFINE f == [n \in 0..K |-> <<p, n>>]
  <2>1. f \in Injection(0..K, DOMAIN graph)
    <3>1. f \in [0..K -> DOMAIN graph]
      OBVIOUS
    <3>2. \A i, j \in 0..K : f[i] = f[j] => i = j
      OBVIOUS
    <3> HIDE DEF f, K
    <3> QED
      BY <3>1, <3>2 DEF Injection, IsInjective
  <2>2. Cardinality(0..K) <= K
    <3> HIDE DEF f
    <3>1. Cardinality(0..K) <= Cardinality(DOMAIN graph)
      BY <2>1, FS_Injection
    <3> QED
      BY <3>1
  <2>3. Cardinality(0..K) = K + 1
    <3> HIDE DEF K
    <3>1. 0 \in Int /\ K \in Int
      BY <1>1
    <3>2. Cardinality(0..K) = IF 0 > K THEN 0 ELSE K - 0 + 1
      BY <3>1, FS_Interval
    <3> QED
      BY <1>1, <3>2
  <2> HIDE DEF K, f, I
  <2> QED
    BY <1>1, <2>2, <2>3
<1>3. I \subseteq Nat
  BY <1>1
<1>4. TaskCount(p) = Min(I)
  BY DEF TaskCount
<1> HIDE DEF I
<1>5. Min(I) \in I /\ \A y \in I : Min(I) <= y
  BY <1>2, <1>3, MinIs
<1> HIDE DEF K
<1>6. ASSUME NEW m \in 0..Min(I) - 1 PROVE <<p, m>> \in DOMAIN graph
  <2>1. Min(I) \in 0..K
    BY <1>5 DEF I
  <2>2. m \in 0..K /\ ~(Min(I) <= m)
    BY <1>1, <2>1
  <2>3. m \notin I
    BY <1>5, <2>2
  <2> QED
    BY <2>2, <2>3 DEF I
<1> QED
  BY <1>4, <1>5, <1>6 DEF I, K

LEMMA PartsAre ==
  ASSUME IsGraph(graph), IsFiniteSet(DOMAIN graph), NEW p
  PROVE  /\ TaskCount(p) \in Nat
         /\ Parts(p) \in [1..TaskCount(p) -> Seq(Operations)]
         /\ \A i \in 1..TaskCount(p) : Parts(p)[i] = Yield(graph[<<p, i - 1>>])
         /\ Stream(p) = FlattenSeq(Parts(p))
<1>1. TaskCount(p) \in Nat
      /\ \A m \in 0..TaskCount(p) - 1 : <<p, m>> \in DOMAIN graph
  <2>1. Cardinality(DOMAIN graph) \in Nat
    BY FS_CardinalityType
  <2>2. /\ TaskCount(p) \in 0..Cardinality(DOMAIN graph)
        /\ \A m \in 0..TaskCount(p) - 1 : <<p, m>> \in DOMAIN graph
    BY TaskCountIs
  <2> QED
    BY <2>1, <2>2
<1>2. ASSUME NEW i \in 1..TaskCount(p)
      PROVE  /\ Parts(p)[i] = Yield(graph[<<p, i - 1>>])
             /\ Parts(p)[i] \in Seq(Operations)
  <2>1. Parts(p)[i] = Yield(ContextTasks(p)[i])
        /\ ContextTasks(p)[i] = graph[<<p, i - 1>>]
    BY DEF Parts, ContextTasks
  <2>2. <<p, i - 1>> \in DOMAIN graph
    BY <1>1
  <2>3. graph[<<p, i - 1>>] \in Tasks
    BY <2>2, LinksAreLists
  <2> QED
    BY <2>1, <2>3, YieldIs
<1>3. Parts(p) = [i \in 1..TaskCount(p) |-> Parts(p)[i]]
  BY DEF Parts
<1>4. Parts(p) \in [1..TaskCount(p) -> Seq(Operations)]
  BY <1>2, <1>3
<1>5. Stream(p) = FlattenSeq(Parts(p))
  BY DEF Stream, Parts
<1> QED
  BY <1>1, <1>2, <1>4, <1>5

-----------------------------------------------------------------------------
(***************************************************************************)
(* Where the reader of a context is, and what it has handed out there.     *)
(***************************************************************************)
Tracks == [isComplete : BOOLEAN, seq : Nat, t : Nat \cup {NULL}, mit : Nat]

\* At an action of a task, all before it handed out.
AtTask(p, track, given) ==
    LET task == graph[<<p, track.seq>>] IN
    /\ track.isComplete = FALSE
    /\ track.seq \in 0..TaskCount(p) - 1
    /\ track.t = taskIdx[<<p, track.seq>>]
    /\ task.type = "basic_blocks"
    /\ track.mit \in 1..Len(task.a) + 1
    /\ track.mit <= Len(task.a)
          => Yields(task)[track.mit] = <<OpOf(task.a[track.mit])>>
    /\ given = UpTo(Parts(p), track.seq) \o UpTo(Yields(task), track.mit - 1)

AtEnd(p, track, given) ==
    track.isComplete = TRUE /\ track.t = NULL /\ given = Stream(p)

\* The index leads to the tasks of the graph.
IndexFits ==
    /\ IsFiniteSet(DOMAIN graph)
    /\ DOMAIN taskIdx = DOMAIN graph
    /\ \A id \in DOMAIN graph :
          taskIdx[id] \in Nat /\ file[taskIdx[id]] = graph[id]

\* The reader still has operations to hand out.
HasMore(p, track, given) ==
    AtTask(p, track, given) /\ track.mit <= Len(graph[<<p, track.seq>>].a)

\* updateContext passes over tasks that yield nothing, and finds the next
\* one that yields something, or the end.
LEMMA UpdateContextIs ==
  ASSUME IsGraph(graph), IndexFits, NEW p, NEW seq \in 0..TaskCount(p)
  PROVE  LET u == UpdateContext(p, seq)
             given == UpTo(Parts(p), seq)
         IN  u \in Tracks /\ (AtEnd(p, u, given) \/ HasMore(p, u, given))
<1> DEFINE u == UpdateContext(p, seq)
           N == TaskCount(p)
           K == Cardinality(DOMAIN graph)
           I == {n \in seq..seq + Cardinality(DOMAIN taskIdx) : ~PassedOver(<<p, n>>)}
           next == Min(I)
<1>1. /\ N \in 0..K /\ K \in Nat /\ N \in Nat /\ seq \in Nat /\ seq \in 0..N
      /\ <<p, N>> \notin DOMAIN graph
      /\ \A m \in 0..N - 1 : <<p, m>> \in DOMAIN graph
  <2>1. IsFiniteSet(DOMAIN graph)
    BY DEF IndexFits
  <2>2. K \in Nat
    BY <2>1, FS_CardinalityType
  <2>3. /\ N \in 0..K /\ <<p, N>> \notin DOMAIN graph
        /\ \A m \in 0..N - 1 : <<p, m>> \in DOMAIN graph
    BY <2>1, TaskCountIs
  <2> HIDE DEF K
  <2> QED
    BY <2>2, <2>3
<1>2. I = {n \in seq..seq + K : ~PassedOver(<<p, n>>)}
  BY DEF IndexFits
<1>3. DOMAIN taskIdx = DOMAIN graph
  BY DEF IndexFits
<1>4. ASSUME NEW n, <<p, n>> \in DOMAIN graph
      PROVE  /\ TaskById(<<p, n>>) = graph[<<p, n>>]
             /\ taskIdx[<<p, n>>] \in Nat
             /\ graph[<<p, n>>] \in Tasks
             /\ PassedOver(<<p, n>>)
                   <=> \/ graph[<<p, n>>].type # "basic_blocks"
                       \/ graph[<<p, n>>].a = <<>>
  <2>1. TaskById(<<p, n>>) = graph[<<p, n>>] /\ taskIdx[<<p, n>>] \in Nat
    BY <1>4 DEF IndexFits, TaskById
  <2>2. graph[<<p, n>>] \in Tasks
    BY <1>4, LinksAreLists
  <2> QED
    BY <1>3, <1>4, <2>1, <2>2 DEF PassedOver
<1>5. u = IF <<p, next>> \in DOMAIN graph
          THEN [isComplete |-> FALSE, seq |-> next,
                t |-> taskIdx[<<p, next>>], mit |-> 1]
          ELSE [isComplete |-> TRUE, seq |-> next, t |-> NULL, mit |-> 0]
  BY <1>3 DEF UpdateContext
<1> HIDE DEF N, K, I, u
<1>6. N \in I
  <2>1. ~PassedOver(<<p, N>>)
    BY <1>1, <1>3 DEF PassedOver
  <2>2. N \in seq..seq + K
    BY <1>1
  <2> QED
    BY <1>2, <2>1, <2>2
<1>7. next \in I /\ \A y \in I : next <= y
  <2>1. I \subseteq Nat /\ I # {}
    BY <1>1, <1>2, <1>6
  <2> QED
    BY <2>1, MinIs
<1> HIDE DEF next
<1>8. next \in Nat /\ next \in seq..N /\ ~PassedOver(<<p, next>>)
  BY <1>1, <1>2, <1>6, <1>7
<1>9. \A n \in seq..next - 1 : PassedOver(<<p, n>>)
  <2> SUFFICES ASSUME NEW n \in seq..next - 1 PROVE PassedOver(<<p, n>>)
    OBVIOUS
  <2>1. n \in seq..seq + K /\ ~(next <= n)
    BY <1>1, <1>8
  <2>2. n \notin I
    BY <1>7, <2>1
  <2> QED
    BY <1>2, <2>1, <2>2
<1>10. /\ Parts(p) \in [1..N -> Seq(Operations)]
       /\ \A i \in 1..N : Parts(p)[i] = Yield(graph[<<p, i - 1>>])
       /\ Stream(p) = FlattenSeq(Parts(p))
  BY PartsAre DEF IndexFits, N
<1>11. ASSUME NEW i \in seq + 1..next PROVE Parts(p)[i] = <<>>
  <2>1. i \in 1..N /\ i - 1 \in seq..next - 1 /\ i - 1 \in 0..N - 1
    BY <1>1, <1>8
  <2>2. <<p, i - 1>> \in DOMAIN graph /\ PassedOver(<<p, i - 1>>)
    BY <1>1, <1>9, <2>1
  <2>3. Yield(graph[<<p, i - 1>>]) = <<>>
    BY <1>4, <2>2, YieldIs
  <2> QED
    BY <1>10, <2>1, <2>3
<1>12. UpTo(Parts(p), next) = UpTo(Parts(p), seq)
  <2>1. next \in seq..N /\ seq \in 0..N /\ N \in Nat
    BY <1>1, <1>8
  <2>2. Parts(p) \in [1..N -> Seq(Operations)]
    BY <1>10
  <2>3. \A i \in seq + 1..next : Parts(p)[i] = <<>>
    BY <1>11
  <2> DEFINE B == Parts(p)
  <2> HIDE DEF B
  <2>4. UpTo(B, next) = UpTo(B, seq)
    <3>1. B \in [1..N -> Seq(Operations)] /\ EmptyBetween(B, seq, next)
      BY <2>2, <2>3 DEF B, EmptyBetween
    <3> QED
      BY <2>1, <3>1, UpToStays
  <2> QED
    BY <2>4 DEF B
<1>13. CASE <<p, next>> \in DOMAIN graph
  <2> DEFINE task == graph[<<p, next>>]
  <2>1. next # N /\ next \in 0..N - 1
    BY <1>1, <1>8, <1>13
  <2>2. /\ u = [isComplete |-> FALSE, seq |-> next,
                t |-> taskIdx[<<p, next>>], mit |-> 1]
        /\ taskIdx[<<p, next>>] \in Nat
    BY <1>4, <1>5, <1>13
  <2>3. u \in Tracks
    BY <1>8, <2>2 DEF Tracks
  <2>4. task \in Tasks /\ task.type = "basic_blocks" /\ task.a # <<>>
    BY <1>4, <1>8, <1>13
  <2>5. Len(task.a) \in Nat /\ Len(task.a) >= 1 /\ DOMAIN task.a = 1..Len(task.a)
    BY <2>4 DEF Tasks
  <2>6. Yields(task)[1] = <<OpOf(task.a[1])>>
    <3> HIDE DEF task
    <3>1. 1 \in DOMAIN task.a
      BY <2>5
    <3>2. Yields(task)[1] = YieldOf(task.a, 1)
      BY <3>1 DEF Yields
    <3> QED
      BY <3>2 DEF YieldOf
  <2>7. UpTo(Yields(task), 0) = <<>>
    BY <2>4, YieldIs, UpToIs
  <2>8. UpTo(Parts(p), seq) = UpTo(Parts(p), next) \o UpTo(Yields(task), 0)
    <3>1. UpTo(Parts(p), next) \in Seq(Operations)
      <4>1. \A n \in 0..N : UpTo(Parts(p), n) \in Seq(Operations)
        BY <1>1, <1>10, UpToIs
      <4>2. next \in 0..N
        BY <1>1, <2>1
      <4> QED
        BY <4>1, <4>2
    <3> QED
      BY <1>12, <2>7, <3>1, ConcatEmptySeq
  <2>9. u.seq = next /\ u.mit = 1 /\ u.isComplete = FALSE
        /\ u.t = taskIdx[<<p, next>>]
    BY <2>2
  <2> HIDE DEF task
  <2>10. graph[<<p, u.seq>>] = task /\ u.mit - 1 = 0
    BY <2>9 DEF task
  <2>11. HasMore(p, u, UpTo(Parts(p), seq))
    <3>1. u.mit \in 1..Len(task.a) + 1 /\ u.mit <= Len(task.a)
      BY <2>5, <2>9
    <3> QED
      BY <2>1, <2>4, <2>6, <2>8, <2>9, <2>10, <3>1 DEF HasMore, AtTask, N
  <2> QED
    BY <2>3, <2>11 DEF u
<1>14. CASE <<p, next>> \notin DOMAIN graph
  <2>1. u = [isComplete |-> TRUE, seq |-> next, t |-> NULL, mit |-> 0]
    BY <1>5, <1>14
  <2>2. u \in Tracks
    BY <1>8, <2>1 DEF Tracks
  <2>3. next = N
    BY <1>1, <1>8, <1>14
  <2>4. UpTo(Parts(p), N) = Stream(p)
    <3> DEFINE B == Parts(p)
    <3>1. B \in [1..N -> Seq(Operations)] /\ N \in Nat
      BY <1>1, <1>10
    <3> HIDE DEF B
    <3>2. UpTo(B, N) = FlattenSeq(B)
      BY <3>1, UpToIs
    <3> QED
      BY <1>10, <3>2 DEF B
  <2>5. AtEnd(p, u, UpTo(Parts(p), seq))
    BY <1>12, <2>1, <2>3, <2>4 DEF AtEnd
  <2> QED
    BY <2>2, <2>5 DEF u
<1> QED
  BY <1>13, <1>14

Stands(p, track, given) ==
    \/ track = Untouched /\ given = <<>>
    \/ AtEnd(p, track, given)
    \/ AtTask(p, track, given)

\* What is known of a context in the middle of a task.
LEMMA AtTaskIs ==
  ASSUME IsGraph(graph), IndexFits, NEW p, NEW track \in Tracks, NEW given,
         AtTask(p, track, given)
  PROVE  LET task == graph[<<p, track.seq>>]
             N == TaskCount(p)
         IN  /\ N \in Nat /\ track.seq \in 0..N - 1 /\ track.seq + 1 \in 1..N
             /\ task \in Tasks /\ task.type = "basic_blocks"
             /\ track.t \in Nat /\ track.t # NULL
             /\ Actions(track) = task.a
             /\ Parts(p)[track.seq + 1] = Yield(task)
             /\ Yield(task) = FlattenSeq(Yields(task))
<1> DEFINE task == graph[<<p, track.seq>>]
           N == TaskCount(p)
<1>1. /\ track.seq \in 0..N - 1 /\ task.type = "basic_blocks"
      /\ track.t = taskIdx[<<p, track.seq>>]
  BY DEF AtTask
<1>2. /\ N \in Nat
      /\ \A i \in 1..N : Parts(p)[i] = Yield(graph[<<p, i - 1>>])
  BY PartsAre DEF IndexFits
<1>3. <<p, track.seq>> \in DOMAIN graph
  <2>1. \A m \in 0..N - 1 : <<p, m>> \in DOMAIN graph
    BY TaskCountIs DEF IndexFits
  <2> QED
    BY <1>1, <2>1
<1>4. task \in Tasks
  BY <1>3, LinksAreLists
<1>5. track.t \in Nat /\ track.t # NULL /\ Actions(track) = task.a
  BY <1>1, <1>3, ContextsAssumption DEF IndexFits, Actions
<1>6. Yield(task) = FlattenSeq(Yields(task))
  BY <1>1, <1>4, YieldIs
<1> HIDE DEF N
<1> DEFINE k == track.seq + 1
<1>7. k \in 1..N /\ k - 1 = track.seq
  BY <1>1, <1>2
<1> HIDE DEF k
<1>8. Parts(p)[k] = Yield(task)
  BY <1>2, <1>7
<1> QED
  BY <1>1, <1>2, <1>4, <1>5, <1>6, <1>7, <1>8 DEF N, k

\* A call of getNextOp finds the next operation, or that there are no more.
LEMMA ReadyIs ==
  ASSUME IsGraph(graph), IndexFits, NEW p, currentTasks[p] \in Tracks,
         currentTasks[p].isComplete = FALSE,
         Stands(p, currentTasks[p], handed[p])
  PROVE  LET r == Ready(p) IN
         r \in Tracks /\ (AtEnd(p, r, handed[p]) \/ HasMore(p, r, handed[p]))
<1> DEFINE track == currentTasks[p]
           given == handed[p]
           N == TaskCount(p)
<1>1. N \in Nat /\ Parts(p) \in [1..N -> Seq(Operations)]
  BY PartsAre DEF IndexFits
<1>2. /\ UpTo(Parts(p), 0) = <<>>
      /\ \A n \in 1..N : UpTo(Parts(p), n) = UpTo(Parts(p), n - 1) \o Parts(p)[n]
  <2> HIDE DEF N
  <2> QED
    BY <1>1, UpToIs
<1>3. CASE track = Untouched /\ given = <<>>
  <2> DEFINE u == UpdateContext(p, 0)
  <2>1. 0 \in 0..N
    BY <1>1
  <2>2. u \in Tracks /\ (AtEnd(p, u, given) \/ HasMore(p, u, given))
    <3>1. LET front == UpTo(Parts(p), 0)
          IN  u \in Tracks /\ (AtEnd(p, u, front) \/ HasMore(p, u, front))
      BY <2>1, UpdateContextIs
    <3> HIDE DEF u
    <3> QED
      BY <1>2, <1>3, <3>1
  <2>3. Entered(p) = u
    BY <1>3 DEF Entered, Untouched
  <2> HIDE DEF u
  <2>4. ~(u.t # NULL /\ u.mit > Len(Actions(u)))
    <3>1. CASE AtEnd(p, u, given)
      BY <3>1 DEF AtEnd
    <3>2. CASE HasMore(p, u, given)
      <4>1. AtTask(p, u, given) /\ u.mit <= Len(graph[<<p, u.seq>>].a)
        BY <3>2 DEF HasMore
      <4>2. Actions(u) = graph[<<p, u.seq>>].a /\ graph[<<p, u.seq>>] \in Tasks
        BY <2>2, <4>1, AtTaskIs
      <4>3. u.mit \in Nat /\ Len(Actions(u)) \in Nat
        BY <2>2, <4>2 DEF Tracks, Tasks
      <4> QED
        BY <4>1, <4>2, <4>3
    <3> QED
      BY <2>2, <3>1, <3>2
  <2>5. Ready(p) = u
    BY <2>3, <2>4 DEF Ready
  <2> QED
    BY <2>2, <2>5
<1>4. CASE AtTask(p, track, given)
  <2> DEFINE task == graph[<<p, track.seq>>]
  <2>1. /\ track.seq \in 0..N - 1 /\ track.seq + 1 \in 1..N
        /\ task \in Tasks /\ track.t # NULL /\ Actions(track) = task.a
        /\ Parts(p)[track.seq + 1] = Yield(task)
        /\ Yield(task) = FlattenSeq(Yields(task))
    BY <1>4, AtTaskIs
  <2>2. Entered(p) = track
    <3>1. currentTasks[p].t # NULL
      BY <2>1
    <3> QED
      BY <3>1 DEF Entered
  <2>3. track.mit \in Nat /\ Len(task.a) \in Nat
    <3>1. track.mit \in Nat
      BY DEF Tracks
    <3>2. task.a \in Seq(TaskActions)
      BY <2>1 DEF Tasks
    <3> QED
      BY <3>1, <3>2
  <2>4. CASE track.mit <= Len(task.a)
    <3>1. Ready(p) = track
      BY <2>1, <2>2, <2>3, <2>4 DEF Ready
    <3>2. HasMore(p, track, given)
      BY <1>4, <2>4 DEF HasMore
    <3> QED
      BY <3>1, <3>2
  <2>5. CASE track.mit > Len(task.a)
    <3> DEFINE u == UpdateContext(p, track.seq + 1)
    <3>1. Ready(p) = u
      BY <2>1, <2>2, <2>5 DEF Ready
    <3>2. track.mit - 1 = Len(task.a)
      <4>1. track.mit \in 1..Len(task.a) + 1
        BY <1>4 DEF AtTask
      <4> QED
        BY <2>3, <2>5, <4>1
    <3>3. given = UpTo(Parts(p), track.seq) \o UpTo(Yields(task), Len(task.a))
      BY <1>4, <3>2 DEF AtTask
    <3>4. UpTo(Yields(task), Len(task.a)) = Yield(task)
      <4> DEFINE n == Len(task.a)
                 A == Yields(task)
      <4>1. n \in Nat /\ A \in [1..n -> Seq(Operations)]
        BY <2>1, YieldIs
      <4> HIDE DEF n, A
      <4>2. UpTo(A, n) = FlattenSeq(A)
        BY <4>1, UpToIs
      <4> QED
        BY <2>1, <4>2 DEF n, A
    <3>5. given = UpTo(Parts(p), track.seq + 1)
      <4> DEFINE k == track.seq + 1
      <4>1. k \in 1..N /\ k - 1 = track.seq /\ Parts(p)[k] = Yield(task)
        BY <1>1, <2>1
      <4> HIDE DEF k
      <4>2. UpTo(Parts(p), k) = UpTo(Parts(p), k - 1) \o Parts(p)[k]
        BY <1>2, <4>1
      <4>3. UpTo(Parts(p), k) = given
        BY <3>3, <3>4, <4>1, <4>2
      <4> QED
        BY <4>3 DEF k
    <3>6. track.seq + 1 \in 0..N
      BY <1>1, <2>1
    <3>7. LET front == UpTo(Parts(p), track.seq + 1)
          IN  u \in Tracks /\ (AtEnd(p, u, front) \/ HasMore(p, u, front))
      BY <3>6, UpdateContextIs
    <3> HIDE DEF u, given
    <3> QED
      BY <3>1, <3>5, <3>7 DEF given
  <2> QED
    BY <2>3, <2>4, <2>5
<1>5. ~AtEnd(p, track, given)
  BY DEF AtEnd
<1> QED
  BY <1>3, <1>4, <1>5 DEF Stands

\* The iterator passes over actions that yield nothing.
LEMMA NextMemOpIs ==
  ASSUME NEW task \in Tasks, NEW i \in 1..Len(task.a)
  PROVE  LET n == NextMemOp(task.a, i) IN
         /\ n \in i + 1..Len(task.a) + 1
         /\ n <= Len(task.a) => Yields(task)[n] = <<OpOf(task.a[n])>>
         /\ \A j \in i + 1..n - 1 : Yields(task)[j] = <<>>
<1> DEFINE L == Len(task.a)
           I == {j \in i + 1..L : IsMemOp(task.a[j])}
           J == I \cup {L + 1}
<1>1. L \in Nat /\ DOMAIN task.a = 1..L /\ i \in 1..L
  BY DEF Tasks
<1>2. NextMemOp(task.a, i) = Min(J)
  BY DEF NextMemOp
<1>3. \A j \in 1..L : Yields(task)[j] = YieldOf(task.a, j)
  BY <1>1 DEF Yields
<1> HIDE DEF L
<1>4. J \subseteq Nat /\ J # {}
  BY <1>1
<1>5. Min(J) \in J /\ \A y \in J : Min(J) <= y
  <2> HIDE DEF J
  <2> QED
    BY <1>4, MinIs
<1> DEFINE n == Min(J)
<1>6. n \in i + 1..L + 1 /\ (n <= L => IsMemOp(task.a[n]))
  <2> HIDE DEF n
  <2>1. n \in J
    BY <1>5 DEF n
  <2> QED
    BY <1>1, <2>1
<1>7. \A j \in i + 1..n - 1 : j \in 1..L /\ j # 1 /\ ~IsMemOp(task.a[j])
  <2> SUFFICES ASSUME NEW j \in i + 1..n - 1
               PROVE  j \in 1..L /\ j # 1 /\ ~IsMemOp(task.a[j])
    OBVIOUS
  <2> HIDE DEF n
  <2>1. j \in i + 1..L /\ ~(n <= j)
    BY <1>1, <1>6
  <2>2. j \notin J
    BY <1>5, <2>1 DEF n
  <2>3. j \notin I
    BY <2>2
  <2> QED
    BY <1>1, <2>1, <2>3
<1> HIDE DEF J, n
<1>8. n <= L => Yields(task)[n] = <<OpOf(task.a[n])>>
  <2> SUFFICES ASSUME n <= L PROVE Yields(task)[n] = <<OpOf(task.a[n])>>
    OBVIOUS
  <2>1. n \in 1..L /\ IsMemOp(task.a[n])
    BY <1>1, <1>6
  <2> QED
    BY <1>3, <2>1 DEF YieldOf
<1>9. \A j \in i + 1..n - 1 : Yields(task)[j] = <<>>
  BY <1>3, <1>7 DEF YieldOf
<1> QED
  BY <1>2, <1>6, <1>8, <1>9 DEF n, L

\* An operation that is handed out is the next of the stream.
LEMMA AdvanceIs ==
  ASSUME IsGraph(graph), IndexFits, NEW p, NEW r \in Tracks,
         NEW given \in Seq(Operations), HasMore(p, r, given)
  PROVE  LET actions == Actions(r)
             op == OpOf(actions[r.mit])
             after == [r EXCEPT !.mit = NextMemOp(actions, @)]
         IN  /\ r.t # NULL /\ op \in Operations
             /\ after \in Tracks /\ after.isComplete = FALSE
             /\ AtTask(p, after, Append(given, op))
             /\ Len(given) < Len(Stream(p))
             /\ op = Stream(p)[Len(given) + 1]
<1> DEFINE task == graph[<<p, r.seq>>]
           N == TaskCount(p)
           L == Len(task.a)
           A == Yields(task)
           B == Parts(p)
           op == OpOf(task.a[r.mit])
           n == NextMemOp(task.a, r.mit)
           after == [r EXCEPT !.mit = n]
           s == r.seq
           m == r.mit
<1>1. AtTask(p, r, given) /\ m <= L
  BY DEF HasMore
<1>2. /\ N \in Nat /\ s \in 0..N - 1 /\ s + 1 \in 1..N
      /\ task \in Tasks /\ task.type = "basic_blocks"
      /\ r.t \in Nat /\ r.t # NULL /\ Actions(r) = task.a
      /\ B[s + 1] = Yield(task) /\ Yield(task) = FlattenSeq(A)
  BY <1>1, AtTaskIs
<1>3. /\ m \in 1..L + 1 /\ A[m] = <<op>>
      /\ given = UpTo(B, s) \o UpTo(A, m - 1)
      /\ r.t = taskIdx[<<p, s>>] /\ r.isComplete = FALSE
  BY <1>1 DEF AtTask
<1>4. L \in Nat /\ A \in [1..L -> Seq(Operations)] /\ task.a \in Seq(TaskActions)
  BY <1>2, YieldIs DEF Tasks
<1>5. B \in [1..N -> Seq(Operations)] /\ Stream(p) = FlattenSeq(B)
  BY PartsAre DEF IndexFits
<1>6. m \in 1..L /\ m \in Nat /\ m - 1 \in 0..L
  BY <1>1, <1>3, <1>4
<1>7. op \in Operations
  <2>1. task.a[m] \in TaskActions
    BY <1>4, <1>6
  <2> QED
    BY <2>1 DEF OpOf, Operations, TaskActions
<1>8. /\ n \in m + 1..L + 1
      /\ n <= L => A[n] = <<OpOf(task.a[n])>>
      /\ \A j \in m + 1..n - 1 : A[j] = <<>>
  BY <1>2, <1>6, NextMemOpIs
<1>9. after \in Tracks /\ after.isComplete = FALSE /\ after.mit = n
      /\ after.seq = s /\ after.t = taskIdx[<<p, s>>]
  <2>1. n \in Nat
    BY <1>6, <1>8
  <2> HIDE DEF n
  <2> QED
    BY <1>3, <2>1 DEF Tracks
<1>10. Actions(r) = task.a /\ op = OpOf(Actions(r)[m])
  BY <1>2
<1> HIDE DEF task, N, L, A, B, op, n, after, s, m
<1>11. /\ UpTo(A, m) = UpTo(A, m - 1) \o A[m]
       /\ UpTo(A, m - 1) \in Seq(Operations)
       /\ UpTo(A, m) \in Seq(Operations)
  <2>1. /\ \A i \in 0..L : UpTo(A, i) \in Seq(Operations)
        /\ \A i \in 1..L : UpTo(A, i) = UpTo(A, i - 1) \o A[i]
    BY <1>4, UpToIs
  <2>2. m \in 0..L
    BY <1>6
  <2> QED
    BY <1>6, <2>1, <2>2
<1>12. /\ UpTo(B, s + 1) = UpTo(B, s) \o B[s + 1]
       /\ UpTo(B, s) \in Seq(Operations)
       /\ UpTo(B, s + 1) \in Seq(Operations)
  <2>1. /\ \A i \in 0..N : UpTo(B, i) \in Seq(Operations)
        /\ \A i \in 1..N : UpTo(B, i) = UpTo(B, i - 1) \o B[i]
    BY <1>2, <1>5, UpToIs
  <2> DEFINE k == s + 1
  <2>2. s \in 0..N /\ k \in 0..N /\ k \in 1..N /\ k - 1 = s
    BY <1>2
  <2> HIDE DEF k
  <2>3. UpTo(B, k) = UpTo(B, k - 1) \o B[k]
    BY <2>1, <2>2
  <2>4. /\ UpTo(B, k) = UpTo(B, s) \o B[k]
        /\ UpTo(B, s) \in Seq(Operations) /\ UpTo(B, k) \in Seq(Operations)
    BY <2>1, <2>2, <2>3
  <2> QED
    BY <2>4 DEF k
<1>13. Append(given, op) = UpTo(B, s) \o UpTo(A, m)
  <2> DEFINE x == UpTo(B, s)
             y == UpTo(A, m - 1)
  <2>1. x \in Seq(Operations) /\ y \in Seq(Operations) /\ <<op>> \in Seq(Operations)
    BY <1>7, <1>11, <1>12
  <2>2. UpTo(A, m) = y \o <<op>> /\ given = x \o y
    BY <1>3, <1>11
  <2> HIDE DEF x, y
  <2>3. (x \o y) \o <<op>> = x \o (y \o <<op>>)
    BY <2>1, ConcatAssociative
  <2>4. Append(given, op) = given \o <<op>>
    BY <1>7, AppendIsConcat
  <2> QED
    BY <2>2, <2>3, <2>4 DEF x
<1>14. UpTo(A, n - 1) = UpTo(A, m)
  <2>1. m \in 0..L /\ n - 1 \in m..L
    BY <1>4, <1>6, <1>8
  <2>2. EmptyBetween(A, m, n - 1)
    BY <1>8 DEF EmptyBetween
  <2> QED
    BY <1>4, <2>1, <2>2, UpToStays
<1>15. AtTask(p, after, Append(given, op))
  <2>1. graph[<<p, after.seq>>] = task
    BY <1>9 DEF task, s
  <2>2. after.seq \in 0..TaskCount(p) - 1 /\ task.type = "basic_blocks"
    BY <1>2, <1>9 DEF N
  <2>3. after.mit \in 1..Len(task.a) + 1
    BY <1>4, <1>6, <1>8, <1>9 DEF L
  <2>4. after.mit <= Len(task.a)
           => Yields(task)[after.mit] = <<OpOf(task.a[after.mit])>>
    BY <1>8, <1>9 DEF L, A
  <2>5. Append(given, op) = UpTo(Parts(p), after.seq) \o UpTo(Yields(task), after.mit - 1)
    BY <1>9, <1>13, <1>14 DEF A, B
  <2>6. after.t = taskIdx[<<p, after.seq>>] /\ after.isComplete = FALSE
    BY <1>9
  <2> QED
    BY <2>1, <2>2, <2>3, <2>4, <2>5, <2>6 DEF AtTask
<1>16. Begins(Append(given, op), Stream(p))
  <2>1. Begins(UpTo(A, m), Yield(task)) /\ Yield(task) \in Seq(Operations)
    <3>1. m \in 0..L
      BY <1>6
    <3>2. Begins(UpTo(A, m), FlattenSeq(A))
      BY <1>4, <3>1, UpToBegins
    <3>3. Yield(task) \in Seq(Operations)
      BY <1>2, YieldIs
    <3> QED
      BY <1>2, <3>2, <3>3
  <2>2. Begins(UpTo(B, s) \o UpTo(A, m), UpTo(B, s + 1))
    <3> DEFINE x == UpTo(B, s)
               y == UpTo(A, m)
               z == Yield(task)
    <3>1. x \in Seq(Operations) /\ y \in Seq(Operations) /\ z \in Seq(Operations)
          /\ Begins(y, z) /\ UpTo(B, s + 1) = x \o z
      BY <1>2, <1>11, <1>12, <2>1
    <3> HIDE DEF x, y, z
    <3>2. Begins(x \o y, x \o z)
      BY <3>1, ConcatBegins
    <3> QED
      BY <3>1, <3>2 DEF x, y
  <2>3. Begins(UpTo(B, s + 1), Stream(p))
    <3>1. s + 1 \in 0..N
      BY <1>2
    <3>2. Begins(UpTo(B, s + 1), FlattenSeq(B))
      BY <1>2, <1>5, <3>1, UpToBegins
    <3> QED
      BY <1>5, <3>2
  <2>4. Stream(p) \in Seq(Operations)
    <3>1. /\ \A i \in 0..N : UpTo(B, i) \in Seq(Operations)
          /\ UpTo(B, N) = FlattenSeq(B)
      BY <1>2, <1>5, UpToIs
    <3>2. N \in 0..N
      BY <1>2
    <3> QED
      BY <1>5, <3>1, <3>2
  <2> DEFINE x == Append(given, op)
             y == UpTo(B, s + 1)
             z == Stream(p)
  <2>5. /\ x \in Seq(Operations) /\ y \in Seq(Operations) /\ z \in Seq(Operations)
        /\ Begins(x, y) /\ Begins(y, z)
    <3>1. x \in Seq(Operations)
      BY <1>7
    <3>2. Begins(x, y)
      BY <1>13, <2>2
    <3> QED
      BY <1>12, <2>3, <2>4, <3>1, <3>2
  <2> HIDE DEF x, y, z
  <2>6. Begins(x, z)
    BY <2>5, BeginsTwice
  <2> QED
    BY <2>6 DEF x, z
<1>17. Len(given) < Len(Stream(p)) /\ op = Stream(p)[Len(given) + 1]
  <2> DEFINE x == Append(given, op)
  <2>1. Len(x) = Len(given) + 1 /\ x[Len(given) + 1] = op /\ Len(given) \in Nat
    BY <1>7
  <2>2. Len(x) <= Len(Stream(p)) /\ \A i \in 1..Len(x) : Stream(p)[i] = x[i]
    BY <1>16 DEF Begins
  <2> HIDE DEF x
  <2>3. Len(given) + 1 \in 1..Len(x)
    BY <2>1
  <2>4. Len(Stream(p)) \in Nat
    <3>1. /\ \A i \in 0..N : UpTo(B, i) \in Seq(Operations)
          /\ UpTo(B, N) = FlattenSeq(B)
      BY <1>2, <1>5, UpToIs
    <3>2. Stream(p) \in Seq(Operations)
      BY <1>2, <1>5, <3>1
    <3> QED
      BY <3>2
  <2> QED
    BY <2>1, <2>2, <2>3, <2>4
<1> QED
  BY <1>2, <1>7, <1>9, <1>10, <1>15, <1>17 DEF task, op, n, after, m

-----------------------------------------------------------------------------
(***************************************************************************)
(* The reader keeps the promise of OpStreams.                              *)
(***************************************************************************)
\* The file holds the tasks of the graph.
FileHolds ==
    \E ids \in Orders :
        ToSet(ids) = DOMAIN graph /\ file = [i \in DOMAIN ids |-> graph[ids[i]]]

\* A context's reader stands where what it was handed ends; a context that the
\* file does not have gets nothing.
Reads(p) ==
    \E track \in Tracks, given \in Seq(Operations) :
        /\ currentTasks[p] = track /\ handed[p] = given
        /\ IF p < contextCount THEN streams[p] = Stream(p) /\ Stands(p, track, given)
                               ELSE streams[p] = <<>> /\ track = Untouched

ReaderInv ==
    /\ stage \in {"edit", "saved", "read"}
    /\ currentTasks \in [Contexts -> Tracks]
    /\ handed \in [Contexts -> Seq(Operations)]
    /\ stage # "read" => /\ currentTasks = [p \in Contexts |-> Untouched]
                         /\ handed = [p \in Contexts |-> <<>>]
    /\ stage = "saved" => FileHolds
    /\ stage = "read" => /\ IndexFits /\ contextCount \in Nat
                         /\ \A p \in Contexts : Reads(p)

LEMMA UntouchedIsTrack ==
  Untouched \in Tracks /\ Untouched.isComplete = FALSE /\ <<>> \in Seq(Operations)
  BY DEF Untouched, Tracks

LEMMA SavedIsIndexed ==
  ASSUME IsGraph(graph), FileHolds
  PROVE  /\ IsFiniteSet(DOMAIN graph)
         /\ DOMAIN Indexed = DOMAIN graph
         /\ \A id \in DOMAIN graph :
               Indexed[id] \in Nat /\ file[Indexed[id]] = graph[id]
         /\ Cardinality(ContextsIn) \in Nat
<1>1. PICK ids \in Orders : /\ ToSet(ids) = DOMAIN graph
                            /\ file = [i \in DOMAIN ids |-> graph[ids[i]]]
  BY DEF FileHolds
<1>2. Len(ids) \in Nat /\ DOMAIN ids = 1..Len(ids)
  BY OrdersAssumption
<1> DEFINE N == Len(ids)
<1>3. DOMAIN graph = {ids[i] : i \in 1..N}
  BY <1>1, <1>2 DEF ToSet
<1>4. DOMAIN file = 1..N /\ \A i \in 1..N : file[i] = graph[ids[i]]
  BY <1>1, <1>2
<1> HIDE DEF N
<1>5. IsFiniteSet(1..N)
  <2>1. 1 \in Int /\ N \in Int
    BY <1>2 DEF N
  <2> QED
    BY <2>1, FS_Interval
<1>6. IsFiniteSet(DOMAIN graph)
  <2> DEFINE f == [i \in 1..N |-> ids[i]]
  <2>1. f \in [1..N -> DOMAIN graph]
        /\ \A t \in DOMAIN graph : \E i \in 1..N : f[i] = t
    BY <1>3
  <2> HIDE DEF f
  <2>2. f \in Surjection(1..N, DOMAIN graph)
    BY <2>1 DEF Surjection
  <2> QED
    BY <1>5, <2>2, FS_Surjection
<1>7. \A i \in 1..N : file[i].taskId = ids[i]
  <2> SUFFICES ASSUME NEW i \in 1..N PROVE file[i].taskId = ids[i]
    OBVIOUS
  <2>1. ids[i] \in DOMAIN graph
    BY <1>3
  <2> QED
    BY <1>4, <2>1 DEF IsGraph
<1>8. ToSet(file) = {file[i] : i \in 1..N}
  BY <1>4 DEF ToSet
<1>9. {task.taskId : task \in ToSet(file)} = DOMAIN graph
  BY <1>3, <1>7, <1>8
<1>10. DOMAIN Indexed = DOMAIN graph
  BY <1>9 DEF Indexed
<1>11. ASSUME NEW id \in DOMAIN graph
       PROVE  Indexed[id] \in Nat /\ file[Indexed[id]] = graph[id]
  <2>1. Indexed[id] = CHOOSE i \in DOMAIN file : file[i].taskId = id
    BY <1>9 DEF Indexed
  <2>2. \E i \in DOMAIN file : file[i].taskId = id
    BY <1>3, <1>4, <1>7
  <2>3. Indexed[id] \in 1..N /\ file[Indexed[id]].taskId = id
    BY <1>4, <2>1, <2>2
  <2> QED
    BY <1>4, <1>7, <2>3
<1>12. Cardinality(ContextsIn) \in Nat
  <2> DEFINE f == [i \in 1..N |-> file[i].taskId[1]]
  <2>1. f \in [1..N -> ContextsIn]
        /\ \A c \in ContextsIn : \E i \in 1..N : f[i] = c
    BY <1>8 DEF ContextsIn
  <2> HIDE DEF f
  <2>2. f \in Surjection(1..N, ContextsIn)
    BY <2>1 DEF Surjection
  <2>3. IsFiniteSet(ContextsIn)
    BY <1>5, <2>2, FS_Surjection
  <2> QED
    BY <2>3, FS_CardinalityType
<1> QED
  BY <1>6, <1>10, <1>11, <1>12

\* Where a reader stands depends on the graph and the index only.
LEMMA StandsStays ==
  ASSUME graph' = graph, taskIdx' = taskIdx
  PROVE  \A p, track, given :
            /\ Stream(p)' = Stream(p)
            /\ Stands(p, track, given)' <=> Stands(p, track, given)
<1>1. \A p : TaskCount(p)' = TaskCount(p)
  BY DEF TaskCount
<1>2. \A p : Parts(p)' = Parts(p) /\ Stream(p)' = Stream(p)
  BY <1>1 DEF Parts, Stream, ContextTasks
<1>3. \A p, track, given : AtTask(p, track, given)' <=> AtTask(p, track, given)
  <2> SUFFICES ASSUME NEW p, NEW track, NEW given
               PROVE  AtTask(p, track, given)' <=> AtTask(p, track, given)
    OBVIOUS
  <2>1. TaskCount(p)' = TaskCount(p) /\ Parts(p)' = Parts(p)
    BY <1>1, <1>2
  <2> DEFINE here == UpTo(Parts(p), track.seq)
  <2>2. here' = here
    BY <2>1
  <2> QED
    BY <2>1, <2>2 DEF AtTask
<1>4. \A p, track, given : AtEnd(p, track, given)' <=> AtEnd(p, track, given)
  BY <1>2 DEF AtEnd
<1> QED
  BY <1>2, <1>3, <1>4 DEF Stands

\* A call that finds the end, and one that hands out an operation.
Ends(p, track) ==
    /\ AtEnd(p, track, handed[p])
    /\ currentTasks' = [currentTasks EXCEPT ![p] = track]
    /\ handed' = handed

Hands(p, track, op) ==
    /\ AtTask(p, track, Append(handed[p], op)) /\ track.isComplete = FALSE
    /\ currentTasks' = [currentTasks EXCEPT ![p] = track]
    /\ handed' = [handed EXCEPT ![p] = Append(@, op)]
    /\ Len(handed[p]) < Len(Stream(p))
    /\ op = Stream(p)[Len(handed[p]) + 1]

LEMMA ServeCases ==
  ASSUME GraphInv, ReaderInv, NEW p \in Contexts, GetNextOp(p)
  PROVE  \E track \in Tracks :
            Ends(p, track) \/ \E op \in Operations : Hands(p, track, op)
<1> DEFINE r == Ready(p)
           op == OpOf(Actions(r)[r.mit])
           after == [r EXCEPT !.mit = NextMemOp(Actions(r), @)]
<1>1. /\ stage = "read" /\ p < contextCount /\ ~currentTasks[p].isComplete
      /\ IF r.t = NULL
         THEN /\ currentTasks' = [currentTasks EXCEPT ![p] = r]
              /\ handed' = handed
         ELSE /\ currentTasks' = [currentTasks EXCEPT ![p] = after]
              /\ handed' = [handed EXCEPT ![p] = Append(@, op)]
  BY DEF GetNextOp
<1>2. IsGraph(graph) /\ IndexFits /\ Reads(p)
      /\ currentTasks \in [Contexts -> Tracks]
      /\ handed \in [Contexts -> Seq(Operations)]
  BY <1>1 DEF GraphInv, ReaderInv
<1>3. currentTasks[p] \in Tracks /\ handed[p] \in Seq(Operations)
  BY <1>2
<1>4. currentTasks[p].isComplete = FALSE
  <2>1. currentTasks[p].isComplete \in BOOLEAN
    BY <1>3 DEF Tracks
  <2> QED
    BY <1>1, <2>1
<1>5. Stands(p, currentTasks[p], handed[p])
  BY <1>1, <1>2 DEF Reads
<1>6. r \in Tracks /\ (AtEnd(p, r, handed[p]) \/ HasMore(p, r, handed[p]))
  BY <1>2, <1>3, <1>4, <1>5, ReadyIs
<1> HIDE DEF r
<1>7. CASE AtEnd(p, r, handed[p])
  <2>1. r.t = NULL
    BY <1>7 DEF AtEnd
  <2>2. Ends(p, r)
    BY <1>1, <1>7, <2>1 DEF Ends
  <2> QED
    BY <1>6, <2>2
<1>8. CASE HasMore(p, r, handed[p])
  <2>1. /\ r.t # NULL /\ op \in Operations
        /\ after \in Tracks /\ after.isComplete = FALSE
        /\ AtTask(p, after, Append(handed[p], op))
        /\ Len(handed[p]) < Len(Stream(p))
        /\ op = Stream(p)[Len(handed[p]) + 1]
    BY <1>2, <1>3, <1>6, <1>8, AdvanceIs
  <2> HIDE DEF op, after
  <2>2. Hands(p, after, op)
    BY <1>1, <2>1 DEF Hands
  <2> QED
    BY <2>1, <2>2
<1> QED
  BY <1>6, <1>7, <1>8

LEMMA ReaderInvInit == TaskInit => ReaderInv
<1> SUFFICES ASSUME TaskInit PROVE ReaderInv
  OBVIOUS
<1>1. /\ stage = "edit" /\ currentTasks = [p \in Contexts |-> Untouched]
      /\ handed = [p \in Contexts |-> <<>>]
  BY DEF TaskInit
<1>2. currentTasks \in [Contexts -> Tracks] /\ handed \in [Contexts -> Seq(Operations)]
  BY <1>1, UntouchedIsTrack
<1> QED
  BY <1>1, <1>2 DEF ReaderInv

LEMMA ReaderInvStep == GraphInv /\ ReaderInv /\ [TaskNext]_taskVars => ReaderInv'
<1> SUFFICES ASSUME GraphInv, ReaderInv, [TaskNext]_taskVars PROVE ReaderInv'
  OBVIOUS
<1>1. CASE EditGraph
  BY <1>1 DEF EditGraph, readerVars, ReaderInv
<1>2. CASE Save
  <2>1. stage = "edit" /\ stage' = "saved"
        /\ UNCHANGED <<graph, currentTasks, handed>>
    BY <1>2 DEF Save
  <2>2. PICK ids \in Orders :
           /\ ToSet(ids) = DOMAIN graph
           /\ file' = [i \in DOMAIN ids |-> ReadTask(WriteTask(graph[ids[i]]))]
    BY <1>2 DEF Save
  <2>3. ASSUME NEW i \in DOMAIN ids
        PROVE  ReadTask(WriteTask(graph[ids[i]])) = graph[ids[i]]
    <3>1. ids[i] \in DOMAIN graph
      BY <2>2 DEF ToSet
    <3>2. graph[ids[i]] \in Tasks
          /\ graph[ids[i]].bbCount = BlocksIn(graph[ids[i]].a)
      BY <3>1, LinksAreLists DEF GraphInv
    <3> QED
      BY <3>2, TaskReadsBack
  <2>4. file' = [i \in DOMAIN ids |-> graph[ids[i]]]
    BY <2>2, <2>3
  <2>5. FileHolds'
    BY <2>1, <2>2, <2>4 DEF FileHolds
  <2> QED
    BY <2>1, <2>5 DEF ReaderInv
<1>3. CASE InitTaskGraph
  <2>1. /\ stage = "saved" /\ stage' = "read" /\ taskIdx' = Indexed
        /\ contextCount' = Cardinality(ContextsIn)
        /\ streams' = [p \in Contexts |-> IF p < contextCount' THEN Stream(p) ELSE <<>>]
        /\ graph' = graph /\ file' = file /\ currentTasks' = currentTasks
        /\ handed' = handed
    BY <1>3 DEF InitTaskGraph
  <2>2. /\ currentTasks = [p \in Contexts |-> Untouched]
        /\ handed = [p \in Contexts |-> <<>>]
        /\ currentTasks \in [Contexts -> Tracks]
        /\ handed \in [Contexts -> Seq(Operations)]
        /\ FileHolds
    BY <2>1 DEF ReaderInv
  <2>3. /\ IsFiniteSet(DOMAIN graph) /\ DOMAIN Indexed = DOMAIN graph
        /\ \A id \in DOMAIN graph :
              Indexed[id] \in Nat /\ file[Indexed[id]] = graph[id]
        /\ Cardinality(ContextsIn) \in Nat
    BY <2>2, SavedIsIndexed DEF GraphInv
  <2>4. IndexFits' /\ contextCount' \in Nat
    BY <2>1, <2>3 DEF IndexFits
  <2>5. ASSUME NEW p \in Contexts PROVE Reads(p)'
    <3>1. currentTasks'[p] = Untouched /\ handed'[p] = <<>>
          /\ streams'[p] = IF p < contextCount' THEN Stream(p) ELSE <<>>
      BY <2>1, <2>2
    <3>2. Stream(p)' = Stream(p)
      <4>1. TaskCount(p)' = TaskCount(p)
        BY <2>1 DEF TaskCount
      <4> QED
        BY <2>1, <4>1 DEF Stream, ContextTasks
    <3>3. Stands(p, Untouched, <<>>)'
      BY DEF Stands
    <3> QED
      BY <3>1, <3>2, <3>3, UntouchedIsTrack DEF Reads
  <2> QED
    BY <2>1, <2>2, <2>4, <2>5 DEF ReaderInv
<1>4. ASSUME NEW p \in Contexts, GetNextOp(p) PROVE ReaderInv'
  <2>1. /\ stage = "read" /\ stage' = stage /\ graph' = graph /\ file' = file
        /\ taskIdx' = taskIdx /\ contextCount' = contextCount /\ streams' = streams
        /\ p < contextCount
    BY <1>4 DEF GetNextOp
  <2>2. /\ currentTasks \in [Contexts -> Tracks]
        /\ handed \in [Contexts -> Seq(Operations)]
        /\ IndexFits /\ contextCount \in Nat
        /\ \A q \in Contexts : Reads(q)
    BY <2>1 DEF ReaderInv
  <2>3. PICK track \in Tracks :
           Ends(p, track) \/ \E op \in Operations : Hands(p, track, op)
    BY <1>4, ServeCases
  <2>4. /\ currentTasks' = [currentTasks EXCEPT ![p] = track]
        /\ \A q \in Contexts : q # p => handed'[q] = handed[q]
        /\ handed' \in [Contexts -> Seq(Operations)]
        /\ Stands(p, track, handed'[p])
    <3>1. CASE Ends(p, track)
      BY <2>2, <3>1 DEF Ends, Stands
    <3>2. ASSUME NEW op \in Operations, Hands(p, track, op)
          PROVE  /\ currentTasks' = [currentTasks EXCEPT ![p] = track]
                 /\ \A q \in Contexts : q # p => handed'[q] = handed[q]
                 /\ handed' \in [Contexts -> Seq(Operations)]
                 /\ Stands(p, track, handed'[p])
      <4>1. /\ AtTask(p, track, Append(handed[p], op))
            /\ currentTasks' = [currentTasks EXCEPT ![p] = track]
            /\ handed' = [handed EXCEPT ![p] = Append(@, op)]
        BY <3>2 DEF Hands
      <4>2. handed'[p] = Append(handed[p], op)
            /\ Append(handed[p], op) \in Seq(Operations)
        BY <2>2, <4>1
      <4>3. Stands(p, track, handed'[p])
        BY <4>1, <4>2 DEF Stands
      <4> QED
        BY <2>2, <4>1, <4>2, <4>3
    <3> QED
      BY <2>3, <3>1, <3>2
  <2>5. currentTasks' \in [Contexts -> Tracks] /\ currentTasks'[p] = track
        /\ \A q \in Contexts : q # p => currentTasks'[q] = currentTasks[q]
    BY <2>2, <2>4
  <2>6. IndexFits' /\ contextCount' \in Nat
    BY <2>1, <2>2 DEF IndexFits
  <2>7. ASSUME NEW q \in Contexts PROVE Reads(q)'
    <3>1. /\ Stream(q)' = Stream(q)
          /\ \A t, given : Stands(q, t, given)' <=> Stands(q, t, given)
      BY <2>1, StandsStays
    <3>2. CASE q = p
      <4>1. PICK given \in Seq(Operations) : given = handed'[p]
        BY <2>4
      <4>2. streams[p] = Stream(p)
        BY <2>1, <2>2 DEF Reads
      <4>3. Stands(p, track, given)'
        BY <2>4, <3>1, <3>2, <4>1
      <4> QED
        BY <2>1, <2>5, <3>1, <3>2, <4>1, <4>2, <4>3 DEF Reads
    <3>3. CASE q # p
      <4>1. PICK t \in Tracks, given \in Seq(Operations) :
               /\ currentTasks[q] = t /\ handed[q] = given
               /\ IF q < contextCount THEN streams[q] = Stream(q) /\ Stands(q, t, given)
                                      ELSE streams[q] = <<>> /\ t = Untouched
        BY <2>2 DEF Reads
      <4>2. currentTasks'[q] = t /\ handed'[q] = given
        BY <2>4, <2>5, <3>3, <4>1
      <4> QED
        BY <2>1, <3>1, <4>1, <4>2 DEF Reads
    <3> QED
      BY <3>2, <3>3
  <2> QED
    BY <2>1, <2>4, <2>5, <2>6, <2>7 DEF ReaderInv
<1>5. CASE UNCHANGED taskVars
  <2>1. /\ stage' = stage /\ graph' = graph /\ file' = file
        /\ taskIdx' = taskIdx /\ contextCount' = contextCount /\ streams' = streams
        /\ currentTasks' = currentTasks /\ handed' = handed
    BY <1>5 DEF taskVars, readerVars
  <2>2. FileHolds' <=> FileHolds
    BY <2>1 DEF FileHolds
  <2>3. IndexFits' <=> IndexFits
    BY <2>1 DEF IndexFits
  <2>4. \A p : Reads(p) => Reads(p)'
    BY <2>1, StandsStays DEF Reads
  <2> QED
    BY <2>1, <2>2, <2>3, <2>4 DEF ReaderInv
<1> QED
  BY <1>1, <1>2, <1>3, <1>4, <1>5 DEF TaskNext

\* What OpStreams demands but for its fairness: a processor is handed the
\* operations of its stream, each once and in order, and told the end when
\* there are no more.
StreamsSafety == Promise!Init /\ [][Promise!Next]_(Promise!streamVars)

LEMMA StepServes ==
  GraphInv /\ ReaderInv /\ [TaskNext]_taskVars
    => [Promise!Next]_(Promise!streamVars)
<1> SUFFICES ASSUME GraphInv, ReaderInv, [TaskNext]_taskVars
             PROVE  [Promise!Next]_(Promise!streamVars)
  OBVIOUS
<1> DEFINE loaded == stage = "read"
           done(p) == stage = "read" /\ (p >= contextCount \/ currentTasks[p].isComplete)
           ended == [p \in Contexts |-> done(p)]
<1>1. CASE loaded' = loaded /\ UNCHANGED <<streams, handed>> /\ ended' = ended
  BY <1>1 DEF Promise!streamVars
<1>2. CASE EditGraph
  BY <1>1, <1>2 DEF EditGraph, readerVars
<1>3. CASE Save
  <2>1. stage = "edit" /\ stage' = "saved" /\ UNCHANGED <<streams, handed>>
    BY <1>3 DEF Save
  <2> QED
    BY <1>1, <2>1
<1>4. CASE InitTaskGraph
  <2>1. /\ stage = "saved" /\ stage' = "read"
        /\ streams' = [p \in Contexts |-> IF p < contextCount' THEN Stream(p) ELSE <<>>]
        /\ currentTasks' = currentTasks /\ handed' = handed
        /\ contextCount' = Cardinality(ContextsIn)
    BY <1>4 DEF InitTaskGraph
  <2>2. currentTasks = [p \in Contexts |-> Untouched]
    BY <2>1 DEF ReaderInv
  <2>3. contextCount' \in Nat
    BY <2>1, ReaderInvStep DEF ReaderInv
  <2>4. ASSUME NEW p \in Contexts, ended'[p] PROVE streams'[p] = <<>>
    <3>1. ~currentTasks'[p].isComplete
      BY <2>1, <2>2 DEF Untouched
    <3>2. p >= contextCount'
      BY <2>4, <3>1
    <3>3. ~(p < contextCount')
      BY <2>3, <3>2, ContextsAssumption
    <3> QED
      BY <2>1, <3>3
  <2>5. Promise!Load
    BY <2>1, <2>4 DEF Promise!Load
  <2> QED
    BY <2>5 DEF Promise!Next
<1>5. ASSUME NEW p \in Contexts, GetNextOp(p)
      PROVE  Promise!Next
  <2>1. /\ stage = "read" /\ stage' = "read" /\ contextCount' = contextCount
        /\ streams' = streams /\ p < contextCount
        /\ ~currentTasks[p].isComplete
    BY <1>5 DEF GetNextOp
  <2>2. /\ currentTasks \in [Contexts -> Tracks]
        /\ handed \in [Contexts -> Seq(Operations)]
        /\ contextCount \in Nat /\ Reads(p)
    BY <2>1 DEF ReaderInv
  <2>3. streams[p] = Stream(p)
    BY <2>1, <2>2 DEF Reads
  <2>4. PICK track \in Tracks :
           Ends(p, track) \/ \E op \in Operations : Hands(p, track, op)
    BY <1>5, ServeCases
  <2>5. CASE Ends(p, track)
    <3>1. /\ currentTasks' = [currentTasks EXCEPT ![p] = track]
          /\ handed' = handed /\ handed[p] = streams[p] /\ track.isComplete = TRUE
      BY <2>3, <2>5 DEF Ends, AtEnd
    <3>2. ended' = [ended EXCEPT ![p] = TRUE]
      BY <2>1, <2>2, <3>1
    <3>3. Promise!End(p)
      BY <2>1, <3>1, <3>2 DEF Promise!End
    <3> QED
      BY <3>3 DEF Promise!Next, Promise!Serve
  <2>6. ASSUME NEW op \in Operations, Hands(p, track, op)
        PROVE  Promise!Next
    <3>1. /\ currentTasks' = [currentTasks EXCEPT ![p] = track]
          /\ handed' = [handed EXCEPT ![p] = Append(@, op)]
          /\ track.isComplete = FALSE
          /\ Len(handed[p]) < Len(streams[p])
          /\ op = streams[p][Len(handed[p]) + 1]
      BY <2>3, <2>6 DEF Hands
    <3>2. ended' = ended
      BY <2>1, <2>2, <3>1
    <3>3. handed' = [handed EXCEPT ![p] = Append(@, streams[p][Len(@) + 1])]
      BY <2>2, <3>1
    <3>4. Promise!HandOut(p)
      BY <2>1, <3>1, <3>2, <3>3 DEF Promise!HandOut
    <3> QED
      BY <3>4 DEF Promise!Next, Promise!Serve
  <2> QED
    BY <2>4, <2>5, <2>6
<1>6. CASE UNCHANGED taskVars
  BY <1>1, <1>6 DEF taskVars, readerVars
<1> QED
  BY <1>2, <1>3, <1>4, <1>5, <1>6 DEF TaskNext

\* TaskGraphAPI.cpp:87-126: in a file with any tasks in any order, a processor
\* is handed the operations of its context's tasks in their order, none twice
\* and none left out, and is told the end only behind the last of them.
THEOREM ReadersServeStreams == TaskSpec => StreamsSafety
<1>1. TaskInit => Promise!Init
  BY DEF TaskInit, Promise!Init
<1>2. TaskSpec => []GraphInv
  BY GraphStaysWellFormed
<1> QED
  BY <1>1, <1>2, ReaderInvInit, ReaderInvStep, StepServes, PTL
     DEF TaskSpec, StreamsSafety
=============================================================================
