--------------------------- MODULE SettingsProofs ---------------------------
(***************************************************************************)
(* parseSettings stays within the lists it fills, and reads a well-formed  *)
(* plain file as documented, for files of any length and any chunk by      *)
(* which the lists grow.                                                   *)
(*                                                                         *)
(* A list's room is tested before an argument is added, not after: that    *)
(* the last one has room depends on the room never being overtaken by more *)
(* than the one that the next addition makes up for.  What is added are    *)
(* strings, which the NUL behind the text ends, so that no turn but the    *)
(* last reaches the end of the text.                                       *)
(*                                                                         *)
(* That the file is read as documented is an invariant of the turns: the   *)
(* components so far are a list of words, and the words of the file are    *)
(* those followed by the words from the reader's position on.  Behind the  *)
(* position contents is still the text, which the reader cuts up as it     *)
(* goes: so each turn finds what stands there in the text, and leaves what *)
(* stands behind it.                                                       *)
(***************************************************************************)
EXTENDS Settings, SequenceTheorems, WellFoundedInduction, TLAPS

Strings == Seq(Letters)

Components == [name : Strings, args : Seq(Strings)]

SettingsInv ==
  /\ text \in Seq(Letters)
  /\ contents \in [0 .. length -> Letters \cup {NUL}]
  /\ contents[length] = NUL
  /\ pos \in Nat /\ (~done => pos <= length)
  /\ components \in Seq(Components)
  /\ argSize \in Nat

-----------------------------------------------------------------------------
LEMMA MinIs ==
  ASSUME NEW S, S \subseteq Nat, S # {}
  PROVE  Min(S) \in S /\ \A y \in S : Min(S) <= y
<1> DEFINE R == OpToRel(<, Nat)
<1>1. IsWellFoundedOn(R, Nat)
  BY NatLessThanWellFounded
<1>2. \A x, y \in Nat : y < x => <<y, x>> \in R
  BY DEF OpToRel
<1> HIDE DEF R
<1>3. \E x \in S : \A y \in S : ~(<<y, x>> \in R)
  BY <1>1, WFMin
<1>4. \E x \in S : \A y \in S : ~(y < x)
  BY <1>2, <1>3, Zenon
<1>5. \E x \in S : \A y \in S : x <= y
  BY <1>4
<1> QED
  BY <1>5 DEF Min

LEMMA MinUnique ==
  ASSUME NEW S, S \subseteq Nat, NEW x \in S, \A y \in S : x <= y
  PROVE  Min(S) = x
<1> DEFINE m == Min(S)
<1>1. m \in S /\ \A y \in S : m <= y
  <2>1. S # {}
    OBVIOUS
  <2> QED
    BY <2>1, MinIs
<1> HIDE DEF m
<1>2. m <= x /\ x <= m /\ m \in Nat /\ x \in Nat
  BY <1>1
<1>3. m = x
  BY <1>2
<1> QED
  BY <1>3 DEF m

LEMMA CountingUp ==
  ASSUME NEW N \in Nat, NEW G, 0 \in G,
         \A n \in 1 .. N : n - 1 \in G => n \in G
  PROVE  \A n \in 0 .. N : n \in G
<1> DEFINE Bad == {n \in 0 .. N : n \notin G}
<1> SUFFICES ASSUME Bad # {} PROVE FALSE
  OBVIOUS
<1>1. Bad \subseteq Nat
  OBVIOUS
<1>2. Min(Bad) \in Bad /\ \A y \in Bad : Min(Bad) <= y
  <2> HIDE DEF Bad
  <2> QED
    BY <1>1, MinIs
<1> DEFINE x == Min(Bad)
<1>3. x \in 0 .. N /\ x \notin G /\ x # 0
  BY <1>2
<1>4. x - 1 \in 0 .. N /\ x - 1 \in G
  BY <1>2, <1>3
<1> HIDE DEF x
<1> QED
  BY <1>3, <1>4

LEMMA LengthIsNat == SettingsInv => length \in Nat
  BY LenProperties DEF SettingsInv, length

\* A word, marked by the positions E, ends at the latest with the text.
LEMMA FirstIs ==
  ASSUME SettingsInv, NEW p \in 0 .. length, NEW E
  PROVE  Min({q \in p .. length : q = length \/ q \in E}) \in p .. length
<1> DEFINE S == {q \in p .. length : q = length \/ q \in E}
<1>1. length \in Nat
  BY LengthIsNat
<1>2. S \subseteq Nat /\ length \in S
  BY <1>1
<1>3. Min(S) \in S
  <2> HIDE DEF S
  <2> QED
    BY <1>2, MinIs
<1> QED
  BY <1>1, <1>3

\* What is cut out is a string: it ends at the first NUL.
LEMMA CutOut ==
  ASSUME SettingsInv, NEW e \in 0 .. length, NEW p \in 0 .. e
  PROVE  LET c == [contents EXCEPT ![e] = NUL] IN
         /\ c \in [0 .. length -> Letters \cup {NUL}]
         /\ c[length] = NUL
         /\ CString(c, p) \in Strings
<1> DEFINE c == [contents EXCEPT ![e] = NUL]
           S == {q \in p .. length : c[q] = NUL}
           m == Min(S)
<1>1. length \in Nat
  BY LengthIsNat
<1>2. c \in [0 .. length -> Letters \cup {NUL}] /\ c[e] = NUL /\ c[length] = NUL
  BY <1>1 DEF SettingsInv
<1> HIDE DEF c
<1>3. S \subseteq Nat /\ e \in S
  BY <1>1, <1>2
<1>4. m \in S /\ \A q \in S : m <= q
  <2> HIDE DEF S
  <2> QED
    BY <1>3, MinIs
<1>5. \A q \in p .. m - 1 : c[q] \in Letters
  BY <1>1, <1>2, <1>4
<1>6. m - p \in Nat
  BY <1>1, <1>4
<1>7. CString(c, p) = [i \in 1 .. m - p |-> c[p + i - 1]]
  BY DEF CString
<1> HIDE DEF m
<1>8. \A i \in 1 .. m - p : c[p + i - 1] \in Letters
  <2> TAKE i \in 1 .. m - p
  <2>1. p + i - 1 \in p .. m - 1
    BY <1>1, <1>4, <1>6
  <2> QED
    BY <1>5, <2>1
<1>9. CString(c, p) \in Seq(Letters)
  BY <1>6, <1>7, <1>8
<1> QED
  BY <1>2, <1>9 DEF c, Strings

-----------------------------------------------------------------------------
\* Whatever ends what a turn skips or cuts out, it is not behind the text.
LEMMA Ends ==
  ASSUME SettingsInv, NEW p \in 0 .. length
  PROVE  /\ FirstFrom(p, IsSpace) \in p .. length
         /\ FirstFrom(p, NotSpace) \in p .. length
         /\ FirstFrom(p, IsQuote) \in p .. length
         /\ FirstFrom(p, EndsMulti) \in p .. length
         /\ FirstFrom(p, EndsArgument) \in p .. length
<1> DEFINE First(E) == Min({q \in p .. length : q = length \/ q \in E})
<1>1. \A E : First(E) \in p .. length
  BY FirstIs
<1>2. /\ FirstFrom(p, IsSpace) = First({q \in p .. length : IsSpace(q)})
      /\ FirstFrom(p, NotSpace) = First({q \in p .. length : NotSpace(q)})
      /\ FirstFrom(p, IsQuote) = First({q \in p .. length : IsQuote(q)})
      /\ FirstFrom(p, EndsMulti) = First({q \in p .. length : EndsMulti(q)})
      /\ FirstFrom(p, EndsArgument) = First({q \in p .. length : EndsArgument(q)})
  <2>1. {q \in p .. length : q = length \/ IsSpace(q)}
          = {q \in p .. length : q = length \/ q \in {r \in p .. length : IsSpace(r)}}
    OBVIOUS
  <2>2. {q \in p .. length : q = length \/ NotSpace(q)}
          = {q \in p .. length : q = length \/ q \in {r \in p .. length : NotSpace(r)}}
    OBVIOUS
  <2>3. {q \in p .. length : q = length \/ IsQuote(q)}
          = {q \in p .. length : q = length \/ q \in {r \in p .. length : IsQuote(r)}}
    OBVIOUS
  <2>4. {q \in p .. length : q = length \/ EndsMulti(q)}
          = {q \in p .. length : q = length \/ q \in {r \in p .. length : EndsMulti(r)}}
    OBVIOUS
  <2>5. {q \in p .. length : q = length \/ EndsArgument(q)}
          = {q \in p .. length : q = length \/ q \in {r \in p .. length : EndsArgument(r)}}
    OBVIOUS
  <2> QED
    BY <2>1, <2>2, <2>3, <2>4, <2>5 DEF FirstFrom
<1> HIDE DEF First
<1> QED
  BY <1>1, <1>2

LEMMA SettingsInitInv == SettingsInit => SettingsInv /\ ArgumentsFit
<1> SUFFICES ASSUME SettingsInit PROVE SettingsInv /\ ArgumentsFit
  OBVIOUS
<1>1. text \in Seq(Letters) /\ length \in Nat
  BY SettingsAssumption, LenProperties DEF SettingsInit, length
<1>2. contents \in [0 .. length -> Letters \cup {NUL}] /\ contents[length] = NUL
  <2>1. \A q \in 0 .. length : q < length => text[q + 1] \in Letters
    BY <1>1 DEF length
  <2> QED
    BY <1>1, <2>1 DEF SettingsInit
<1>3. components = <<>> /\ components \in Seq(Components)
  BY DEF SettingsInit
<1>4. argSize \in Nat /\ pos \in Nat /\ pos <= length
  BY <1>1, SettingsAssumption DEF SettingsInit
<1> QED
  BY <1>1, <1>2, <1>3, <1>4 DEF SettingsInv, ArgumentsFit

\* The list of the last component, which is the only one that grows.
LEMMA NamedComponent ==
  ASSUME SettingsInv, NEW n \in Strings,
         components' = Append(components, [name |-> n, args |-> <<>>]),
         argSize' = ARG_LIST_CHUNK_SIZE
  PROVE  /\ components' \in Seq(Components)
         /\ argSize' \in Nat
         /\ ArgumentsFit'
<1> DEFINE e == [name |-> n, args |-> <<>>]
<1>1. e \in Components /\ Len(e.args) = 0
  BY DEF Components
<1>2. /\ components' \in Seq(Components)
      /\ components'[Len(components')] = e
  <2> HIDE DEF e
  <2>1. components' = Append(components, e)
    BY DEF e
  <2> QED
    BY <1>1, <2>1, AppendProperties DEF SettingsInv
<1>3. ArgCount(components'[Len(components')]) = 1
  BY <1>1, <1>2 DEF ArgCount
<1> QED
  BY <1>2, <1>3, SettingsAssumption DEF ArgumentsFit, ArgCount

LEMMA AddedArgument ==
  ASSUME SettingsInv, ArgumentsFit, components # <<>>, NEW arg \in Strings,
         AddArgument(arg)
  PROVE  /\ components' \in Seq(Components)
         /\ argSize' \in Nat
         /\ ArgumentsFit'
<1> DEFINE n == Len(components)
           e == components[n]
<1>1. /\ components \in Seq(Components)
      /\ n \in 1 .. Len(components)
      /\ argSize \in Nat
  BY EmptySeq DEF SettingsInv
<1>2. e \in Components
  BY <1>1
<1>3. /\ Append(e.args, arg) \in Seq(Strings)
      /\ Len(Append(e.args, arg)) = Len(e.args) + 1
      /\ Len(e.args) \in Nat
  <2>1. e.args \in Seq(Strings)
    BY <1>2 DEF Components
  <2> QED
    BY <2>1, AppendProperties, LenProperties
<1> DEFINE f == [e EXCEPT !.args = Append(e.args, arg)]
<1>4. f \in Components /\ f.args = Append(e.args, arg)
  BY <1>2, <1>3 DEF Components
<1>9. components' = [components EXCEPT ![n] = f]
  BY DEF AddArgument
<1>10. /\ components' \in Seq(Components)
       /\ Len(components') = n
       /\ components'[n].args = Append(e.args, arg)
  <2> HIDE DEF f, e
  <2> QED
    BY <1>1, <1>4, <1>9
<1>5. argSize' = IF ArgCount(e) = argSize
                 THEN argSize + ARG_LIST_CHUNK_SIZE ELSE argSize
  BY DEF AddArgument
<1>6. ArgCount(e) <= argSize /\ ArgCount(e) = Len(e.args) + 1
  BY DEF ArgumentsFit, ArgCount
<1>7. ArgCount(components'[Len(components')]) = Len(e.args) + 2
  BY <1>3, <1>10 DEF ArgCount
<1> HIDE DEF n, e
<1>8. argSize' \in Nat /\ Len(e.args) + 2 <= argSize'
  BY <1>1, <1>3, <1>5, <1>6, SettingsAssumption
<1> QED
  BY <1>7, <1>8, <1>10 DEF ArgumentsFit, ArgCount

\* What a turn leaves behind, other than the list of components.
LEMMA Went ==
  ASSUME SettingsInv, NEW p \in Nat, GoTo(p), text' = text,
         contents' \in [0 .. length -> Letters \cup {NUL}],
         contents'[length] = NUL,
         components' \in Seq(Components), argSize' \in Nat
  PROVE  SettingsInv'
<1>0. length' = length /\ length \in Nat
  BY LengthIsNat DEF length
<1>1. pos' = p /\ (~done' => pos' <= length')
  BY <1>0 DEF GoTo
<1> QED
  BY <1>0, <1>1 DEF SettingsInv

\* Every turn keeps to the lists.
LEMMA SettingsStep ==
  SettingsInv /\ ArgumentsFit /\ [SettingsNext]_settingsVars
    => SettingsInv' /\ ArgumentsFit'
<1> SUFFICES ASSUME SettingsInv, ArgumentsFit, [SettingsNext]_settingsVars
             PROVE  SettingsInv' /\ ArgumentsFit'
  OBVIOUS
<1>0. length \in Nat /\ (~done => pos \in 0 .. length)
  BY LengthIsNat DEF SettingsInv
<1>1. ASSUME NEW p \in Nat, GoTo(p), UNCHANGED <<text, contents, components, argSize>>
      PROVE  SettingsInv' /\ ArgumentsFit'
  <2>1. SettingsInv'
    BY <1>1, Went DEF SettingsInv
  <2> QED
    BY <1>1, <2>1 DEF ArgumentsFit
<1>2. CASE SkipLine
  <2> DEFINE S == {q \in pos .. length : q = length \/ contents[q] = "\n"}
  <2>1. GoTo(Min(S)) /\ UNCHANGED <<text, contents, components, argSize>>
    BY <1>2 DEF SkipLine, FirstFrom, IsNewline
  <2>2. S \subseteq Nat /\ length \in S
    BY <1>0, <1>2 DEF SkipLine
  <2>3. Min(S) \in Nat
    <3> HIDE DEF S
    <3> QED
      BY <2>2, MinIs
  <2> HIDE DEF S
  <2> QED
    BY <1>1, <2>1, <2>3
<1>3. CASE SkipMulti
  <2>1. FirstFrom(pos, EndsMulti) \in Nat
    BY <1>0, <1>3, Ends DEF SkipMulti
  <2> QED
    BY <1>1, <1>3, <2>1 DEF SkipMulti
<1>4. CASE Slash
  BY <1>0, <1>1, <1>4 DEF Slash, SettingsInv, ArgumentsFit, ArgCount, length
<1>5. CASE OnlySpaces \/ NoComponent
  <2>1. AtWord => Start \in 0 .. length
    BY <1>0, Ends DEF AtWord, Start
  <2>2. pos' \in Nat /\ done' /\ UNCHANGED <<text, contents, components, argSize>>
    BY <1>0, <1>5, <2>1 DEF OnlySpaces, NoComponent
  <2> QED
    BY <1>0, <2>2 DEF SettingsInv, ArgumentsFit, length
<1>6. CASE Name
  <2> DEFINE end == FirstFrom(Start + 2, IsSpace)
  <2>1. Start \in 0 .. length /\ Start < length /\ Start + 2 \in 0 .. length
    <3>1. Start \in 0 .. length /\ Start < length
      BY SMTT(30), <1>0, <1>6, Ends DEF AtWord, Start, Name
    <3>2. contents[Start + 1] # NUL
      BY <1>6 DEF Name, AtName, NUL
    <3>3. Start + 1 # length
      BY <3>2 DEF SettingsInv
    <3> QED
      BY <1>0, <3>1, <3>3
  <2>2. end \in Start + 2 .. length
    BY <2>1, Ends
  <2> HIDE DEF end
  <2>3. CASE end = length
    <3>1. pos' = length /\ done' /\ UNCHANGED <<text, contents, components, argSize>>
      BY <1>6, <2>3 DEF Name, end
    <3> QED
      BY <1>0, <3>1 DEF SettingsInv, ArgumentsFit, length
  <2>4. CASE end # length
    <3> DEFINE c == [contents EXCEPT ![end] = NUL]
               n == CString(c, Start + 2)
    <3>1. /\ contents' = c
          /\ components' = Append(components, [name |-> CString(contents', Start + 2),
                                               args |-> <<>>])
          /\ argSize' = ARG_LIST_CHUNK_SIZE
          /\ GoTo(end + 1)
          /\ text' = text
      BY <1>6, <2>4 DEF Name, end
    <3>2. /\ c \in [0 .. length -> Letters \cup {NUL}]
          /\ c[length] = NUL
          /\ n \in Strings
      <4>1. end \in 0 .. length /\ Start + 2 \in 0 .. end
        BY <1>0, <2>1, <2>2
      <4> QED
        BY <4>1, CutOut
    <3> HIDE DEF c
    <3>3. components' = Append(components, [name |-> n, args |-> <<>>])
      BY <3>1
    <3> HIDE DEF n
    <3>4. /\ components' \in Seq(Components)
          /\ argSize' \in Nat
          /\ ArgumentsFit'
      BY <3>1, <3>2, <3>3, NamedComponent
    <3>5. end + 1 \in Nat
      BY <1>0, <2>1, <2>2
    <3> QED
      BY <3>1, <3>2, <3>4, <3>5, Went
  <2> QED
    BY <2>3, <2>4
<1>7. CASE Argument
  <2> DEFINE quoted == IsQuote(Start)
             from == IF quoted THEN Start + 1 ELSE Start
             end == IF quoted THEN FirstFrom(from, IsQuote)
                    ELSE FirstFrom(from, EndsArgument)
             opens == ~quoted /\ end < length /\ ~IsSpace(end)
  <2>1. from \in 0 .. length
    <3>1. ~done /\ Start < length
      BY <1>7 DEF AtWord, Argument
    <3>2. Start \in 0 .. length
      BY <1>0, <3>1, Ends DEF Start
    <3> QED
      BY <1>0, <3>1, <3>2
  <2>2. end \in from .. length
    BY <2>1, Ends
  <2> HIDE DEF quoted, from
  <2>3. /\ GoTo(IF opens THEN end + 2 ELSE end + 1)
        /\ text' = text
        /\ components # <<>>
        /\ IF from = end
           THEN UNCHANGED <<contents, components, argSize>>
           ELSE /\ contents' = [contents EXCEPT ![end] = NUL]
                /\ AddArgument(CString(contents', from))
    BY <1>7 DEF Argument, quoted, from
  <2> HIDE DEF end, opens
  <2>4. (IF opens THEN end + 2 ELSE end + 1) \in Nat /\ end \in Nat
    BY <1>0, <2>1, <2>2
  <2>5. CASE from = end
    <3>1. UNCHANGED <<text, contents, components, argSize>>
      BY <2>3, <2>5
    <3> HIDE DEF opens
    <3> QED
      BY <1>1, <2>3, <2>4, <3>1
  <2>6. CASE from # end
    <3> DEFINE c == [contents EXCEPT ![end] = NUL]
    <3>1. contents' = c /\ AddArgument(CString(contents', from))
      BY <2>3, <2>6
    <3>2. /\ c \in [0 .. length -> Letters \cup {NUL}]
          /\ c[length] = NUL
          /\ CString(c, from) \in Strings
      <4>1. end \in 0 .. length /\ from \in 0 .. end
        BY <1>0, <2>1, <2>2
      <4> QED
        BY <4>1, CutOut
    <3> HIDE DEF c
    <3>3. AddArgument(CString(c, from))
      BY <3>1
    <3>4. /\ components' \in Seq(Components)
          /\ argSize' \in Nat
          /\ ArgumentsFit'
      BY <2>3, <3>2, <3>3, AddedArgument
    <3> QED
      BY <2>3, <2>4, <3>1, <3>2, <3>4, Went
  <2> QED
    BY <2>5, <2>6
<1>8. CASE UNCHANGED settingsVars
  BY <1>8 DEF settingsVars, SettingsInv, ArgumentsFit, ArgCount, length
<1> QED
  BY <1>2, <1>3, <1>4, <1>5, <1>6, <1>7, <1>8 DEF SettingsNext, Returned

\* The room for a component's arguments is never overrun.
THEOREM ListsHaveRoom == SettingsSpec => []ArgumentsFit
  BY SettingsInitInv, SettingsStep, PTL DEF SettingsSpec

-----------------------------------------------------------------------------
(***************************************************************************)
(* What a word, a quotation or a comment ends at, in the text and in contents. *)
(***************************************************************************)

Recs == [kind : {"name", "arg"}, word : Strings]

\* m is the first of the positions E from p on, or the one behind the last.
Stops(m, p, last, E) ==
    /\ m \in p .. last + 1
    /\ \A q \in p .. m - 1 : q \notin E
    /\ m <= last => m \in E

\* There is one such position.
LEMMA StopsOnce ==
  ASSUME NEW p \in Nat, NEW last \in Int, p <= last + 1, NEW E,
         NEW m, NEW n, Stops(m, p, last, E), Stops(n, p, last, E)
  PROVE  m = n
<1>1. m \in p .. last + 1 /\ n \in p .. last + 1
  BY DEF Stops
<1>2. ~(m < n)
  BY <1>1 DEF Stops
<1>3. ~(n < m)
  BY <1>1 DEF Stops
<1> QED
  BY <1>1, <1>2, <1>3

LEMMA StopIs ==
  ASSUME NEW p \in Nat, NEW last \in Int, p <= last + 1, NEW E
  PROVE  Stops(Min({q \in p .. last + 1 : q > last \/ q \in E}), p, last, E)
<1> DEFINE S == {q \in p .. last + 1 : q > last \/ q \in E}
           m == Min(S)
<1>1. S \subseteq Nat /\ last + 1 \in S
  OBVIOUS
<1>2. m \in S /\ \A q \in S : m <= q
  <2> HIDE DEF S
  <2> QED
    BY <1>1, MinIs
<1> HIDE DEF m
<1>3. Stops(m, p, last, E)
  BY <1>2 DEF Stops
<1> QED
  BY <1>3 DEF m

-----------------------------------------------------------------------------
\* The kinds of places in the text that something ends at.
SpaceAt == {q \in 1 .. length : Space(q)}
NewlineAt == {q \in 1 .. length : Newline(q)}
QuoteAt == {q \in 1 .. length : Quote(q)}
ClosesAt == {q \in 1 .. length : Closes(q)}
EndsWordAt == {q \in 1 .. length : EndsWord(q)}
HaltsAt == {q \in 1 .. length : text[q] = "*" \/ (q < length /\ text[q + 1] = "/")}

LEMMA TextStops ==
  ASSUME length \in Nat, NEW p \in 1 .. length + 1
  PROVE  /\ Stops(TextFrom(p, Space), p, length, SpaceAt)
         /\ Stops(TextFrom(p, Newline), p, length, NewlineAt)
         /\ Stops(TextFrom(p, Quote), p, length, QuoteAt)
         /\ Stops(TextFrom(p, Closes), p, length, ClosesAt)
         /\ Stops(TextFrom(p, EndsWord), p, length, EndsWordAt)
<1> DEFINE First(E) == Min({q \in p .. length + 1 : q > length \/ q \in E})
<1>1. \A E : Stops(First(E), p, length, E)
  BY StopIs
<1>2. /\ TextFrom(p, Space) = First(SpaceAt)
      /\ TextFrom(p, Newline) = First(NewlineAt)
      /\ TextFrom(p, Quote) = First(QuoteAt)
      /\ TextFrom(p, Closes) = First(ClosesAt)
      /\ TextFrom(p, EndsWord) = First(EndsWordAt)
  <2>1. {q \in p .. length + 1 : q > length \/ Space(q)}
          = {q \in p .. length + 1 : q > length \/ q \in SpaceAt}
    BY DEF SpaceAt
  <2>2. {q \in p .. length + 1 : q > length \/ Newline(q)}
          = {q \in p .. length + 1 : q > length \/ q \in NewlineAt}
    BY DEF NewlineAt
  <2>3. {q \in p .. length + 1 : q > length \/ Quote(q)}
          = {q \in p .. length + 1 : q > length \/ q \in QuoteAt}
    BY DEF QuoteAt
  <2>4. {q \in p .. length + 1 : q > length \/ Closes(q)}
          = {q \in p .. length + 1 : q > length \/ q \in ClosesAt}
    BY DEF ClosesAt
  <2>5. {q \in p .. length + 1 : q > length \/ EndsWord(q)}
          = {q \in p .. length + 1 : q > length \/ q \in EndsWordAt}
    BY DEF EndsWordAt
  <2> QED
    BY <2>1, <2>2, <2>3, <2>4, <2>5 DEF TextFrom
<1> HIDE DEF First
<1> QED
  BY <1>1, <1>2

\* What a word or a turn of the reader ends at, in the code's positions.
IsSpaceAt == {q \in 0 .. length : IsSpace(q)}
NotSpaceAt == {q \in 0 .. length : NotSpace(q)}
IsNewlineAt == {q \in 0 .. length : IsNewline(q)}
IsQuoteAt == {q \in 0 .. length : IsQuote(q)}
EndsMultiAt == {q \in 0 .. length : EndsMulti(q)}
EndsArgumentAt == {q \in 0 .. length : EndsArgument(q)}

LEMMA ContentsStop ==
  ASSUME length \in Nat, NEW p \in 0 .. length
  PROVE  /\ Stops(FirstFrom(p, IsSpace), p, length - 1, IsSpaceAt)
         /\ Stops(FirstFrom(p, NotSpace), p, length - 1, NotSpaceAt)
         /\ Stops(FirstFrom(p, IsNewline), p, length - 1, IsNewlineAt)
         /\ Stops(FirstFrom(p, IsQuote), p, length - 1, IsQuoteAt)
         /\ Stops(FirstFrom(p, EndsMulti), p, length - 1, EndsMultiAt)
         /\ Stops(FirstFrom(p, EndsArgument), p, length - 1, EndsArgumentAt)
<1> DEFINE First(E) == Min({q \in p .. (length - 1) + 1 : q > length - 1 \/ q \in E})
<1>1. \A E : Stops(First(E), p, length - 1, E)
  BY StopIs
<1>2. /\ FirstFrom(p, IsSpace) = First(IsSpaceAt)
      /\ FirstFrom(p, NotSpace) = First(NotSpaceAt)
      /\ FirstFrom(p, IsNewline) = First(IsNewlineAt)
      /\ FirstFrom(p, IsQuote) = First(IsQuoteAt)
      /\ FirstFrom(p, EndsMulti) = First(EndsMultiAt)
      /\ FirstFrom(p, EndsArgument) = First(EndsArgumentAt)
  <2>1. {q \in p .. length : q = length \/ IsSpace(q)}
          = {q \in p .. (length - 1) + 1 : q > length - 1 \/ q \in IsSpaceAt}
    BY DEF IsSpaceAt
  <2>2. {q \in p .. length : q = length \/ NotSpace(q)}
          = {q \in p .. (length - 1) + 1 : q > length - 1 \/ q \in NotSpaceAt}
    BY DEF NotSpaceAt
  <2>3. {q \in p .. length : q = length \/ IsNewline(q)}
          = {q \in p .. (length - 1) + 1 : q > length - 1 \/ q \in IsNewlineAt}
    BY DEF IsNewlineAt
  <2>4. {q \in p .. length : q = length \/ IsQuote(q)}
          = {q \in p .. (length - 1) + 1 : q > length - 1 \/ q \in IsQuoteAt}
    BY DEF IsQuoteAt
  <2>5. {q \in p .. length : q = length \/ EndsMulti(q)}
          = {q \in p .. (length - 1) + 1 : q > length - 1 \/ q \in EndsMultiAt}
    BY DEF EndsMultiAt
  <2>6. {q \in p .. length : q = length \/ EndsArgument(q)}
          = {q \in p .. (length - 1) + 1 : q > length - 1 \/ q \in EndsArgumentAt}
    BY DEF EndsArgumentAt
  <2> QED
    BY <2>1, <2>2, <2>3, <2>4, <2>5, <2>6 DEF FirstFrom
<1> HIDE DEF First
<1> QED
  BY <1>1, <1>2

-----------------------------------------------------------------------------
(***************************************************************************)
(* The words of a text: WordsFrom is defined from the end of the text backwards. *)
(***************************************************************************)

\* A definition by recursion over positions, each of which goes on behind itself.
Follows(f, p, L, found, next) ==
    f[p] = IF p > L THEN <<>> ELSE found[p] \o f[next[p]]

GoesOn(L, N, next) == next \in [1 .. L -> 1 .. N] /\ \A p \in 1 .. L : p < next[p]

LEMMA WrittenBackwards ==
  ASSUME NEW N \in Nat, NEW L \in Nat, L <= N, NEW S,
         NEW found \in [1 .. L -> Seq(S)], NEW next, GoesOn(L, N, next)
  PROVE  \E f \in [1 .. N -> Seq(S)] : \A p \in 1 .. N : Follows(f, p, L, found, next)
<1> DEFINE From(k) == \E f \in [1 .. N -> Seq(S)] :
                         \A p \in N - k + 1 .. N : Follows(f, p, L, found, next)
           G == {k \in 0 .. N : From(k)}
<1>1. 0 \in G
  <2> DEFINE f == [p \in 1 .. N |-> <<>>]
  <2>1. f \in [1 .. N -> Seq(S)]
    OBVIOUS
  <2>2. N - 0 + 1 .. N = {}
    OBVIOUS
  <2> HIDE DEF f
  <2> QED
    BY <2>1, <2>2
<1>2. ASSUME NEW k \in 1 .. N, k - 1 \in G PROVE k \in G
  <2>1. From(k - 1)
    BY <1>2
  <2>2. PICK f \in [1 .. N -> Seq(S)] :
            \A p \in N - (k - 1) + 1 .. N : Follows(f, p, L, found, next)
    BY <2>1
  <2> DEFINE x == N - k + 1
             v == IF x > L THEN <<>> ELSE found[x] \o f[next[x]]
             g == [f EXCEPT ![x] = v]
  <2>3. x \in 1 .. N
    OBVIOUS
  <2>4. v \in Seq(S)
    <3>1. CASE x > L
      BY <3>1
    <3>2. CASE ~(x > L)
      <4>1. x \in 1 .. L
        BY <2>3, <3>2
      <4>2. found[x] \in Seq(S) /\ f[next[x]] \in Seq(S)
        BY <4>1 DEF GoesOn
      <4> HIDE DEF x
      <4>3. found[x] \o f[next[x]] \in Seq(S)
        BY <4>2
      <4> QED
        BY <4>3, <3>2
    <3> QED
      BY <3>1, <3>2
  <2> HIDE DEF v
  <2>5. g \in [1 .. N -> Seq(S)] /\ g[x] = v
    BY <2>3, <2>4
  <2>6. \A p \in 1 .. N : p # x => g[p] = f[p]
    BY <2>3
  <2> HIDE DEF g
  <2>7. ASSUME NEW p \in x .. N PROVE Follows(g, p, L, found, next)
    <3>1. CASE p > L
      <4>1. CASE p = x
        BY <3>1, <4>1, <2>5 DEF Follows, v
      <4>2. CASE p # x
        <5>1. p \in N - (k - 1) + 1 .. N /\ p \in 1 .. N
          BY <4>2, <2>7
        <5>2. Follows(f, p, L, found, next)
          BY <5>1, <2>2
        <5> QED
          BY <3>1, <4>2, <5>1, <5>2, <2>6 DEF Follows
      <4> QED
        BY <4>1, <4>2
    <3>2. CASE ~(p > L)
      <4>1. p \in 1 .. L /\ next[p] \in 1 .. N /\ p < next[p]
        BY <3>2, <2>3, <2>7 DEF GoesOn
      <4>2. g[next[p]] = f[next[p]]
        BY <4>1, <2>6, <2>7
      <4>3. CASE p = x
        BY <3>2, <4>2, <4>3, <2>5 DEF Follows, v
      <4>4. CASE p # x
        <5>1. p \in N - (k - 1) + 1 .. N /\ p \in 1 .. N
          BY <4>4, <2>7
        <5>2. Follows(f, p, L, found, next)
          BY <5>1, <2>2
        <5> QED
          BY <3>2, <4>2, <4>4, <5>1, <5>2, <2>6 DEF Follows
      <4> QED
        BY <4>3, <4>4
    <3> QED
      BY <3>1, <3>2
  <2>8. From(k)
    BY <2>5, <2>7
  <2> HIDE DEF From
  <2> QED
    BY <2>8
<1> HIDE DEF G
<1>3. \A k \in 1 .. N : k - 1 \in G => k \in G
  BY <1>2
<1>5. \A k \in 0 .. N : k \in G
  BY <1>1, <1>3, CountingUp
<1>6. N \in G
  BY <1>5
<1>4. From(N) /\ N - N + 1 = 1
  BY <1>6 DEF G
<1> QED
  BY <1>4
-----------------------------------------------------------------------------
LEMMA TextIs ==
  ASSUME text \in Seq(Letters)
  PROVE  length \in Nat /\ \A p \in 1 .. length : text[p] \in Letters
  BY LenProperties DEF length

\* A component's name begins at p.
NameAt(p) == Pair(p, "_", "_")

\* What stands at p, by its first letter.
LEMMA StandsAt ==
  ASSUME text \in Seq(Letters), NEW p \in 1 .. length
  PROVE  /\ Space(p) => Found(p) = <<>> /\ Behind(p) = p + 1
         /\ Pair(p, "/", "/") => Found(p) = <<>> /\ Behind(p) = TextFrom(p, Newline)
         /\ Pair(p, "/", "*") => Found(p) = <<>> /\ Behind(p) = TextFrom(p + 2, Closes) + 2
         /\ Quote(p) => /\ Found(p) = Arg(p + 1, TextFrom(p + 1, Quote))
                        /\ Behind(p) = TextFrom(p + 1, Quote) + 1
         /\ NameAt(p) =>
              /\ Found(p) = Word("name", p + 2, TextFrom(p + 2, Space))
              /\ Behind(p) = TextFrom(p + 2, Space)
         /\ ~EndsWord(p) /\ ~Quote(p) /\ ~NameAt(p) =>
              /\ Found(p) = Arg(p, TextFrom(p, EndsWord))
              /\ Behind(p) = TextFrom(p, EndsWord)
<1>1. /\ Space(p) => ~Pair(p, "/", "/") /\ ~Pair(p, "/", "*") /\ ~Quote(p) /\ ~NameAt(p)
      /\ Pair(p, "/", "/") => ~Pair(p, "/", "*") /\ ~Quote(p) /\ ~NameAt(p)
      /\ Pair(p, "/", "*") => ~Quote(p) /\ ~NameAt(p)
      /\ Quote(p) => ~NameAt(p)
  BY DEF Space, Spaces, Pair, Quote, NameAt
<1> QED
  BY <1>1 DEF Found, Behind, EndsWord, Opens, NameAt

LEMMA WordIs ==
  ASSUME text \in Seq(Letters), NEW p \in 1 .. length + 1, NEW q \in p .. length + 1,
         NEW kind \in {"name", "arg"}
  PROVE  /\ SubSeq(text, p, q - 1) = [i \in 1 .. q - p |-> text[p + i - 1]]
         /\ Word(kind, p, q) \in Seq(Recs)
         /\ Arg(p, q) \in Seq(Recs)
<1>1. length \in Nat /\ length = Len(text)
  BY TextIs DEF length
<1>2. SubSeq(text, p, q - 1) \in Strings
  BY <1>1, SubSeqProperties DEF Strings
<1>3. \A k \in {"name", "arg"} : [kind |-> k, word |-> SubSeq(text, p, q - 1)] \in Recs
  BY <1>2 DEF Recs
<1>6. \A r \in Recs : <<r>> \in Seq(Recs)
  OBVIOUS
<1>4. \A k \in {"name", "arg"} : Word(k, p, q) \in Seq(Recs)
  BY <1>3, <1>6, Zenon DEF Word
<1>5. SubSeq(text, p, q - 1) = [i \in 1 .. q - p |-> text[p + i - 1]]
  <2>1. (q - 1) - p + 1 = q - p
    BY <1>1
  <2>2. SubSeq(text, p, q - 1) = [i \in 1 .. (q - 1) - p + 1 |-> text[i + p - 1]]
    OBVIOUS
  <2> QED
    BY <1>1, <2>1, <2>2
<1> QED
  BY <1>4, <1>5 DEF Arg

\* A word is one of the records, and the text goes on behind it.
LEMMA FoundIs ==
  ASSUME text \in Seq(Letters), NEW p \in 1 .. length
  PROVE  /\ Found(p) \in Seq(Recs)
         /\ Behind(p) \in p + 1 .. length + 3
<1>1. length \in Nat
  BY TextIs
<1>0. <<>> \in Seq(Recs) /\ p + 1 \in p + 1 .. length + 3
  BY <1>1
<1>2. CASE Space(p)
  <2>1. Found(p) = <<>> /\ Behind(p) = p + 1
    BY <1>2, StandsAt
  <2> QED
    BY <1>0, <2>1
<1>3. CASE Pair(p, "/", "/")
  <2>1. Stops(TextFrom(p, Newline), p, length, NewlineAt)
    BY <1>1, TextStops
  <2>2. TextFrom(p, Newline) # p
    BY <1>3, <2>1 DEF Stops, NewlineAt, Newline, Pair
  <2>3. TextFrom(p, Newline) \in p + 1 .. length + 1
    BY <1>1, <2>1, <2>2 DEF Stops
  <2>4. Found(p) = <<>> /\ Behind(p) = TextFrom(p, Newline)
    BY <1>3, StandsAt
  <2> QED
    BY <1>0, <1>1, <2>3, <2>4
<1>4. CASE Pair(p, "/", "*")
  <2>0. p < length
    BY <1>4 DEF Pair
  <2>1. p + 2 \in 1 .. length + 1
    BY <1>1, <2>0
  <2>2. TextFrom(p + 2, Closes) \in p + 2 .. length + 1
    BY <1>1, <2>1, TextStops DEF Stops
  <2>4. Found(p) = <<>> /\ Behind(p) = TextFrom(p + 2, Closes) + 2
    BY <1>4, StandsAt
  <2> QED
    BY <1>0, <1>1, <2>2, <2>4
<1>5. CASE Quote(p)
  <2>1. p + 1 \in 1 .. length + 1
    BY <1>1
  <2>2. TextFrom(p + 1, Quote) \in p + 1 .. length + 1
    BY <1>1, <2>1, TextStops DEF Stops
  <2>3. Arg(p + 1, TextFrom(p + 1, Quote)) \in Seq(Recs)
    BY <2>1, <2>2, WordIs
  <2>4. /\ Found(p) = Arg(p + 1, TextFrom(p + 1, Quote))
        /\ Behind(p) = TextFrom(p + 1, Quote) + 1
    BY <1>5, StandsAt
  <2> QED
    BY <1>1, <2>2, <2>3, <2>4
<1>6. CASE NameAt(p)
  <2>0. p < length
    BY <1>6 DEF Pair, NameAt
  <2>1. p + 2 \in 1 .. length + 1
    BY <1>1, <2>0
  <2>2. TextFrom(p + 2, Space) \in p + 2 .. length + 1
    BY <1>1, <2>1, TextStops DEF Stops
  <2>3. Word("name", p + 2, TextFrom(p + 2, Space)) \in Seq(Recs)
    BY <2>1, <2>2, WordIs
  <2>4. /\ Found(p) = Word("name", p + 2, TextFrom(p + 2, Space))
        /\ Behind(p) = TextFrom(p + 2, Space)
    BY <1>6, StandsAt
  <2>6. \A q \in p + 2 .. length + 1 : q \in p + 1 .. length + 3
    BY <1>1
  <2> QED
    BY <2>2, <2>3, <2>4, <2>6, Zenon
<1>7. CASE ~EndsWord(p) /\ ~Quote(p) /\ ~NameAt(p)
  <2>1. Stops(TextFrom(p, EndsWord), p, length, EndsWordAt)
    BY <1>1, TextStops
  <2>0. p \notin EndsWordAt
    BY <1>7, Zenon DEF EndsWordAt
  <2>2. TextFrom(p, EndsWord) # p
    BY <1>1, <2>0, <2>1 DEF Stops
  <2>3. TextFrom(p, EndsWord) \in p + 1 .. length + 1
    BY <1>1, <2>1, <2>2 DEF Stops
  <2>4. Arg(p, TextFrom(p, EndsWord)) \in Seq(Recs)
    BY <1>1, <2>3, WordIs
  <2>5. Found(p) = Arg(p, TextFrom(p, EndsWord)) /\ Behind(p) = TextFrom(p, EndsWord)
    BY <1>7, StandsAt
  <2> QED
    BY <1>1, <2>3, <2>4, <2>5
<1> QED
  BY <1>2, <1>3, <1>4, <1>5, <1>6, <1>7 DEF EndsWord, Opens

\* The words from p on: the one at p, and those behind it.
LEMMA WordsFromIs ==
  ASSUME text \in Seq(Letters)
  PROVE  /\ WordsFrom \in [1 .. length + 3 -> Seq(Recs)]
         /\ \A p \in 1 .. length + 3 :
              WordsFrom[p] = IF p > length THEN <<>> ELSE Found(p) \o WordsFrom[Behind(p)]
<1> DEFINE N == length + 3
           found == [p \in 1 .. length |-> Found(p)]
           next == [p \in 1 .. length |-> Behind(p)]
           F(f) == [p \in 1 .. length + 3 |->
                      IF p > length THEN <<>> ELSE Found(p) \o f[Behind(p)]]
<1>1. length \in Nat /\ N \in Nat /\ length <= N
  BY TextIs
<1>2. \A p \in 1 .. length : Found(p) \in Seq(Recs) /\ Behind(p) \in p + 1 .. length + 3
  BY FoundIs
<1>3. found \in [1 .. length -> Seq(Recs)]
  BY <1>2
<1>4. GoesOn(length, N, next)
  BY <1>1, <1>2 DEF GoesOn
<1>5. PICK f \in [1 .. N -> Seq(Recs)] :
          \A p \in 1 .. N : Follows(f, p, length, found, next)
  <2> HIDE DEF found, next, N
  <2> QED
    BY <1>1, <1>3, <1>4, WrittenBackwards
<1>6. F(f) = f
  <2>1. \A p \in 1 .. N : f[p] = IF p > length THEN <<>> ELSE Found(p) \o f[Behind(p)]
    <3> TAKE p \in 1 .. N
    <3>1. Follows(f, p, length, found, next)
      BY <1>5
    <3>2. CASE p > length
      BY <3>1, <3>2 DEF Follows
    <3>3. CASE ~(p > length)
      <4>1. found[p] = Found(p) /\ next[p] = Behind(p)
        BY <1>1, <3>3
      <4> QED
        BY <3>1, <3>3, <4>1 DEF Follows
    <3> QED
      BY <3>2, <3>3
  <2> QED
    BY <2>1
<1>7. WordsFrom = CHOOSE h : h = F(h)
  BY DEF WordsFrom
<1> HIDE DEF F
<1>8. F(WordsFrom) = WordsFrom
  BY <1>6, <1>7
<1>9. \A p \in 1 .. length + 3 :
          WordsFrom[p] = IF p > length THEN <<>> ELSE Found(p) \o WordsFrom[Behind(p)]
  BY <1>8 DEF F
<1>10. DOMAIN WordsFrom = 1 .. length + 3
  BY <1>8 DEF F
<1>11. \A p \in 1 .. length + 3 : WordsFrom[p] \in Seq(Recs)
  <2> DEFINE G == {k \in 0 .. N - 1 : \A p \in N - k .. N : WordsFrom[p] \in Seq(Recs)}
  <2>1. 0 \in G
    <3>1. WordsFrom[N] = <<>>
      BY <1>1, <1>9
    <3>2. \A p \in N - 0 .. N : p = N
      BY <1>1
    <3>3. \A p \in N - 0 .. N : WordsFrom[p] = <<>>
      BY <3>1, <3>2
    <3>4. 0 \in 0 .. N - 1 /\ <<>> \in Seq(Recs)
      BY <1>1
    <3> HIDE DEF N
    <3>5. \A p \in N - 0 .. N : WordsFrom[p] \in Seq(Recs)
      BY <3>3, <3>4, Zenon
    <3> QED
      BY <3>4, <3>5, Zenon
  <2>2. ASSUME NEW k \in 1 .. N - 1, k - 1 \in G PROVE k \in G
    <3>1. \A p \in N - k + 1 .. N : WordsFrom[p] \in Seq(Recs)
      BY <1>1, <2>2
    <3> DEFINE x == N - k
    <3>2. x \in 1 .. N
      BY <1>1
    <3>3. WordsFrom[x] \in Seq(Recs)
      <4>1. CASE x > length
        <5>1. WordsFrom[x] = <<>>
          BY <1>9, <3>2, <4>1
        <5> QED
          BY <5>1
      <4>2. CASE ~(x > length)
        <5>1. x \in 1 .. length
          BY <1>1, <3>2, <4>2
        <5> HIDE DEF x
        <5>2. WordsFrom[x] = Found(x) \o WordsFrom[Behind(x)]
          BY <1>9, <3>2, <4>2
        <5>3. Found(x) \in Seq(Recs) /\ Behind(x) \in x + 1 .. N
          BY <1>2, <5>1
        <5>4. WordsFrom[Behind(x)] \in Seq(Recs)
          BY <1>1, <3>1, <3>2, <5>3 DEF x
        <5> QED
          BY <5>2, <5>3, <5>4
      <4> QED
        BY <4>1, <4>2
    <3>5. \A p \in x .. N : p = x \/ p \in N - k + 1 .. N
      BY <1>1
    <3>4. \A p \in x .. N : WordsFrom[p] \in Seq(Recs)
      BY <3>1, <3>3, <3>5, Zenon
    <3> QED
      BY <3>4
  <2>3. \A k \in 1 .. N - 1 : k - 1 \in G => k \in G
    BY <2>2
  <2>4. N - 1 \in Nat
    BY <1>1
  <2> HIDE DEF G
  <2>5. \A k \in 0 .. N - 1 : k \in G
    BY <2>1, <2>3, <2>4, CountingUp
  <2>6. N - 1 \in G /\ N - (N - 1) = 1
    BY <1>1, <2>5
  <2> QED
    BY <2>6 DEF G
<1>12. WordsFrom = [p \in 1 .. length + 3 |-> WordsFrom[p]]
  BY <1>8 DEF F
<1> QED
  BY <1>9, <1>11, <1>12

\* The words are those of the file, whatever the reader does to contents.
LEMMA WordsKept == ASSUME text' = text PROVE WordsFrom' = WordsFrom
  BY DEF WordsFrom, length, Found, Behind, Arg, Word, TextFrom, EndsWord, Space,
         Opens, Pair, Newline, Quote, Closes, Min

-----------------------------------------------------------------------------
(***************************************************************************)
(* Where contents has not been cut up, the reader sees the text.           *)
(***************************************************************************)

\* The text from p on, in the code's positions, has not been cut up yet.
Uncut(c, p) == \A q \in p .. length - 1 : c[q] = text[q + 1]

Shifted(p, E, F) == \A q \in p .. length - 1 : q \in E <=> q + 1 \in F

LEMMA ShiftedStop ==
  ASSUME length \in Nat, NEW p \in 0 .. length, NEW E, NEW F, Shifted(p, E, F),
         NEW m, Stops(m, p, length - 1, E), NEW n, Stops(n, p + 1, length, F)
  PROVE  n = m + 1
<1>1. m \in p .. length
  BY DEF Stops
<1>2. \A q \in p + 1 .. m : q \notin F
  <2> TAKE q \in p + 1 .. m
  <2> DEFINE r == q - 1
  <2>1. r \in p .. m - 1 /\ r \in p .. length - 1 /\ r + 1 = q
    BY <1>1
  <2>2. r \notin E
    BY <2>1 DEF Stops
  <2> HIDE DEF r
  <2>3. r + 1 \notin F
    BY <2>1, <2>2 DEF Shifted
  <2> QED
    BY <2>1, <2>3
<1>3. m + 1 <= length => m + 1 \in F
  <2> SUFFICES ASSUME m + 1 <= length PROVE m + 1 \in F
    OBVIOUS
  <2>1. m \in p .. length - 1
    BY <1>1
  <2>2. m \in E
    BY <1>1, <2>1 DEF Stops
  <2> QED
    BY <2>1, <2>2 DEF Shifted
<1>4. m + 1 \in p + 1 .. length + 1 /\ (m + 1) - 1 = m
  BY <1>1
<1>5. Stops(m + 1, p + 1, length, F)
  BY <1>2, <1>3, <1>4 DEF Stops
<1>6. p + 1 \in Nat /\ p + 1 <= length + 1 /\ length \in Int
  OBVIOUS
<1> DEFINE k == m + 1
           r == p + 1
<1>7. Stops(k, r, length, F) /\ Stops(n, r, length, F) /\ r \in Nat /\ r <= length + 1
  BY <1>5, <1>6
<1> HIDE DEF k, r
<1>8. k = n
  BY <1>6, <1>7, StopsOnce
<1> QED
  BY <1>8 DEF k

\* Where the text is not cut up, the reader sees what it is.
LEMMA SeesText ==
  ASSUME SettingsInv, NEW p \in 0 .. length, Uncut(contents, p),
         NEW q \in p .. length - 1
  PROVE  /\ contents[q] = text[q + 1]
         /\ contents[q + 1] = IF q + 1 < length THEN text[q + 2] ELSE NUL
         /\ IsSpace(q) <=> Space(q + 1)
         /\ NotSpace(q) <=> ~Space(q + 1)
         /\ IsNewline(q) <=> Newline(q + 1)
         /\ IsQuote(q) <=> Quote(q + 1)
         /\ OpensLine(q) <=> Pair(q + 1, "/", "/")
         /\ OpensMulti(q) <=> Pair(q + 1, "/", "*")
         /\ (contents[q] = "_" /\ contents[q + 1] = "_") <=> NameAt(q + 1)
         /\ EndsArgument(q) <=> EndsWord(q + 1)
<1>1. length \in Nat
  BY LengthIsNat
<1>2. contents[q] = text[q + 1]
  BY DEF Uncut
<1>3. contents[q + 1] = IF q + 1 < length THEN text[q + 2] ELSE NUL
  <2>1. CASE q + 1 < length
    <3> DEFINE r == q + 1
    <3>1. r \in p .. length - 1 /\ r + 1 = q + 2
      BY <1>1, <2>1
    <3> HIDE DEF r
    <3>2. contents[r] = text[q + 2]
      BY <3>1 DEF Uncut
    <3> QED
      BY <2>1, <3>2 DEF r
  <2>2. CASE ~(q + 1 < length)
    <3>1. q + 1 = length
      BY <1>1, <2>2
    <3> QED
      BY <2>2, <3>1 DEF SettingsInv
  <2> QED
    BY <2>1, <2>2
<1>4. \A a, b \in Letters :
         (contents[q] = a /\ contents[q + 1] = b) <=> Pair(q + 1, a, b)
  <2> TAKE a, b \in Letters
  <2>1. b # NUL
    BY DEF Letters, Spaces, NUL
  <2>2. CASE q + 1 < length
    <3>1. (q + 1) + 1 = q + 2
      OBVIOUS
    <3> QED
      BY <1>2, <1>3, <2>2, <3>1 DEF Pair
  <2>3. CASE ~(q + 1 < length)
    BY <1>3, <2>1, <2>3 DEF Pair
  <2> QED
    BY <2>2, <2>3
<1>5. "/" \in Letters /\ "*" \in Letters /\ "_" \in Letters
  BY DEF Letters
<1>6. /\ OpensLine(q) <=> Pair(q + 1, "/", "/")
      /\ OpensMulti(q) <=> Pair(q + 1, "/", "*")
      /\ (contents[q] = "_" /\ contents[q + 1] = "_") <=> NameAt(q + 1)
  BY <1>4, <1>5 DEF OpensLine, OpensMulti, NameAt
<1>7. /\ IsSpace(q) <=> Space(q + 1)
      /\ NotSpace(q) <=> ~Space(q + 1)
      /\ IsNewline(q) <=> Newline(q + 1)
      /\ IsQuote(q) <=> Quote(q + 1)
  BY <1>2 DEF IsSpace, NotSpace, IsNewline, IsQuote, Space, Newline, Quote
<1>8. EndsArgument(q) <=> EndsWord(q + 1)
  BY <1>6, <1>7 DEF EndsArgument, EndsWord, Opens
<1> QED
  BY <1>2, <1>3, <1>6, <1>7, <1>8

\* What ends a word, a quotation or a line ends it for the text, too.
LEMMA EndsTogether ==
  ASSUME SettingsInv, NEW p \in 0 .. length, Uncut(contents, p)
  PROVE  /\ TextFrom(p + 1, Space) = FirstFrom(p, IsSpace) + 1
         /\ TextFrom(p + 1, Newline) = FirstFrom(p, IsNewline) + 1
         /\ TextFrom(p + 1, Quote) = FirstFrom(p, IsQuote) + 1
         /\ TextFrom(p + 1, EndsWord) = FirstFrom(p, EndsArgument) + 1
<1>1. length \in Nat /\ p + 1 \in 1 .. length + 1
  BY LengthIsNat
<1>10. \A q \in p .. length - 1 : q \in 0 .. length /\ q + 1 \in 1 .. length
  BY <1>1
<1>2. ASSUME NEW q \in p .. length - 1
      PROVE  /\ q \in 0 .. length /\ q + 1 \in 1 .. length
             /\ IsSpace(q) <=> Space(q + 1)
             /\ IsNewline(q) <=> Newline(q + 1)
             /\ IsQuote(q) <=> Quote(q + 1)
             /\ EndsArgument(q) <=> EndsWord(q + 1)
  <2>1. /\ IsSpace(q) <=> Space(q + 1)
        /\ IsNewline(q) <=> Newline(q + 1)
        /\ IsQuote(q) <=> Quote(q + 1)
        /\ EndsArgument(q) <=> EndsWord(q + 1)
    BY SeesText
  <2> QED
    BY <1>10, <2>1
<1>3. /\ Shifted(p, IsSpaceAt, SpaceAt)
      /\ Shifted(p, IsNewlineAt, NewlineAt)
      /\ Shifted(p, IsQuoteAt, QuoteAt)
      /\ Shifted(p, EndsArgumentAt, EndsWordAt)
  BY <1>2 DEF Shifted, IsSpaceAt, SpaceAt, IsNewlineAt, NewlineAt, IsQuoteAt, QuoteAt,
              EndsArgumentAt, EndsWordAt
<1>4. /\ Stops(FirstFrom(p, IsSpace), p, length - 1, IsSpaceAt)
      /\ Stops(FirstFrom(p, IsNewline), p, length - 1, IsNewlineAt)
      /\ Stops(FirstFrom(p, IsQuote), p, length - 1, IsQuoteAt)
      /\ Stops(FirstFrom(p, EndsArgument), p, length - 1, EndsArgumentAt)
  BY <1>1, ContentsStop
<1>5. /\ Stops(TextFrom(p + 1, Space), p + 1, length, SpaceAt)
      /\ Stops(TextFrom(p + 1, Newline), p + 1, length, NewlineAt)
      /\ Stops(TextFrom(p + 1, Quote), p + 1, length, QuoteAt)
      /\ Stops(TextFrom(p + 1, EndsWord), p + 1, length, EndsWordAt)
  BY <1>1, TextStops
<1>6. TextFrom(p + 1, Space) = FirstFrom(p, IsSpace) + 1
  BY <1>1, <1>3, <1>4, <1>5, ShiftedStop
<1>7. TextFrom(p + 1, Newline) = FirstFrom(p, IsNewline) + 1
  BY <1>1, <1>3, <1>4, <1>5, ShiftedStop
<1>8. TextFrom(p + 1, Quote) = FirstFrom(p, IsQuote) + 1
  BY <1>1, <1>3, <1>4, <1>5, ShiftedStop
<1>9. TextFrom(p + 1, EndsWord) = FirstFrom(p, EndsArgument) + 1
  BY <1>1, <1>3, <1>4, <1>5, ShiftedStop
<1> QED
  BY <1>6, <1>7, <1>8, <1>9

\* Leading spaces hold no words.
LEMMA SpacesHoldNothing ==
  ASSUME text \in Seq(Letters), NEW p \in 1 .. length + 1, NEW m \in p .. length + 1,
         \A q \in p .. m - 1 : Space(q)
  PROVE  WordsFrom[p] = WordsFrom[m]
<1> DEFINE N == m - p
           G == {k \in 0 .. N : WordsFrom[m - k] = WordsFrom[m]}
<1>1. length \in Nat /\ N \in Nat
  BY TextIs
<1>2. 0 \in G
  OBVIOUS
<1>3. ASSUME NEW k \in 1 .. N, k - 1 \in G PROVE k \in G
  <2> DEFINE x == m - k
  <2>1. x \in p .. m - 1 /\ x \in 1 .. length /\ x + 1 = m - (k - 1)
    BY <1>1
  <2>2. WordsFrom[x + 1] = WordsFrom[m]
    BY <1>3, <2>1
  <2> HIDE DEF x
  <2>3. Space(x)
    BY <2>1
  <2>4. Found(x) = <<>> /\ Behind(x) = x + 1
    BY <2>1, <2>3, StandsAt
  <2>9. x \in 1 .. length + 3 /\ x + 1 \in 1 .. length + 3 /\ ~(x > length)
    BY <1>1, <2>1
  <2>5. WordsFrom[x] = Found(x) \o WordsFrom[Behind(x)] /\ WordsFrom[x + 1] \in Seq(Recs)
    <3>1. WordsFrom[x] = Found(x) \o WordsFrom[Behind(x)]
      BY <2>9, WordsFromIs, Zenon
    <3>2. WordsFrom \in [1 .. length + 3 -> Seq(Recs)]
      BY WordsFromIs
    <3> QED
      BY <2>9, <3>1, <3>2, Zenon
  <2> DEFINE w == WordsFrom[x + 1]
  <2>7. w \in Seq(Recs) /\ WordsFrom[x] = <<>> \o w
    BY <2>4, <2>5
  <2> HIDE DEF w
  <2>8. <<>> \o w = w
    BY <2>7
  <2>6. WordsFrom[x] = WordsFrom[m]
    BY <2>2, <2>7, <2>8, Zenon DEF w
  <2> QED
    BY <2>6 DEF x
<1>4. \A k \in 1 .. N : k - 1 \in G => k \in G
  BY <1>3
<1> HIDE DEF G
<1>5. \A k \in 0 .. N : k \in G
  BY <1>1, <1>2, <1>4, CountingUp
<1>6. N \in G /\ m - N = p
  BY <1>1, <1>5
<1> QED
  BY <1>6 DEF G

-----------------------------------------------------------------------------
(***************************************************************************)
(* A list of words as a list of components.                                *)
(***************************************************************************)

NameRec(n) == [kind |-> "name", word |-> n]
ArgRec(a) == [kind |-> "arg", word |-> a]

\* The list ws of words is the components cs, each with its arguments behind
\* its name: component i is at place at[i].
Place(at, cs, ws, i) ==
    /\ at[i + 1] = at[i] + Len(cs[i].args) + 1
    /\ ws[at[i]] = NameRec(cs[i].name)
    /\ \A j \in 1 .. Len(cs[i].args) : ws[at[i] + j] = ArgRec(cs[i].args[j])

Places(at, cs, ws) ==
    /\ at \in [1 .. Len(cs) + 1 -> 1 .. Len(ws) + 1]
    /\ at[1] = 1
    /\ at[Len(cs) + 1] = Len(ws) + 1
    /\ \A i \in 1 .. Len(cs) : Place(at, cs, ws, i)

Lists(cs, ws) == \E at : Places(at, cs, ws)

LEMMA ListsNothing == Lists(<<>>, <<>>)
<1> DEFINE at == [i \in 1 .. 1 |-> 1]
<1>1. at \in [1 .. 0 + 1 -> 1 .. 0 + 1] /\ at[1] = 1
  OBVIOUS
<1> HIDE DEF at
<1>2. Places(at, <<>>, <<>>)
  BY <1>1 DEF Places
<1> QED
  BY <1>2 DEF Lists

\* A place is where it was when words come behind it.
LEMMA PlaceKept ==
  ASSUME NEW cs, NEW n \in Nat, Len(cs) = n, NEW ws, NEW k \in Nat, Len(ws) = k,
         NEW at, Places(at, cs, ws),
         NEW ds, NEW xs, NEW bt, NEW i \in 1 .. n,
         ds[i] = cs[i], Len(cs[i].args) \in Nat,
         \A p \in 1 .. k : xs[p] = ws[p],
         bt[i] = at[i], bt[i + 1] = at[i + 1]
  PROVE  Place(bt, ds, xs, i)
<1>1. Place(at, cs, ws, i) /\ at[i] \in 1 .. k + 1 /\ at[i + 1] \in 1 .. k + 1
  BY DEF Places
<1> DEFINE l == Len(cs[i].args)
<1>2. at[i + 1] = at[i] + l + 1
  BY <1>1 DEF Place
<1>3. at[i] \in 1 .. k /\ \A j \in 1 .. l : at[i] + j \in 1 .. k
  <2> HIDE DEF l
  <2>1. l \in Nat
    BY DEF l
  <2> DEFINE p == at[i]
             q == at[i + 1]
  <2>2. p \in 1 .. k + 1 /\ q \in 1 .. k + 1 /\ q = p + l + 1
    BY <1>1, <1>2
  <2> HIDE DEF p, q
  <2>3. p \in 1 .. k /\ \A j \in 1 .. l : p + j \in 1 .. k
    BY <2>1, <2>2
  <2> QED
    BY <2>3 DEF p
<1>4. ws[at[i]] = NameRec(cs[i].name) /\ \A j \in 1 .. l : ws[at[i] + j] = ArgRec(cs[i].args[j])
  BY <1>1 DEF Place
<1> HIDE DEF l
<1>5. xs[at[i]] = NameRec(cs[i].name)
  BY <1>3, <1>4
<1>6. \A j \in 1 .. l : xs[at[i] + j] = ArgRec(cs[i].args[j])
  <2> TAKE j \in 1 .. l
  <2>1. at[i] + j \in 1 .. k
    BY <1>3
  <2>2. xs[at[i] + j] = ws[at[i] + j]
    BY <2>1
  <2> QED
    BY <1>4, <2>2
<1> QED
  BY <1>2, <1>5, <1>6 DEF Place, l

\* A word behind the list, as the component that it begins ...
LEMMA ListsName ==
  ASSUME NEW cs \in Seq(Components), NEW ws \in Seq(Recs), Lists(cs, ws),
         NEW e \in Components, e.args = <<>>
  PROVE  Lists(Append(cs, e), ws \o <<NameRec(e.name)>>)
<1> DEFINE n == Len(cs)
           k == Len(ws)
           r == NameRec(e.name)
           ds == Append(cs, e)
           xs == ws \o <<r>>
<1>1. PICK at : Places(at, cs, ws)
  BY DEF Lists
<1>2. n \in Nat /\ k \in Nat /\ Len(e.args) = 0
  BY LenProperties
<1>3. /\ Len(ds) = n + 1 /\ ds[n + 1] = e /\ \A i \in 1 .. n : ds[i] = cs[i]
  BY AppendProperties
<1>4. /\ Len(xs) = k + 1 /\ xs[k + 1] = r /\ \A p \in 1 .. k : xs[p] = ws[p]
  <2> HIDE DEF r
  <2> QED
    BY LenProperties
<1>5. \A i \in 1 .. n : Len(cs[i].args) \in Nat
  BY LenProperties DEF Components
<1> DEFINE bt == [i \in 1 .. n + 2 |-> IF i = n + 2 THEN k + 2 ELSE at[i]]
<1>6. at \in [1 .. n + 1 -> 1 .. k + 1] /\ at[1] = 1 /\ at[n + 1] = k + 1
  BY <1>1 DEF Places
<1> HIDE DEF n, k, r, ds, xs
<1>7. /\ bt \in [1 .. n + 2 -> 1 .. k + 2] /\ bt[n + 2] = k + 2
      /\ \A i \in 1 .. n + 1 : bt[i] = at[i]
  BY <1>2, <1>6
<1> HIDE DEF bt
<1>8. ASSUME NEW i \in 1 .. n PROVE Place(bt, ds, xs, i)
  <2>1. bt[i] = at[i] /\ bt[i + 1] = at[i + 1]
    BY <1>2, <1>7
  <2>2. Len(cs) = n /\ Len(ws) = k
    BY DEF n, k
  <2>3. ds[i] = cs[i] /\ Len(cs[i].args) \in Nat
    BY <1>3, <1>5
  <2> QED
    BY <1>1, <1>2, <1>4, <2>1, <2>2, <2>3, PlaceKept
<1>9. Place(bt, ds, xs, n + 1)
  <2>1. bt[n + 1] = k + 1 /\ bt[(n + 1) + 1] = k + 2
    BY <1>2, <1>6, <1>7
  <2> DEFINE m == n + 1
  <2>2. bt[m] = k + 1 /\ bt[m + 1] = k + 2 /\ ds[m] = e
    BY <1>3, <2>1
  <2> HIDE DEF m
  <2>3. bt[m + 1] = bt[m] + Len(ds[m].args) + 1
    <3>1. Len(ds[m].args) = 0
      BY <1>2, <2>2
    <3>2. k + 2 = (k + 1) + 0 + 1
      BY <1>2
    <3> QED
      BY <2>2, <3>1, <3>2, Zenon
  <2>4. xs[bt[m]] = NameRec(ds[m].name)
    BY <1>4, <2>2 DEF r
  <2>5. \A j \in 1 .. Len(ds[m].args) : xs[bt[m] + j] = ArgRec(ds[m].args[j])
    BY <1>2, <2>2
  <2>6. Place(bt, ds, xs, m)
    BY <2>3, <2>4, <2>5 DEF Place
  <2> QED
    BY <2>6 DEF m
<1>10. \A i \in 1 .. n + 1 : Place(bt, ds, xs, i)
  <2> TAKE i \in 1 .. n + 1
  <2>1. CASE i = n + 1
    BY <1>9, <2>1
  <2>2. CASE i # n + 1
    <3>1. i \in 1 .. n
      BY <1>2, <2>2
    <3> QED
      BY <1>8, <3>1
  <2> QED
    BY <2>1, <2>2
<1>11. bt[1] = 1 /\ Len(ds) + 1 = n + 2 /\ Len(xs) + 1 = k + 2
  BY <1>2, <1>3, <1>4, <1>6, <1>7
<1>12. Places(bt, ds, xs)
  BY <1>3, <1>7, <1>10, <1>11 DEF Places
<1> QED
  BY <1>12 DEF Lists, ds, xs, r

\* ... or as one more argument of the last one.
LEMMA ListsArgument ==
  ASSUME NEW cs \in Seq(Components), cs # <<>>, NEW ws \in Seq(Recs), Lists(cs, ws),
         NEW a \in Strings, NEW e \in Components,
         e.name = cs[Len(cs)].name, e.args = Append(cs[Len(cs)].args, a)
  PROVE  Lists([cs EXCEPT ![Len(cs)] = e], ws \o <<ArgRec(a)>>)
<1> DEFINE n == Len(cs)
           k == Len(ws)
           r == ArgRec(a)
           ds == [cs EXCEPT ![n] = e]
           xs == ws \o <<r>>
           args == cs[n].args
           l == Len(args)
<1>1. PICK at : Places(at, cs, ws)
  BY DEF Lists
<1>2. n \in Nat /\ n >= 1 /\ k \in Nat
  BY EmptySeq, LenProperties
<1>3. Len(ds) = n /\ ds[n] = e /\ \A i \in 1 .. n : i # n => ds[i] = cs[i]
  BY <1>2
<1>4. /\ Len(xs) = k + 1 /\ xs[k + 1] = r /\ \A p \in 1 .. k : xs[p] = ws[p]
  <2> HIDE DEF r
  <2> QED
    BY LenProperties
<1>5. \A i \in 1 .. n : cs[i].args \in Seq(Strings) /\ Len(cs[i].args) \in Nat
  <2>1. \A i \in 1 .. n : cs[i].args \in Seq(Strings)
    <3>1. \A i \in 1 .. n : cs[i] \in Components
      OBVIOUS
    <3>2. \A c \in Components : c.args \in Seq(Strings)
      BY DEF Components
    <3> QED
      BY <3>1, <3>2, Zenon
  <2> QED
    BY <2>1, LenProperties
<1>6. at \in [1 .. n + 1 -> 1 .. k + 1] /\ at[1] = 1 /\ at[n + 1] = k + 1
  BY <1>1 DEF Places
<1>13. args \in Seq(Strings) /\ l \in Nat
  BY <1>2, <1>5
<1>14. /\ Len(e.args) = l + 1 /\ e.args[l + 1] = a
       /\ \A j \in 1 .. l : e.args[j] = args[j]
  BY <1>13, AppendProperties
<1>15. /\ at[n + 1] = at[n] + l + 1 /\ at[n] \in 1 .. k + 1
       /\ ws[at[n]] = NameRec(e.name)
       /\ \A j \in 1 .. l : ws[at[n] + j] = ArgRec(args[j])
  <2>1. n \in 1 .. n
    BY <1>2
  <2>2. Place(at, cs, ws, n)
    BY <1>1, <2>1 DEF Places
  <2> QED
    BY <1>2, <1>6, <2>2 DEF Place
<1> DEFINE bt == [i \in 1 .. n + 1 |-> IF i = n + 1 THEN k + 2 ELSE at[i]]
<1> HIDE DEF n, k, r, ds, xs, args, l
<1>7. /\ bt \in [1 .. n + 1 -> 1 .. k + 2] /\ bt[n + 1] = k + 2
      /\ \A i \in 1 .. n : bt[i] = at[i]
  BY <1>2, <1>6
<1> HIDE DEF bt
<1>8. ASSUME NEW i \in 1 .. n, i # n PROVE Place(bt, ds, xs, i)
  <2>1. bt[i] = at[i] /\ bt[i + 1] = at[i + 1]
    BY <1>2, <1>7, <1>8
  <2>2. Len(cs) = n /\ Len(ws) = k
    BY DEF n, k
  <2>3. ds[i] = cs[i] /\ Len(cs[i].args) \in Nat
    BY <1>3, <1>5, <1>8
  <2> QED
    BY <1>1, <1>2, <1>4, <2>1, <2>2, <2>3, PlaceKept
<1>9. Place(bt, ds, xs, n)
  <2> DEFINE p == at[n]
  <2>1. p \in 1 .. k + 1 /\ k = p + l
    <3>1. k + 1 = p + l + 1 /\ p \in 1 .. k + 1
      BY <1>6, <1>15
    <3> HIDE DEF p
    <3> QED
      BY <1>2, <1>13, <3>1
  <2>2. bt[n] = p /\ bt[n + 1] = p + (l + 1) + 1
    <3>1. bt[n] = p
      BY <1>2, <1>7
    <3> HIDE DEF p
    <3> QED
      BY <1>2, <1>7, <1>13, <2>1, <3>1
  <2>3. ws[p] = NameRec(e.name) /\ \A j \in 1 .. l : ws[p + j] = ArgRec(args[j])
    BY <1>15
  <2> HIDE DEF p
  <2>4. xs[p] = NameRec(e.name)
    <3>1. p \in 1 .. k
      BY <1>2, <1>13, <2>1
    <3> QED
      BY <1>4, <2>3, <3>1
  <2>5. \A j \in 1 .. l + 1 : xs[p + j] = ArgRec(e.args[j])
    <3> TAKE j \in 1 .. l + 1
    <3>1. CASE j = l + 1
      <4>1. p + j = k + 1
        BY <1>2, <1>13, <2>1, <3>1
      <4> QED
        BY <1>4, <1>14, <3>1, <4>1 DEF r
    <3>2. CASE j # l + 1
      <4>1. j \in 1 .. l /\ p + j \in 1 .. k
        BY <1>2, <1>13, <2>1, <3>2
      <4> QED
        BY <1>4, <1>14, <2>3, <4>1
    <3> QED
      BY <3>1, <3>2
  <2> QED
    BY <1>3, <1>14, <2>2, <2>4, <2>5 DEF Place
<1>10. \A i \in 1 .. n : Place(bt, ds, xs, i)
  BY <1>8, <1>9
<1>11. bt[1] = 1 /\ Len(xs) + 1 = k + 2
  BY <1>2, <1>4, <1>6, <1>7
<1>12. Places(bt, ds, xs)
  BY <1>3, <1>7, <1>10, <1>11 DEF Places
<1> QED
  BY <1>12 DEF Lists, ds, xs, r, n

LEMMA PlacesGrow ==
  ASSUME NEW cs \in Seq(Components), NEW ws \in Seq(Recs), NEW at, Places(at, cs, ws),
         NEW i \in 1 .. Len(cs) + 1, NEW j \in i + 1 .. Len(cs) + 1
  PROVE  at[i] < at[j]
<1> DEFINE n == Len(cs)
<1>1. n \in Nat /\ at \in [1 .. n + 1 -> Nat]
  BY LenProperties DEF Places
<1>2. ASSUME NEW h \in 1 .. n PROVE at[h] < at[h + 1]
  <2>1. at[h + 1] = at[h] + Len(cs[h].args) + 1
    BY <1>2 DEF Places, Place
  <2>2. cs[h] \in Components
    OBVIOUS
  <2>3. Len(cs[h].args) \in Nat
    BY <2>2, LenProperties DEF Components
  <2>4. at[h] \in Nat
    BY <1>1, <1>2
  <2> DEFINE l == Len(cs[h].args)
  <2> HIDE DEF l, n
  <2>5. at[h + 1] = at[h] + l + 1 /\ l \in Nat
    BY <2>1, <2>3 DEF l
  <2> QED
    BY <2>4, <2>5
<1> HIDE DEF n
<1> DEFINE N == n + 1 - i
           H == {k \in 0 .. N : k = 0 \/ at[i] < at[i + k]}
<1>3. i \in 1 .. n + 1 /\ j \in i + 1 .. n + 1
  BY DEF n
<1>4. N \in Nat
  BY <1>1, <1>3
<1>5. 0 \in H
  BY <1>4
<1>6. ASSUME NEW k \in 1 .. N, k - 1 \in H PROVE k \in H
  <2> DEFINE h == i + (k - 1)
  <2>1. h \in 1 .. n /\ h + 1 = i + k
    BY <1>1, <1>3
  <2>2. k - 1 = 0 \/ at[i] < at[h]
    BY <1>6
  <2>3. k - 1 = 0 => h = i
    BY <1>3
  <2> HIDE DEF h
  <2>4. at[h] < at[h + 1] /\ at[h] \in Nat /\ at[h + 1] \in Nat /\ at[i] \in Nat
    <3>1. h \in 1 .. n + 1 /\ h + 1 \in 1 .. n + 1
      BY <1>1, <2>1
    <3> QED
      BY <1>1, <1>2, <1>3, <2>1, <3>1
  <2>5. at[i] < at[i + k]
    <3>1. at[i] <= at[h]
      BY <2>2, <2>3, <2>4
    <3>2. at[i] < at[h + 1]
      BY <2>4, <3>1
    <3> QED
      BY <2>1, <3>2
  <2> QED
    BY <2>5
<1>7. \A k \in 1 .. N : k - 1 \in H => k \in H
  BY <1>6
<1> HIDE DEF H
<1>9. \A k \in 0 .. N : k \in H
  BY <1>4, <1>5, <1>7, CountingUp
<1>10. j - i \in 0 .. N /\ j - i # 0 /\ i + (j - i) = j
  BY <1>1, <1>3
<1>11. j - i \in H
  BY <1>9, <1>10
<1> QED
  BY <1>10, <1>11 DEF H

\* Every name in the list is a component's.
LEMMA NamesAreComponents ==
  ASSUME NEW cs \in Seq(Components), NEW ws \in Seq(Recs), NEW at, Places(at, cs, ws),
         NEW k \in 1 .. Len(ws), ws[k].kind = "name"
  PROVE  \E i \in 1 .. Len(cs) : k = at[i]
<1> DEFINE n == Len(cs)
           S == {i \in 1 .. n + 1 : k < at[i]}
           m == Min(S)
<1>1. n \in Nat /\ at \in [1 .. n + 1 -> Nat] /\ at[1] = 1 /\ at[n + 1] = Len(ws) + 1
  BY LenProperties DEF Places
<1>2. Len(ws) \in Nat
  BY LenProperties
<1> HIDE DEF n
<1>3. S \subseteq Nat /\ n + 1 \in S
  BY <1>1, <1>2
<1>4. m \in S /\ \A i \in S : m <= i
  <2> HIDE DEF S
  <2> QED
    BY <1>3, MinIs
<1> HIDE DEF m
<1>5. m \in 1 .. n + 1 /\ k < at[m]
  BY <1>4
<1>6. m # 1
  BY <1>1, <1>5
<1> DEFINE h == m - 1
<1>7. h \in 1 .. n /\ h + 1 = m /\ h \in 1 .. n + 1 /\ h < m
  BY <1>1, <1>5, <1>6
<1> HIDE DEF h
<1>8. h \notin S /\ at[h] \in Nat
  BY <1>1, <1>4, <1>5, <1>7
<1>9. at[h] <= k
  BY <1>7, <1>8
<1>10. Place(at, cs, ws, h)
  BY <1>7 DEF Places, n
<1> DEFINE l == Len(cs[h].args)
           p == at[h]
<1>11. l \in Nat
  <2>1. cs[h] \in Components
    BY <1>7 DEF n
  <2> QED
    BY <2>1, LenProperties DEF Components
<1>12. at[m] = p + l + 1 /\ \A j \in 1 .. l : ws[p + j] = ArgRec(cs[h].args[j])
  BY <1>7, <1>10 DEF Place
<1>14. p \in Nat /\ p <= k /\ k < p + l + 1
  BY <1>5, <1>8, <1>9, <1>12
<1> HIDE DEF l, p
<1>13. p = k
  <2> SUFFICES ASSUME p # k PROVE FALSE
    OBVIOUS
  <2> DEFINE j == k - p
  <2>1. j \in 1 .. l /\ p + j = k
    BY <1>2, <1>11, <1>14
  <2> HIDE DEF j
  <2>2. ws[k] = ArgRec(cs[h].args[j])
    BY <1>12, <2>1
  <2> QED
    BY <2>2 DEF ArgRec
<1> QED
  BY <1>7, <1>13 DEF p, n

\* The words and the components they are: places, and what is at them.
LEMMA ListIs ==
  ASSUME NEW cs \in Seq(Components), NEW ws \in Seq(Recs), NEW at, Places(at, cs, ws)
  PROVE  /\ Len(cs) \in Nat /\ Len(ws) \in Nat
         /\ at \in [1 .. Len(cs) + 1 -> Nat]
         /\ \A i \in 1 .. Len(cs) :
              /\ at[i] \in 1 .. Len(ws)
              /\ ws[at[i]].kind = "name" /\ ws[at[i]].word = cs[i].name
              /\ cs[i].args \in Seq(Strings)
              /\ at[i + 1] - at[i] - 1 = Len(cs[i].args)
              /\ \A j \in 1 .. Len(cs[i].args) : ws[at[i] + j].word = cs[i].args[j]
         /\ {k \in DOMAIN ws : ws[k].kind = "name"} = {at[i] : i \in 1 .. Len(cs)}
<1> DEFINE n == Len(cs)
           k == Len(ws)
<1>1. n \in Nat /\ k \in Nat /\ DOMAIN ws = 1 .. k
  BY LenProperties
<1>2. at \in [1 .. n + 1 -> Nat] /\ at[n + 1] = k + 1 /\ at \in [1 .. n + 1 -> 1 .. k + 1]
  BY DEF Places
<1>3. \A c \in Components : c.args \in Seq(Strings) /\ Len(c.args) \in Nat
  BY LenProperties DEF Components
<1>4. ASSUME NEW i \in 1 .. n
      PROVE  /\ at[i] \in 1 .. k
             /\ ws[at[i]].kind = "name" /\ ws[at[i]].word = cs[i].name
             /\ cs[i].args \in Seq(Strings)
             /\ at[i + 1] - at[i] - 1 = Len(cs[i].args)
             /\ \A j \in 1 .. Len(cs[i].args) : ws[at[i] + j].word = cs[i].args[j]
  <2>1. Place(at, cs, ws, i)
    BY <1>4 DEF Places
  <2>2. cs[i] \in Components
    BY <1>4
  <2>3. cs[i].args \in Seq(Strings) /\ Len(cs[i].args) \in Nat
    BY <1>3, <2>2
  <2>4. ws[at[i]].kind = "name" /\ ws[at[i]].word = cs[i].name
    BY <2>1 DEF Place, NameRec
  <2>5. \A j \in 1 .. Len(cs[i].args) : ws[at[i] + j].word = cs[i].args[j]
    <3>1. \A j \in 1 .. Len(cs[i].args) : ws[at[i] + j] = ArgRec(cs[i].args[j])
      BY <2>1 DEF Place
    <3>2. \A a : ArgRec(a).word = a
      BY DEF ArgRec
    <3> QED
      BY <3>1, <3>2, Zenon
  <2>6. at[i + 1] = at[i] + Len(cs[i].args) + 1
    BY <2>1 DEF Place
  <2> DEFINE l == Len(cs[i].args)
             p == at[i]
             q == at[i + 1]
  <2>7. p \in 1 .. k + 1 /\ q \in 1 .. k + 1
    <3>1. i \in 1 .. n + 1 /\ i + 1 \in 1 .. n + 1
      BY <1>1, <1>4
    <3> HIDE DEF n, k
    <3> QED
      BY <1>2, <3>1
  <2>8. q = p + l + 1 /\ l \in Nat
    BY <2>3, <2>6
  <2> HIDE DEF l, p, q, k
  <2>9. p \in 1 .. k /\ q - p - 1 = l
    BY <1>1, <2>7, <2>8
  <2> QED
    BY <2>3, <2>4, <2>5, <2>9 DEF l, p, q
<1>5. \A x \in DOMAIN ws : ws[x].kind = "name" => \E i \in 1 .. n : x = at[i]
  BY <1>1, NamesAreComponents
<1> HIDE DEF n, k
<1>6. {x \in DOMAIN ws : ws[x].kind = "name"} = {at[i] : i \in 1 .. n}
  BY <1>1, <1>4, <1>5
<1> QED
  BY <1>1, <1>2, <1>4, <1>6 DEF n, k

\* A list of the words that is the list of components is what is documented.
LEMMA ListedIsDocumented ==
  ASSUME components \in Seq(Components), Words \in Seq(Recs), Lists(components, Words)
  PROVE  AsDocumented
<1> DEFINE n == Len(components)
           words == Words
           Named == {j \in DOMAIN words : words[j].kind = "name"}
           names == {words[i].word : i \in Named}
<1>1. PICK at : Places(at, components, words)
  BY DEF Lists
<1>13. words \in Seq(Recs) /\ components \in Seq(Components) /\ Places(at, components, words)
  BY <1>1
<1>2. /\ n \in Nat /\ Len(words) \in Nat
      /\ at \in [1 .. n + 1 -> Nat]
      /\ \A i \in 1 .. n :
           /\ at[i] \in 1 .. Len(words)
           /\ words[at[i]].kind = "name" /\ words[at[i]].word = components[i].name
           /\ components[i].args \in Seq(Strings)
           /\ at[i + 1] - at[i] - 1 = Len(components[i].args)
           /\ \A j \in 1 .. Len(components[i].args) :
                words[at[i] + j].word = components[i].args[j]
      /\ Named = {at[i] : i \in 1 .. n}
  <2> HIDE DEF words
  <2> QED
    BY <1>13, ListIs
<1>3. at[1] = 1 /\ at[n + 1] = Len(words) + 1
  BY <1>1 DEF Places
<1>4. \A i \in 1 .. n + 1 : \A j \in i + 1 .. n + 1 : at[i] < at[j]
  BY <1>1, PlacesGrow
<1>5. DOMAIN components = 1 .. n
  OBVIOUS
<1>10. words \in Seq(Recs) /\ DOMAIN words = 1 .. Len(words)
  OBVIOUS
<1> HIDE DEF n, words, Named
<1>11. /\ Named = {at[i] : i \in 1 .. n}
       /\ \A i \in 1 .. n : at[i] \in Nat /\ words[at[i]].word = components[i].name
  BY <1>2
<1>12. Named \subseteq Nat /\ \A i \in 1 .. n : at[i] \in Named
  BY <1>11
<1>6. names = {components[i].name : i \in 1 .. n}
  <2>1. names \subseteq {components[i].name : i \in 1 .. n}
    BY <1>11
  <2>2. {components[i].name : i \in 1 .. n} \subseteq names
    BY <1>11, <1>12
  <2> QED
    BY <2>1, <2>2, Zenon
<1> HIDE DEF names
<1>7. ASSUME NEW name \in names
      PROVE  GetSettings(name).args = DocumentedArgs(words, name)
  <2> DEFINE named == {i \in 1 .. n : components[i].name = name}
             m == Min(named)
  <2>1. m \in named /\ \A i \in named : m <= i
    <3>1. named # {} /\ named \subseteq Nat
      BY <1>6, <1>7
    <3> HIDE DEF named
    <3> QED
      BY <3>1, MinIs
  <2>2. GetSettings(name).args = components[m].args
    <3>1. named # {}
      BY <2>1
    <3> QED
      BY <1>5, <3>1 DEF GetSettings
  <2> HIDE DEF m
  <2>3. m \in 1 .. n /\ m \in 1 .. n + 1 /\ m + 1 \in 1 .. n + 1 /\ m \in Nat
    BY <1>2, <2>1
  <2>4. Min({i \in Named : words[i].word = name}) = at[m]
    <3> DEFINE S == {i \in Named : words[i].word = name}
    <3>1. S \subseteq Nat /\ at[m] \in S
      BY <1>11, <1>12, <2>1, <2>3
    <3>2. ASSUME NEW x \in S PROVE at[m] <= x
      <4>1. PICK i \in 1 .. n : x = at[i]
        BY <1>11
      <4>2. i \in named
        BY <1>11, <3>2, <4>1
      <4>3. m <= i
        BY <2>1, <4>2
      <4>4. i = m \/ i \in m + 1 .. n + 1
        BY <1>2, <2>3, <4>3
      <4>5. i = m \/ at[m] < at[i]
        BY <1>4, <2>3, <4>4
      <4>6. at[m] \in Nat /\ at[i] \in Nat
        BY <1>11, <2>3
      <4> QED
        BY <4>1, <4>5, <4>6
    <3> HIDE DEF S
    <3> QED
      BY <3>1, <3>2, MinUnique DEF S
  <2>5. Min({i \in Named : i > at[m]} \cup {Len(words) + 1}) = at[m + 1]
    <3> DEFINE S == {i \in Named : i > at[m]} \cup {Len(words) + 1}
    <3>1. S \subseteq Nat
      BY <1>2, <1>12
    <3>2. at[m + 1] \in S
      <4>1. CASE m = n
        BY <1>3, <4>1
      <4>2. CASE m # n
        <5>1. m + 1 \in 1 .. n /\ m + 1 \in m + 1 .. n + 1
          BY <1>2, <2>3, <4>2
        <5>2. at[m + 1] \in Named
          BY <1>2, <5>1
        <5>3. at[m] < at[m + 1] /\ at[m] \in Nat /\ at[m + 1] \in Nat
          BY <1>2, <1>4, <2>3, <5>1
        <5> QED
          BY <5>2, <5>3
      <4> QED
        BY <4>1, <4>2
    <3>3. ASSUME NEW i \in m + 1 .. n + 1 PROVE at[m + 1] <= at[i]
      <4>1. i = m + 1 \/ i \in (m + 1) + 1 .. n + 1
        BY <1>2, <2>3
      <4>2. i = m + 1 \/ at[m + 1] < at[i]
        BY <1>4, <2>3, <4>1
      <4>3. at[m + 1] \in Nat /\ at[i] \in Nat
        <5>1. i \in 1 .. n + 1
          BY <1>2, <2>3
        <5> QED
          BY <1>2, <2>3, <5>1
      <4> QED
        BY <4>2, <4>3
    <3>4. ASSUME NEW x \in S PROVE at[m + 1] <= x
      <4>1. CASE x = Len(words) + 1
        <5>1. n + 1 \in m + 1 .. n + 1
          BY <1>2, <2>3
        <5> QED
          BY <1>3, <3>3, <4>1, <5>1
      <4>2. CASE x \in Named /\ x > at[m]
        <5>1. PICK i \in 1 .. n : x = at[i]
          BY <1>2, <4>2
        <5>2. ~(i < m) /\ i # m
          <6>1. at[m] \in Nat /\ at[i] \in Nat /\ at[i] > at[m]
            BY <1>2, <2>3, <4>2, <5>1
          <6>2. i < m => m \in i + 1 .. n + 1 /\ i \in 1 .. n + 1
            BY <1>2, <2>3
          <6>3. i < m => at[i] < at[m]
            BY <1>4, <6>2
          <6> QED
            BY <6>1, <6>3
        <5>3. i \in m + 1 .. n + 1
          BY <1>2, <2>3, <5>2
        <5> QED
          BY <3>3, <5>1, <5>3
      <4> QED
        BY <3>4, <4>1, <4>2
    <3> HIDE DEF S
    <3> QED
      BY <3>1, <3>2, <3>4, MinUnique DEF S
  <2>6. DocumentedArgs(words, name)
          = [i \in 1 .. at[m + 1] - at[m] - 1 |-> words[at[m] + i].word]
    BY <2>4, <2>5 DEF DocumentedArgs, Named
  <2>7. components[m].args
          = [i \in 1 .. Len(components[m].args) |-> components[m].args[i]]
    <3>1. components[m].args \in Seq(Strings)
      BY <1>2, <2>3
    <3> QED
      BY <3>1
  <2>8. /\ at[m + 1] - at[m] - 1 = Len(components[m].args)
        /\ \A j \in 1 .. Len(components[m].args) :
             words[at[m] + j].word = components[m].args[j]
    BY <1>2, <2>3
  <2>9. [i \in 1 .. Len(components[m].args) |-> words[at[m] + i].word]
          = [i \in 1 .. Len(components[m].args) |-> components[m].args[i]]
    BY <2>8, Zenon
  <2> QED
    BY <2>2, <2>6, <2>7, <2>8, <2>9
<1> QED
  BY <1>5, <1>6, <1>7 DEF AsDocumented, names, words, Named

-----------------------------------------------------------------------------
(***************************************************************************)
(* The words that a turn finds, and the ones that are left.                *)
(***************************************************************************)

\* The words that are still to be read, at p in a comment of kind c or in none.
Rest(p, c) ==
    IF p >= length THEN <<>>
    ELSE IF c = "no" THEN WordsFrom[p + 1]
    ELSE IF c = "line" THEN WordsFrom[TextFrom(p + 1, Newline)]
    ELSE WordsFrom[TextFrom(p + 1, Closes) + 2]

LEMMA RestOutside ==
  ASSUME text \in Seq(Letters), NEW p \in 0 .. length + 2
  PROVE  WordsFrom[p + 1] = Rest(p, "no")
<1>1. length \in Nat /\ p + 1 \in 1 .. length + 3
  BY TextIs
<1>2. WordsFrom[p + 1] = IF p + 1 > length THEN <<>>
                         ELSE Found(p + 1) \o WordsFrom[Behind(p + 1)]
  BY <1>1, WordsFromIs
<1> QED
  BY <1>1, <1>2 DEF Rest

LEMMA RestIs ==
  ASSUME text \in Seq(Letters), NEW p \in Nat, NEW c
  PROVE  Rest(p, c) \in Seq(Recs)
<1>1. length \in Nat
  BY TextIs
<1>2. \A q \in 1 .. length + 3 : WordsFrom[q] \in Seq(Recs)
  BY WordsFromIs
<1>3. CASE p >= length
  BY <1>3 DEF Rest
<1>4. CASE ~(p >= length)
  <2>1. p + 1 \in 1 .. length + 1 /\ p + 1 \in 1 .. length + 3
    BY <1>1, <1>4
  <2>2. /\ TextFrom(p + 1, Newline) \in p + 1 .. length + 1
        /\ TextFrom(p + 1, Closes) \in p + 1 .. length + 1
    BY <1>1, <2>1, TextStops DEF Stops
  <2>3. /\ TextFrom(p + 1, Newline) \in 1 .. length + 3
        /\ TextFrom(p + 1, Closes) + 2 \in 1 .. length + 3
    BY <1>1, <2>2
  <2> QED
    BY <1>2, <1>4, <2>1, <2>3 DEF Rest
<1> QED
  BY <1>3, <1>4

\* The reader skips a line comment as documented, ...
LEMMA LineSkipped ==
  ASSUME SettingsInv, NEW p \in 0 .. length, Uncut(contents, p)
  PROVE  Rest(p, "line") = Rest(FirstFrom(p, IsNewline), "no")
<1> DEFINE e == FirstFrom(p, IsNewline)
<1>1. length \in Nat /\ text \in Seq(Letters)
  BY LengthIsNat DEF SettingsInv
<1>2. Stops(e, p, length - 1, IsNewlineAt)
  BY <1>1, ContentsStop
<1>3. TextFrom(p + 1, Newline) = e + 1
  BY EndsTogether
<1> HIDE DEF e
<1>4. e \in p .. length /\ e \in 0 .. length + 2
  BY <1>1, <1>2 DEF Stops
<1>5. WordsFrom[e + 1] = Rest(e, "no")
  BY <1>1, <1>4, RestOutside
<1>6. CASE p >= length
  <2>1. e >= length
    BY <1>1, <1>4, <1>6
  <2> QED
    BY <1>6, <2>1 DEF Rest, e
<1>7. CASE ~(p >= length)
  <2>1. Rest(p, "line") = WordsFrom[e + 1]
    BY <1>3, <1>7 DEF Rest
  <2> QED
    BY <1>5, <2>1 DEF e
<1> QED
  BY <1>6, <1>7

\* ... and a block comment, if neither letter of its end is in it.
LEMMA MultiSkipped ==
  ASSUME SettingsInv, NEW p \in 1 .. length, Uncut(contents, p), PlainMulti(p - 1)
  PROVE  LET e == FirstFrom(p, EndsMulti) IN
         Rest(p, "multi") = Rest(IF e = length THEN e ELSE e + 2, "no")
<1> DEFINE e == FirstFrom(p, EndsMulti)
           S == {q \in p + 1 .. length + 1 : q > length \/ q \in HaltsAt}
           stop == Min(S)
           k == TextFrom(p + 1, Closes)
<1>1. length \in Nat /\ text \in Seq(Letters) /\ p \in 0 .. length /\ p + 1 \in 1 .. length + 1
  BY LengthIsNat DEF SettingsInv
<1>2. Stops(e, p, length - 1, EndsMultiAt)
  BY <1>1, ContentsStop
<1>3. Stops(stop, p + 1, length, HaltsAt)
  BY <1>1, StopIs
<1>4. Stops(k, p + 1, length, ClosesAt)
  BY <1>1, TextStops
<1>5. stop > length \/ Pair(stop, "*", "/")
  <2>1. (p - 1) + 2 = p + 1
    OBVIOUS
  <2>2. S = {q \in p + 1 .. length + 1 :
                q > length \/ text[q] = "*" \/ (q < length /\ text[q + 1] = "/")}
    BY <1>1 DEF HaltsAt
  <2> QED
    BY <2>1, <2>2 DEF PlainMulti, TextFrom
<1>6. Shifted(p, EndsMultiAt, HaltsAt)
  <2>1. ASSUME NEW q \in p .. length - 1
        PROVE  q \in EndsMultiAt <=> q + 1 \in HaltsAt
    <3>1. /\ contents[q] = text[q + 1]
          /\ contents[q + 1] = IF q + 1 < length THEN text[q + 2] ELSE NUL
      BY <1>1, SeesText
    <3>2. q \in 0 .. length /\ q + 1 \in 1 .. length /\ (q + 1) + 1 = q + 2
      BY <1>1
    <3>3. contents[q + 1] = "/" <=> (q + 1 < length /\ text[q + 2] = "/")
      BY <3>1 DEF NUL
    <3> QED
      BY <3>1, <3>2, <3>3 DEF EndsMultiAt, EndsMulti, HaltsAt
  <2> QED
    BY <2>1 DEF Shifted
<1> HIDE DEF e, stop, k, S
<1>7. stop = e + 1
  BY <1>1, <1>2, <1>3, <1>6, ShiftedStop
<1>8. ClosesAt \subseteq HaltsAt
  BY DEF ClosesAt, HaltsAt, Closes, Pair
<1>9. e \in p .. length /\ stop \in p + 1 .. length + 1
  <2>1. e \in p .. (length - 1) + 1 /\ stop \in p + 1 .. length + 1
    BY <1>2, <1>3 DEF Stops
  <2> QED
    BY <1>1, <2>1
<1>10. stop <= length => stop \in ClosesAt
  BY <1>1, <1>5, <1>9 DEF ClosesAt, Closes
<1>11. Stops(stop, p + 1, length, ClosesAt)
  BY <1>3, <1>8, <1>10 DEF Stops
<1>12. k = stop
  <2> DEFINE r == p + 1
  <2>1. r \in Nat /\ r <= length + 1 /\ length \in Int
    BY <1>1
  <2>2. Stops(k, r, length, ClosesAt) /\ Stops(stop, r, length, ClosesAt)
    BY <1>4, <1>11
  <2> HIDE DEF r
  <2> QED
    BY <2>1, <2>2, StopsOnce
<1>13. p < length => Rest(p, "multi") = Rest(e + 2, "no")
  <2> SUFFICES ASSUME p < length PROVE Rest(p, "multi") = Rest(e + 2, "no")
    OBVIOUS
  <2>1. Rest(p, "multi") = WordsFrom[k + 2]
    BY <1>1 DEF Rest, k
  <2>2. k + 2 = (e + 2) + 1 /\ e + 2 \in 0 .. length + 2
    BY <1>1, <1>7, <1>9, <1>12
  <2>3. WordsFrom[(e + 2) + 1] = Rest(e + 2, "no")
    BY <1>1, <2>2, RestOutside
  <2> QED
    BY <2>1, <2>2, <2>3
<1>14. Rest(p, "multi") = Rest(IF e = length THEN e ELSE e + 2, "no")
  <2>1. CASE p < length /\ e # length
    BY <1>13, <2>1
  <2>2. CASE p < length /\ e = length
    <3>1. Rest(e + 2, "no") = <<>> /\ Rest(e, "no") = <<>>
      BY <1>1, <2>2 DEF Rest
    <3> QED
      BY <1>13, <2>2, <3>1
  <2>3. CASE ~(p < length)
    <3>1. p >= length /\ e = length
      BY <1>1, <1>9, <2>3
    <3>2. Rest(p, "multi") = <<>> /\ Rest(e, "no") = <<>>
      BY <1>1, <3>1 DEF Rest
    <3> QED
      BY <3>1, <3>2
  <2> QED
    BY <2>1, <2>2, <2>3
<1> QED
  BY <1>14 DEF e

\* Entering a comment leaves the words behind it.
LEMMA CommentEntered ==
  ASSUME text \in Seq(Letters), NEW q \in 0 .. length - 1
  PROVE  /\ Pair(q + 1, "/", "/") => WordsFrom[q + 1] = Rest(q + 2, "line")
         /\ Pair(q + 1, "/", "*") => WordsFrom[q + 1] = Rest(q + 2, "multi")
<1> DEFINE p == q + 1
<1>1. length \in Nat /\ p \in 1 .. length /\ p \in 1 .. length + 3
  BY TextIs
<1>3. Behind(p) \in p + 1 .. length + 3
  BY <1>1, FoundIs
<1>4. WordsFrom[Behind(p)] \in Seq(Recs)
  BY <1>1, <1>3, WordsFromIs
<1>5. \A k \in length + 1 .. length + 3 : WordsFrom[k] = <<>>
  BY <1>1, WordsFromIs
<1> HIDE DEF p
<1>2. WordsFrom[p] = Found(p) \o WordsFrom[Behind(p)]
  <2>1. ~(p > length)
    BY <1>1
  <2> QED
    BY <1>1, <2>1, WordsFromIs
<1>6. ASSUME Pair(p, "/", "/") PROVE WordsFrom[p] = Rest(p + 1, "line")
  <2> DEFINE r == p + 2
             k == TextFrom(r, Newline)
             j == TextFrom(p, Newline)
  <2>1. p < length /\ text[p] = "/" /\ text[p + 1] = "/"
    BY <1>6 DEF Pair
  <2>2. r \in 1 .. length + 1
    BY <1>1, <2>1
  <2>3. Stops(k, r, length, NewlineAt)
    BY <1>1, <2>2, TextStops
  <2>4. Stops(j, p, length, NewlineAt)
    BY <1>1, TextStops
  <2>5. p \notin NewlineAt /\ p + 1 \notin NewlineAt
    BY <2>1 DEF NewlineAt, Newline
  <2> HIDE DEF k, j
  <2>6. k \in p + 2 .. length + 1
    BY <2>3 DEF Stops, r
  <2>7. \A i \in p .. k - 1 : i = p \/ i = p + 1 \/ i \in r .. k - 1
    BY <1>1, <2>6
  <2>8. \A i \in p .. k - 1 : i \notin NewlineAt
    BY <2>3, <2>5, <2>7 DEF Stops
  <2>9. Stops(k, p, length, NewlineAt)
    <3>1. k \in p .. length + 1
      BY <1>1, <2>6
    <3> QED
      BY <2>3, <2>8, <3>1 DEF Stops
  <2>10. j = k
    <3>1. p \in Nat /\ length \in Int /\ p <= length + 1
      BY <1>1
    <3> QED
      BY <2>4, <2>9, <3>1, StopsOnce
  <2>11. WordsFrom[p] = WordsFrom[k]
    <3>1. Found(p) = <<>> /\ Behind(p) = j
      BY <1>1, <1>6, StandsAt DEF j
    <3> QED
      BY <1>2, <1>4, <2>10, <3>1
  <2>12. CASE p + 1 >= length
    <3>1. k \in length + 1 .. length + 3
      BY <1>1, <2>6, <2>12
    <3> QED
      BY <1>5, <2>11, <2>12, <3>1 DEF Rest
  <2>13. CASE ~(p + 1 >= length)
    <3>1. (p + 1) + 1 = p + 2
      BY <1>1
    <3>2. Rest(p + 1, "line") = WordsFrom[TextFrom(p + 2, Newline)]
      BY <2>13, <3>1 DEF Rest
    <3> QED
      BY <2>11, <3>2 DEF k, r
  <2> QED
    BY <2>12, <2>13
<1>7. ASSUME Pair(p, "/", "*") PROVE WordsFrom[p] = Rest(p + 1, "multi")
  <2> DEFINE k == TextFrom(p + 2, Closes)
  <2>1. p < length
    BY <1>7 DEF Pair
  <2>2. p + 2 \in 1 .. length + 1
    BY <1>1, <2>1
  <2>3. Stops(k, p + 2, length, ClosesAt)
    BY <1>1, <2>2, TextStops
  <2>4. WordsFrom[p] = WordsFrom[k + 2]
    <3>1. Found(p) = <<>> /\ Behind(p) = k + 2
      BY <1>1, <1>7, StandsAt
    <3> HIDE DEF k
    <3> QED
      BY <1>2, <1>4, <3>1
  <2> HIDE DEF k
  <2>5. k \in p + 2 .. length + 1
    BY <2>3 DEF Stops
  <2>6. CASE p + 1 >= length
    <3>1. k + 2 \in length + 1 .. length + 3
      BY <1>1, <2>5, <2>6
    <3> QED
      BY <1>5, <2>4, <2>6, <3>1 DEF Rest
  <2>7. CASE ~(p + 1 >= length)
    <3>1. (p + 1) + 1 = p + 2
      BY <1>1
    <3>2. Rest(p + 1, "multi") = WordsFrom[TextFrom(p + 2, Closes) + 2]
      BY <2>7, <3>1 DEF Rest
    <3> QED
      BY <2>4, <3>2 DEF k
  <2> QED
    BY <2>6, <2>7
<1>8. p + 1 = q + 2
  BY DEF p
<1> QED
  BY <1>6, <1>7, <1>8 DEF p

LEMMA UncutBehind ==
  ASSUME NEW p \in Nat, NEW q \in Nat, p <= q, NEW c, Uncut(c, p), length \in Nat
  PROVE  Uncut(c, q)
<1> SUFFICES ASSUME NEW i \in q .. length - 1 PROVE c[i] = text[i + 1]
  BY DEF Uncut
<1>1. i \in p .. length - 1
  OBVIOUS
<1> QED
  BY <1>1 DEF Uncut

\* A cut leaves the text behind it as it is.
LEMMA UncutBehindCut ==
  ASSUME SettingsInv, NEW p \in 0 .. length, Uncut(contents, p),
         NEW e \in p .. length, NEW q \in Nat, q > e
  PROVE  Uncut([contents EXCEPT ![e] = NUL], q)
<1>1. length \in Nat
  BY LengthIsNat
<1> SUFFICES ASSUME NEW i \in q .. length - 1
             PROVE  [contents EXCEPT ![e] = NUL][i] = text[i + 1]
  BY DEF Uncut
<1>2. i \in p .. length - 1 /\ i # e /\ i \in 0 .. length
  BY <1>1
<1>3. contents[i] = text[i + 1]
  BY <1>2 DEF Uncut
<1>4. DOMAIN contents = 0 .. length
  BY DEF SettingsInv
<1> QED
  BY <1>2, <1>3, <1>4

\* The next word is the one behind the spaces.
LEMMA StartIs ==
  ASSUME SettingsInv, NEW p \in 0 .. length, Uncut(contents, p)
  PROVE  LET s == FirstFrom(p, NotSpace) IN
         /\ s \in p .. length
         /\ Uncut(contents, s)
         /\ s < length => ~Space(s + 1)
         /\ WordsFrom[p + 1] = WordsFrom[s + 1]
         /\ \A q \in p + 1 .. s : Space(q)
<1> DEFINE s == FirstFrom(p, NotSpace)
<1>1. length \in Nat /\ text \in Seq(Letters)
  BY LengthIsNat DEF SettingsInv
<1>2. Stops(s, p, length - 1, NotSpaceAt)
  BY <1>1, ContentsStop
<1> HIDE DEF s
<1>3. s \in p .. length
  <2>1. s \in p .. (length - 1) + 1
    BY <1>2 DEF Stops
  <2> QED
    BY <1>1, <2>1
<1>4. Uncut(contents, s)
  BY <1>1, <1>3, UncutBehind
<1>5. s < length => ~Space(s + 1)
  <2> SUFFICES ASSUME s < length PROVE ~Space(s + 1)
    OBVIOUS
  <2>1. s \in p .. length - 1 /\ s <= length - 1
    BY <1>1, <1>3
  <2>2. NotSpace(s)
    BY <1>2, <2>1 DEF Stops, NotSpaceAt
  <2> QED
    BY <2>1, <2>2, SeesText
<1>6. ASSUME NEW q \in p + 1 .. s PROVE Space(q)
  <2> DEFINE i == q - 1
  <2>1. i \in p .. s - 1 /\ i \in p .. length - 1 /\ i \in 0 .. length /\ i + 1 = q
    BY <1>1, <1>3
  <2> HIDE DEF i
  <2>2. i \notin NotSpaceAt
    BY <1>2, <2>1 DEF Stops
  <2>3. ~NotSpace(i)
    BY <2>1, <2>2 DEF NotSpaceAt
  <2>4. Space(i + 1)
    BY <2>1, <2>3, SeesText
  <2> QED
    BY <2>1, <2>4
<1>7. WordsFrom[p + 1] = WordsFrom[s + 1]
  <2> DEFINE m == s + 1
             r == p + 1
  <2>1. r \in 1 .. length + 1 /\ m \in r .. length + 1 /\ r .. m - 1 = p + 1 .. s
    BY <1>1, <1>3
  <2>2. \A q \in r .. m - 1 : Space(q)
    BY <1>6, <2>1
  <2> HIDE DEF m, r
  <2>3. WordsFrom[r] = WordsFrom[m]
    BY <1>1, <2>1, <2>2, SpacesHoldNothing
  <2> QED
    BY <2>3 DEF m, r
<1> QED
  BY <1>3, <1>4, <1>5, <1>6, <1>7 DEF s

\* What is cut out is the text up to the cut.
LEMMA CutIs ==
  ASSUME SettingsInv, NEW p \in 0 .. length, Uncut(contents, p), NEW e \in p .. length
  PROVE  CString([contents EXCEPT ![e] = NUL], p) = SubSeq(text, p + 1, e)
<1> DEFINE c == [contents EXCEPT ![e] = NUL]
           S == {q \in p .. length : c[q] = NUL}
<1>1. length \in Nat /\ text \in Seq(Letters) /\ \A i \in 1 .. length : text[i] \in Letters
  BY LengthIsNat, TextIs DEF SettingsInv
<1>2. c[e] = NUL /\ \A q \in 0 .. length : q # e => c[q] = contents[q]
  BY <1>1 DEF SettingsInv
<1> HIDE DEF c
<1>3. \A q \in p .. e - 1 : c[q] = text[q + 1] /\ c[q] # NUL
  <2> TAKE q \in p .. e - 1
  <2>1. q \in p .. length - 1 /\ q \in 0 .. length /\ q # e /\ q + 1 \in 1 .. length
    BY <1>1
  <2>2. c[q] = text[q + 1]
    BY <1>2, <2>1 DEF Uncut
  <2>3. text[q + 1] # NUL
    BY <1>1, <2>1 DEF Letters, Spaces, NUL
  <2> QED
    BY <2>2, <2>3
<1>4. Min(S) = e
  <2>1. S \subseteq Nat /\ e \in S
    BY <1>1, <1>2
  <2>2. \A y \in S : e <= y
    BY <1>1, <1>3
  <2> HIDE DEF S
  <2> QED
    BY <2>1, <2>2, MinUnique
<1>5. CString(c, p) = [i \in 1 .. e - p |-> c[p + i - 1]]
  BY <1>4 DEF CString
<1>6. \A i \in 1 .. e - p : c[p + i - 1] = text[p + i]
  <2> TAKE i \in 1 .. e - p
  <2> DEFINE q == p + i - 1
  <2>1. q \in p .. e - 1 /\ q + 1 = p + i
    BY <1>1
  <2> HIDE DEF q
  <2>2. c[q] = text[q + 1]
    BY <1>3, <2>1
  <2> QED
    BY <2>1, <2>2 DEF q
<1>7. CString(c, p) = [i \in 1 .. e - p |-> text[p + i]]
  BY <1>5, <1>6
<1>8. SubSeq(text, p + 1, e) = [i \in 1 .. e - p |-> text[p + i]]
  <2>1. p + 1 \in 1 .. length + 1 /\ e + 1 \in p + 1 .. length + 1 /\ (e + 1) - 1 = e
        /\ (e + 1) - (p + 1) = e - p
    BY <1>1
  <2> DEFINE r == p + 1
             f == e + 1
  <2>2. SubSeq(text, r, f - 1) = [i \in 1 .. f - r |-> text[r + i - 1]]
    <3>1. r \in 1 .. length + 1 /\ f \in r .. length + 1
      BY <2>1
    <3> HIDE DEF r, f
    <3> QED
      BY <1>1, <3>1, WordIs
  <2>3. \A i \in 1 .. e - p : r + i - 1 = p + i
    BY <1>1
  <2> QED
    BY <2>1, <2>2, <2>3
<1> QED
  BY <1>7, <1>8 DEF c

\* The words from a position on, and those behind the one found there.
LEMMA WordsAt ==
  ASSUME text \in Seq(Letters), NEW p \in 1 .. length
  PROVE  /\ WordsFrom[p] = Found(p) \o WordsFrom[Behind(p)]
         /\ Found(p) \in Seq(Recs)
         /\ WordsFrom[Behind(p)] \in Seq(Recs)
<1>1. length \in Nat /\ p \in 1 .. length + 3 /\ ~(p > length)
  BY TextIs
<1>2. Found(p) \in Seq(Recs) /\ Behind(p) \in 1 .. length + 3
  <2>1. Behind(p) \in p + 1 .. length + 3
    BY FoundIs
  <2> QED
    BY <1>1, <2>1, FoundIs
<1> QED
  BY <1>1, <1>2, WordsFromIs

LEMMA SpacePassed ==
  ASSUME text \in Seq(Letters), NEW p \in 1 .. length, Space(p)
  PROVE  WordsFrom[p] = Rest(p, "no")
<1>1. length \in Nat /\ p \in 0 .. length + 2
  BY TextIs
<1>2. Found(p) = <<>> /\ Behind(p) = p + 1
  BY StandsAt
<1>3. WordsFrom[p] = WordsFrom[p + 1]
  <2>1. WordsFrom[p] = <<>> \o WordsFrom[p + 1] /\ WordsFrom[p + 1] \in Seq(Recs)
    BY <1>2, WordsAt, Zenon
  <2> QED
    BY <2>1
<1> QED
  BY <1>1, <1>3, RestOutside

\* A component's name: the word is what the reader cuts out.
LEMMA NameFound ==
  ASSUME SettingsInv, NEW s \in 0 .. length - 1, Uncut(contents, s),
         NameAt(s + 1), WellFormed
  PROVE  LET e == FirstFrom(s + 2, IsSpace)
             n == CString([contents EXCEPT ![e] = NUL], s + 2)
         IN e # length /\ WordsFrom[s + 1] = <<NameRec(n)>> \o Rest(e + 1, "no")
<1> DEFINE p == s + 2
           e == FirstFrom(p, IsSpace)
           n == CString([contents EXCEPT ![e] = NUL], p)
<1>1. length \in Nat /\ text \in Seq(Letters)
  BY LengthIsNat DEF SettingsInv
<1>2. s + 1 < length
  BY DEF Pair, NameAt
<1>3. p \in 0 .. length /\ s <= p /\ p + 1 = (s + 1) + 2 /\ s + 1 \in 1 .. length
  BY <1>1, <1>2
<1>4. Uncut(contents, p)
  BY <1>1, <1>3, UncutBehind
<1> HIDE DEF p
<1>5. TextFrom(p + 1, Space) = e + 1 /\ e \in p .. length
  BY <1>3, <1>4, EndsTogether, Ends
<1>6. /\ Found(s + 1) = Word("name", p + 1, e + 1)
      /\ Behind(s + 1) = e + 1
  BY <1>1, <1>3, <1>5, StandsAt
<1>7. WordsFrom[s + 1] = Found(s + 1) \o WordsFrom[e + 1] /\ WordsFrom[e + 1] \in Seq(Recs)
  BY <1>1, <1>3, <1>6, WordsAt
<1> DEFINE v == SubSeq(text, p + 1, e)
<1>8. n = v
  BY <1>3, <1>4, <1>5, CutIs
<1>9. Word("name", p + 1, e + 1) = <<NameRec(v)>>
  <2>1. (e + 1) - 1 = e
    BY <1>3, <1>5
  <2> QED
    BY <2>1 DEF Word, NameRec
<1>10. e \in p .. length - 1 /\ e # length /\ e + 1 \in 1 .. length
  <2>1. TextFrom((s + 1) + 2, Space) <= length
    BY <1>3, Zenon DEF WellFormed, NameAt
  <2>2. e + 1 <= length
    BY <1>3, <1>5, <2>1
  <2> HIDE DEF e
  <2> QED
    BY <1>1, <1>3, <1>5, <2>2
<1>11. Space(e + 1)
  <2>1. Stops(e, p, length - 1, IsSpaceAt)
    BY <1>1, <1>3, ContentsStop
  <2> HIDE DEF e
  <2>2. e <= length - 1
    BY <1>1, <1>3, <1>10
  <2>3. IsSpace(e)
    BY <2>1, <2>2 DEF Stops, IsSpaceAt
  <2> QED
    BY <1>3, <1>4, <1>10, <2>3, SeesText
<1> HIDE DEF e, n, v
<1>12. WordsFrom[e + 1] = Rest(e + 1, "no")
  BY <1>1, <1>10, <1>11, SpacePassed
<1>13. WordsFrom[s + 1] = <<NameRec(v)>> \o Rest(e + 1, "no")
  BY <1>6, <1>7, <1>9, <1>12
<1> QED
  BY <1>8, <1>10, <1>13 DEF e, p, n

\* A quoted argument.
LEMMA QuotedFound ==
  ASSUME SettingsInv, NEW s \in 0 .. length - 1, Uncut(contents, s), Quote(s + 1)
  PROVE  LET e == FirstFrom(s + 1, IsQuote)
             a == CString([contents EXCEPT ![e] = NUL], s + 1)
         IN WordsFrom[s + 1] = (IF s + 1 = e THEN <<>> ELSE <<ArgRec(a)>>) \o Rest(e + 1, "no")
<1> DEFINE p == s + 1
           e == FirstFrom(p, IsQuote)
           a == CString([contents EXCEPT ![e] = NUL], p)
           v == SubSeq(text, p + 1, e)
<1>1. length \in Nat /\ text \in Seq(Letters)
  BY LengthIsNat DEF SettingsInv
<1>2. p \in 0 .. length /\ s <= p /\ p \in 1 .. length
  BY <1>1
<1>3. Uncut(contents, p)
  BY <1>1, <1>2, UncutBehind
<1>4. Quote(p)
  OBVIOUS
<1> HIDE DEF p
<1>5. TextFrom(p + 1, Quote) = e + 1 /\ e \in p .. length
  BY <1>2, <1>3, EndsTogether, Ends
<1>6. Found(p) = Arg(p + 1, e + 1) /\ Behind(p) = (e + 1) + 1
  BY <1>1, <1>2, <1>4, <1>5, StandsAt
<1>7. a = v
  BY <1>2, <1>3, <1>5, CutIs
<1> HIDE DEF e, a, v
<1>8. Arg(p + 1, e + 1) = IF p = e THEN <<>> ELSE <<ArgRec(v)>>
  <2>1. (e + 1) - 1 = e /\ (p + 1 = e + 1 <=> p = e)
    BY <1>2, <1>5
  <2> QED
    BY <2>1 DEF Arg, Word, ArgRec, v
<1>9. WordsFrom[(e + 1) + 1] = Rest(e + 1, "no")
  <2> DEFINE f == e + 1
  <2>1. f \in 0 .. length + 2
    BY <1>1, <1>2, <1>5
  <2> HIDE DEF f
  <2>2. WordsFrom[f + 1] = Rest(f, "no")
    BY <1>1, <2>1, RestOutside
  <2> QED
    BY <2>2 DEF f
<1>10. WordsFrom[p] = Arg(p + 1, e + 1) \o Rest(e + 1, "no")
  BY <1>1, <1>2, <1>6, <1>9, WordsAt
<1> QED
  BY <1>7, <1>8, <1>10 DEF p, e, a

\* An argument without quotation marks, and the comment that may end it.
LEMMA PlainFound ==
  ASSUME SettingsInv, NEW s \in 0 .. length - 1, Uncut(contents, s),
         ~Space(s + 1), ~Quote(s + 1), ~NameAt(s + 1)
  PROVE  LET e == FirstFrom(s, EndsArgument)
             a == CString([contents EXCEPT ![e] = NUL], s)
             opens == e < length /\ ~IsSpace(e)
             into == IF ~opens THEN "no" ELSE IF OpensLine(e) THEN "line" ELSE "multi"
         IN WordsFrom[s + 1] = (IF s = e THEN <<>> ELSE <<ArgRec(a)>>)
                                 \o Rest(IF opens THEN e + 2 ELSE e + 1, into)
<1> DEFINE p == s + 1
           e == FirstFrom(s, EndsArgument)
           a == CString([contents EXCEPT ![e] = NUL], s)
           v == SubSeq(text, p, e)
           opens == e < length /\ ~IsSpace(e)
           into == IF ~opens THEN "no" ELSE IF OpensLine(e) THEN "line" ELSE "multi"
           rest == Rest(IF opens THEN e + 2 ELSE e + 1, into)
<1>1. length \in Nat /\ text \in Seq(Letters)
  BY LengthIsNat DEF SettingsInv
<1>2. s \in 0 .. length /\ p \in 1 .. length
  BY <1>1
<1>3. TextFrom(p, EndsWord) = e + 1 /\ e \in s .. length
  BY <1>2, EndsTogether, Ends
<1>4. Stops(e, s, length - 1, EndsArgumentAt)
  BY <1>1, <1>2, ContentsStop
<1>5. a = v
  BY <1>2, <1>3, CutIs
<1> HIDE DEF e, a, v
<1>6. ASSUME e < length PROVE EndsArgument(e)
  <2>1. e <= length - 1
    BY <1>1, <1>2, <1>3, <1>6
  <2> QED
    BY <2>1, <1>4 DEF Stops, EndsArgumentAt
<1> HIDE DEF p
<1>7. WordsFrom[e + 1] = rest
  <2>1. CASE ~(e < length)
    <3>1. e = length /\ e \in 0 .. length + 2 /\ e >= length /\ e + 1 >= length
      BY <1>1, <1>2, <1>3, <2>1
    <3>2. WordsFrom[e + 1] = <<>> /\ Rest(e + 1, into) = <<>>
      BY <1>1, <3>1, RestOutside DEF Rest
    <3> QED
      BY <2>1, <3>2
  <2>2. CASE e < length /\ IsSpace(e)
    <3>1. e \in s .. length - 1 /\ e + 1 \in 1 .. length
      BY <1>1, <1>2, <1>3, <2>2
    <3>2. Space(e + 1)
      BY <1>2, <2>2, <3>1, SeesText
    <3>3. WordsFrom[e + 1] = Rest(e + 1, "no")
      BY <1>1, <3>1, <3>2, SpacePassed
    <3> QED
      BY <2>2, <3>3
  <2>3. CASE e < length /\ ~IsSpace(e)
    <3>1. e \in s .. length - 1 /\ e \in 0 .. length - 1
      BY <1>1, <1>2, <1>3, <2>3
    <3>2. OpensLine(e) \/ OpensMulti(e)
      BY <1>6, <2>3 DEF EndsArgument
    <3>3. /\ OpensLine(e) <=> Pair(e + 1, "/", "/")
          /\ OpensMulti(e) <=> Pair(e + 1, "/", "*")
      BY <1>2, <3>1, SeesText
    <3>4. CASE OpensLine(e)
      <4>1. WordsFrom[e + 1] = Rest(e + 2, "line")
        BY <1>1, <3>1, <3>3, <3>4, CommentEntered
      <4> QED
        BY <2>3, <3>4, <4>1
    <3>5. CASE ~OpensLine(e)
      <4>1. WordsFrom[e + 1] = Rest(e + 2, "multi")
        BY <1>1, <3>1, <3>2, <3>3, <3>5, CommentEntered
      <4> QED
        BY <2>3, <3>5, <4>1
    <3> QED
      BY <3>4, <3>5
  <2> QED
    BY <2>1, <2>2, <2>3
<1> HIDE DEF opens, into, rest
<1>8. rest \in Seq(Recs)
  <2>1. e + 1 \in 1 .. length + 3
    BY <1>1, <1>2, <1>3
  <2>2. WordsFrom[e + 1] \in Seq(Recs)
    BY <1>1, <2>1, WordsFromIs
  <2> QED
    BY <1>7, <2>2
<1>9. WordsFrom[p] = (IF s = e THEN <<>> ELSE <<ArgRec(v)>>) \o rest
  <2>1. CASE EndsWord(p)
    <3>1. TextFrom(p, EndsWord) = p
      <4>1. Stops(TextFrom(p, EndsWord), p, length, EndsWordAt)
        BY <1>1, <1>2, TextStops
      <4>2. p \in EndsWordAt
        BY <1>2, <2>1 DEF EndsWordAt
      <4> DEFINE k == TextFrom(p, EndsWord)
      <4>3. Stops(k, p, length, EndsWordAt)
        BY <4>1
      <4> HIDE DEF k
      <4>4. k \in p .. length + 1 /\ ~(p \in p .. k - 1)
        BY <4>2, <4>3 DEF Stops
      <4>5. k = p
        BY <1>1, <1>2, <4>4
      <4> QED
        BY <4>5 DEF k
    <3>2. s = e
      BY <1>2, <1>3, <3>1 DEF p
    <3>3. WordsFrom[p] = rest
      BY <1>3, <1>7, <3>1
    <3> QED
      BY <1>8, <3>2, <3>3
  <2>2. CASE ~EndsWord(p)
    <3>1. ~Quote(p) /\ ~NameAt(p)
      BY DEF p
    <3>2. Found(p) = Arg(p, e + 1) /\ Behind(p) = e + 1
      BY <1>1, <1>2, <1>3, <2>2, <3>1, StandsAt
    <3>3. Behind(p) \in p + 1 .. length + 3
      BY <1>1, <1>2, FoundIs
    <3>4. s # e /\ p # e + 1 /\ (e + 1) - 1 = e
      BY <1>1, <1>2, <1>3, <3>2, <3>3 DEF p
    <3>5. Arg(p, e + 1) = <<ArgRec(v)>>
      BY <3>4 DEF Arg, Word, ArgRec, v
    <3> QED
      BY <1>1, <1>2, <1>7, <3>2, <3>4, <3>5, WordsAt
  <2> QED
    BY <2>1, <2>2
<1> QED
  BY <1>5, <1>9 DEF p, e, a, opens, into, rest

-----------------------------------------------------------------------------
(***************************************************************************)
(* The invariant, turn by turn: the components are the words read so far.  *)
(***************************************************************************)

\* No turn changes what is said of the text.
LEMMA PlainKept == ASSUME text' = text PROVE PlainText' <=> PlainText
<1>1. length' = length
  BY DEF length
<1>2. ASSUME NEW CONSTANT p, NEW CONSTANT a, NEW CONSTANT b
      PROVE  Pair(p, a, b)' <=> Pair(p, a, b)
  BY <1>1 DEF Pair
<1>3. ASSUME NEW CONSTANT p PROVE Opens(p)' <=> Opens(p)
  BY <1>2 DEF Opens
<1>4. ASSUME NEW CONSTANT p PROVE PlainMulti(p)' <=> PlainMulti(p)
  BY <1>1 DEF PlainMulti, TextFrom, Pair
<1>5. \A p : \A a, b : Pair(p, a, b)' <=> Pair(p, a, b)
  BY <1>2
<1>6. \A p : /\ Opens(p)' <=> Opens(p)
             /\ PlainMulti(p)' <=> PlainMulti(p)
  BY <1>3, <1>4
<1> QED
  BY <1>1, <1>5, <1>6, Zenon DEF PlainText

LEMMA AllWordsKept == ASSUME text' = text PROVE Words' = Words
  BY WordsKept DEF Words

LEMMA WellFormedKept == ASSUME text' = text PROVE WellFormed' <=> WellFormed
<1>1. length' = length /\ Words' = Words
  BY AllWordsKept DEF length
<1>2. ASSUME NEW CONSTANT p
      PROVE  /\ Pair(p, "_", "_")' <=> Pair(p, "_", "_")
             /\ TextFrom(p + 2, Space)' = TextFrom(p + 2, Space)
  BY <1>1 DEF Pair, TextFrom, Space
<1> QED
  BY <1>1, <1>2, Zenon DEF WellFormed

LEMMA RestKept ==
  ASSUME text' = text, NEW CONSTANT p, NEW CONSTANT c, pos' = p, inComment' = c
  PROVE  Rest(pos, inComment)' = Rest(p, c)
  BY WordsKept DEF Rest, TextFrom, Newline, Closes, Pair, length

\* The components cs are the words up to p, in a comment of kind c or in none.
ListedAt(cs, p, c) ==
    \E given \in Seq(Recs) : Lists(cs, given) /\ Words = given \o Rest(p, c)

\* A turn before the first component is the first one; one in a block comment
\* stands behind its beginning.
Ready(cs, p, c) ==
    /\ cs = <<>> => p = 0 /\ c = "no"
    /\ c = "multi" => p >= 2 /\ Pair(p - 1, "/", "*")

GivenUp == components = <<>> /\ Words = <<>>

Reading ==
    WellFormed /\ PlainText =>
        \/ done /\ GivenUp
        \/ /\ ListedAt(components, pos, inComment)
           /\ done => pos >= length
           /\ ~done => Uncut(contents, pos) /\ Ready(components, pos, inComment)

LEMMA WordsAre == text \in Seq(Letters) => Words \in Seq(Recs) /\ Words = Rest(0, "no")
<1> SUFFICES ASSUME text \in Seq(Letters) PROVE Words \in Seq(Recs) /\ Words = Rest(0, "no")
  OBVIOUS
<1>1. length \in Nat /\ 0 \in 0 .. length + 2 /\ 0 + 1 = 1
  BY TextIs
<1>2. WordsFrom[0 + 1] = Rest(0, "no")
  BY <1>1, RestOutside
<1>3. Words = Rest(0, "no")
  BY <1>1, <1>2 DEF Words
<1> QED
  BY <1>3, RestIs

LEMMA ListedOn ==
  ASSUME NEW cs, NEW p, NEW c, NEW q, NEW d, ListedAt(cs, p, c), Rest(p, c) = Rest(q, d)
  PROVE  ListedAt(cs, q, d)
  BY DEF ListedAt

LEMMA Regroup ==
  ASSUME NEW S, NEW a \in Seq(S), NEW b \in Seq(S), NEW c \in Seq(S)
  PROVE  (a \o b) \o c = a \o (b \o c) /\ a \o b \in Seq(S)
<1>1. (a \o b) \o c = a \o (b \o c)
  BY ConcatAssociative
<1>2. a \o b \in Seq(S)
  BY ConcatProperties
<1> QED
  BY <1>1, <1>2

LEMMA RegroupOne ==
  ASSUME NEW S, NEW a \in Seq(S), NEW r \in S, NEW c \in Seq(S)
  PROVE  (a \o <<r>>) \o c = a \o (<<r>> \o c) /\ a \o <<r>> \in Seq(S)
<1>1. <<r>> \in Seq(S)
  OBVIOUS
<1> QED
  BY <1>1, Regroup, Zenon

LEMMA OneMore ==
  ASSUME NEW given \in Seq(Recs), NEW r \in Recs, NEW rest \in Seq(Recs),
         Words = given \o (<<r>> \o rest)
  PROVE  Words = (given \o <<r>>) \o rest /\ given \o <<r>> \in Seq(Recs)
<1>1. (given \o <<r>>) \o rest = given \o (<<r>> \o rest) /\ given \o <<r>> \in Seq(Recs)
  BY RegroupOne
<1> QED
  BY <1>1, Zenon

LEMMA ListedName ==
  ASSUME text \in Seq(Letters), NEW cs \in Seq(Components), NEW p, NEW c, ListedAt(cs, p, c),
         NEW e \in Components, e.args = <<>>, NEW q \in Nat, NEW d,
         Rest(p, c) = <<NameRec(e.name)>> \o Rest(q, d)
  PROVE  ListedAt(Append(cs, e), q, d)
<1>1. PICK given \in Seq(Recs) : Lists(cs, given) /\ Words = given \o Rest(p, c)
  BY DEF ListedAt
<1>2. Lists(Append(cs, e), given \o <<NameRec(e.name)>>)
  BY <1>1, ListsName
<1> DEFINE r == NameRec(e.name)
<1>3. r \in Recs
  BY DEF NameRec, Recs, Components
<1>4. Rest(q, d) \in Seq(Recs)
  BY RestIs
<1>5. Words = given \o (<<r>> \o Rest(q, d))
  BY <1>1
<1> HIDE DEF r
<1>6. Words = (given \o <<r>>) \o Rest(q, d) /\ given \o <<r>> \in Seq(Recs)
  BY <1>3, <1>4, <1>5, OneMore
<1> QED
  BY <1>2, <1>6 DEF ListedAt, r

LEMMA ListedArgument ==
  ASSUME text \in Seq(Letters), NEW cs \in Seq(Components), cs # <<>>, NEW p, NEW c,
         ListedAt(cs, p, c), NEW a \in Strings, NEW e \in Components,
         e.name = cs[Len(cs)].name, e.args = Append(cs[Len(cs)].args, a),
         NEW q \in Nat, NEW d,
         Rest(p, c) = <<ArgRec(a)>> \o Rest(q, d)
  PROVE  ListedAt([cs EXCEPT ![Len(cs)] = e], q, d)
<1>1. PICK given \in Seq(Recs) : Lists(cs, given) /\ Words = given \o Rest(p, c)
  BY DEF ListedAt
<1>2. Lists([cs EXCEPT ![Len(cs)] = e], given \o <<ArgRec(a)>>)
  BY <1>1, ListsArgument
<1> DEFINE r == ArgRec(a)
<1>3. r \in Recs
  BY DEF ArgRec, Recs
<1>4. Rest(q, d) \in Seq(Recs)
  BY RestIs
<1>5. Words = given \o (<<r>> \o Rest(q, d))
  BY <1>1
<1> HIDE DEF r
<1>6. Words = (given \o <<r>>) \o Rest(q, d) /\ given \o <<r>> \in Seq(Recs)
  BY <1>3, <1>4, <1>5, OneMore
<1> QED
  BY <1>2, <1>6 DEF ListedAt, r

\* What a turn leaves behind.
LEMMA Read ==
  ASSUME text' = text, NEW CONSTANT p, NEW CONSTANT c, pos' = p, inComment' = c,
         ListedAt(components', p, c),
         done' => p >= length,
         ~done' => Uncut(contents', p) /\ Ready(components', p, c)
  PROVE  Reading'
<1>1. length' = length
  BY DEF length
<1>2. ListedAt(components, pos, inComment)'
  BY AllWordsKept, RestKept DEF ListedAt
<1>3. done' => pos' >= length'
  BY <1>1
<1>4. ~done' => Uncut(contents, pos)' /\ Ready(components, pos, inComment)'
  BY <1>1 DEF Uncut, Ready, Pair
<1> QED
  BY <1>2, <1>3, <1>4 DEF Reading

LEMMA ReadNothing == ASSUME Reading, UNCHANGED settingsVars PROVE Reading'
<1>1. /\ text' = text /\ contents' = contents /\ pos' = pos /\ inComment' = inComment
      /\ components' = components /\ done' = done
  BY DEF settingsVars
<1>2. (WellFormed /\ PlainText)' <=> WellFormed /\ PlainText
  BY <1>1, WellFormedKept, PlainKept
<1>3. CASE ~(WellFormed /\ PlainText)
  BY <1>2, <1>3 DEF Reading
<1>4. CASE done /\ GivenUp
  BY <1>1, <1>4, AllWordsKept DEF Reading, GivenUp
<1>5. CASE WellFormed /\ PlainText /\ ~(done /\ GivenUp)
  <2>1. /\ ListedAt(components, pos, inComment)
        /\ done => pos >= length
        /\ ~done => Uncut(contents, pos) /\ Ready(components, pos, inComment)
    BY <1>5 DEF Reading
  <2>2. /\ ListedAt(components', pos, inComment)
        /\ done' => pos >= length
        /\ ~done' => Uncut(contents', pos) /\ Ready(components', pos, inComment)
    BY <1>1, <2>1
  <2> QED
    BY <1>1, <2>2, Read
<1> QED
  BY <1>3, <1>4, <1>5

LEMMA ReadingInit == SettingsInit /\ SettingsInv => Reading
<1> SUFFICES ASSUME SettingsInit, SettingsInv PROVE Reading
  OBVIOUS
<1>1. text \in Seq(Letters) /\ length \in Nat
  BY LengthIsNat DEF SettingsInv
<1>2. /\ contents = [q \in 0 .. length |-> IF q < length THEN text[q + 1] ELSE NUL]
      /\ pos = 0 /\ inComment = "no" /\ components = <<>> /\ done = FALSE
  BY DEF SettingsInit
<1>3. Uncut(contents, 0)
  <2> SUFFICES ASSUME NEW q \in 0 .. length - 1 PROVE contents[q] = text[q + 1]
    BY DEF Uncut
  <2>1. q \in 0 .. length /\ q < length
    BY <1>1
  <2> QED
    BY <1>2, <2>1
<1>4. ListedAt(<<>>, 0, "no")
  <2>1. Words = Rest(0, "no") /\ Words \in Seq(Recs)
    BY <1>1, WordsAre
  <2>2. Words = <<>> \o Rest(0, "no")
    BY <2>1
  <2>3. <<>> \in Seq(Recs)
    OBVIOUS
  <2> QED
    BY <2>2, <2>3, ListsNothing, Zenon DEF ListedAt
<1>5. Ready(<<>>, 0, "no")
  BY DEF Ready
<1> QED
  BY <1>2, <1>3, <1>4, <1>5 DEF Reading

\* In a plain text, no comment and no empty quotation stands before the first
\* name; a word that is not a name is given up, with all that follow.
LEMMA FirstWordIs ==
  ASSUME SettingsInv, PlainText, NEW s \in 0 .. length - 1, Uncut(contents, s),
         \A q \in 1 .. s : Space(q), ~Space(s + 1), ~NameAt(s + 1)
  PROVE  WordsFrom[s + 1] = <<>> \/ WordsFrom[s + 1][1].kind = "arg"
<1> DEFINE p == s + 1
<1>1. length \in Nat /\ text \in Seq(Letters)
  BY LengthIsNat DEF SettingsInv
<1>2. p \in 1 .. length /\ \A q \in 1 .. p : q = p \/ q \in 1 .. s
  BY <1>1
<1>3. \A q \in 1 .. p : ~NameAt(q)
  <2> SUFFICES ASSUME NEW q \in 1 .. p, NameAt(q) PROVE FALSE
    OBVIOUS
  <2>1. q # p
    OBVIOUS
  <2>2. q \in 1 .. s
    BY <1>2, <2>1
  <2>3. Space(q) => ~NameAt(q)
    BY DEF Space, Spaces, NameAt, Pair
  <2> QED
    BY <2>2, <2>3
<1>4. ~Opens(p) /\ ~Pair(p, "\"", "\"")
  <2>1. \A q \in 1 .. p : ~Pair(q, "_", "_")
    BY <1>3, Zenon DEF NameAt
  <2> QED
    BY <1>2, <2>1, Zenon DEF PlainText
<1>5. \A a, r : r \in Seq(Recs) => (<<ArgRec(a)>> \o r)[1].kind = "arg"
  <2> TAKE a, r
  <2> HAVE r \in Seq(Recs)
  <2> DEFINE x == ArgRec(a)
  <2>1. x.kind = "arg"
    BY DEF ArgRec
  <2> HIDE DEF x
  <2>2. (<<x>> \o r)[1] = x
    OBVIOUS
  <2> QED
    BY <2>1, <2>2 DEF x
<1>6. CASE Quote(p)
  <2> DEFINE e == FirstFrom(p, IsQuote)
             a == CString([contents EXCEPT ![e] = NUL], p)
             r == Rest(e + 1, "no")
  <2>1. WordsFrom[p] = (IF p = e THEN <<>> ELSE <<ArgRec(a)>>) \o r
    BY <1>6, QuotedFound
  <2>2. p \in 0 .. length /\ Uncut(contents, p)
    BY <1>1, <1>2, UncutBehind
  <2>3. Stops(e, p, length - 1, IsQuoteAt) /\ e \in p .. length
    BY <1>1, <2>2, ContentsStop, Ends
  <2> HIDE DEF e, a, p
  <2>4. r \in Seq(Recs)
    <3>1. e + 1 \in Nat
      BY <1>1, <1>2, <2>3
    <3> QED
      BY <1>1, <3>1, RestIs
  <2>5. CASE p # e
    <3>1. WordsFrom[p] = <<ArgRec(a)>> \o r
      BY <2>1, <2>5
    <3> HIDE DEF r
    <3>2. WordsFrom[p][1].kind = "arg"
      BY <1>5, <2>4, <3>1
    <3> QED
      BY <3>2 DEF p
  <2>6. CASE p = e
    <3>1. e >= length
      <4> SUFFICES ASSUME ~(e >= length) PROVE FALSE
        OBVIOUS
      <4>1. p \in p .. length - 1 /\ e <= length - 1 /\ p < length
        BY <1>1, <1>2, <2>3, <2>6
      <4>2. IsQuote(p)
        BY <2>3, <2>6, <4>1 DEF Stops, IsQuoteAt
      <4>3. Quote(p + 1)
        BY <2>2, <4>1, <4>2, SeesText
      <4>4. Pair(p, "\"", "\"")
        BY <1>6, <4>1, <4>3 DEF Pair, Quote
      <4> QED
        BY <1>4, <4>4
    <3>2. e + 1 >= length
      BY <1>1, <1>2, <2>3, <3>1
    <3>3. r = <<>>
      BY <3>2 DEF Rest
    <3>4. WordsFrom[p] = <<>>
      BY <2>1, <2>6, <3>3
    <3> QED
      BY <3>4 DEF p
  <2> QED
    BY <2>5, <2>6
<1>7. CASE ~Quote(p)
  <2> DEFINE e == FirstFrom(s, EndsArgument)
             a == CString([contents EXCEPT ![e] = NUL], s)
             opens == e < length /\ ~IsSpace(e)
             into == IF ~opens THEN "no" ELSE IF OpensLine(e) THEN "line" ELSE "multi"
             r == Rest(IF opens THEN e + 2 ELSE e + 1, into)
  <2>1. WordsFrom[p] = (IF s = e THEN <<>> ELSE <<ArgRec(a)>>) \o r
    BY <1>7, PlainFound
  <2>2. s \in 0 .. length /\ s \in s .. length - 1
    BY <1>1
  <2>3. Stops(e, s, length - 1, EndsArgumentAt) /\ e \in s .. length
    BY <1>1, <2>2, ContentsStop, Ends
  <2> HIDE DEF e, a
  <2>4. r \in Seq(Recs)
    <3>1. (IF opens THEN e + 2 ELSE e + 1) \in Nat
      BY <1>1, <2>2, <2>3
    <3> HIDE DEF opens, into
    <3> QED
      BY <1>1, <3>1, RestIs
  <2>5. s # e
    <3> SUFFICES ASSUME s = e PROVE FALSE
      OBVIOUS
    <3>1. e <= length - 1
      BY <1>1, <2>2
    <3>2. EndsArgument(s)
      BY <2>3, <3>1 DEF Stops, EndsArgumentAt
    <3>3. EndsWord(s + 1)
      BY <2>2, <3>2, SeesText
    <3> QED
      BY <1>4, <3>3 DEF EndsWord
  <2> HIDE DEF r, p
  <2>6. WordsFrom[p] = <<ArgRec(a)>> \o r
    BY <2>1, <2>5
  <2>7. WordsFrom[p][1].kind = "arg"
    BY <1>5, <2>4, <2>6
  <2> QED
    BY <2>7 DEF p
<1> QED
  BY <1>6, <1>7

\* What a turn that is not the last begins with.
Turning ==
    /\ SettingsInv /\ ~done
    /\ WellFormed
    /\ PlainText
    /\ ListedAt(components, pos, inComment)
    /\ Uncut(contents, pos)
    /\ Ready(components, pos, inComment)

LEMMA TurningIs ==
  ASSUME Turning
  PROVE  length \in Nat /\ text \in Seq(Letters) /\ pos \in 0 .. length
  BY LengthIsNat DEF Turning, SettingsInv

\* A comment, skipped as documented.
LEMMA ReadSkip ==
  ASSUME Turning, SkipLine \/ SkipMulti
  PROVE  Reading'
<1>1. length \in Nat /\ pos \in 0 .. length
  BY TurningIs
<1>2. SettingsInv /\ Uncut(contents, pos)
  BY DEF Turning
<1>3. inComment \in {"line", "multi"} /\ components # <<>>
  BY DEF Turning, Ready, SkipLine, SkipMulti
<1>4. ASSUME NEW p \in Nat, pos <= p, GoTo(p), Rest(pos, inComment) = Rest(p, "no"),
             inComment' = "no", UNCHANGED <<text, contents, components>>
      PROVE  Reading'
  <2>1. ListedAt(components', p, "no")
    BY <1>4, ListedOn DEF Turning
  <2>2. Uncut(contents', p)
    BY <1>1, <1>2, <1>4, UncutBehind
  <2>3. Ready(components', p, "no")
    BY <1>3, <1>4 DEF Ready
  <2>4. pos' = p /\ (done' => p >= length)
    BY <1>4 DEF GoTo
  <2> QED
    BY <1>4, <2>1, <2>2, <2>3, <2>4, Read
<1>5. CASE SkipLine
  <2> DEFINE e == FirstFrom(pos, IsNewline)
  <2>1. Stops(e, pos, length - 1, IsNewlineAt)
    BY <1>1, ContentsStop
  <2>2. /\ GoTo(e) /\ inComment = "line" /\ inComment' = "no"
        /\ UNCHANGED <<text, contents, components>>
    BY <1>5 DEF SkipLine
  <2>3. Rest(pos, "line") = Rest(e, "no")
    BY <1>1, <1>2, LineSkipped
  <2> HIDE DEF e
  <2>4. e \in Nat /\ pos <= e
    BY <1>1, <2>1 DEF Stops
  <2> QED
    BY <1>4, <2>2, <2>3, <2>4
<1>6. CASE SkipMulti
  <2> DEFINE e == FirstFrom(pos, EndsMulti)
             p == IF e = length THEN e ELSE e + 2
  <2>1. e \in pos .. length
    BY <1>1, <1>2, Ends
  <2>2. /\ GoTo(p) /\ inComment = "multi" /\ inComment' = "no"
        /\ UNCHANGED <<text, contents, components>>
    BY <1>6 DEF SkipMulti
  <2>3. pos >= 2 /\ Pair(pos - 1, "/", "*")
    BY <2>2 DEF Turning, Ready
  <2>4. pos - 1 \in 1 .. length /\ pos \in 1 .. length
    BY <1>1, <2>3
  <2>5. PlainMulti(pos - 1)
    BY <2>3, <2>4, Zenon DEF Turning, PlainText
  <2>6. Rest(pos, "multi") = Rest(p, "no")
    BY <1>2, <2>4, <2>5, MultiSkipped
  <2> HIDE DEF e
  <2>7. p \in Nat /\ pos <= p
    BY <1>1, <2>1
  <2> HIDE DEF p
  <2> QED
    BY <1>4, <2>2, <2>6, <2>7
<1> QED
  BY <1>5, <1>6

\* A slash that opens a comment, or none.
LEMMA ReadSlash ==
  ASSUME Turning, Slash
  PROVE  Reading'
<1>1. length \in Nat /\ text \in Seq(Letters) /\ pos \in 0 .. length
  BY TurningIs
<1>2. SettingsInv /\ Uncut(contents, pos) /\ ListedAt(components, pos, "no")
  BY DEF Turning, Slash
<1>3. /\ contents[pos] = "/" /\ inComment = "no"
      /\ \/ OpensLine(pos) /\ inComment' = "line" /\ GoTo(pos + 2)
         \/ OpensMulti(pos) /\ inComment' = "multi" /\ GoTo(pos + 2)
         \/ UNCHANGED <<inComment, pos, done>>
      /\ UNCHANGED <<text, contents, components, argSize>>
  BY DEF Slash
<1>4. pos # length
  BY <1>2, <1>3 DEF SettingsInv, NUL
<1>5. pos \in 0 .. length - 1 /\ pos \in pos .. length - 1 /\ pos \in 0 .. length + 2
      /\ pos + 1 \in 1 .. length
  BY <1>1, <1>4
<1>6. /\ OpensLine(pos) <=> Pair(pos + 1, "/", "/")
      /\ OpensMulti(pos) <=> Pair(pos + 1, "/", "*")
  BY <1>1, <1>2, <1>5, SeesText
<1>7. Rest(pos, "no") = WordsFrom[pos + 1]
  BY <1>1, <1>5, RestOutside
<1>8. Opens(pos + 1) => components # <<>>
  <2> SUFFICES ASSUME Opens(pos + 1), components = <<>> PROVE FALSE
    OBVIOUS
  <2>1. pos + 1 = 1 /\ 1 .. pos + 1 = {1}
    BY DEF Turning, Ready
  <2>2. \E q \in 1 .. pos + 1 : Pair(q, "_", "_")
    BY <1>5, Zenon DEF Turning, PlainText
  <2>3. NameAt(pos + 1)
    BY <2>1, <2>2, Zenon DEF NameAt
  <2>4. Opens(pos + 1) => ~NameAt(pos + 1)
    BY Zenon DEF Opens, NameAt, Pair
  <2> QED
    BY <2>3, <2>4
<1>9. ASSUME NEW c \in {"line", "multi"}, GoTo(pos + 2), inComment' = c,
             Rest(pos, "no") = Rest(pos + 2, c), Opens(pos + 1),
             c = "multi" => Pair(pos + 1, "/", "*")
      PROVE  Reading'
  <2> DEFINE p == pos + 2
  <2>1. p \in Nat /\ pos <= p /\ p >= 2 /\ p - 1 = pos + 1
    BY <1>1
  <2>2. pos' = p /\ (done' => p >= length)
    BY <1>9 DEF GoTo
  <2>3. Rest(pos, "no") = Rest(p, c) /\ (c = "multi" => Pair(p - 1, "/", "*"))
    BY <1>9, <2>1
  <2> HIDE DEF p
  <2>4. ListedAt(components', p, c)
    BY <1>2, <1>3, <2>3, ListedOn
  <2>5. Uncut(contents', p)
    BY <1>1, <1>2, <1>3, <2>1, UncutBehind
  <2>6. Ready(components', p, c)
    BY <1>3, <1>8, <1>9, <2>1, <2>3 DEF Ready
  <2>7. text' = text /\ inComment' = c
    BY <1>3, <1>9
  <2> QED
    BY <2>2, <2>4, <2>5, <2>6, <2>7, Read
<1>10. CASE OpensLine(pos) /\ inComment' = "line" /\ GoTo(pos + 2)
  <2>1. WordsFrom[pos + 1] = Rest(pos + 2, "line") /\ Opens(pos + 1)
    BY <1>1, <1>5, <1>6, <1>10, CommentEntered DEF Opens
  <2> QED
    BY <1>7, <1>9, <1>10, <2>1
<1>11. CASE OpensMulti(pos) /\ inComment' = "multi" /\ GoTo(pos + 2)
  <2>1. WordsFrom[pos + 1] = Rest(pos + 2, "multi") /\ Opens(pos + 1)
    BY <1>1, <1>5, <1>6, <1>11, CommentEntered DEF Opens
  <2> QED
    BY <1>6, <1>7, <1>9, <1>11, <2>1
<1>12. CASE UNCHANGED <<inComment, pos, done>>
  <2>1. Reading
    BY DEF Turning, Reading
  <2>2. UNCHANGED settingsVars
    BY <1>3, <1>12 DEF settingsVars
  <2> QED
    BY <2>1, <2>2, ReadNothing
<1> QED
  BY <1>3, <1>10, <1>11, <1>12

\* A turn that begins at a word or at the end.
LEMMA AtWordIs ==
  ASSUME Turning, AtWord
  PROVE  /\ Start \in pos .. length
         /\ Uncut(contents, Start)
         /\ Start < length => ~Space(Start + 1)
         /\ Rest(pos, inComment) = WordsFrom[Start + 1]
         /\ \A q \in pos + 1 .. Start : Space(q)
         /\ inComment = "no"
<1>1. length \in Nat /\ text \in Seq(Letters) /\ pos \in 0 .. length
  BY TurningIs
<1>2. SettingsInv /\ Uncut(contents, pos) /\ inComment = "no"
  BY DEF Turning, AtWord
<1>3. /\ Start \in pos .. length
      /\ Uncut(contents, Start)
      /\ Start < length => ~Space(Start + 1)
      /\ WordsFrom[pos + 1] = WordsFrom[Start + 1]
      /\ \A q \in pos + 1 .. Start : Space(q)
  BY <1>1, <1>2, StartIs DEF Start
<1>4. Rest(pos, "no") = WordsFrom[pos + 1]
  <2>1. pos \in 0 .. length + 2
    BY <1>1
  <2> QED
    BY <1>1, <2>1, RestOutside
<1> QED
  BY <1>2, <1>3, <1>4

LEMMA AtNameIs ==
  ASSUME SettingsInv, NEW s \in 0 .. length - 1, Uncut(contents, s)
  PROVE  (contents[s] = "_" /\ contents[s + 1] = "_") <=> NameAt(s + 1)
<1>1. s \in 0 .. length /\ s \in s .. length - 1
  BY LengthIsNat
<1> QED
  BY <1>1, SeesText

\* The last turns: only spaces are left, or no component has been named.
LEMMA ReadLast ==
  ASSUME Turning, OnlySpaces \/ NoComponent
  PROVE  Reading'
<1>1. length \in Nat /\ text \in Seq(Letters) /\ pos \in 0 .. length
  BY TurningIs
<1>2. /\ Start \in pos .. length
      /\ Uncut(contents, Start)
      /\ Start < length => ~Space(Start + 1)
      /\ Rest(pos, inComment) = WordsFrom[Start + 1]
      /\ \A q \in pos + 1 .. Start : Space(q)
      /\ inComment = "no"
  BY AtWordIs DEF OnlySpaces, NoComponent
<1>3. SettingsInv /\ ListedAt(components, pos, inComment)
  BY DEF Turning
<1>4. CASE OnlySpaces
  <2>1. /\ Start = length /\ pos' = length /\ done' = TRUE
        /\ UNCHANGED <<text, inComment, components>>
    BY <1>4 DEF OnlySpaces
  <2>2. Rest(pos, inComment) = Rest(length, inComment)
    <3>1. length \in 0 .. length + 2 /\ length >= length
      BY <1>1
    <3>2. WordsFrom[length + 1] = Rest(length, "no")
      BY <1>1, <3>1, RestOutside
    <3> QED
      BY <1>2, <2>1, <3>2
  <2>3. ListedAt(components', length, inComment)
    BY <1>3, <2>1, <2>2, ListedOn
  <2> DEFINE l == length
             c == inComment
  <2>4. /\ text' = text /\ pos' = l /\ inComment' = c
        /\ ListedAt(components', l, c)
        /\ done' => l >= length
        /\ done'
    BY <1>1, <2>1, <2>3
  <2> HIDE DEF l, c
  <2> QED
    BY <2>4, Read
<1>5. CASE NoComponent
  <2>1. /\ Start < length /\ ~AtName /\ components = <<>>
        /\ done' = TRUE /\ UNCHANGED <<text, components>>
    BY <1>5 DEF NoComponent
  <2> DEFINE s == Start
  <2>2. pos = 0 /\ s \in 0 .. length - 1 /\ pos + 1 .. s = 1 .. s
    <3>1. pos = 0
      BY <2>1 DEF Turning, Ready
    <3> HIDE DEF s
    <3>2. s \in pos .. length /\ s < length
      BY <1>2, <2>1 DEF s
    <3> QED
      BY <1>1, <3>1, <3>2
  <2>3. ~NameAt(s + 1)
    <3>1. ~(contents[s] = "_" /\ contents[s + 1] = "_")
      BY <2>1, Zenon DEF AtName
    <3> HIDE DEF s
    <3> QED
      BY <1>2, <1>3, <2>2, <3>1, AtNameIs, Zenon DEF s
  <2>4. WordsFrom[s + 1] = <<>> \/ WordsFrom[s + 1][1].kind = "arg"
    <3>1. /\ SettingsInv /\ PlainText /\ s \in 0 .. length - 1 /\ Uncut(contents, s)
          /\ (\A q \in 1 .. s : Space(q)) /\ ~Space(s + 1)
      BY <1>2, <1>3, <2>1, <2>2 DEF Turning
    <3> HIDE DEF s
    <3> QED
      BY <2>3, <3>1, FirstWordIs
  <2>5. Words = WordsFrom[s + 1]
    BY <1>1, <1>2, <2>2, WordsAre
  <2>6. GivenUp
    <3>1. ~("arg" = "name")
      OBVIOUS
    <3>2. Words = <<>>
      BY <2>4, <2>5, <3>1, Zenon DEF Turning, WellFormed
    <3> QED
      BY <2>1, <3>2 DEF GivenUp
  <2>7. GivenUp' /\ done'
    BY <2>1, <2>6, AllWordsKept DEF GivenUp
  <2> QED
    BY <2>7 DEF Reading
<1> QED
  BY <1>4, <1>5

\* A component's name.
LEMMA ReadName ==
  ASSUME Turning, Name, SettingsInv'
  PROVE  Reading'
<1> DEFINE s == Start
           e == FirstFrom(s + 2, IsSpace)
           c == [contents EXCEPT ![e] = NUL]
           n == CString(c, s + 2)
<1>1. length \in Nat /\ text \in Seq(Letters) /\ pos \in 0 .. length
  BY TurningIs
<1>2. SettingsInv /\ components \in Seq(Components) /\ ListedAt(components, pos, inComment)
      /\ Uncut(contents, pos) /\ inComment = "no"
  BY AtWordIs DEF Turning, SettingsInv, Name
<1>3. /\ s \in pos .. length
      /\ Uncut(contents, s)
      /\ Rest(pos, inComment) = WordsFrom[s + 1]
      /\ s < length
  BY AtWordIs DEF Name
<1>4. /\ AtName
      /\ e = length => pos' = length /\ done' = TRUE /\ components' = components
      /\ e # length =>
           /\ contents' = c
           /\ components' = Append(components, [name |-> CString(contents', s + 2), args |-> <<>>])
           /\ GoTo(e + 1)
      /\ text' = text /\ inComment' = inComment
  BY DEF Name
<1>5. contents[s] = "_" /\ contents[s + 1] = "_"
  BY <1>4, Zenon DEF AtName
<1> HIDE DEF s
<1>6. s \in 0 .. length - 1 /\ s \in 0 .. length
  BY <1>1, <1>3
<1>7. NameAt(s + 1)
  BY <1>2, <1>3, <1>5, <1>6, AtNameIs, Zenon
<1>8. e # length /\ WordsFrom[s + 1] = <<NameRec(n)>> \o Rest(e + 1, "no")
  BY <1>2, <1>3, <1>6, <1>7, NameFound DEF Turning
<1>9. s + 2 \in 0 .. length
  <2>1. s + 1 < length
    BY <1>7 DEF NameAt, Pair
  <2> QED
    BY <1>1, <1>6, <2>1
<1>10. e \in s + 2 .. length /\ e \in 0 .. length
  <2>1. e \in s + 2 .. length
    BY <1>2, <1>9, Ends
  <2> QED
    BY <1>1, <1>6, <2>1
<1>11. n \in Strings
  <2>1. s + 2 \in 0 .. e
    BY <1>1, <1>6, <1>10
  <2> QED
    BY <1>2, <1>10, <2>1, CutOut
<1>12. e + 1 \in Nat /\ Uncut(c, e + 1)
  <2>1. e \in pos .. length /\ e + 1 \in Nat /\ e + 1 > e
    BY <1>1, <1>3, <1>6, <1>10
  <2> QED
    BY <1>1, <1>2, <2>1, UncutBehindCut
<1> HIDE DEF e, c, n
<1> DEFINE r == [name |-> n, args |-> <<>>]
<1>13. contents' = c /\ components' = Append(components, r) /\ GoTo(e + 1)
  BY <1>4, <1>8 DEF n
<1>14. r \in Components /\ r.args = <<>> /\ r.name = n
  BY <1>11 DEF Components
<1> HIDE DEF r
<1>15. Rest(pos, inComment) = <<NameRec(r.name)>> \o Rest(e + 1, "no")
  BY <1>3, <1>8, <1>14
<1>16. ListedAt(components', e + 1, "no")
  <2>1. ListedAt(Append(components, r), e + 1, "no")
    BY <1>1, <1>2, <1>12, <1>14, <1>15, ListedName
  <2> QED
    BY <1>13, <2>1
<1>17. components' # <<>>
  BY <1>2, <1>13, <1>14
<1>18. Ready(components', e + 1, "no")
  BY <1>17 DEF Ready
<1> DEFINE q == e + 1
           into == "no"
<1>19. text' = text /\ pos' = q /\ inComment' = into /\ (done' => q >= length)
  BY <1>2, <1>4, <1>13 DEF GoTo
<1>20. ListedAt(components', q, into) /\ Uncut(contents', q) /\ Ready(components', q, into)
  BY <1>12, <1>13, <1>16, <1>18
<1> HIDE DEF q, into
<1> QED
  BY <1>19, <1>20, Read

\* What the last component becomes by one more argument.
LEMMA ArgumentAdded ==
  ASSUME components \in Seq(Components), components # <<>>, NEW a \in Strings,
         AddArgument(a)
  PROVE  \E e \in Components :
            /\ e.name = components[Len(components)].name
            /\ e.args = Append(components[Len(components)].args, a)
            /\ components' = [components EXCEPT ![Len(components)] = e]
<1> DEFINE n == Len(components)
           d == components[n]
           e == [d EXCEPT !.args = Append(d.args, a)]
<1>1. n \in 1 .. Len(components)
  BY EmptySeq
<1>2. d \in Components
  BY <1>1
<1>3. Append(d.args, a) \in Seq(Strings)
  <2>1. d.args \in Seq(Strings)
    BY <1>2 DEF Components
  <2> QED
    BY <2>1, AppendProperties
<1>4. e \in Components /\ e.args = Append(d.args, a) /\ e.name = d.name
  BY <1>2, <1>3 DEF Components
<1>5. components' = [components EXCEPT ![n] = e]
  BY DEF AddArgument
<1> HIDE DEF e
<1> QED
  BY <1>4, <1>5

LEMMA ReadArgument ==
  ASSUME Turning, Argument
  PROVE  Reading'
<1> DEFINE s == Start
           quoted == IsQuote(s)
           from == IF quoted THEN s + 1 ELSE s
           e == IF quoted THEN FirstFrom(from, IsQuote) ELSE FirstFrom(from, EndsArgument)
           opens == ~quoted /\ e < length /\ ~IsSpace(e)
           into == IF ~opens THEN "no" ELSE IF OpensLine(e) THEN "line" ELSE "multi"
           q == IF opens THEN e + 2 ELSE e + 1
           c == [contents EXCEPT ![e] = NUL]
           a == CString(c, from)
<1>1. length \in Nat /\ text \in Seq(Letters) /\ pos \in 0 .. length
  BY TurningIs
<1>2. SettingsInv /\ components \in Seq(Components) /\ ListedAt(components, pos, inComment)
      /\ Uncut(contents, pos)
  BY DEF Turning, SettingsInv
<1>3. /\ s \in pos .. length /\ s < length
      /\ Uncut(contents, s)
      /\ Rest(pos, inComment) = WordsFrom[s + 1]
      /\ ~Space(s + 1)
  BY AtWordIs DEF Argument
<1>4. /\ ~AtName /\ components # <<>>
      /\ IF from = e
         THEN UNCHANGED <<contents, components, argSize>>
         ELSE /\ contents' = [contents EXCEPT ![e] = NUL]
              /\ AddArgument(CString(contents', from))
      /\ inComment' = into
      /\ GoTo(q)
      /\ text' = text
  BY DEF Argument
<1>5. ~(contents[s] = "_" /\ contents[s + 1] = "_")
  BY <1>4, Zenon DEF AtName
<1> HIDE DEF s
<1>6. s \in 0 .. length - 1 /\ s \in 0 .. length /\ s \in s .. length - 1
  BY <1>1, <1>3
<1>7. ~NameAt(s + 1)
  BY <1>2, <1>3, <1>5, <1>6, AtNameIs, Zenon
<1>8. quoted <=> Quote(s + 1)
  BY <1>2, <1>3, <1>6, SeesText
<1>9. WordsFrom[s + 1] = (IF from = e THEN <<>> ELSE <<ArgRec(a)>>) \o Rest(q, into)
  <2>1. CASE quoted
    <3>1. from = s + 1 /\ e = FirstFrom(s + 1, IsQuote) /\ ~opens
      BY <2>1
    <3>2. q = e + 1 /\ into = "no"
      BY <3>1
    <3>3. Quote(s + 1)
      BY <1>8, <2>1
    <3> DEFINE f == FirstFrom(s + 1, IsQuote)
    <3>4. WordsFrom[s + 1] = (IF s + 1 = f THEN <<>>
                              ELSE <<ArgRec(CString([contents EXCEPT ![f] = NUL], s + 1))>>)
                               \o Rest(f + 1, "no")
      BY <1>2, <1>3, <1>6, <3>3, QuotedFound
    <3> HIDE DEF f, opens, into, q, quoted
    <3>5. from = s + 1 /\ e = f
      BY <3>1 DEF f
    <3> HIDE DEF e, from
    <3> QED
      BY <3>2, <3>4, <3>5
  <2>2. CASE ~quoted
    <3>1. from = s /\ e = FirstFrom(s, EndsArgument)
      BY <2>2
    <3>2. ~Quote(s + 1)
      BY <1>8, <2>2
    <3> DEFINE f == FirstFrom(s, EndsArgument)
               o == f < length /\ ~IsSpace(f)
               i == IF ~o THEN "no" ELSE IF OpensLine(f) THEN "line" ELSE "multi"
    <3>3. WordsFrom[s + 1] = (IF s = f THEN <<>>
                              ELSE <<ArgRec(CString([contents EXCEPT ![f] = NUL], s))>>)
                               \o Rest(IF o THEN f + 2 ELSE f + 1, i)
      BY <1>2, <1>3, <1>6, <1>7, <3>2, PlainFound
    <3> HIDE DEF f, quoted
    <3>4. from = s /\ e = f
      BY <3>1 DEF f
    <3> HIDE DEF e, from
    <3>5. (opens <=> o) /\ into = i
      BY <2>2, <3>4
    <3>6. q = IF o THEN f + 2 ELSE f + 1
      BY <3>4, <3>5
    <3> HIDE DEF o, i, opens, into, q
    <3> QED
      BY <3>3, <3>4, <3>5, <3>6
  <2> QED
    BY <2>1, <2>2
<1>10. from \in 0 .. length /\ s <= from
  BY <1>1, <1>6
<1>11. e \in from .. length /\ e \in 0 .. length
  <2> HIDE DEF from, quoted
  <2>1. e \in from .. length
    BY <1>2, <1>10, Ends
  <2> QED
    BY <1>1, <1>10, <2>1
<1>12. q \in Nat /\ q > e
  <2> HIDE DEF e, from, quoted, opens
  <2> QED
    BY <1>1, <1>11
<1>13. a \in Strings
  <2> HIDE DEF e, from, quoted
  <2>1. from \in 0 .. e
    BY <1>1, <1>10, <1>11
  <2> QED
    BY <1>2, <1>11, <2>1, CutOut
<1>14. into = "multi" => q >= 2 /\ Pair(q - 1, "/", "*")
  <2> SUFFICES ASSUME into = "multi" PROVE q >= 2 /\ Pair(q - 1, "/", "*")
    OBVIOUS
  <2>1. opens /\ ~OpensLine(e)
    OBVIOUS
  <2>2. ~quoted /\ e < length /\ ~IsSpace(e) /\ q = e + 2
    BY <2>1
  <2>3. e = FirstFrom(s, EndsArgument) /\ from = s
    BY <2>2
  <2>4. Stops(e, s, length - 1, EndsArgumentAt)
    BY <1>1, <1>6, <2>3, ContentsStop
  <2> HIDE DEF e, from, quoted, opens, into, q
  <2>5. e \in s .. length - 1 /\ e <= length - 1
    BY <1>1, <1>6, <1>11, <2>2, <2>3
  <2>6. EndsArgument(e)
    BY <2>4, <2>5 DEF Stops, EndsArgumentAt
  <2>7. OpensMulti(e)
    BY <2>1, <2>2, <2>6 DEF EndsArgument
  <2>8. Pair(e + 1, "/", "*")
    BY <1>2, <1>3, <1>6, <2>5, <2>7, SeesText
  <2>9. q >= 2 /\ q - 1 = e + 1
    BY <1>1, <1>6, <2>2, <2>5
  <2> QED
    BY <2>8, <2>9
<1> HIDE DEF quoted, from, e, opens, into, q
<1>15. ASSUME components' # <<>>, ListedAt(components', q, into), Uncut(contents', q)
       PROVE  Reading'
  <2>1. Ready(components', q, into)
    BY <1>14, <1>15 DEF Ready
  <2>2. text' = text /\ pos' = q /\ inComment' = into /\ (done' => q >= length)
    BY <1>4 DEF GoTo
  <2> QED
    BY <1>15, <2>1, <2>2, Read
<1>16. e >= pos /\ e \in pos .. length
  BY <1>1, <1>3, <1>10, <1>11
<1>17. CASE from = e
  <2>1. Rest(q, into) \in Seq(Recs)
    BY <1>1, <1>12, RestIs
  <2>2. Rest(pos, inComment) = <<>> \o Rest(q, into)
    BY <1>3, <1>9, <1>17
  <2>3. Rest(pos, inComment) = Rest(q, into)
    BY <2>1, <2>2
  <2>4. components' = components /\ contents' = contents
    BY <1>4, <1>17
  <2>5. ListedAt(components', q, into)
    BY <1>2, <2>3, <2>4, ListedOn
  <2>6. Uncut(contents', q)
    <3>1. pos <= q
      BY <1>1, <1>12, <1>16
    <3> QED
      BY <1>1, <1>2, <1>12, <2>4, <3>1, UncutBehind
  <2> QED
    BY <1>4, <1>15, <2>4, <2>5, <2>6
<1>18. CASE from # e
  <2>1. contents' = c
    BY <1>4, <1>18
  <2>2. AddArgument(a)
    BY <1>4, <1>18
  <2> HIDE DEF a, c
  <2>3. PICK f \in Components :
            /\ f.name = components[Len(components)].name
            /\ f.args = Append(components[Len(components)].args, a)
            /\ components' = [components EXCEPT ![Len(components)] = f]
    BY <1>2, <1>4, <1>13, <2>2, ArgumentAdded
  <2>4. Rest(pos, inComment) = <<ArgRec(a)>> \o Rest(q, into)
    BY <1>3, <1>9, <1>18
  <2>5. ListedAt(components', q, into)
    <3>1. ListedAt([components EXCEPT ![Len(components)] = f], q, into)
      BY <1>1, <1>2, <1>4, <1>12, <1>13, <2>3, <2>4, ListedArgument
    <3> QED
      BY <2>3, <3>1
  <2>6. Uncut(contents', q)
    BY <1>1, <1>2, <1>12, <1>16, <2>1, UncutBehindCut DEF c
  <2>7. components' # <<>>
    <3>1. DOMAIN components' = DOMAIN components
      BY <2>3
    <3>2. 1 \in DOMAIN components
      BY <1>2, <1>4, EmptySeq
    <3> QED
      BY <3>1, <3>2
  <2> QED
    BY <1>15, <2>5, <2>6, <2>7
<1> QED
  BY <1>17, <1>18

LEMMA ReadingStep ==
  ASSUME SettingsInv, SettingsInv', Reading, [SettingsNext]_settingsVars
  PROVE  Reading'
<1>1. CASE UNCHANGED settingsVars \/ done \/ ~(WellFormed /\ PlainText)
  <2>1. CASE UNCHANGED settingsVars
    BY <2>1, ReadNothing
  <2>2. CASE ~(WellFormed /\ PlainText)
    <3>1. text' = text
      BY DEF SettingsNext, settingsVars, SkipLine, SkipMulti, Slash, OnlySpaces, Name,
             NoComponent, Argument, Returned
    <3> QED
      BY <2>2, <3>1, WellFormedKept, PlainKept DEF Reading
  <2>3. CASE done
    <3>1. UNCHANGED settingsVars
      BY <2>3 DEF SettingsNext, SkipLine, SkipMulti, Slash, AtWord, OnlySpaces, Name,
                  NoComponent, Argument, Returned
    <3> QED
      BY <3>1, ReadNothing
  <2> QED
    BY <1>1, <2>1, <2>2, <2>3
<1>2. CASE SettingsNext /\ ~done /\ WellFormed /\ PlainText
  <2>1. Turning
    BY <1>2 DEF Turning, Reading
  <2> QED
    BY <1>2, <2>1, ReadSkip, ReadSlash, ReadLast, ReadName, ReadArgument
       DEF SettingsNext, Returned
<1> QED
  BY <1>1, <1>2

\* config.h:8-16 and test.config:5-6, for every well-formed plain text: what
\* getSettings returns are the words of the file, in order and under the
\* component they follow.
THEOREM PlainTextsAreRead == SettingsSpec => []ReadsAsDocumented
<1>1. SettingsInit => SettingsInv /\ ArgumentsFit /\ Reading
  BY SettingsInitInv, ReadingInit
<1>2. SettingsInv /\ ArgumentsFit /\ Reading /\ [SettingsNext]_settingsVars
        => SettingsInv' /\ ArgumentsFit' /\ Reading'
  BY SettingsStep, ReadingStep
<1>3. SettingsInv /\ Reading => ReadsAsDocumented
  <2> SUFFICES ASSUME SettingsInv, Reading, done, WellFormed, PlainText
               PROVE  AsDocumented
    BY DEF ReadsAsDocumented
  <2>1. length \in Nat /\ text \in Seq(Letters) /\ components \in Seq(Components)
    BY LengthIsNat DEF SettingsInv
  <2>2. Words \in Seq(Recs)
    BY <2>1, WordsAre
  <2>3. CASE GivenUp
    BY <2>3 DEF GivenUp, AsDocumented
  <2>4. CASE ListedAt(components, pos, inComment) /\ pos >= length
    <3>1. Rest(pos, inComment) = <<>>
      BY <2>4 DEF Rest
    <3>2. PICK given \in Seq(Recs) : Lists(components, given) /\ Words = given \o <<>>
      BY <2>4, <3>1 DEF ListedAt
    <3>3. Words = given
      BY <3>2
    <3> QED
      BY <2>1, <2>2, <3>2, <3>3, ListedIsDocumented
  <2> QED
    BY <2>3, <2>4 DEF Reading
<1> QED
  BY <1>1, <1>2, <1>3, PTL DEF SettingsSpec
-----------------------------------------------------------------------------
(***************************************************************************)
(* Turns advance: why the loop can run for ever at a lone slash only.      *)
(***************************************************************************)
\* How far the reader is.  A turn that leaves a comment may stay where it is,
\* and no turn ever goes back.
Outside == IF inComment = "no" THEN 1 ELSE 0
Progress == 2 * pos + Outside

LEMMA TwiceIsMore ==
  ASSUME NEW p \in Nat, NEW q \in Nat, NEW a \in {0, 1}, NEW b \in {0, 1},
         q > p \/ (q = p /\ a = 0 /\ b = 1)
  PROVE  2 * p + a < 2 * q + b
  OBVIOUS

LEMMA MoreProgress ==
  ASSUME pos \in Nat, pos' \in Nat,
         pos' > pos \/ (pos' = pos /\ inComment # "no" /\ inComment' = "no")
  PROVE  Progress < Progress'
<1>1. Outside \in {0, 1} /\ Outside' \in {0, 1}
  BY DEF Outside
<1>2. inComment # "no" /\ inComment' = "no" => Outside = 0 /\ Outside' = 1
  BY DEF Outside
<1>3. 2 * pos + Outside < 2 * pos' + Outside'
  BY <1>1, <1>2, TwiceIsMore
<1> QED
  BY <1>3 DEF Progress

LEMMA TurnAdvances ==
  ASSUME SettingsInv, [SettingsNext]_settingsVars, settingsVars' # settingsVars, ~AtLoneSlash
  PROVE  done' \/ Progress < Progress'
<1>1. ~done /\ SettingsNext
  BY DEF SettingsNext, SkipLine, SkipMulti, Slash, AtWord, OnlySpaces, Name, NoComponent,
         Argument, Returned
<1>2. length \in Nat /\ pos \in 0 .. length
  BY <1>1, LengthIsNat DEF SettingsInv
<1>3. CASE SkipLine
  <2>1. FirstFrom(pos, IsNewline) \in pos .. length
    <3> DEFINE E == {q \in 0 .. length : IsNewline(q)}
               S == {q \in pos .. length : q = length \/ q \in E}
               R == {q \in pos .. length : q = length \/ IsNewline(q)}
    <3>1. R = S
      BY <1>2
    <3>2. FirstFrom(pos, IsNewline) = Min(R)
      BY Zenon DEF FirstFrom
    <3> HIDE DEF E, R
    <3>3. Min(S) \in pos .. length
      BY <1>2, FirstIs
    <3> QED
      BY <3>1, <3>2, <3>3, Zenon
  <2> DEFINE q == FirstFrom(pos, IsNewline)
  <2>2. pos' = q /\ inComment # "no" /\ inComment' = "no"
    BY <1>3 DEF SkipLine, GoTo
  <2> HIDE DEF q
  <2> QED
    BY <1>2, <2>1, <2>2, MoreProgress DEF q
<1>4. CASE SkipMulti
  <2> DEFINE q == FirstFrom(pos, EndsMulti)
  <2>1. q \in pos .. length
    BY <1>2, Ends
  <2>2. pos' = (IF q = length THEN q ELSE q + 2) /\ inComment # "no" /\ inComment' = "no"
    BY <1>4 DEF SkipMulti, GoTo
  <2> HIDE DEF q
  <2>3. pos' \in Nat /\ pos' >= pos
    BY <1>2, <2>1, <2>2
  <2> QED
    BY <1>2, <2>2, <2>3, MoreProgress
<1>5. CASE Slash
  <2>1. pos' = pos + 2
    BY <1>5 DEF Slash, AtLoneSlash, GoTo
  <2> QED
    BY <1>2, <2>1, MoreProgress
<1>6. CASE OnlySpaces \/ NoComponent
  BY <1>6 DEF OnlySpaces, NoComponent
<1>7. ASSUME AtWord PROVE Start \in pos .. length
  BY <1>2, Ends DEF Start
<1>8. CASE Name
  <2> DEFINE end == FirstFrom(Start + 2, IsSpace)
  <2>1. AtWord /\ Start < length /\ contents[Start + 1] # NUL
    BY <1>8 DEF Name, AtName, NUL
  <2>2. Start \in pos .. length
    BY <1>7, <2>1
  <2>3. Start + 1 # length
    BY <2>1 DEF SettingsInv
  <2>4. Start + 2 \in 0 .. length
    BY <1>2, <2>1, <2>2, <2>3
  <2>5. end \in Start + 2 .. length
    BY <2>4, Ends
  <2>6. done' \/ pos' = end + 1
    BY <1>8 DEF Name, GoTo
  <2> HIDE DEF end
  <2>7. done' \/ (pos' \in Nat /\ pos' > pos)
    BY <1>2, <2>2, <2>4, <2>5, <2>6
  <2> QED
    BY <1>2, <2>7, MoreProgress
<1>9. CASE Argument
  <2> DEFINE quoted == IsQuote(Start)
             from == IF quoted THEN Start + 1 ELSE Start
             end == IF quoted THEN FirstFrom(from, IsQuote)
                    ELSE FirstFrom(from, EndsArgument)
             opens == ~quoted /\ end < length /\ ~IsSpace(end)
  <2>1. AtWord /\ Start < length
    BY <1>9 DEF Argument
  <2>2. Start \in pos .. length
    BY <1>7, <2>1
  <2>3. from \in Start .. length
    BY <1>2, <2>1, <2>2
  <2>4. from \in 0 .. length
    BY <1>2, <2>2, <2>3
  <2>5. end \in from .. length
    BY <2>4, Ends
  <2> HIDE DEF quoted, from
  <2>6. GoTo(IF opens THEN end + 2 ELSE end + 1)
    BY <1>9 DEF Argument, quoted, from
  <2> HIDE DEF end, opens
  <2>7. pos' \in {end + 1, end + 2}
    BY <2>6 DEF GoTo
  <2>8. pos' \in Nat /\ pos' > pos
    BY <1>2, <2>2, <2>3, <2>5, <2>7
  <2> QED
    BY <1>2, <2>8, MoreProgress
<1> QED
  BY <1>1, <1>3, <1>4, <1>5, <1>6, <1>8, <1>9 DEF SettingsNext, Returned

\* The reader comes no further than the end of the text: this bounds Progress.
LEMMA ProgressBounded == SettingsInv /\ ~done => Progress \in 0 .. 2 * length + 1
<1> SUFFICES ASSUME SettingsInv, ~done PROVE Progress \in 0 .. 2 * length + 1
  OBVIOUS
<1>1. length \in Nat /\ pos \in 0 .. length
  BY LengthIsNat DEF SettingsInv
<1>2. Outside \in {0, 1}
  BY DEF Outside
<1> QED
  BY <1>1, <1>2 DEF Progress

\* The safety half of ParseEnds: every turn of parseSettings that does not
\* begin at a slash that opens no comment ends the call or brings the reader
\* further, and there is an end to how far it can come.
THEOREM TurnsAdvance ==
  SettingsSpec => /\ [][AtLoneSlash \/ done' \/ Progress < Progress']_settingsVars
                  /\ [](~done => Progress \in 0 .. 2 * length + 1)
<1>1. SettingsInit => SettingsInv /\ ArgumentsFit
  BY SettingsInitInv
<1>2. SettingsInv /\ ArgumentsFit /\ [SettingsNext]_settingsVars
        => SettingsInv' /\ ArgumentsFit'
  BY SettingsStep
<1>3. SettingsInv /\ [SettingsNext]_settingsVars
        => [AtLoneSlash \/ done' \/ Progress < Progress']_settingsVars
  BY TurnAdvances
<1>4. SettingsInv => (~done => Progress \in 0 .. 2 * length + 1)
  BY ProgressBounded
<1> QED
  BY <1>1, <1>2, <1>3, <1>4, PTL DEF SettingsSpec
=============================================================================
