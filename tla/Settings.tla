------------------------------ MODULE Settings ------------------------------
(***************************************************************************)
(* The reader of the settings file (src/engine/config.c): parseSettings    *)
(* cuts the text into components, words that begin with "__", and their    *)
(* arguments.  An action is one turn of its outer loop.  Positions count   *)
(* from 0, as in the code; contents[length] is the NUL that openSettings   *)
(* appends.  The text's letters are the ones the code tells apart and "x"  *)
(* for the rest.                                                           *)
(***************************************************************************)
EXTENDS Integers, Sequences, FiniteSetsExt

CONSTANTS Texts,                 \* the files: sequences of letters
          ARG_LIST_CHUNK_SIZE

Spaces == {" ", "\n"}
Letters == Spaces \cup {"_", "/", "*", "\"", "x"}
NUL == "NUL"

ASSUME SettingsAssumption ==
    /\ Texts \subseteq Seq(Letters)
    /\ ARG_LIST_CHUNK_SIZE \in Nat \ {0, 1}

VARIABLES text,              \* the file
          contents,          \* configContents, in which words get cut out
          pos,
          inComment,         \* "no", "line" (inComment) or "multi" (inMultiComment)
          components,        \* componentList, in the order of the file
          argSize,           \* the room in the last component's argList
          done               \* parseSettings has returned

settingsVars == <<text, contents, pos, inComment, components, argSize, done>>

length == Len(text)

\* The first position from p on that satisfies S, or the end of the text.
FirstFrom(p, S(_)) == Min({q \in p .. length : q = length \/ S(q)})

IsSpace(q) == contents[q] \in Spaces
IsNewline(q) == contents[q] = "\n"

\* strdup(&configContents[p]): up to the next NUL.
CString(c, p) ==
    LET end == Min({q \in p .. length : c[q] = NUL}) IN
    [i \in 1 .. end - p |-> c[p + i - 1]]

OpensLine(q) == contents[q] = "/" /\ contents[q + 1] = "/"
OpensMulti(q) == contents[q] = "/" /\ contents[q + 1] = "*"

-----------------------------------------------------------------------------
SettingsInit ==
    /\ text \in Texts
    /\ contents = [q \in 0 .. length |-> IF q < length THEN text[q + 1] ELSE NUL]
    /\ pos = 0
    /\ inComment = "no"
    /\ components = <<>>
    /\ argSize = ARG_LIST_CHUNK_SIZE
    /\ done = FALSE

\* while (pos < length), also after each continue
GoTo(p) == pos' = p /\ done' = (p >= length)

\* Mutant: the comment is never left.
SkipLineStaysInside ==
    /\ ~done /\ inComment = "line"
    /\ GoTo(FirstFrom(pos, IsNewline))
    /\ UNCHANGED <<text, contents, inComment, components, argSize>>

SkipLine ==
    /\ ~done /\ inComment = "line"
    /\ GoTo(FirstFrom(pos, IsNewline))
    /\ inComment' = "no"
    /\ UNCHANGED <<text, contents, components, argSize>>

\* The loop goes on while neither letter is the one of "*/".
EndsMulti(q) == contents[q] = "*" \/ contents[q + 1] = "/"

SkipMulti ==
    LET end == FirstFrom(pos, EndsMulti) IN
    /\ ~done /\ inComment = "multi"
    /\ GoTo(IF end = length THEN end ELSE end + 2)
    /\ inComment' = "no"
    /\ UNCHANGED <<text, contents, components, argSize>>

\* A slash at the beginning of a turn.  One that opens no comment is not
\* passed over: the turn changes nothing, and neither does any later one.
Slash ==
    /\ ~done /\ inComment = "no"
    /\ contents[pos] = "/"
    /\ \/ OpensLine(pos) /\ inComment' = "line" /\ GoTo(pos + 2)
       \/ OpensMulti(pos) /\ inComment' = "multi" /\ GoTo(pos + 2)
       \/ ~OpensLine(pos) /\ ~OpensMulti(pos) /\ UNCHANGED <<inComment, pos, done>>
    /\ UNCHANGED <<text, contents, components, argSize>>

\* The other turns begin with the next letter that is not a space.
NotSpace(q) == ~IsSpace(q)
Start == FirstFrom(pos, NotSpace)
AtWord == ~done /\ inComment = "no" /\ contents[pos] # "/"
AtName == contents[Start] = "_" /\ contents[Start + 1] = "_"

OnlySpaces ==
    /\ AtWord /\ Start = length
    /\ pos' = length /\ done' = TRUE
    /\ UNCHANGED <<text, contents, inComment, components, argSize>>

\* A name that runs to the end of the file is dropped.
Name ==
    LET end == FirstFrom(Start + 2, IsSpace) IN
    /\ AtWord /\ Start < length /\ AtName
    /\ IF end = length
       THEN /\ pos' = length /\ done' = TRUE
            /\ UNCHANGED <<contents, components, argSize>>
       ELSE /\ contents' = [contents EXCEPT ![end] = NUL]
            /\ components' = Append(components,
                   [name |-> CString(contents', Start + 2), args |-> <<>>])
            /\ argSize' = ARG_LIST_CHUNK_SIZE
            /\ GoTo(end + 1)
    /\ UNCHANGED <<text, inComment>>

\* An argument before the first component: the file is given up.
NoComponent ==
    /\ AtWord /\ Start < length /\ ~AtName /\ components = <<>>
    /\ pos' = Start /\ done' = TRUE
    /\ UNCHANGED <<text, contents, inComment, components, argSize>>

\* argCount: the arguments after the component's name in argList[0].
ArgCount(component) == Len(component.args) + 1

\* Mutant: the list grows one argument late.
AddArgumentGrowsLate(arg) ==
    LET current == Len(components) IN
    /\ components' = [components EXCEPT ![current].args = Append(@, arg)]
    /\ argSize' = IF ArgCount(components[current]) > argSize
                  THEN argSize + ARG_LIST_CHUNK_SIZE ELSE argSize

AddArgument(arg) ==
    LET current == Len(components) IN
    /\ components' = [components EXCEPT ![current].args = Append(@, arg)]
    /\ argSize' = IF ArgCount(components[current]) = argSize
                  THEN argSize + ARG_LIST_CHUNK_SIZE ELSE argSize

IsQuote(q) == contents[q] = "\""
\* Mutant: only a line comment ends a word.
EndsArgumentNotAtMulti(q) == IsSpace(q) \/ OpensLine(q)

EndsArgument(q) == IsSpace(q) \/ OpensLine(q) \/ OpensMulti(q)

Argument ==
    LET quoted == IsQuote(Start)
        from == IF quoted THEN Start + 1 ELSE Start
        end == IF quoted THEN FirstFrom(from, IsQuote)
               ELSE FirstFrom(from, EndsArgument)
        opens == ~quoted /\ end < length /\ ~IsSpace(end)
    IN
    /\ AtWord /\ Start < length /\ ~AtName /\ components # <<>>
    /\ IF from = end
       THEN UNCHANGED <<contents, components, argSize>>
       ELSE /\ contents' = [contents EXCEPT ![end] = NUL]
            /\ AddArgument(CString(contents', from))
    /\ inComment' = IF ~opens THEN "no" ELSE IF OpensLine(end) THEN "line" ELSE "multi"
    /\ GoTo(IF opens THEN end + 2 ELSE end + 1)
    /\ UNCHANGED text

Returned == done /\ UNCHANGED settingsVars

SettingsNext ==
    \/ SkipLine \/ SkipMulti \/ Slash
    \/ OnlySpaces \/ Name \/ NoComponent \/ Argument
    \/ Returned

\* parseSettings is one call: nothing interrupts its loop.
SettingsSpec ==
    SettingsInit /\ [][SettingsNext]_settingsVars /\ WF_settingsVars(SettingsNext)

\* getSettings: the first component of that name.
GetSettings(name) ==
    LET named == {i \in DOMAIN components : components[i].name = name} IN
    IF named = {} THEN [count |-> 0, args |-> <<>>]
    ELSE LET e == components[Min(named)] IN [count |-> ArgCount(e), args |-> e.args]

-----------------------------------------------------------------------------
(***************************************************************************)
(* What config.h:8-16 promises: comments are skipped, quoted text is one   *)
(* word, all else is split on whitespace, a word that begins with "__"     *)
(* begins a component.  How far a name runs the examples say: of the line  *)
(* __foo/* -a 1 */ test.config:5 says that "the name is "foo/*" and it     *)
(* takes three arguments", as do ex_wb.config and ex_proc.config.  A       *)
(* comment attached to a name is thus a part of it, an exception to        *)
(* config.h:10.  WordsFrom lists the words of the file from a letter on.   *)
(***************************************************************************)
Pair(p, a, b) == p < length /\ text[p] = a /\ text[p + 1] = b
TextFrom(p, S(_)) == Min({q \in p .. length + 1 : q > length \/ S(q)})

Space(q) == text[q] \in Spaces
Newline(q) == text[q] = "\n"
Quote(q) == text[q] = "\""
Opens(q) == Pair(q, "/", "/") \/ Pair(q, "/", "*")
Closes(q) == Pair(q, "*", "/")
EndsWord(q) == Space(q) \/ Opens(q)

\* What stands at p: no word or one, and where the text goes on behind it.
Word(kind, p, q) == << [kind |-> kind, word |-> SubSeq(text, p, q - 1)] >>
Arg(p, q) == IF p = q THEN <<>> ELSE Word("arg", p, q)

Found(p) ==
    CASE EndsWord(p) -> <<>>
      [] Quote(p) -> Arg(p + 1, TextFrom(p + 1, Quote))
      [] Pair(p, "_", "_") -> Word("name", p + 2, TextFrom(p + 2, Space))
      [] OTHER -> Arg(p, TextFrom(p, EndsWord))

Behind(p) ==
    CASE Space(p) -> p + 1
      [] Pair(p, "/", "/") -> TextFrom(p, Newline)
      [] Pair(p, "/", "*") -> TextFrom(p + 2, Closes) + 2
      [] Quote(p) -> TextFrom(p + 1, Quote) + 1
      [] Pair(p, "_", "_") -> TextFrom(p + 2, Space)
      [] OTHER -> TextFrom(p, EndsWord)

WordsFrom[p \in 1 .. length + 3] ==
    IF p > length THEN <<>> ELSE Found(p) \o WordsFrom[Behind(p)]

Words == WordsFrom[1]

\* The arguments that follow the first mention of a component.
DocumentedArgs(words, name) ==
    LET Names == {i \in DOMAIN words : words[i].kind = "name"}
        first == Min({i \in Names : words[i].word = name})
        next == Min({i \in Names : i > first} \cup {Len(words) + 1})
    IN [i \in 1 .. next - first - 1 |-> words[first + i].word]

AsDocumented ==
    LET words == Words
        names == {words[i].word : i \in {j \in DOMAIN words : words[j].kind = "name"}}
    IN /\ {components[i].name : i \in DOMAIN components} = names
       /\ \A name \in names : GetSettings(name).args = DocumentedArgs(words, name)

\* What config.h takes for granted: the first word is a component's, and no
\* name runs to the end of the file.  The code gives other files up.
WellFormed ==
    /\ Words = <<>> \/ Words[1].kind = "name"
    /\ \A p \in 1 .. length : Pair(p, "_", "_") => TextFrom(p + 2, Space) <= length

\* A comment that the code skips to its end: neither a "*" nor a "/" inside it
\* is taken for the end.
PlainMulti(p) ==
    LET Halts(q) == text[q] = "*" \/ (q < length /\ text[q + 1] = "/")
        stop == TextFrom(p + 2, Halts)
    IN stop > length \/ Pair(stop, "*", "/")

\* All comments are plain, and neither a comment nor an empty quotation stands
\* before the first component, where either makes the code give up the file.
PlainText ==
    \A p \in 1 .. length :
        /\ Pair(p, "/", "*") => PlainMulti(p)
        /\ Opens(p) \/ Pair(p, "\"", "\"") => \E q \in 1 .. p : Pair(q, "_", "_")

-----------------------------------------------------------------------------
(***************************************************************************)
(* Properties.                                                             *)
(***************************************************************************)

\* The last component's name and arguments have room in argList.
ArgumentsFit ==
    components # <<>> => ArgCount(components[Len(components)]) <= argSize

\* config.h:8-16 and test.config:5-6: in a plain text, what getSettings returns
\* are the words of the file, in order and under the component they follow.
ReadsAsDocumented == done /\ WellFormed /\ PlainText => AsDocumented

\* A file is read to its end, unless a turn begins at a slash that opens no
\* comment: then the loop never ends.
AtLoneSlash ==
    inComment = "no" /\ contents[pos] = "/" /\ ~OpensLine(pos) /\ ~OpensMulti(pos)
ParseEnds == <>(done \/ AtLoneSlash)

\* config.h:10 ("The tool will also skip any // or /* portions of text").
SkipsComments == done /\ WellFormed => AsDocumented
=============================================================================
