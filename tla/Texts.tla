--------------------------------- MODULE Texts ---------------------------------
(***************************************************************************)
(* XML and JSON: what Xml and Json write, and what SimpleXmlParser and     *)
(* Json's scanning functions make of it.                                   *)
(*                                                                         *)
(* A text is a sequence of tokens.  Names and character references are one *)
(* token each, as are the characters that mean something to a parser; "0"  *)
(* stands for the end, "ctl" for a control character.                      *)
(***************************************************************************)
EXTENDS Naturals, Integers, Sequences, FiniteSets, SequencesExt

-----------------------------------------------------------------------------
(* How Xml and Json escape what is written, and how Xml reads it back *)

Quote == "''"

EntityOf(t) == CASE t = "&" -> "amp" [] t = "<" -> "lt" [] t = ">" -> "gt" [] t = "''" -> "quot" [] t = "'" -> "apos"
                 [] t = "ctl" -> "#x01" [] OTHER -> ""
CharacterOf(e) == CASE e = "amp" -> <<"&">> [] e = "lt" -> <<"<">> [] e = "gt" -> <<">">> [] e = "quot" -> <<"''">>
                    [] e = "apos" -> <<"'">> [] OTHER -> <<>>

\* Wrong: & is not escaped.
WriteEscapedBare(text) ==
  FlattenSeq([i \in DOMAIN text |-> IF text[i] = "&" \/ EntityOf(text[i]) = "" THEN <<text[i]>> ELSE <<"&", EntityOf(text[i]), ";">>])
WriteEscaped(text) ==
  FlattenSeq([i \in DOMAIN text |-> IF EntityOf(text[i]) = "" THEN <<text[i]>> ELSE <<"&", EntityOf(text[i]), ";">>])

\* unescapeInplace() removes the references that it does not know.  It gives
\* strtol() a reference from # or x on, where no number begins, so that it
\* removes all numeric ones.  A text ends at an & that no ; follows.
Unescape(text) ==
  FoldLeft(LAMBDA r, t :
    CASE r.entity = "none" -> IF t = "&" THEN [r EXCEPT !.entity = ""] ELSE [r EXCEPT !.text = Append(@, t)]
      [] t = ";" -> [entity |-> "none", text |-> r.text \o CharacterOf(r.entity)]
      [] OTHER -> [r EXCEPT !.entity = t],
    [entity |-> "none", text |-> <<>>], text).text

\* Wrong: a \ is not escaped.
EscapeJsonQuotes(t) == CASE t = Quote -> <<"\\", Quote>> [] t = "ctl" -> <<"\\", "u0001">> [] OTHER -> <<t>>
EscapeJson(t) ==
  CASE t \in {Quote, "\\"} -> <<"\\", t>> [] t = "ctl" -> <<"\\", "u0001">> [] OTHER -> <<t>>
JsonEscaped(text) == FlattenSeq([i \in DOMAIN text |-> EscapeJson(text[i])])

-----------------------------------------------------------------------------

CONSTANTS
  NameTokens,       \* made of TAG_CHARS
  Documents,        \* [text, events]: XML and what it contains
  Values            \* [kind, text, size, content]: JSON after an opening bracket
                    \* or quote, the part of it that is to be read

Kinds == {"object", "array", "string", "value"}
TextsAssumption == \A v \in Values : v.kind \in Kinds /\ v.size <= Len(v.text)

VARIABLES
  task,             \* "xml" or what is scanned
  source,           \* a document or a value
  p,
  insideTag, atTagStart, error, events,     \* SimpleXmlParser
  level, quoted,    \* where a scan is
  phase             \* "run", "done"

vars == <<task, source, p, insideTag, atTagStart, error, events, level, quoted, phase>>
xmlVars == <<insideTag, atTagStart, error, events>>
jsonVars == <<level, quoted>>

At(i) == IF i <= Len(source.text) THEN source.text[i] ELSE "0"
Passed(i, stop) == SelectInSubSeq(source.text, i, Len(source.text), LAMBDA t : t \in stop)
\* The first token from i on that is in stop; the end if there is none.
Find(i, stop) == IF Passed(i, stop) = 0 THEN Len(source.text) + 1 ELSE Passed(i, stop)
FindOther(i, tokens) == Find(i, ToSet(source.text) \ tokens)
Part(i, j) == SubSeq(source.text, i, j - 1)

Init ==
  /\ \/ task = "xml" /\ source \in Documents
     \/ source \in Values /\ task = source.kind
  /\ p = 1 /\ insideTag = FALSE /\ atTagStart = FALSE /\ error = "NONE" /\ events = <<>>
  /\ level = 1 /\ quoted = (task = "string") /\ phase = "run"

-----------------------------------------------------------------------------
(* SimpleXmlParser.  One step is a call of next().                         *)

Blank == {" "}

\* What next() leaves: it returns an event and is at a place, perhaps in a tag,
\* or after the < that ended a text and was overwritten.
Event(at, inside, afterText, event) ==
  /\ p' = at /\ insideTag' = inside /\ atTagStart' = afterText /\ events' = Append(events, event) /\ error' = error
Failed(at, why) ==
  /\ p' = at /\ insideTag' = FALSE /\ atTagStart' = FALSE /\ events' = Append(events, <<"end">>) /\ error' = why

NameEnd(i) == FindOther(i, NameTokens)
Space(i) == FindOther(i, Blank)

\* Wrong: the < that ended the text is not remembered.
EndedByTagForgotten(e) == FALSE
EndedByTag(e) == At(e) = "<"
Text(i) == \E e \in {Find(i, {"<"})} :
             Event(IF At(e) = "<" THEN e + 1 ELSE e, FALSE, EndedByTag(e), <<"text", Unescape(Part(i, e))>>)

Attribute(name, i) == \E e \in {Find(i + 1, {At(i)})} :
  /\ Event(IF At(e) = "0" THEN e ELSE e + 1, TRUE, FALSE, <<"attr", name, Unescape(Part(i + 1, e))>>) 

\* parseComment() is at the !, parseDeclaration() at the ?; 0 is a failure.
CommentEnd(i) ==
  IF At(i + 1) # "-" \/ At(i + 2) # "-" THEN 0
  ELSE IF \E j \in i + 3 .. Len(source.text) : At(j) = "-" /\ At(j + 1) = "-"
       THEN LET j == CHOOSE k \in i + 3 .. Len(source.text) : At(k) = "-" /\ At(k + 1) = "-" /\
                       \A l \in i + 3 .. k - 1 : ~(At(l) = "-" /\ At(l + 1) = "-")
            IN  IF At(j + 2) = ">" THEN j + 3 ELSE 0
       ELSE 0
DeclarationEnd(i) == IF At(Find(i + 1, {"?"})) = "?" /\ At(Find(i + 1, {"?"}) + 1) = ">" THEN Find(i + 1, {"?"}) + 2 ELSE 0

EndTag(i) ==
  IF NameEnd(i) > i /\ At(NameEnd(i)) = ">" THEN Event(NameEnd(i) + 1, FALSE, FALSE, <<"end">>)
  ELSE Failed(NameEnd(i), "INCOMPLETE_TAG")

\* After a <.
Markup(i) ==
  CASE At(i) = "/" -> EndTag(i + 1)
    [] At(i) \in NameTokens -> Event(NameEnd(i), TRUE, FALSE, <<"start", At(i)>>)
    [] At(i) = "?" -> IF DeclarationEnd(i) = 0 THEN Failed(i, "INCOMPLETE_DECLARATION") ELSE Text(DeclarationEnd(i))
    [] At(i) = "!" -> IF CommentEnd(i) = 0 THEN Failed(i, "INCOMPLETE_COMMENT") ELSE Text(CommentEnd(i))
    [] OTHER -> Failed(i, "INCOMPLETE_TAG")

Content(i) ==
  CASE At(i) = "0" -> Event(i, FALSE, FALSE, <<"end">>)
    [] At(i) = "<" -> Markup(i + 1)
    [] OTHER -> Text(i)

InTag(i) ==
  CASE At(i) \in NameTokens ->
         (\E equal \in {Space(NameEnd(i))} : \E value \in {Space(equal + 1)} :
            CASE At(equal) # "=" -> Failed(equal, "EXPECTED_EQUAL")
              [] At(value) \notin {"'", "''"} -> Failed(value, "EXPECTED_QUOTE")
              [] OTHER -> Attribute(At(i), value))
    [] At(i) = ">" -> Content(i + 1)
    [] At(i) = "/" /\ At(i + 1) = ">" -> Event(i + 2, FALSE, FALSE, <<"end">>)
    [] OTHER -> Failed(i, "INCOMPLETE_TAG")

\* A client goes on until all elements have ended, or there is an error.
Depth == Cardinality({i \in DOMAIN events : events[i][1] = "start"}) - Cardinality({i \in DOMAIN events : events[i][1] = "end"})
Ended == events # <<>> /\ Last(events) = <<"end">> /\ Depth <= 0

NextEvent ==
  /\ task = "xml" /\ phase = "run" /\ ~Ended
  /\ CASE insideTag -> InTag(Space(p))
       [] atTagStart -> Markup(p)
       [] OTHER -> Content(p)
  /\ UNCHANGED <<task, source, jsonVars, phase>>

EndXml ==
  /\ task = "xml" /\ phase = "run" /\ Ended
  /\ phase' = "done" /\ UNCHANGED <<task, source, p, xmlVars, jsonVars>>

-----------------------------------------------------------------------------
(* Json.                                                                   *)

Opens == CASE task = "object" -> {"{"} [] task = "array" -> {"["} [] OTHER -> {}
Closes == CASE task = "object" -> {"}"} [] task = "array" -> {"]"} [] OTHER -> {",", "}", "]"}

\* Where a scan goes on in a string.
\* Wrong: a \ does not hide what follows it.
InStringBare(i) == i + 1
InString(i) == IF At(i) = "\\" THEN i + 2 ELSE i + 1

ScanEnd ==
  /\ task # "xml" /\ phase = "run" /\ p > Len(source.text)
  /\ p' = Len(source.text) + 1 /\ phase' = "done"
  /\ UNCHANGED <<task, source, xmlVars, jsonVars>>

\* The closing quote ends a string, which is then the result of
\* readRawString(), or is passed.
ScanString ==
  /\ task # "xml" /\ phase = "run" /\ p <= Len(source.text) /\ quoted
  /\ p' = InString(p) /\ quoted' = (At(p) # Quote)
  /\ phase' = IF At(p) = Quote /\ task \in {"string", "value"} THEN "done" ELSE phase
  /\ UNCHANGED <<task, source, xmlVars, level>>

ScanToken ==
  /\ task \in {"object", "array"} /\ phase = "run" /\ p <= Len(source.text) /\ ~quoted
  /\ p' = p + 1
  /\ quoted' = (At(p) = Quote)
  /\ level' = CASE At(p) \in Opens -> level + 1 [] At(p) \in Closes -> level - 1 [] OTHER -> level
  /\ phase' = IF level' = 0 THEN "done" ELSE phase
  /\ UNCHANGED <<task, source, xmlVars>>

\* skipValue() passes the first token that is not blank, and takes the one after
\* it for the first of the value.
SkipValue ==
  /\ task = "value" /\ phase = "run" /\ p <= Len(source.text) /\ ~quoted
  /\ \E first \in {Space(p) + 1} : \E i \in {IF first > Len(source.text) THEN first ELSE Find(first + 1, Closes) + 1} :
       /\ task' = CASE At(first) = "{" -> "object" [] At(first) = "[" -> "array" [] OTHER -> task
       /\ quoted' = (At(first) = Quote)
       /\ p' = IF At(first) \in {"{", "[", Quote} THEN first + 1 ELSE IF i > Len(source.text) THEN Len(source.text) + 1 ELSE i
       /\ phase' = IF At(first) \in {"{", "[", Quote} THEN phase ELSE "done"
  /\ UNCHANGED <<source, xmlVars, level>>

Next == NextEvent \/ EndXml \/ ScanEnd \/ ScanString \/ ScanToken \/ SkipValue

Spec == Init /\ [][Next]_vars

-----------------------------------------------------------------------------
(* Correctness.                                                            *)

Told == SelectSeq(events, LAMBDA e : e # <<"text", <<>>>>)

\* The parser tells a client what a document contains, in order: its elements,
\* attributes and texts with what was escaped in them, however the document is
\* laid out (SimpleXmlParser.cpp, lines 17-185).  It loses the characters that are
\* written as numeric references, though it is to "Convert codepoint to UTF-8 and
\* write it in place" (Xml.cpp, line 73).
XmlReadBack == task = "xml" /\ phase = "done" => error = "NONE" /\ Told = source.events

\* A scan of an object or an array ends after its closing bracket, whatever is
\* in its strings, and that of a string after its quote (Json.cpp, 119-183, 222-237).
JsonScanned == phase = "done" /\ source \in Values /\ source.kind \in {"object", "array", "string"} => p = source.size + 1

\* What is escaped can be read back (Json.cpp, lines 12-63) from what
\* readRawString() returns, which has the closing quote in it (222-237).
JsonUnescaped(text) ==
  FoldLeft(LAMBDA r, t : IF r.escape THEN [escape |-> FALSE, text |-> Append(r.text, IF t = "u0001" THEN "ctl" ELSE t)]
                         ELSE IF t = "\\" THEN [r EXCEPT !.escape = TRUE] ELSE [r EXCEPT !.text = Append(@, t)],
           [escape |-> FALSE, text |-> <<>>], text).text
RawString == Part(1, p)
JsonReadBack ==
  task = "string" /\ phase = "done" =>
    RawString # <<>> /\ Last(RawString) = Quote /\ JsonUnescaped(Front(RawString)) = source.content
\* Not so, and not checked: readRawString() gives a string "without enclosing
\* quotes" (Json.h, line 63).
RawStringBare == task = "string" /\ phase = "done" => RawString = SubSeq(source.text, 1, source.size - 1)

\* skipValue() skips a value that one token precedes, as a colon does: what is in
\* brackets or quotes to its end, anything else with the token that ends it
\* (Json.cpp, 186-220).
Enclosed == source.text[2] \in {"{", "[", Quote}
ValueBehindTokenSkipped ==
  phase = "done" /\ source \in Values /\ source.kind = "value" /\ source.text[1] = ":" =>
    p = IF Enclosed \/ source.size = Len(source.text) THEN source.size + 1 ELSE source.size + 2
\* Not so, and not checked: it ends where a value ends that p points to.
ValueSkipped == phase = "done" /\ source \in Values /\ source.kind = "value" => p = source.size + 1
================================================================================
