------------------------------ MODULE ArmaData ------------------------------
(***************************************************************************)
(* The format of calls to the extension and of its answers: ArmaData and   *)
(* ArmaMessage of src/OPFL/ThreadHive.h on one side, CALL_EXTENSION of the *)
(* mission on the other.  Each side prints values as text and parses the   *)
(* text of the other; each has a printer and a parser of its own.          *)
(*                                                                         *)
(* A text is a sequence of characters; Unit is the character 31 that       *)
(* quotes strings, and a number or a word is one character here, because   *)
(* neither parser looks inside.  A value is a record: its type, the text   *)
(* of a leaf, the elements of an array.  In the extension the type is the  *)
(* character the text begins with.  Numbers are taken in the form both     *)
(* sides print them in (the mission prints a million as 1e+006, which the  *)
(* extension reads as 1); Failed stands for a parse that calls             *)
(* std::terminate or reads past the end of the text.                       *)
(***************************************************************************)
EXTENDS Integers, Sequences, SequencesExt, FiniteSetsExt

CONSTANTS
  Calls,    (* what the mission sends: [name, data]                        *)
  Answers,  (* what the extension sends back                               *)
  Numbers   (* the texts that are numbers                                  *)

VARIABLES
  stage,  (* "idle", "called", "read" or "answered"                        *)
  sent,   (* the message that was sent last                                *)
  wire,   (* its text                                                      *)
  got     (* what the other side made of it                                *)

vars == <<stage, sent, wire, got>>

Unit == "unit"
Types == {"$", "#", "+", "-", "*", "@"}
Value(type, text) == [type |-> type, text |-> text, elems |-> <<>>]
Array(type, elems) == [type |-> type, text |-> <<>>, elems |-> elems]
Failed == Value("failed", <<>>)
NoData == Value("none", <<>>)
NoName == <<>>
-----------------------------------------------------------------------------
(* Positions from .. to of text t that hold character c outside quotes,    *)
(* when the text is read from position from.                               *)
Quoted(t, from, j) == Cardinality({k \in from .. j - 1 : t[k] = Unit}) % 2 = 1
Bare(t, c, from, to) == {j \in from .. to : t[j] = c /\ ~Quoted(t, from, j)}
Depth(t, from, to) ==
  Cardinality(Bare(t, "[", from, to)) - Cardinality(Bare(t, "]", from, to))

WithoutUnits(t) == SelectSeq(t, LAMBDA c : c # Unit)

Bracket(parts) ==
  <<"@", "[">> \o FlattenSeq([i \in DOMAIN parts |->
                     IF i = 1 THEN parts[i] ELSE <<",">> \o parts[i]])
             \o <<"]">>

(* A message is its name and its data with a comma between them.           *)
Message(name, data) ==
  IF name = NoName THEN data ELSE IF data = <<>> THEN name
  ELSE name \o <<",">> \o data

(* Where the name of a message ends: at the first comma, or not at all.    *)
(* The mission takes the comma for a part of the name.                     *)
NameEnd(t) ==
  LET commas == {j \in DOMAIN t : t[j] = ","}
  IN  IF commas = {} THEN Len(t) + 1 ELSE Min(commas)
-----------------------------------------------------------------------------
(* The mission: PCS_DeparseArmaData, which sends a truth value as a digit. *)
Digit(text) == IF text = <<"true">> THEN "1" ELSE "0"

RECURSIVE PCS_DeparseArmaData(_)
PCS_DeparseArmaData(v) ==
  CASE v.type = "ARRAY" ->
         Bracket([i \in DOMAIN v.elems |-> PCS_DeparseArmaData(v.elems[i])])
    [] v.type = "BOOL" -> <<"+", Digit(v.text)>>
    [] v.type = "WHOLE" -> <<"-">> \o v.text
    [] v.type = "FRACTION" -> <<"#">> \o v.text
    [] v.type = "TEXT" -> <<"*">> \o v.text
    [] OTHER -> <<"$", Unit>> \o v.text \o <<Unit>>

(* Mutant: the fields of inner arrays are split off as well.               *)
SplitsFlat(t) == Bare(t, ",", 3, Len(t))

(* Where PCS_ParseArmaData splits an array into its fields.                *)
Splits(t) == {j \in Bare(t, ",", 3, Len(t)) : Depth(t, 3, j) < 1}

(* The fields themselves; the last one loses the bracket of the array.     *)
Fields(t) ==
  LET ends == SetToSortSeq(Splits(t) \cup {Len(t)}, <)
  IN  [n \in DOMAIN ends |->
         SubSeq(t, (IF n = 1 THEN 3 ELSE ends[n - 1] + 1), ends[n] - 1)]

ScalarType(t) == IF t[1] = "#" THEN "FRACTION" ELSE "WHOLE"

RECURSIVE PCS_ParseArmaData(_)
PCS_ParseArmaData(t) ==
  IF t = <<>> THEN Failed
  ELSE CASE t[1] = "@" ->
              LET f == Fields(t)
              IN  Array("ARRAY", [n \in DOMAIN f |-> PCS_ParseArmaData(f[n])])
         [] t[1] = "$" -> Value("STRING", WithoutUnits(Tail(t)))
         [] t[1] = "*" -> Value("TEXT", WithoutUnits(Tail(t)))
         [] t[1] \in {"#", "+", "-"} -> Value(ScalarType(t), Tail(t))
         [] OTHER ->
              LET data == SubSeq(t, NameEnd(t) + 1, Len(t))
              IN  IF NameEnd(t) > Len(t) THEN Value("STRING", t)
                  ELSE Array("ARRAY", <<Value("STRING", SubSeq(t, 1, NameEnd(t))),
                                        PCS_ParseArmaData(data)>>)

(* Only a whole answer may be the empty array.                             *)
MissionRead(t) ==
  IF t = <<"@", "[", "]">> THEN Array("ARRAY", <<>>) ELSE PCS_ParseArmaData(t)
-----------------------------------------------------------------------------
(* The extension: ArmaData::DeparseArmaData.  Elements without data are    *)
(* left out; when they all are, the bracket goes with the last comma.      *)
RECURSIVE DeparseArmaData(_)
DeparseArmaData(v) ==
  CASE v.type = "@" ->
         LET full == SelectSeq(v.elems, LAMBDA e : e.type # "none")
         IN  IF full = <<>> /\ v.elems # <<>> THEN <<"@", "]">>
             ELSE Bracket([i \in DOMAIN full |-> DeparseArmaData(full[i])])
    [] v.type = "$" -> <<"$", Unit>> \o v.text \o <<Unit>>
    [] v.type = "none" -> <<>>
    [] OTHER -> <<v.type>> \o v.text

(* Mutant: commas and brackets in a string end it.                         *)
LeafEndsQuoted(t, i) == {j \in i + 1 .. Len(t) : t[j] \in {"@", ",", "]"}}

(* Where a leaf that begins at i ends: at a comma or a bracket outside     *)
(* quotes, or at an @ anywhere.                                            *)
LeafEnds(t, i) ==
  {j \in i + 1 .. Len(t) :
     t[j] = "@" \/ (t[j] \in {",", "]"} /\ ~Quoted(t, i, j))}

(* Where the array that begins at i is closed.                             *)
Closings(t, i) == {j \in Bare(t, "]", i + 1, Len(t)) : Depth(t, i + 1, j) = 0}

(* ArmaData::BuildData, and its loop over the elements of an array, which  *)
(* stands at position i and has built the elements in done.                *)
RECURSIVE BuildData(_), Elements(_, _, _)

BuildData(t) ==
  IF Len(t) < 2 THEN Failed
  ELSE CASE t[1] \in {"$", "*"} -> Value(t[1], Tail(t))
         [] t[1] \in {"#", "+", "-"} ->
              IF Tail(t) \in Numbers THEN Value(t[1], Tail(t)) ELSE Failed
         [] t[1] = "@" /\ t[2] = "[" -> Elements(t, 3, <<>>)
         [] OTHER -> Failed

Elements(t, i, done) ==
  LET Then(text, j) ==
        IF BuildData(text) = Failed THEN Failed
        ELSE Elements(t, j, Append(done, BuildData(text)))
      Leaf ==
        LET j == Min(LeafEnds(t, i)) IN
          CASE t[j] = "@" -> Elements(t, j, done)
            [] \/ t[j] = "]" /\ j = Len(t)
               \/ t[j] = "," /\ j < Len(t) ->
                 Then(WithoutUnits(SubSeq(t, i, j - 1)), j + 1)
            [] OTHER -> Failed
      Nested ==
        LET j == Min(Closings(t, i)) IN
          CASE \/ j + 1 = Len(t) /\ t[j + 1] = "]"
               \/ j + 1 < Len(t) /\ t[j + 1] # "]" /\ t[j + 2] # "]" ->
                 Then(SubSeq(t, i, j), j + 2)
            [] OTHER -> Failed
  IN  IF i > Len(t) THEN Array("@", done)
      ELSE IF t[i] # "@"
        THEN IF LeafEnds(t, i) = {} THEN Failed ELSE Leaf
      ELSE IF i + 1 < Len(t) /\ t[i + 1] = "[" /\ Closings(t, i) # {}
        THEN Nested
      ELSE Failed

(* ArmaMessage::ParseArmaData: the name, unless the text begins with data. *)
ParseArmaData(t) ==
  IF t[1] \in Types THEN [name |-> NoName, data |-> BuildData(t)]
  ELSE [name |-> SubSeq(t, 1, NameEnd(t) - 1),
        data |-> IF NameEnd(t) > Len(t) THEN NoData
                 ELSE BuildData(SubSeq(t, NameEnd(t) + 1, Len(t)))]
-----------------------------------------------------------------------------
Init == stage = "idle" /\ sent = NoData /\ wire = <<>> /\ got = NoData

(* PCS_CallExtension, up to the call.                                      *)
Call ==
  /\ stage = "idle"
  /\ stage' = "called"
  /\ sent' \in Calls
  /\ wire' = Message(sent'.name, PCS_DeparseArmaData(sent'.data))
  /\ got' = NoData

(* RVExtension makes an ArmaMessage of the text.                           *)
Receive ==
  /\ stage = "called"
  /\ stage' = "read"
  /\ got' = ParseArmaData(wire)
  /\ UNCHANGED <<sent, wire>>

(* It writes its answer as text: with streams, in the form of its printer, *)
(* or, for a function that it does not know, the text of the call again.   *)
Answer ==
  /\ stage = "read"
  /\ stage' = "answered"
  /\ sent' \in Answers
  /\ wire' = Message(sent'.name, DeparseArmaData(sent'.data))
  /\ got' = NoData

(* PCS_CallExtension, after the call.                                      *)
Return ==
  /\ stage = "answered"
  /\ stage' = "idle"
  /\ got' = MissionRead(wire)
  /\ UNCHANGED <<sent, wire>>

Next == Call \/ Receive \/ Answer \/ Return

Spec == Init /\ [][Next]_vars
-----------------------------------------------------------------------------
(* What the extension should make of a value of the mission: a truth value *)
(* becomes a number, and the other types have theirs.                      *)
RECURSIVE Meant(_)
Meant(v) ==
  CASE v.type = "ARRAY" -> Array("@", [i \in DOMAIN v.elems |-> Meant(v.elems[i])])
    [] v.type = "BOOL" -> Value("+", <<Digit(v.text)>>)
    [] v.type = "WHOLE" -> Value("-", v.text)
    [] v.type = "FRACTION" -> Value("#", v.text)
    [] v.type = "TEXT" -> Value("*", v.text)
    [] OTHER -> Value("$", v.text)

(* What the mission should make of a value of the extension.               *)
RECURSIVE MeantBack(_)
MeantBack(v) ==
  CASE v.type = "@" ->
         LET full == SelectSeq(v.elems, LAMBDA e : e.type # "none")
         IN  Array("ARRAY", [i \in DOMAIN full |-> MeantBack(full[i])])
    [] v.type = "$" -> Value("STRING", v.text)
    [] v.type = "*" -> Value("TEXT", v.text)
    [] v.type = "#" -> Value("FRACTION", v.text)
    [] OTHER -> Value("WHOLE", v.text)

(* What the mission puts into an array arrives as it was: whatever         *)
(* separators and brackets its strings hold and however arrays are nested, *)
(* the parser of ThreadHive.h finds the elements that                      *)
(* DeparseArmaData.sqf printed, and the name that CallExtension.sqf put    *)
(* before them.                                                            *)
ReadAsMeant ==
  stage = "read" => got = [name |-> sent.name, data |-> Meant(sent.data)]

(* What the extension answers arrives as it was: ParseArmaData.sqf finds   *)
(* the elements that ArmaData::DeparseArmaData printed, and a named        *)
(* answer becomes the pair of its name, with its comma, and its data.      *)
AnsweredAsMeant ==
  (stage = "idle" /\ sent # NoData) =>
    LET data == MeantBack(sent.data)
    IN  got = CASE sent.name = NoName -> data
                [] sent.data = NoData -> Value("STRING", sent.name)
                [] OTHER -> Array("ARRAY",
                              <<Value("STRING", Append(sent.name, ",")), data>>)
=============================================================================
