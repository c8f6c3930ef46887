------------------------------ MODULE PostData ------------------------------
(***************************************************************************)
(* What becomes of the body of a request: parse_request gives it to one of *)
(* postdatac's parsers (postdata.c, multipart_parser.c), which finds names *)
(* and values in it, and request_to_xml walks over these.                  *)
(*                                                                         *)
(* A body is a sequence of letters, at offsets from 0.  Words that the     *)
(* code compares as a whole are one letter: "D" is the header name         *)
(* Content-Disposition, "N" is form-data; name=" with its quote.  Request  *)
(* runs these steps between its own.                                       *)
(***************************************************************************)
EXTENDS Integers, Sequences, SequencesExt

CONSTANTS
  Boundary      \* the boundary, with the two hyphens in front

\* One part of a multipart body, as the client means it.
PartShape ==
  [named : BOOLEAN, typed : BOOLEAN, name : Seq(STRING), data : Seq(STRING)]

\* kind is dataType, from the Content-Type header; body is what follows the
\* head in the buffer; got: postData is set, by a body or, after an Expect
\* header, by a second read_all that does not fail; parts is what was meant.
PostShape ==
  [kind : {"none", "urlenc", "multipart", "raw"}, got : BOOLEAN,
   body : Seq(STRING), parts : Seq(PartShape)]

VARIABLES
  post,         \* the post, of PostShape
  stage,        \* "parse", "toxml", "written", "crashed"
  pstate,       \* state of the parser that runs
  i,            \* offset of the letter it is at
  mark,         \* where the name, value or data in hand starts
  valStart,     \* parseUrlencoded: where the last value starts
  index,        \* letters of the boundary that were met
  isContent,    \* the header in hand is Content-Disposition
  vals          \* the list from firstVal: pointers and lengths, as in C

vars == <<post, stage, pstate, i, mark, valStart, index, isContent, vals>>

others == <<post, index, isContent>>

Length == Len(post.body)
Letter == post.body[i + 1]
AtLast == i = Length - 1

(***************************************************************************)
(* postdatac's list.  A piece of the body is where it is and its length.   *)
(***************************************************************************)
Piece(at, len) == [at |-> at, len |-> len]
Unset == Piece(0, 0)

\* onname: a new value at the end of the list.
OnName(at, len) ==
  vals' = Append(vals, [name |-> Piece(at, len), value |-> Unset])

\* ondata sets the value of the last name, whatever it was before.
WithData(piece) == [vals EXCEPT ![Len(vals)].value = piece]

\* data_callback, ondata: without any name, lastVal is a null pointer.
OnData(at, len, next) ==
  IF vals = <<>>
  THEN stage' = "crashed" /\ UNCHANGED vals
  ELSE stage' = next /\ vals' = WithData(Piece(at, len))

NameLength(len) == len - 2

\* partvalue_callback: the name is what is between name=" and the last
\* letter, which should be the quote that ends it.
OnHeaderValue(at, len) ==
  IF isContent /\ len > 1 /\ post.body[at + 1] = "N"
  THEN OnName(at + 1, NameLength(len))
  ELSE UNCHANGED vals

-----------------------------------------------------------------------------
(***************************************************************************)
(* postdatac::parseUrlencoded, a letter at a time.                         *)
(***************************************************************************)
Urlenc(state) == stage = "parse" /\ post.kind = "urlenc" /\ pstate = state

\* Mutant of EndsName: an empty name is passed over.
MutEndsNameNotEmpty == Letter = "=" /\ i > mark

\* Mutant of EndsValue: a second = ends the value as well.
MutEndsValueEquals == Letter \in {"&", "="}

EndsName == Letter = "="

EndsValue == Letter = "&"

\* State 0: what is before = is a name.
UrlName ==
  /\ Urlenc("name") /\ i < Length
  /\ i' = i + 1
  /\ \/ ~EndsName /\ UNCHANGED <<vals, valStart, pstate>>
     \/ /\ EndsName
        /\ OnName(mark, i - mark)
        /\ valStart' = i + 1
        /\ pstate' = "value"
  /\ UNCHANGED <<others, stage, mark>>

\* State 1: what is before & is its value.
UrlValue ==
  /\ Urlenc("value") /\ i < Length
  /\ i' = i + 1
  /\ \/ ~EndsValue /\ UNCHANGED <<stage, vals, mark, pstate>>
     \/ /\ EndsValue
        /\ OnData(valStart, i - valStart, "parse")
        /\ mark' = i + 1
        /\ pstate' = "name"
  /\ UNCHANGED <<others, valStart>>

\* After the loop, in either state: a name without = is not looked at, what
\* there is from the last value on becomes that value.
UrlEnd ==
  /\ stage = "parse" /\ post.kind = "urlenc" /\ i = Length
  /\ OnData(valStart, i - valStart, "toxml")
  /\ UNCHANGED <<others, pstate, i, mark, valStart>>

-----------------------------------------------------------------------------
(***************************************************************************)
(* multipart_parser_execute, a letter at a time.  A return in the middle   *)
(* leaves postdata as it is.                                               *)
(***************************************************************************)
At(states) ==
  /\ stage = "parse" /\ post.kind = "multipart"
  /\ pstate \in states
  /\ i < Length

Goto(state) == pstate' = state /\ i' = i + 1 /\ UNCHANGED stage
\* i-- and then i++: the letter is looked at once more.
Again(state) == pstate' = state /\ UNCHANGED <<i, stage>>
Return == stage' = "toxml" /\ UNCHANGED <<pstate, i>>

L == Len(Boundary)

StartBoundary ==
  /\ At({"start_boundary"})
  /\ \/ /\ index < L /\ Letter = Boundary[index + 1]
        /\ index' = index + 1 /\ Goto("start_boundary")
     \/ /\ index = L /\ Letter = "cr"
        /\ index' = index + 1 /\ Goto("start_boundary")
     \/ /\ index = L + 1 /\ Letter = "lf"
        /\ index' = 0 /\ Goto("header_field_start")
     \/ /\ Letter # (Boundary \o <<"cr", "lf">>)[index + 1]
        /\ Return /\ UNCHANGED index
  /\ UNCHANGED <<post, mark, valStart, isContent, vals>>

\* Letters that a header's name may have.
FieldLetters == {"-", "B", "D", "T", "x"}

\* header_field_start and header_field.  partname_callback only compares the
\* name, which it is given at the colon and at the end of the body.
HeaderField ==
  LET start == IF pstate = "header_field_start" THEN i ELSE mark
      name == SubSeq(post.body, start + 1, i)
  IN
  /\ At({"header_field_start", "header_field"})
  /\ mark' = start
  /\ \/ Letter = "cr" /\ Goto("headers_almost_done") /\ UNCHANGED isContent
     \/ Letter = ":" /\ Goto("header_value_start") /\ isContent' = (name = <<"D">>)
     \/ /\ Letter \in FieldLetters
        /\ Goto("header_field")
        /\ isContent' = IF AtLast THEN Append(name, Letter) = <<"D">> ELSE isContent
     \/ /\ Letter \notin {"cr", ":"} \cup FieldLetters
        /\ Return /\ UNCHANGED isContent
  /\ UNCHANGED <<post, valStart, index, vals>>

\* States in which one letter may follow.
OneLetter(state, letter, next) ==
  /\ At({state})
  /\ IF Letter = letter THEN Goto(next) ELSE Return
  /\ UNCHANGED <<others, mark, valStart, vals>>

HeadersAlmostDone == OneLetter("headers_almost_done", "lf", "part_data_start")
HeaderValueAlmostDone == OneLetter("header_value_almost_done", "lf", "header_field_start")

\* header_value_start and header_value.
HeaderValue ==
  LET start == IF pstate = "header_value_start" THEN i ELSE mark IN
  /\ At({"header_value_start", "header_value"})
  /\ \/ /\ pstate = "header_value_start" /\ Letter = "sp"
        /\ Goto("header_value_start") /\ UNCHANGED <<mark, vals>>
     \/ /\ ~(pstate = "header_value_start" /\ Letter = "sp")
        /\ mark' = start
        /\ IF Letter = "cr"
           THEN OnHeaderValue(start, i - start) /\ Goto("header_value_almost_done")
           ELSE /\ Goto("header_value")
                /\ IF AtLast THEN OnHeaderValue(start, i - start + 1)
                           ELSE UNCHANGED vals
  /\ UNCHANGED <<others, valStart>>

\* part_data_start and part_data: any letter may be the one before the line
\* feed of a boundary, unless it is the last.
PartData ==
  LET start == IF pstate = "part_data_start" THEN i ELSE mark IN
  /\ At({"part_data_start", "part_data"})
  /\ mark' = start
  /\ i' = i + 1
  /\ IF AtLast
     THEN OnData(start, i - start + 1, "parse") /\ pstate' = "part_data_start"
     ELSE pstate' = "part_data_almost_boundary" /\ UNCHANGED <<stage, vals>>
  /\ UNCHANGED <<others, valStart>>

AlmostBoundary ==
  /\ At({"part_data_almost_boundary"})
  /\ \/ Letter = "lf" /\ Goto("part_data_boundary") /\ index' = 0
     \/ Letter # "lf" /\ Again("part_data") /\ UNCHANGED index
  /\ UNCHANGED <<post, mark, valStart, isContent, vals>>

\* Mutant of Mismatch: the letter is compared again.
MutMismatchStays == "part_data_boundary"

Mismatch == "part_data"

PartBoundary ==
  /\ At({"part_data_boundary"})
  /\ IF Letter = Boundary[index + 1]
     THEN /\ index' = index + 1
          /\ Goto(IF index' = L THEN "part_data_almost_end" ELSE "part_data_boundary")
     ELSE Again(Mismatch) /\ UNCHANGED index
  /\ UNCHANGED <<post, mark, valStart, isContent, vals>>

AlmostEnd ==
  /\ At({"part_data_almost_end"})
  /\ Goto(CASE Letter = "-" -> "part_data_final_hyphen"
            [] Letter = "cr" -> "part_data_end"
            [] OTHER -> "part_data")
  /\ UNCHANGED <<others, mark, valStart, vals>>

\* Mutant of PartLength: one line end less.
MutPartLengthOwn == i - mark - L - 3

\* The length of the data, from the letter at which its boundary is complete:
\* the last part's is without the line end in front of the boundary, that of
\* any other part is with it.
LastLength == i - mark - L - 3

PartLength == i - mark - L - 1

EmitPart(state, letter, len, next) ==
  /\ At({state})
  /\ IF Letter = letter
     THEN OnData(mark, len, "parse") /\ pstate' = next /\ i' = i + 1
     ELSE Return /\ UNCHANGED vals
  /\ UNCHANGED <<others, mark, valStart>>

FinalHyphen == EmitPart("part_data_final_hyphen", "-", LastLength, "end")
PartEnd == EmitPart("part_data_end", "lf", PartLength, "header_field_start")

\* Behind the last boundary anything may follow.
Epilogue ==
  /\ At({"end"})
  /\ Goto("end")
  /\ UNCHANGED <<others, mark, valStart, vals>>

MultipartEnd ==
  /\ stage = "parse" /\ post.kind = "multipart" /\ i = Length
  /\ stage' = "toxml"
  /\ UNCHANGED <<others, pstate, i, mark, valStart, vals>>

-----------------------------------------------------------------------------
(***************************************************************************)
(* The request.                                                            *)
(***************************************************************************)
\* rawPost, and bodies of no known type: nothing is parsed.
Unparsed ==
  /\ stage = "parse" /\ post.kind \in {"none", "raw"}
  /\ stage' = "toxml"
  /\ UNCHANGED <<others, pstate, i, mark, valStart, vals>>

\* request_to_xml: of a post, toxml walks over the list and writes nothing
\* yet.  Without post data it is called on a pointer that was never set.
ToXml ==
  /\ stage = "toxml"
  /\ stage' \in IF post.kind # "none" /\ ~post.got
                THEN {"written", "crashed"} ELSE {"written"}
  /\ UNCHANGED <<others, pstate, i, mark, valStart, vals>>

\* parse_request, up to the parser, of a given post.
Init ==
  /\ stage = IF post.got THEN "parse" ELSE "toxml"
  /\ pstate = IF post.kind = "urlenc" THEN "name" ELSE "start_boundary"
  /\ i = 0 /\ mark = 0 /\ valStart = 0 /\ index = 0
  /\ isContent = FALSE
  /\ vals = <<>>

\* What is done with the body before the request is served.
Parse ==
  \/ UrlName \/ UrlValue \/ UrlEnd
  \/ StartBoundary \/ HeaderField \/ HeadersAlmostDone
  \/ HeaderValue \/ HeaderValueAlmostDone
  \/ PartData \/ AlmostBoundary \/ PartBoundary \/ AlmostEnd
  \/ FinalHyphen \/ PartEnd \/ Epilogue \/ MultipartEnd
  \/ Unparsed

-----------------------------------------------------------------------------
(***************************************************************************)
(* What clients send, and what should come of it.                          *)
(***************************************************************************)
EndOfLine == <<"cr", "lf">>

\* A part: its headers, an empty line, its data.
EncodePart(part) ==
  Boundary \o EndOfLine
    \o <<"D", ":", "sp">>
    \o (IF part.named THEN <<"N">> \o part.name \o <<"quote">> ELSE <<"x">>) \o EndOfLine
    \o (IF part.typed THEN <<"T", ":", "sp", "x">> \o EndOfLine ELSE <<>>)
    \o EndOfLine \o part.data \o EndOfLine

\* A multipart body: the parts, and the boundary with two hyphens more.
EncodeParts(parts) ==
  FlattenSeq([k \in 1..Len(parts) |-> EncodePart(parts[k])])
    \o Boundary \o <<"-", "-">> \o EndOfLine

\* What parts says of the body: of a multipart body whose first part has a
\* name, that a client sent these parts, as a whole or as far as it came.
IsMeant(p) ==
  p.kind = "multipart" =>
    /\ p.parts # <<>>
    /\ Head(p.parts).named =>
         /\ IsPrefix(p.body, EncodeParts(p.parts))
         /\ "cr" \notin ToSet(Head(p.parts).name)

\* The text of a piece.
Text(piece) == SubSeq(post.body, piece.at + 1, piece.at + piece.len)

Names == [k \in 1..Len(vals) |-> Text(vals[k].name)]
Values == [k \in 1..Len(vals) |-> Text(vals[k].value)]

\* What the client saw to: each part has a name, without a line end, and no
\* line of its data starts with the boundary.
WellParted(parts) ==
  \A k \in 1..Len(parts) :
    LET data == parts[k].data IN
    /\ parts[k].named /\ "cr" \notin ToSet(parts[k].name)
    /\ \A j \in 1..Len(data) :
         data[j] = "lf" => ~IsPrefix(Boundary, SubSeq(data, j + 1, Len(data)))

\* A whole multipart body of such parts.
WholeParts ==
  /\ post.kind = "multipart" /\ post.got
  /\ WellParted(post.parts) /\ post.body = EncodeParts(post.parts)

\* The body is names and values with = between and & around them.
Join(names, values) ==
  FlattenSeq([k \in 1..Len(names) |->
    (IF k = 1 THEN <<>> ELSE <<"&">>) \o names[k] \o <<"=">> \o values[k]])

\* Every piece between two & has an =.
WellFormedPairs ==
  LET b == post.body
      starts == {0} \cup {k \in 1..Len(b) : b[k] = "&"}
  IN  \A s \in starts : \E k \in s + 1..Len(b) :
        b[k] = "=" /\ \A j \in s + 1..k : b[j] # "&"

-----------------------------------------------------------------------------
(***************************************************************************)
(* Properties.                                                             *)
(***************************************************************************)
\* The type of the state; the offsets are in the body, and so is every name
\* and value: their lengths are differences that may never be negative
\* (postdata.c:25-38, 86, multipart_parser.c:153, 159).
TypeOK ==
  /\ post \in PostShape
  /\ stage \in {"parse", "toxml", "written", "crashed"}
  /\ i \in 0..Length
  /\ mark \in 0..i /\ valStart \in 0..i
  /\ index \in 0..L + 1
  /\ isContent \in BOOLEAN
  /\ \A k \in 1..Len(vals) : \A piece \in {vals[k].name, vals[k].value} :
       piece.len >= 0 /\ piece.at \in 0..Length - piece.len

\* All parts of a whole multipart body are found, with their names and data,
\* whatever the data has of line ends and pieces of a boundary; the data of
\* all parts but the last has the line end behind it (multipart_parser.c:159).
PartsFound ==
  stage = "written" /\ WholeParts =>
    LET n == Len(post.parts) IN
    /\ Names = [k \in 1..n |-> post.parts[k].name]
    /\ Values = [k \in 1..n |->
         post.parts[k].data \o IF k < n THEN EndOfLine ELSE <<>>]

\* Of a body that ends anywhere (a read that came short) nothing is made up:
\* each name and each value is the start of the one that was meant, and all
\* before the last are whole.
CutPartsTrue ==
  stage = "written" /\ post.kind = "multipart" /\ WellParted(post.parts) =>
    /\ Len(vals) <= Len(post.parts)
    /\ \A k \in 1..Len(vals) :
         LET data == post.parts[k].data \o EndOfLine IN
         /\ IsPrefix(Names[k], post.parts[k].name)
         /\ IsPrefix(Values[k], data)
         /\ k < Len(vals) => Names[k] = post.parts[k].name /\ Values[k] = data

\* The pairs of a well-formed urlencoded body are found, each once, in order.
PairsFound ==
  stage = "written" /\ post.got /\ post.kind = "urlenc" /\ WellFormedPairs =>
    /\ Join(Names, Values) = post.body
    /\ \A k \in 1..Len(vals) : "=" \notin ToSet(Names[k]) /\ "&" \notin ToSet(Values[k])

\* A worker survives every post but those without post data, urlencoded ones
\* without any =, and multipart ones whose first part has no name.
PostSurvived ==
  stage = "crashed" =>
    \/ ~post.got
    \/ post.kind = "urlenc" /\ "=" \notin ToSet(post.body)
    \/ post.kind = "multipart" /\ ~Head(post.parts).named
=============================================================================
