--------------------------- MODULE PostDataProofs ---------------------------
(***************************************************************************)
(* Lemmas about the parsers of post data, for every body and every         *)
(* boundary that is not empty: their types, who survives them, the pairs   *)
(* of an urlencoded body that are found and, in the second half, the parts *)
(* of a multipart one.                                                     *)
(***************************************************************************)
EXTENDS PostData, Induction, SequenceTheorems

Pieces == [at : Nat, len : Nat]

(* A list of names and values that lie in the first n letters.             *)
Inside(piece, n) == piece \in Pieces /\ piece.at + piece.len <= n

ListIn(list, n) ==
  /\ list \in Seq([name : Pieces, value : Pieces])
  /\ \A k \in 1..Len(list) : Inside(list[k].name, n) /\ Inside(list[k].value, n)

(* The type.                                                               *)
Typed ==
  /\ post \in PostShape
  /\ stage \in {"parse", "toxml", "written", "crashed"}
  /\ i \in Nat /\ i <= Length
  /\ mark \in Nat /\ mark <= i
  /\ valStart \in Nat /\ valStart <= i
  /\ index \in 0..L + 1
  /\ isContent \in BOOLEAN
  /\ ListIn(vals, Length)

(* How far a parser is at least behind the mark, by what it has seen of a  *)
(* boundary: lengths are differences of the two.                           *)
Places ==
  stage = "parse" =>
    /\ pstate = "part_data_almost_boundary" => mark + 1 <= i
    /\ pstate = "part_data_boundary" => index < L /\ mark + 2 + index <= i
    /\ pstate = "part_data_almost_end" => mark + 2 + L <= i
    /\ pstate \in {"part_data_final_hyphen", "part_data_end"} => mark + 3 + L <= i

PostInv == Typed /\ Places

(* The steps of this module, as Request takes them.                        *)
PostStep == [Parse \/ ToXml]_vars

HasBoundary == Boundary \in Seq(STRING) /\ L > 0 /\ "cr" \notin ToSet(Boundary)

-----------------------------------------------------------------------------
(***************************************************************************)
(* The list of names and values.                                           *)
(***************************************************************************)
LEMMA PieceInside ==
  ASSUME NEW n \in Nat, NEW at \in Nat, NEW len \in Nat, at + len <= n
  PROVE  Inside(Piece(at, len), n) /\ Inside(Unset, n)
  BY DEF Inside, Piece, Pieces, Unset

LEMMA ListAppended ==
  ASSUME NEW n \in Nat, NEW list, ListIn(list, n),
         NEW at \in Nat, NEW len \in Nat, at + len <= n
  PROVE  ListIn(Append(list, [name |-> Piece(at, len), value |-> Unset]), n)
<1> DEFINE e == [name |-> Piece(at, len), value |-> Unset]
<1>1. Inside(e.name, n) /\ Inside(e.value, n)
  BY PieceInside
<1>2. e \in [name : Pieces, value : Pieces]
  BY <1>1 DEF Inside
<1> HIDE DEF e
<1>3. list \in Seq([name : Pieces, value : Pieces])
  BY DEF ListIn
<1>4. ASSUME NEW k \in 1..Len(Append(list, e))
      PROVE  Inside(Append(list, e)[k].name, n) /\ Inside(Append(list, e)[k].value, n)
  <2>1. CASE k = Len(list) + 1
    BY <1>1, <1>3, <2>1
  <2>2. CASE k # Len(list) + 1
    BY <1>2, <1>3, <2>2 DEF ListIn
  <2>3. QED
    BY <2>1, <2>2
<1>5. Append(list, e) \in Seq([name : Pieces, value : Pieces])
  BY <1>2, <1>3
<1>6. QED
  BY <1>4, <1>5 DEF ListIn, e

LEMMA NotEmpty ==
  ASSUME NEW S, NEW s \in Seq(S)
  PROVE  Len(s) \in Nat /\ (s # <<>> <=> Len(s) # 0)
  BY EmptySeq

LEMMA ListSet ==
  ASSUME NEW n \in Nat, NEW list, ListIn(list, n), list # <<>>,
         NEW at \in Nat, NEW len \in Nat, at + len <= n
  PROVE  LET new == [list EXCEPT ![Len(list)].value = Piece(at, len)] IN
         ListIn(new, n) /\ Len(new) = Len(list) /\ new # <<>>
<1> DEFINE p == Piece(at, len)
           new == [list EXCEPT ![Len(list)].value = p]
           S == [name : Pieces, value : Pieces]
<1>1. Inside(p, n) /\ p \in Pieces
  BY PieceInside DEF Inside
<1> HIDE DEF p
<1>2. list \in Seq(S) /\ Len(list) \in Nat /\ Len(list) \in 1..Len(list)
  <2>1. list \in Seq(S)
    BY DEF ListIn
  <2>2. Len(list) \in Nat /\ Len(list) # 0
    BY <2>1, NotEmpty
  <2>3. QED
    BY <2>1, <2>2
<1>3. [list[Len(list)] EXCEPT !.value = p] \in S
  <2>1. list[Len(list)] \in S
    BY <1>2, ElementOfSeq
  <2>2. QED
    BY <1>1, <2>1
<1>4. new \in Seq(S) /\ Len(new) = Len(list)
  <2>1. new = [list EXCEPT ![Len(list)] = [list[Len(list)] EXCEPT !.value = p]]
    OBVIOUS
  <2>2. QED
    BY <1>2, <1>3, <2>1, ExceptSeq
<1>5. ASSUME NEW k \in 1..Len(new)
      PROVE  Inside(new[k].name, n) /\ Inside(new[k].value, n)
  <2>1. k \in 1..Len(list) /\ Inside(list[k].name, n) /\ Inside(list[k].value, n)
    BY <1>4 DEF ListIn
  <2>2. list[k] \in S /\ k \in DOMAIN list
    BY <1>2, <2>1, ElementOfSeq, LenProperties
  <2>3. CASE k = Len(list)
    <3>1. new[k] = [list[k] EXCEPT !.value = p]
      BY <2>2, <2>3
    <3>2. new[k].name = list[k].name /\ new[k].value = p
      BY <2>2, <3>1
    <3>3. QED
      BY <1>1, <2>1, <3>2
  <2>4. CASE k # Len(list)
    BY <2>1, <2>2, <2>4
  <2>5. QED
    BY <2>3, <2>4
<1>6. ListIn(new, n) /\ Len(new) = Len(list) /\ new # <<>>
  <2>1. new # <<>>
    BY <1>2, <1>4, NotEmpty
  <2> HIDE DEF new
  <2>2. QED
    BY <1>4, <1>5, <2>1 DEF ListIn
<1>7. QED
  BY <1>6 DEF p

(* The callbacks, of a piece that lies in the body.                        *)
LEMMA NameListed ==
  ASSUME Typed, NEW at \in Nat, NEW len \in Nat, at + len <= Length, OnName(at, len)
  PROVE  ListIn(vals', Length)
<1>1. Length \in Nat
  BY LenProperties DEF Typed, PostShape, Length
<1>2. QED
  BY <1>1, ListAppended DEF Typed, OnName

LEMMA DataListed ==
  ASSUME Typed, NEW at \in Nat, NEW len \in Nat, at + len <= Length,
         NEW next \in {"parse", "toxml"}, OnData(at, len, next)
  PROVE  /\ ListIn(vals', Length)
         /\ stage' \in {next, "crashed"}
<1>1. Length \in Nat
  BY LenProperties DEF Typed, PostShape, Length
<1>2. CASE vals = <<>>
  BY <1>2 DEF OnData, Typed
<1>3. CASE vals # <<>>
  <2>1. vals' = [vals EXCEPT ![Len(vals)].value = Piece(at, len)] /\ stage' = next
    BY <1>3 DEF OnData, WithData
  <2>2. ListIn(vals, Length)
    BY DEF Typed
  <2>3. QED
    BY <1>1, <1>3, <2>1, <2>2, ListSet
<1>4. QED
  BY <1>2, <1>3

-----------------------------------------------------------------------------
(***************************************************************************)
(* The type and the places, parser by parser.                              *)
(***************************************************************************)
(* The type is that of the next state, if what a step changes has it.      *)
LEMMA TypedNext ==
  ASSUME Typed, post' = post,
         stage' \in {"parse", "toxml", "written", "crashed"},
         i' \in {i, i + 1}, i' <= Length,
         mark' \in Nat, mark' <= i', valStart' \in Nat, valStart' <= i',
         index' \in 0..L + 1, isContent' \in BOOLEAN, ListIn(vals', Length)
  PROVE  Typed'
  BY DEF Typed, Length, L

LEMMA InitPostInv ==
  ASSUME HasBoundary, post \in PostShape, Init
  PROVE  PostInv
<1>1. Length \in Nat
  BY LenProperties DEF PostShape, Length
<1>2. ListIn(<<>>, Length)
  BY DEF ListIn
<1>3. L \in Nat
  BY LenProperties DEF HasBoundary, L
<1>4. /\ stage \in {"parse", "toxml"} /\ pstate \in {"name", "start_boundary"}
      /\ i = 0 /\ mark = 0 /\ valStart = 0 /\ index = 0 /\ isContent = FALSE
      /\ vals = <<>>
  BY DEF Init
<1>5. Typed
  <2>1. ListIn(vals, Length)
    BY <1>2, <1>4
  <2>2. /\ i \in Nat /\ i <= Length /\ mark \in Nat /\ mark <= i
        /\ valStart \in Nat /\ valStart <= i
    BY <1>1, <1>4
  <2>3. index \in 0..L + 1
    BY <1>3, <1>4
  <2>4. QED
    BY <1>4, <2>1, <2>2, <2>3 DEF Typed
<1>6. Places
  BY <1>4 DEF Places
<1>7. QED
  BY <1>5, <1>6 DEF PostInv

LEMMA UrlencInv ==
  ASSUME PostInv, UrlName \/ UrlValue \/ UrlEnd
  PROVE  PostInv'
<1>1. Typed /\ Length \in Nat
  BY LenProperties DEF PostInv, Typed, PostShape, Length
<1>a. /\ i \in Nat /\ i <= Length /\ mark \in Nat /\ mark <= i
      /\ valStart \in Nat /\ valStart <= i
      /\ index \in 0..L + 1 /\ isContent \in BOOLEAN /\ ListIn(vals, Length)
      /\ stage \in {"parse", "toxml", "written", "crashed"}
  BY <1>1 DEF Typed
<1>2. CASE UrlName
  <2>1. /\ post' = post /\ stage' = stage /\ i' = i + 1 /\ i < Length
        /\ mark' = mark /\ index' = index /\ isContent' = isContent
    BY <1>2 DEF UrlName, others
  <2>2. valStart' \in {valStart, i + 1} /\ pstate' \in {"name", "value"}
    BY <1>2 DEF UrlName, Urlenc
  <2>3. ListIn(vals', Length)
    <3>1. CASE UNCHANGED vals
      BY <1>a, <3>1
    <3>2. CASE OnName(mark, i - mark)
      BY <1>1, <1>a, <2>1, <3>2, NameListed
    <3>3. QED
      BY <1>2, <3>1, <3>2 DEF UrlName
  <2>4. Typed'
    BY <1>1, <1>a, <2>1, <2>2, <2>3, TypedNext
  <2>5. Places'
    BY <2>2 DEF Places
  <2>6. QED
    BY <2>4, <2>5 DEF PostInv
<1>3. CASE UrlValue
  <2>1. /\ post' = post /\ i' = i + 1 /\ i < Length
        /\ valStart' = valStart /\ index' = index /\ isContent' = isContent
    BY <1>3 DEF UrlValue, others
  <2>2. mark' \in {mark, i + 1} /\ pstate' \in {"name", "value"}
    BY <1>3 DEF UrlValue, Urlenc
  <2>3. ListIn(vals', Length) /\ stage' \in {"parse", "crashed"}
    <3>1. CASE UNCHANGED <<stage, vals>>
      BY <1>3, <1>a, <3>1 DEF UrlValue, Urlenc
    <3>2. CASE OnData(valStart, i - valStart, "parse")
      BY <1>1, <1>a, <2>1, <3>2, DataListed
    <3>3. QED
      BY <1>3, <3>1, <3>2 DEF UrlValue
  <2>4. Typed'
    BY <1>1, <1>a, <2>1, <2>2, <2>3, TypedNext
  <2>5. Places'
    BY <2>2 DEF Places
  <2>6. QED
    BY <2>4, <2>5 DEF PostInv
<1>4. CASE UrlEnd
  <2>1. /\ post' = post /\ i' = i /\ mark' = mark
        /\ valStart' = valStart /\ index' = index /\ isContent' = isContent
    BY <1>4 DEF UrlEnd, others
  <2>2. ListIn(vals', Length) /\ stage' \in {"toxml", "crashed"}
    <3>1. OnData(valStart, i - valStart, "toxml")
      BY <1>4 DEF UrlEnd
    <3>2. QED
      BY <1>1, <1>a, <3>1, DataListed
  <2>3. Typed'
    BY <1>1, <1>a, <2>1, <2>2, TypedNext
  <2>4. Places'
    BY <2>2 DEF Places
  <2>5. QED
    BY <2>3, <2>4 DEF PostInv
<1>5. QED
  BY <1>2, <1>3, <1>4

(* What the lemmas below start from.                                       *)
LEMMA InType ==
  ASSUME HasBoundary, PostInv
  PROVE  /\ Typed /\ Length \in Nat /\ L \in Nat /\ L > 0
         /\ i \in Nat /\ i <= Length /\ mark \in Nat /\ mark <= i
         /\ valStart \in Nat /\ valStart <= i
         /\ index \in 0..L + 1 /\ isContent \in BOOLEAN /\ ListIn(vals, Length)
         /\ stage \in {"parse", "toxml", "written", "crashed"}
<1>1. post.body \in Seq(STRING) /\ Typed
  BY DEF PostInv, Typed, PostShape
<1>2. Length \in Nat
  BY <1>1, LenProperties DEF Length
<1>3. L \in Nat /\ L > 0
  BY LenProperties DEF HasBoundary, L
<1>4. QED
  BY <1>1, <1>2, <1>3 DEF Typed

LEMMA HeadInv ==
  ASSUME HasBoundary, PostInv,
         StartBoundary \/ HeaderField \/ HeadersAlmostDone \/ HeaderValueAlmostDone
  PROVE  PostInv'
<1>1. /\ Typed /\ Length \in Nat /\ L \in Nat /\ L > 0
      /\ i \in Nat /\ i <= Length /\ mark \in Nat /\ mark <= i
      /\ valStart \in Nat /\ valStart <= i
      /\ index \in 0..L + 1 /\ isContent \in BOOLEAN /\ ListIn(vals, Length)
      /\ stage \in {"parse", "toxml", "written", "crashed"}
  BY InType
<1>2. CASE StartBoundary
  <2>1. /\ post' = post /\ i < Length /\ stage = "parse" /\ vals' = vals
        /\ mark' = mark /\ valStart' = valStart /\ isContent' = isContent
    BY <1>2 DEF StartBoundary, At
  <2>2. /\ stage' \in {"parse", "toxml"} /\ i' \in {i, i + 1}
        /\ pstate' \in {"start_boundary", "header_field_start"}
        /\ index' \in 0..L + 1
    <3>1. CASE index < L /\ Letter = Boundary[index + 1]
               /\ index' = index + 1 /\ Goto("start_boundary")
      BY <1>1, <2>1, <3>1 DEF Goto
    <3>2. CASE index = L /\ Letter = "cr" /\ index' = index + 1 /\ Goto("start_boundary")
      BY <1>1, <2>1, <3>2 DEF Goto
    <3>3. CASE index = L + 1 /\ Letter = "lf" /\ index' = 0 /\ Goto("header_field_start")
      BY <1>1, <2>1, <3>3 DEF Goto
    <3>4. CASE Return /\ UNCHANGED index
      BY <1>1, <1>2, <2>1, <3>4 DEF Return, StartBoundary, At
    <3>5. QED
      BY <1>2, <3>1, <3>2, <3>3, <3>4 DEF StartBoundary
  <2>3. Typed'
    BY <1>1, <2>1, <2>2, TypedNext
  <2>4. Places'
    BY <2>2 DEF Places
  <2>5. QED
    BY <2>3, <2>4 DEF PostInv
<1>3. CASE HeaderField
  <2>1. /\ post' = post /\ i < Length /\ stage = "parse" /\ vals' = vals
        /\ mark' \in {i, mark} /\ valStart' = valStart /\ index' = index
    BY <1>3 DEF HeaderField, At
  <2>2. /\ stage' \in {"parse", "toxml"} /\ i' \in {i, i + 1}
        /\ pstate' \in {"header_field_start", "header_field", "headers_almost_done",
                        "header_value_start"}
        /\ isContent' \in BOOLEAN
    <3>1. CASE UNCHANGED isContent
      BY <1>1, <1>3, <2>1, <3>1 DEF HeaderField, At, Goto, Return
    <3>2. CASE ~UNCHANGED isContent
      BY <1>1, <1>3, <2>1, <3>2 DEF HeaderField, At, Goto
    <3>3. QED
      BY <3>1, <3>2
  <2>3. Typed'
    BY <1>1, <2>1, <2>2, TypedNext
  <2>4. Places'
    BY <2>2 DEF Places
  <2>5. QED
    BY <2>3, <2>4 DEF PostInv
<1>4. CASE HeadersAlmostDone \/ HeaderValueAlmostDone
  <2>1. /\ post' = post /\ i < Length /\ vals' = vals
        /\ mark' = mark /\ valStart' = valStart /\ index' = index
        /\ isContent' = isContent
        /\ stage' \in {"parse", "toxml"} /\ i' \in {i, i + 1}
        /\ pstate' \in {"headers_almost_done", "part_data_start",
                        "header_value_almost_done", "header_field_start"}
    BY <1>1, <1>4 DEF HeadersAlmostDone, HeaderValueAlmostDone, OneLetter, others, At,
       Goto, Return
  <2>2. Typed'
    BY <1>1, <2>1, TypedNext
  <2>3. Places'
    BY <2>1 DEF Places
  <2>4. QED
    BY <2>2, <2>3 DEF PostInv
<1>5. QED
  BY <1>2, <1>3, <1>4

LEMMA HeaderValueInv ==
  ASSUME HasBoundary, PostInv, HeaderValue
  PROVE  PostInv'
<1>1. /\ Typed /\ Length \in Nat /\ L \in Nat /\ L > 0
      /\ i \in Nat /\ i <= Length /\ mark \in Nat /\ mark <= i
      /\ valStart \in Nat /\ valStart <= i
      /\ index \in 0..L + 1 /\ isContent \in BOOLEAN /\ ListIn(vals, Length)
      /\ stage \in {"parse", "toxml", "written", "crashed"}
  BY InType
<1>2. /\ post' = post /\ i < Length /\ stage' = "parse" /\ i' = i + 1
      /\ mark' \in {i, mark} /\ valStart' = valStart /\ index' = index
      /\ isContent' = isContent
      /\ pstate' \in {"header_value_start", "header_value", "header_value_almost_done"}
  BY DEF HeaderValue, others, At, Goto
<1>3. ASSUME NEW at \in Nat, NEW len \in Nat, at + len <= Length, OnHeaderValue(at, len)
      PROVE  ListIn(vals', Length)
  <2>1. CASE UNCHANGED vals
    BY <1>1, <2>1
  <2>2. CASE len > 1 /\ OnName(at + 1, len - 2)
    BY <1>1, <1>3, <2>2, NameListed
  <2>3. QED
    BY <1>3, <2>1, <2>2 DEF OnHeaderValue, NameLength
<1>4. ListIn(vals', Length)
  <2> DEFINE start == IF pstate = "header_value_start" THEN i ELSE mark
  <2>1. start \in Nat /\ start <= i
    BY <1>1
  <2>2. \/ UNCHANGED vals
        \/ OnHeaderValue(start, i - start)
        \/ OnHeaderValue(start, i - start + 1)
    BY DEF HeaderValue
  <2> HIDE DEF start
  <2>3. CASE UNCHANGED vals
    BY <1>1, <2>3
  <2>4. CASE OnHeaderValue(start, i - start)
    BY <1>1, <1>3, <2>1, <2>4
  <2>5. CASE OnHeaderValue(start, i - start + 1)
    BY <1>1, <1>2, <1>3, <2>1, <2>5
  <2>6. QED
    BY <2>2, <2>3, <2>4, <2>5
<1>5. Typed'
  BY <1>1, <1>2, <1>4, TypedNext
<1>6. Places'
  BY <1>2 DEF Places
<1>7. QED
  BY <1>5, <1>6 DEF PostInv

LEMMA PartDataInv ==
  ASSUME HasBoundary, PostInv, PartData
  PROVE  PostInv'
<1>1. /\ Typed /\ Length \in Nat /\ L \in Nat /\ L > 0
      /\ i \in Nat /\ i <= Length /\ mark \in Nat /\ mark <= i
      /\ valStart \in Nat /\ valStart <= i
      /\ index \in 0..L + 1 /\ isContent \in BOOLEAN /\ ListIn(vals, Length)
      /\ stage \in {"parse", "toxml", "written", "crashed"}
  BY InType
<1> DEFINE start == IF pstate = "part_data_start" THEN i ELSE mark
<1>2. /\ post' = post /\ i < Length /\ stage = "parse" /\ i' = i + 1
      /\ mark' = start /\ valStart' = valStart /\ index' = index
      /\ isContent' = isContent
  BY DEF PartData, others, At
<1>3. start \in Nat /\ start <= i
  BY <1>1
<1>4. /\ ListIn(vals', Length) /\ stage' \in {"parse", "crashed"}
      /\ pstate' \in {"part_data_start", "part_data_almost_boundary"}
  <2>1. CASE AtLast
    <3>1. OnData(start, i - start + 1, "parse") /\ pstate' = "part_data_start"
      BY <2>1 DEF PartData
    <3> HIDE DEF start
    <3>2. i - start + 1 \in Nat /\ start + (i - start + 1) <= Length
      BY <1>1, <1>2, <1>3
    <3>3. QED
      BY <1>1, <1>3, <3>1, <3>2, DataListed
  <2>2. CASE ~AtLast
    BY <1>1, <1>2, <2>2 DEF PartData
  <2>3. QED
    BY <2>1, <2>2
<1> HIDE DEF start
<1>5. Typed'
  BY <1>1, <1>2, <1>3, <1>4, TypedNext
<1>6. Places'
  <2>1. mark' + 1 <= i'
    BY <1>1, <1>2, <1>3
  <2>2. QED
    BY <1>4, <2>1 DEF Places
<1>7. QED
  BY <1>5, <1>6 DEF PostInv

LEMMA BoundaryInv ==
  ASSUME HasBoundary, PostInv, AlmostBoundary \/ PartBoundary \/ AlmostEnd
  PROVE  PostInv'
<1>1. /\ Typed /\ Length \in Nat /\ L \in Nat /\ L > 0
      /\ i \in Nat /\ i <= Length /\ mark \in Nat /\ mark <= i
      /\ valStart \in Nat /\ valStart <= i
      /\ index \in 0..L + 1 /\ isContent \in BOOLEAN /\ ListIn(vals, Length)
      /\ stage \in {"parse", "toxml", "written", "crashed"}
  BY InType
<1>2. /\ post' = post /\ i < Length /\ stage = "parse" /\ vals' = vals
      /\ mark' = mark /\ valStart' = valStart /\ isContent' = isContent
  BY DEF AlmostBoundary, PartBoundary, AlmostEnd, others, At
<1>3. CASE AlmostBoundary
  <2>1. stage' = "parse" /\ i' \in {i, i + 1} /\ index' \in 0..L + 1
    BY <1>1, <1>2, <1>3 DEF AlmostBoundary, Goto, Again
  <2>2. Typed'
    BY <1>1, <1>2, <2>1, TypedNext
  <2>3. mark + 1 <= i
    BY <1>2, <1>3 DEF AlmostBoundary, At, PostInv, Places
  <2>4. \/ pstate' = "part_data_boundary" /\ i' = i + 1 /\ index' = 0
        \/ pstate' = "part_data"
    BY <1>3 DEF AlmostBoundary, Goto, Again
  <2>5. Places'
    BY <1>1, <1>2, <2>3, <2>4 DEF Places, L
  <2>6. QED
    BY <2>2, <2>5 DEF PostInv
<1>4. CASE PartBoundary
  <2>1. index < L /\ mark + 2 + index <= i
    BY <1>2, <1>4 DEF PartBoundary, At, PostInv, Places
  <2>2. \/ /\ i' = i + 1 /\ index' = index + 1 /\ index' = L
           /\ pstate' = "part_data_almost_end"
        \/ /\ i' = i + 1 /\ index' = index + 1 /\ index' # L
           /\ pstate' = "part_data_boundary"
        \/ i' = i /\ index' = index /\ pstate' = "part_data"
    BY <1>4 DEF PartBoundary, Goto, Again, Mismatch
  <2>3. stage' = "parse"
    BY <1>2, <1>4 DEF PartBoundary, Goto, Again
  <2>4. i' \in {i, i + 1} /\ index' \in 0..L + 1
    BY <1>1, <2>1, <2>2
  <2>5. Typed'
    BY <1>1, <1>2, <2>3, <2>4, TypedNext
  <2>6. L' = L
    BY DEF L
  <2>7. Places'
    BY <1>1, <1>2, <2>1, <2>2, <2>6 DEF Places
  <2>8. QED
    BY <2>5, <2>7 DEF PostInv
<1>5. CASE AlmostEnd
  <2>1. mark + 2 + L <= i
    BY <1>2, <1>5 DEF AlmostEnd, At, PostInv, Places
  <2>2. stage' = "parse" /\ i' = i + 1 /\ index' = index
    BY <1>2, <1>5 DEF AlmostEnd, Goto, others
  <2>3. pstate' \in {"part_data_final_hyphen", "part_data_end", "part_data"}
    BY <1>5 DEF AlmostEnd, Goto
  <2>4. Typed'
    BY <1>1, <1>2, <2>2, TypedNext
  <2>5. L' = L
    BY DEF L
  <2>6. Places'
    BY <1>1, <1>2, <2>1, <2>2, <2>3, <2>5 DEF Places
  <2>7. QED
    BY <2>4, <2>6 DEF PostInv
<1>6. QED
  BY <1>3, <1>4, <1>5

LEMMA EmitInv ==
  ASSUME HasBoundary, PostInv, FinalHyphen \/ PartEnd
  PROVE  PostInv'
<1>1. /\ Typed /\ Length \in Nat /\ L \in Nat /\ L > 0
      /\ i \in Nat /\ i <= Length /\ mark \in Nat /\ mark <= i
      /\ valStart \in Nat /\ valStart <= i
      /\ index \in 0..L + 1 /\ isContent \in BOOLEAN /\ ListIn(vals, Length)
      /\ stage \in {"parse", "toxml", "written", "crashed"}
  BY InType
<1>2. /\ post' = post /\ i < Length /\ stage = "parse" /\ mark' = mark
      /\ valStart' = valStart /\ index' = index /\ isContent' = isContent
  BY DEF FinalHyphen, PartEnd, EmitPart, others, At
<1>3. mark + 3 + L <= i
  BY <1>2 DEF FinalHyphen, PartEnd, EmitPart, At, PostInv, Places
<1>4. /\ LastLength \in Nat /\ mark + LastLength <= Length
      /\ PartLength \in Nat /\ mark + PartLength <= Length
  BY <1>1, <1>3 DEF LastLength, PartLength
<1>5. \/ /\ OnData(mark, LastLength, "parse") \/ OnData(mark, PartLength, "parse")
         /\ pstate' \in {"end", "header_field_start"} /\ i' = i + 1
      \/ stage' = "toxml" /\ i' = i /\ vals' = vals
  BY DEF FinalHyphen, PartEnd, EmitPart, Return
<1>6. CASE stage' = "toxml" /\ i' = i /\ vals' = vals
  <2>1. Typed'
    BY <1>1, <1>2, <1>6, TypedNext
  <2>2. Places'
    BY <1>6 DEF Places
  <2>3. QED
    BY <2>1, <2>2 DEF PostInv
<1>7. CASE /\ OnData(mark, LastLength, "parse") \/ OnData(mark, PartLength, "parse")
           /\ pstate' \in {"end", "header_field_start"} /\ i' = i + 1
  <2>1. ListIn(vals', Length) /\ stage' \in {"parse", "crashed"}
    <3>1. CASE OnData(mark, LastLength, "parse")
      BY <1>1, <1>4, <3>1, DataListed
    <3>2. CASE OnData(mark, PartLength, "parse")
      BY <1>1, <1>4, <3>2, DataListed
    <3>3. QED
      BY <1>7, <3>1, <3>2
  <2>2. Typed'
    BY <1>1, <1>2, <1>7, <2>1, TypedNext
  <2>3. Places'
    BY <1>7 DEF Places
  <2>4. QED
    BY <2>2, <2>3 DEF PostInv
<1>8. QED
  BY <1>5, <1>6, <1>7

LEMMA OutsideInv ==
  ASSUME HasBoundary, PostInv,
         Epilogue \/ MultipartEnd \/ Unparsed \/ ToXml \/ UNCHANGED vars
  PROVE  PostInv'
<1>1. /\ Typed /\ Length \in Nat /\ L \in Nat /\ L > 0
      /\ i \in Nat /\ i <= Length /\ mark \in Nat /\ mark <= i
      /\ valStart \in Nat /\ valStart <= i
      /\ index \in 0..L + 1 /\ isContent \in BOOLEAN /\ ListIn(vals, Length)
      /\ stage \in {"parse", "toxml", "written", "crashed"}
  BY InType
<1>2. CASE Epilogue
  <2>1. /\ post' = post /\ i < Length /\ i' = i + 1 /\ stage' = stage /\ vals' = vals
        /\ mark' = mark /\ valStart' = valStart /\ index' = index
        /\ isContent' = isContent /\ pstate' = "end"
    BY <1>2 DEF Epilogue, others, At, Goto
  <2>2. Typed'
    BY <1>1, <2>1, TypedNext
  <2>3. Places'
    BY <2>1 DEF Places
  <2>4. QED
    BY <2>2, <2>3 DEF PostInv
<1>3. CASE MultipartEnd \/ Unparsed \/ ToXml
  <2>1. /\ post' = post /\ i' = i /\ vals' = vals
        /\ mark' = mark /\ valStart' = valStart /\ index' = index
        /\ isContent' = isContent
        /\ stage' \in {"toxml", "written", "crashed"}
    BY <1>3 DEF MultipartEnd, Unparsed, ToXml, others
  <2>2. Typed'
    BY <1>1, <2>1, TypedNext
  <2>3. Places'
    BY <2>1 DEF Places
  <2>4. QED
    BY <2>2, <2>3 DEF PostInv
<1>4. CASE UNCHANGED vars
  BY <1>4 DEF vars, PostInv, Typed, Places, Length, L
<1>5. QED
  BY <1>2, <1>3, <1>4

(* Every step keeps the type and the places.                               *)
LEMMA PostInvNext ==
  ASSUME HasBoundary, PostInv, PostStep
  PROVE  PostInv'
  BY UrlencInv, HeadInv, HeaderValueInv, PartDataInv, BoundaryInv, EmitInv, OutsideInv
  DEF PostStep, Parse

(* So the names and values that are found lie in the body.                 *)
LEMMA PostTyped ==
  ASSUME HasBoundary, PostInv
  PROVE  TypeOK
<1>1. /\ Typed /\ Length \in Nat /\ L \in Nat /\ L > 0
      /\ i \in Nat /\ i <= Length /\ mark \in Nat /\ mark <= i
      /\ valStart \in Nat /\ valStart <= i
      /\ index \in 0..L + 1 /\ isContent \in BOOLEAN /\ ListIn(vals, Length)
      /\ stage \in {"parse", "toxml", "written", "crashed"}
  BY InType
<1>2. ASSUME NEW piece, Inside(piece, Length)
      PROVE  piece.len >= 0 /\ piece.at \in 0..Length - piece.len
  <2>1. piece.at \in Nat /\ piece.len \in Nat /\ piece.at + piece.len <= Length
    BY <1>2 DEF Inside, Pieces
  <2>2. QED
    BY <1>1, <2>1
<1>3. \A k \in 1..Len(vals) : \A piece \in {vals[k].name, vals[k].value} :
        piece.len >= 0 /\ piece.at \in 0..Length - piece.len
  BY <1>1, <1>2 DEF ListIn
<1>4. i \in 0..Length /\ mark \in 0..i /\ valStart \in 0..i
  BY <1>1
<1>5. post \in PostShape
  BY <1>1 DEF Typed
<1>6. QED
  BY <1>1, <1>3, <1>4, <1>5 DEF TypeOK

-----------------------------------------------------------------------------
(***************************************************************************)
(* What a body starts with whose first part has a name.                    *)
(***************************************************************************)
(* The prover does not know that a string is in STRING.                    *)
Letters == STRING \cup {"cr", "lf", "D", "T", ":", "sp", "N", "x", "quote", "-"}

Begins(s, t) == Len(s) <= Len(t) /\ \A k \in 1..Len(s) : t[k] = s[k]

(* What a part with a name starts with.                                    *)
FirstHead(name) ==
  Boundary \o EndOfLine \o <<"D", ":", "sp">> \o (<<"N">> \o name \o <<"quote">>) \o EndOfLine

LEMMA LettersIn ==
  /\ "cr" \in Letters /\ "lf" \in Letters /\ "D" \in Letters /\ "T" \in Letters
  /\ ":" \in Letters /\ "sp" \in Letters /\ "N" \in Letters /\ "x" \in Letters
  /\ "quote" \in Letters /\ "-" \in Letters
  BY DEF Letters

LEMMA Literals ==
  /\ EndOfLine \in Seq(Letters) /\ Len(EndOfLine) = 2
  /\ EndOfLine[1] = "cr" /\ EndOfLine[2] = "lf"
  /\ <<"D", ":", "sp">> \in Seq(Letters) /\ Len(<<"D", ":", "sp">>) = 3
  /\ <<"D", ":", "sp">>[1] = "D" /\ <<"D", ":", "sp">>[2] = ":" /\ <<"D", ":", "sp">>[3] = "sp"
  /\ <<"N">> \in Seq(Letters) /\ Len(<<"N">>) = 1 /\ <<"N">>[1] = "N"
  /\ <<"quote">> \in Seq(Letters) /\ Len(<<"quote">>) = 1 /\ <<"quote">>[1] = "quote"
  /\ <<>> \in Seq(Letters)
<1>1. EndOfLine \in Seq(Letters) /\ Len(EndOfLine) = 2
      /\ EndOfLine[1] = "cr" /\ EndOfLine[2] = "lf"
  BY LettersIn DEF EndOfLine
<1>2. /\ <<"D", ":", "sp">> \in Seq(Letters) /\ Len(<<"D", ":", "sp">>) = 3
      /\ <<"D", ":", "sp">>[1] = "D" /\ <<"D", ":", "sp">>[2] = ":" /\ <<"D", ":", "sp">>[3] = "sp"
  BY LettersIn
<1>3. /\ <<"N">> \in Seq(Letters) /\ Len(<<"N">>) = 1 /\ <<"N">>[1] = "N"
      /\ <<"quote">> \in Seq(Letters) /\ Len(<<"quote">>) = 1 /\ <<"quote">>[1] = "quote"
  BY LettersIn
<1>4. <<>> \in Seq(Letters)
  OBVIOUS
<1>5. QED
  BY <1>1, <1>2, <1>3, <1>4

LEMMA ConcatBegins ==
  ASSUME NEW S, NEW s \in Seq(S), NEW t \in Seq(S)
  PROVE  Begins(s, s \o t) /\ s \o t \in Seq(S) /\ Len(s) \in Nat
<1>1. Len(s) \in Nat /\ Len(t) \in Nat
  BY LenProperties
<1>2. /\ s \o t \in Seq(S) /\ Len(s \o t) = Len(s) + Len(t)
      /\ \A k \in 1..Len(s) + Len(t) : (s \o t)[k] = IF k <= Len(s) THEN s[k] ELSE t[k - Len(s)]
  BY ConcatProperties
<1>3. QED
  BY <1>1, <1>2 DEF Begins

LEMMA BeginsTrans ==
  ASSUME NEW S, NEW s \in Seq(S), NEW t \in Seq(S), NEW u \in Seq(S), Begins(s, t), Begins(t, u)
  PROVE  Begins(s, u)
<1>1. Len(s) \in Nat /\ Len(t) \in Nat /\ Len(u) \in Nat
  BY LenProperties
<1>2. QED
  BY <1>1 DEF Begins

LEMMA HeadLetters ==
  ASSUME HasBoundary, NEW name \in Seq(Letters), "cr" \notin ToSet(name)
  PROVE  LET h == FirstHead(name)
             n == Len(name)
         IN  /\ h \in Seq(Letters) /\ Len(h) = L + 9 + n
             /\ \A k \in 1..L : h[k] = Boundary[k]
             /\ h[L + 1] = "cr" /\ h[L + 2] = "lf" /\ h[L + 3] = "D"
             /\ h[L + 4] = ":" /\ h[L + 5] = "sp" /\ h[L + 6] = "N"
             /\ \A k \in L + 7..L + 7 + n : h[k] # "cr"
             /\ h[L + 8 + n] = "cr"
<1> DEFINE n == Len(name)
           d == <<"D", ":", "sp">>
           p == Boundary \o EndOfLine
           q == p \o d
           v == <<"N">> \o name
           c == v \o <<"quote">>
           r == q \o c
           h == r \o EndOfLine
<1>1. /\ L \in Nat /\ L > 0 /\ n \in Nat /\ Boundary \in Seq(Letters)
      /\ \A k \in 1..n : name[k] # "cr"
  <2>1. L \in Nat /\ n \in Nat
    BY LenProperties DEF HasBoundary, L
  <2>2. \A k \in 1..n : name[k] \in ToSet(name)
    BY LenProperties DEF ToSet
  <2>3. Boundary \in Seq(Letters)
    BY SeqMonotonic DEF HasBoundary, Letters
  <2>4. QED
    BY <2>1, <2>2, <2>3 DEF HasBoundary
<1>2. /\ EndOfLine \in Seq(Letters) /\ Len(EndOfLine) = 2
      /\ EndOfLine[1] = "cr" /\ EndOfLine[2] = "lf"
  BY Literals
<1>3. /\ d \in Seq(Letters) /\ Len(d) = 3 /\ d[1] = "D" /\ d[2] = ":" /\ d[3] = "sp"
  BY Literals
<1> HIDE DEF d, n
<1>4. /\ p \in Seq(Letters) /\ Len(p) = L + 2
      /\ \A k \in 1..L : p[k] = Boundary[k]
      /\ p[L + 1] = "cr" /\ p[L + 2] = "lf"
  <2>1. /\ p \in Seq(Letters) /\ Len(p) = Len(Boundary) + Len(EndOfLine)
        /\ \A k \in 1..Len(Boundary) + Len(EndOfLine) :
             p[k] = IF k <= Len(Boundary) THEN Boundary[k] ELSE EndOfLine[k - Len(Boundary)]
    BY <1>1, <1>2, ConcatProperties
  <2> HIDE DEF p
  <2>2. Len(Boundary) = L
    BY DEF L
  <2>3. QED
    BY <1>1, <1>2, <2>1, <2>2
<1>5. /\ q \in Seq(Letters) /\ Len(q) = L + 5
      /\ \A k \in 1..L + 2 : q[k] = p[k]
      /\ q[L + 3] = "D" /\ q[L + 4] = ":" /\ q[L + 5] = "sp"
  <2> HIDE DEF p
  <2>1. /\ q \in Seq(Letters) /\ Len(q) = Len(p) + Len(d)
        /\ \A k \in 1..Len(p) + Len(d) : q[k] = IF k <= Len(p) THEN p[k] ELSE d[k - Len(p)]
    BY <1>3, <1>4, ConcatProperties
  <2> HIDE DEF q
  <2>2. \A k \in 1..L + 5 : q[k] = IF k <= L + 2 THEN p[k] ELSE d[k - (L + 2)]
    BY <1>1, <1>3, <1>4, <2>1
  <2>3. \A k \in L + 3..L + 5 : q[k] = d[k - (L + 2)]
    BY <1>1, <2>2
  <2>4. /\ q[L + 3] = d[L + 3 - (L + 2)] /\ q[L + 4] = d[L + 4 - (L + 2)]
        /\ q[L + 5] = d[L + 5 - (L + 2)]
    BY <1>1, <2>3
  <2>a. L + 3 - (L + 2) = 1 /\ L + 4 - (L + 2) = 2 /\ L + 5 - (L + 2) = 3
    BY <1>1
  <2>5. q[L + 3] = d[1] /\ q[L + 4] = d[2] /\ q[L + 5] = d[3]
    BY <2>4, <2>a
  <2>6. QED
    BY <1>1, <1>3, <1>4, <2>1, <2>2, <2>5
<1>6. /\ v \in Seq(Letters) /\ Len(v) = n + 1
      /\ v[1] = "N" /\ \A k \in 2..n + 1 : v[k] # "cr"
  <2>1. <<"N">> \in Seq(Letters) /\ Len(<<"N">>) = 1 /\ <<"N">>[1] = "N"
    BY Literals
  <2>2. /\ v \in Seq(Letters) /\ Len(v) = 1 + Len(name)
        /\ \A k \in 1..1 + Len(name) : v[k] = IF k <= 1 THEN <<"N">>[k] ELSE name[k - 1]
    BY <2>1, ConcatProperties
  <2> HIDE DEF v
  <2>3. ASSUME NEW k \in 2..n + 1
        PROVE  v[k] # "cr"
    <3>1. v[k] = name[k - 1] /\ k - 1 \in 1..n
      BY <1>1, <2>2 DEF n
    <3>2. QED
      BY <1>1, <3>1
  <2>4. QED
    BY <1>1, <2>1, <2>2, <2>3 DEF n
<1>7. /\ c \in Seq(Letters) /\ Len(c) = n + 2
      /\ c[1] = "N" /\ \A k \in 2..n + 2 : c[k] # "cr"
  <2>1. <<"quote">> \in Seq(Letters) /\ Len(<<"quote">>) = 1 /\ <<"quote">>[1] = "quote"
    BY Literals
  <2> HIDE DEF v
  <2>2. /\ c \in Seq(Letters) /\ Len(c) = Len(v) + 1
        /\ \A k \in 1..Len(v) + 1 : c[k] = IF k <= Len(v) THEN v[k] ELSE <<"quote">>[k - Len(v)]
    BY <1>6, <2>1, ConcatProperties
  <2> HIDE DEF c
  <2>3. ASSUME NEW k \in 2..n + 2
        PROVE  c[k] # "cr"
    <3>1. CASE k <= n + 1
      BY <1>1, <1>6, <2>2, <3>1
    <3>2. CASE k = n + 2
      <4>1. c[k] = <<"quote">>[1]
        BY <1>1, <1>6, <2>2, <3>2
      <4>2. QED
        BY <2>1, <4>1
    <3>3. QED
      BY <1>1, <3>1, <3>2
  <2>4. QED
    BY <1>1, <1>6, <2>2, <2>3
<1>8. /\ r \in Seq(Letters) /\ Len(r) = L + 7 + n
      /\ \A k \in 1..L + 5 : r[k] = q[k]
      /\ r[L + 6] = "N" /\ \A k \in L + 7..L + 7 + n : r[k] # "cr"
  <2> HIDE DEF q, c
  <2>1. /\ r \in Seq(Letters) /\ Len(r) = Len(q) + Len(c)
        /\ \A k \in 1..Len(q) + Len(c) : r[k] = IF k <= Len(q) THEN q[k] ELSE c[k - Len(q)]
    BY <1>5, <1>7, ConcatProperties
  <2> HIDE DEF r
  <2>a. \A k \in 1..L + 7 + n : r[k] = IF k <= L + 5 THEN q[k] ELSE c[k - (L + 5)]
    BY <1>1, <1>5, <1>7, <2>1
  <2>2. \A k \in L + 6..L + 7 + n : r[k] = c[k - (L + 5)]
    BY <1>1, <2>a
  <2>3. r[L + 6] = "N"
    BY <1>1, <1>7, <2>2
  <2>4. ASSUME NEW k \in L + 7..L + 7 + n
        PROVE  r[k] # "cr"
    <3>1. k - (L + 5) \in 2..n + 2 /\ k \in L + 6..L + 7 + n
      BY <1>1
    <3>2. QED
      BY <1>7, <2>2, <3>1
  <2>5. Len(r) = L + 7 + n /\ \A k \in 1..L + 5 : r[k] = q[k]
    BY <1>1, <1>5, <1>7, <2>1, <2>a
  <2>6. QED
    BY <2>1, <2>3, <2>4, <2>5
<1>9. /\ h \in Seq(Letters) /\ Len(h) = L + 9 + n
      /\ \A k \in 1..L + 7 + n : h[k] = r[k]
      /\ h[L + 8 + n] = "cr"
  <2> HIDE DEF r
  <2>1. /\ h \in Seq(Letters) /\ Len(h) = Len(r) + Len(EndOfLine)
        /\ \A k \in 1..Len(r) + Len(EndOfLine) :
             h[k] = IF k <= Len(r) THEN r[k] ELSE EndOfLine[k - Len(r)]
    BY <1>2, <1>8, ConcatProperties
  <2> HIDE DEF h
  <2>2. QED
    BY <1>1, <1>2, <1>8, <2>1
<1>10. /\ \A k \in 1..L + 5 : h[k] = q[k]
       /\ \A k \in 1..L + 2 : h[k] = p[k]
  <2> HIDE DEF h, r, q, p
  <2>1. \A k \in 1..L + 5 : h[k] = q[k]
    BY <1>1, <1>8, <1>9
  <2>2. ASSUME NEW k \in 1..L + 2
        PROVE  h[k] = p[k]
    <3>1. k \in 1..L + 5
      BY <1>1
    <3>2. QED
      BY <1>5, <2>1, <3>1
  <2>3. QED
    BY <2>1, <2>2
<1>11. h = FirstHead(name)
  BY DEF FirstHead, d
<1> HIDE DEF h, r, q, p, c
<1>12. /\ \A k \in 1..L : h[k] = Boundary[k]
       /\ h[L + 1] = "cr" /\ h[L + 2] = "lf" /\ h[L + 3] = "D"
       /\ h[L + 4] = ":" /\ h[L + 5] = "sp" /\ h[L + 6] = "N"
  <2>1. \A k \in 1..L : h[k] = Boundary[k]
    BY <1>1, <1>4, <1>10
  <2>2. h[L + 1] = "cr" /\ h[L + 2] = "lf"
    BY <1>1, <1>4, <1>10
  <2>3. h[L + 3] = "D" /\ h[L + 4] = ":" /\ h[L + 5] = "sp"
    BY <1>1, <1>5, <1>10
  <2>4. h[L + 6] = "N"
    BY <1>1, <1>8, <1>9
  <2>5. QED
    BY <2>1, <2>2, <2>3, <2>4
<1>13. \A k \in L + 7..L + 7 + n : h[k] # "cr"
  BY <1>1, <1>8, <1>9
<1>14. QED
  BY <1>9, <1>11, <1>12, <1>13 DEF n

(* The body of a post whose first part has a name starts with that, as far *)
(* as it goes.                                                             *)
LEMMA FirstLetters ==
  ASSUME HasBoundary, NEW p \in PostShape, IsMeant(p),
         p.kind = "multipart", Head(p.parts).named
  PROVE  LET h == FirstHead(Head(p.parts).name)
             n == Len(Head(p.parts).name)
         IN  /\ n \in Nat
             /\ \A k \in 1..Len(p.body) :
                  /\ k <= L => p.body[k] = Boundary[k]
                  /\ k = L + 1 => p.body[k] = "cr"
                  /\ k = L + 2 => p.body[k] = "lf"
                  /\ k = L + 3 => p.body[k] = "D"
                  /\ k = L + 4 => p.body[k] = ":"
                  /\ k = L + 5 => p.body[k] = "sp"
                  /\ k = L + 6 => p.body[k] = "N"
                  /\ k \in L + 7..L + 7 + n => p.body[k] # "cr"
                  /\ k = L + 8 + n => p.body[k] = "cr"
<1> DEFINE part == Head(p.parts)
           name == part.name
           h == FirstHead(name)
           n == Len(name)
           all == [k \in 1..Len(p.parts) |-> EncodePart(p.parts[k])]
           e == EncodeParts(p.parts)
<1>1. /\ p.parts \in Seq(PartShape) /\ p.parts # <<>> /\ p.body \in Seq(STRING)
      /\ IsPrefix(p.body, e) /\ "cr" \notin ToSet(name)
  BY DEF PostShape, IsMeant
<1>2. Len(p.parts) \in Nat /\ 1 \in 1..Len(p.parts) /\ p.parts[1] = part
  BY <1>1, EmptySeq
<1>3. \A s \in Seq(STRING) : s \in Seq(Letters)
  BY SeqMonotonic DEF Letters
<1>4. ASSUME NEW q \in PartShape
      PROVE  /\ EncodePart(q) \in Seq(Letters)
             /\ q.named => Begins(FirstHead(q.name), EncodePart(q))
  <2> DEFINE b == Boundary \o EndOfLine \o <<"D", ":", "sp">>
             c == IF q.named THEN <<"N">> \o q.name \o <<"quote">> ELSE <<"x">>
             d == b \o c
             f == d \o EndOfLine
             t == IF q.typed THEN <<"T", ":", "sp", "x">> \o EndOfLine ELSE <<>>
             g == f \o t
             u == g \o EndOfLine
             v == u \o q.data
  <2>1. Boundary \in Seq(Letters) /\ q.name \in Seq(Letters) /\ q.data \in Seq(Letters)
    BY <1>3 DEF HasBoundary, PartShape
  <2>2. b \in Seq(Letters)
    BY <2>1, Literals, ConcatBegins
  <2>3. c \in Seq(Letters)
    <3>1. <<"x">> \in Seq(Letters)
      BY LettersIn
    <3>2. <<"N">> \o q.name \o <<"quote">> \in Seq(Letters)
      BY <2>1, Literals, ConcatBegins
    <3>3. QED
      BY <3>1, <3>2
  <2>4. t \in Seq(Letters)
    <3>1. <<"T", ":", "sp", "x">> \in Seq(Letters)
      BY LettersIn
    <3>2. <<"T", ":", "sp", "x">> \o EndOfLine \in Seq(Letters)
      BY <3>1, Literals, ConcatBegins
    <3>3. QED
      BY <3>2, Literals
  <2>5. EncodePart(q) = v \o EndOfLine
    BY DEF EncodePart
  <2>6. q.named => f = FirstHead(q.name)
    BY DEF FirstHead
  <2> HIDE DEF b, c, t
  <2>7. f \in Seq(Letters)
    <3>1. d \in Seq(Letters)
      BY <2>2, <2>3, ConcatBegins
    <3> HIDE DEF d
    <3>2. QED
      BY <3>1, Literals, ConcatBegins
  <2> HIDE DEF f
  <2>8. g \in Seq(Letters) /\ Begins(f, g)
    BY <2>4, <2>7, ConcatBegins
  <2> HIDE DEF g
  <2>9. u \in Seq(Letters) /\ Begins(g, u)
    BY <2>8, Literals, ConcatBegins
  <2> HIDE DEF u
  <2>10. v \in Seq(Letters) /\ Begins(u, v)
    BY <2>1, <2>9, ConcatBegins
  <2> HIDE DEF v
  <2>11. v \o EndOfLine \in Seq(Letters) /\ Begins(v, v \o EndOfLine)
    BY <2>10, Literals, ConcatBegins
  <2>12. Begins(f, v \o EndOfLine)
    BY <2>7, <2>8, <2>9, <2>10, <2>11, BeginsTrans
  <2>13. QED
    BY <2>5, <2>6, <2>11, <2>12
<1>5. all \in Seq(Seq(Letters)) /\ Len(all) = Len(p.parts) /\ all[1] = EncodePart(part)
  <2>1. \A k \in 1..Len(p.parts) : EncodePart(p.parts[k]) \in Seq(Letters)
    BY <1>1, <1>4, ElementOfSeq
  <2>2. QED
    BY <1>2, <2>1
<1> HIDE DEF all
<1>6. /\ FlattenSeq(all) \in Seq(Letters)
      /\ Begins(EncodePart(part), FlattenSeq(all))
  <2>1. all # <<>>
    BY <1>2, <1>5, EmptySeq
  <2>2. QED
    BY <1>5, <2>1, FlattenStarts DEF Begins
<1>7. Begins(FlattenSeq(all), e) /\ e \in Seq(Letters)
  <2>1. Boundary \in Seq(Letters) /\ <<"-", "-">> \in Seq(Letters)
    BY <1>3, LettersIn DEF HasBoundary
  <2>2. e = FlattenSeq(all) \o Boundary \o <<"-", "-">> \o EndOfLine
    BY DEF EncodeParts, all
  <2> DEFINE a == FlattenSeq(all)
             b == a \o Boundary
             c == b \o <<"-", "-">>
  <2>3. a \in Seq(Letters)
    BY <1>6
  <2>4. e = c \o EndOfLine
    BY <2>2
  <2> HIDE DEF a, e
  <2>5. b \in Seq(Letters) /\ Begins(a, b)
    BY <2>1, <2>3, ConcatBegins
  <2> HIDE DEF b
  <2>6. c \in Seq(Letters) /\ Begins(b, c)
    BY <2>1, <2>5, ConcatBegins
  <2> HIDE DEF c
  <2>7. e \in Seq(Letters) /\ Begins(c, e)
    BY <2>4, <2>6, Literals, ConcatBegins
  <2>8. Begins(a, e)
    BY <2>3, <2>5, <2>6, <2>7, BeginsTrans
  <2>9. QED
    BY <2>7, <2>8 DEF a
<1>8. part \in PartShape /\ part.named /\ name \in Seq(Letters)
  <2>1. part \in PartShape
    BY <1>1, <1>2, ElementOfSeq
  <2>2. QED
    BY <1>3, <2>1 DEF PartShape
<1>9. /\ h \in Seq(Letters) /\ Len(h) = L + 9 + n
      /\ \A k \in 1..L : h[k] = Boundary[k]
      /\ h[L + 1] = "cr" /\ h[L + 2] = "lf" /\ h[L + 3] = "D"
      /\ h[L + 4] = ":" /\ h[L + 5] = "sp" /\ h[L + 6] = "N"
      /\ \A k \in L + 7..L + 7 + n : h[k] # "cr"
      /\ h[L + 8 + n] = "cr"
  BY <1>1, <1>8, HeadLetters
<1>10. Begins(h, e)
  BY <1>4, <1>6, <1>7, <1>8, <1>9, BeginsTrans
<1>11. \A k \in 1..Len(p.body) : p.body[k] = e[k]
  <2>1. Len(p.body) \in Nat /\ Len(e) \in Nat
    BY <1>1, <1>7, LenProperties
  <2>2. /\ Len(p.body) <= Len(e)
        /\ SubSeq(p.body, 1, Len(p.body)) = SubSeq(e, 1, Len(p.body))
    BY <1>1 DEF IsPrefix
  <2>3. SubSeq(p.body, 1, Len(p.body)) = p.body
    BY <1>1, SubSeqFull
  <2> HIDE DEF e
  <2>4. \A k \in 1..Len(p.body) : SubSeq(e, 1, Len(p.body))[k] = e[k]
    BY <1>7, <2>1, <2>2
  <2>5. QED
    BY <2>2, <2>3, <2>4
<1>12. L \in Nat /\ n \in Nat
  BY <1>8, LenProperties DEF HasBoundary, L
<1> HIDE DEF h, e, n
<1>13. ASSUME NEW k \in 1..Len(p.body), k <= L + 9 + n
       PROVE  p.body[k] = h[k]
  <2>1. k \in 1..Len(h)
    BY <1>9, <1>12, <1>13
  <2>2. QED
    BY <1>10, <1>11, <2>1 DEF Begins
<1>14. ASSUME NEW k \in 1..Len(p.body)
       PROVE  /\ k <= L => p.body[k] = Boundary[k]
              /\ k = L + 1 => p.body[k] = "cr"
              /\ k = L + 2 => p.body[k] = "lf"
              /\ k = L + 3 => p.body[k] = "D"
              /\ k = L + 4 => p.body[k] = ":"
              /\ k = L + 5 => p.body[k] = "sp"
              /\ k = L + 6 => p.body[k] = "N"
              /\ k \in L + 7..L + 7 + n => p.body[k] # "cr"
              /\ k = L + 8 + n => p.body[k] = "cr"
  <2>1. k \in Nat /\ k >= 1
    OBVIOUS
  <2>2. k <= L + 9 + n => p.body[k] = h[k]
    BY <1>13
  <2>3. /\ k <= L => k \in 1..L /\ k <= L + 9 + n
        /\ k = L + 1 => k <= L + 9 + n
        /\ k = L + 2 => k <= L + 9 + n
        /\ k = L + 3 => k <= L + 9 + n
        /\ k = L + 4 => k <= L + 9 + n
        /\ k = L + 5 => k <= L + 9 + n
        /\ k = L + 6 => k <= L + 9 + n
        /\ k \in L + 7..L + 7 + n => k <= L + 9 + n
        /\ k = L + 8 + n => k <= L + 9 + n
    BY <1>12, <2>1
  <2>4. QED
    BY <1>9, <2>2, <2>3
<1>15. QED
  BY <1>12, <1>14 DEF n

-----------------------------------------------------------------------------
(***************************************************************************)
(* Data finds a name to go to.                                             *)
(***************************************************************************)
(* No pair was found yet: no = was met.                                    *)
Unpaired ==
  post.kind = "urlenc" /\ stage = "parse" /\ vals = <<>> =>
    pstate = "name" /\ \A k \in 1..i : post.body[k] # "="

(* No name was found yet: the parser is at its place in the head of the    *)
(* first part.                                                             *)
InFirstHead ==
  post.kind = "multipart" /\ Head(post.parts).named /\ stage = "parse" /\ vals = <<>> =>
    \/ pstate = "start_boundary" /\ i = index
    \/ pstate = "header_field_start" /\ i = L + 2
    \/ pstate = "header_field" /\ i = L + 3 /\ mark = L + 2
    \/ pstate = "header_value_start" /\ i \in {L + 4, L + 5} /\ isContent
    \/ /\ pstate = "header_value" /\ mark = L + 5 /\ isContent
       /\ i \in L + 6..L + 7 + Len(Head(post.parts).name)

SurviveInv ==
  /\ PostInv /\ IsMeant(post)
  /\ PostSurvived /\ Unpaired /\ InFirstHead

LEMMA InitSurviveInv ==
  ASSUME HasBoundary, post \in PostShape, IsMeant(post), Init
  PROVE  SurviveInv
<1>1. PostInv
  BY InitPostInv
<1>2. /\ stage \in {"parse", "toxml"} /\ i = 0 /\ index = 0
      /\ pstate = IF post.kind = "urlenc" THEN "name" ELSE "start_boundary"
  BY DEF Init
<1>3. PostSurvived /\ Unpaired /\ InFirstHead
  BY <1>2 DEF PostSurvived, Unpaired, InFirstHead
<1>4. QED
  BY <1>1, <1>3 DEF SurviveInv

(* A list that has a name keeps it, and takes data without harm.           *)
LEMMA ListKept ==
  ASSUME NEW at, NEW len
  PROVE  /\ Typed /\ OnName(at, len) => vals' # <<>>
         /\ Typed /\ vals # <<>> => \A next : OnData(at, len, next) => vals' # <<>> /\ stage' = next
<1>1. ASSUME Typed PROVE vals \in Seq([name : Pieces, value : Pieces])
  BY <1>1 DEF Typed, ListIn
<1>2. ASSUME Typed, OnName(at, len) PROVE vals' # <<>>
  BY <1>1, <1>2 DEF OnName
<1>3. ASSUME Typed, vals # <<>>, NEW next, OnData(at, len, next)
      PROVE  vals' # <<>> /\ stage' = next
  <2>1. vals' = [vals EXCEPT ![Len(vals)].value = Piece(at, len)] /\ stage' = next
    BY <1>3 DEF OnData, WithData
  <2>2. Len(vals) \in Nat \ {0} /\ DOMAIN vals = 1..Len(vals)
    BY <1>1, <1>3, EmptySeq, LenProperties
  <2>3. DOMAIN vals' = 1..Len(vals) /\ 1 \in DOMAIN vals'
    BY <2>1, <2>2
  <2>4. 1 \notin DOMAIN <<>>
    OBVIOUS
  <2>5. QED
    BY <2>1, <2>3, <2>4
<1>4. QED
  BY <1>2, <1>3

LEMMA UrlencSurvives ==
  ASSUME HasBoundary, SurviveInv, UrlName \/ UrlValue \/ UrlEnd
  PROVE  (PostSurvived /\ Unpaired /\ InFirstHead)'
<1>1. /\ Typed /\ Length \in Nat /\ i \in Nat /\ i <= Length
  BY InType DEF SurviveInv
<1>2. post' = post /\ post.kind = "urlenc" /\ stage = "parse"
  BY DEF UrlName, UrlValue, UrlEnd, Urlenc, others
<1>3. InFirstHead'
  BY <1>2 DEF InFirstHead
<1>4. CASE UrlName
  <2>1. stage' = "parse" /\ i' = i + 1
    BY <1>2, <1>4 DEF UrlName
  <2>2. ASSUME vals' = <<>>
        PROVE  pstate' = "name" /\ \A k \in 1..i' : post.body[k] # "="
    <3>1. ~OnName(mark, i - mark)
      BY <1>1, <2>2, ListKept
    <3>2. Letter # "=" /\ vals' = vals /\ pstate' = pstate
      BY <1>4, <3>1 DEF UrlName, EndsName
    <3>3. pstate = "name" /\ \A k \in 1..i : post.body[k] # "="
      BY <1>2, <2>2, <3>2 DEF SurviveInv, Unpaired
    <3>4. post.body[i + 1] # "="
      BY <3>2 DEF Letter
    <3>5. QED
      BY <1>1, <2>1, <3>2, <3>3, <3>4
  <2>3. QED
    BY <1>2, <1>3, <2>1, <2>2 DEF PostSurvived, Unpaired
<1>5. CASE UrlValue
  <2>1. vals # <<>>
    BY <1>2, <1>5 DEF UrlValue, Urlenc, SurviveInv, Unpaired
  <2>2. vals' # <<>> /\ stage' = "parse"
    BY <1>1, <1>2, <1>5, <2>1, ListKept DEF UrlValue
  <2>3. QED
    BY <1>3, <2>2 DEF PostSurvived, Unpaired
<1>6. CASE UrlEnd
  <2>1. CASE vals = <<>>
    <3>1. stage' = "crashed" /\ i = Length
      BY <1>6, <2>1 DEF UrlEnd, OnData
    <3>2. \A k \in 1..Length : post.body[k] # "="
      BY <1>2, <2>1, <3>1 DEF SurviveInv, Unpaired
    <3>3. "=" \notin ToSet(post.body)
      <4>1. DOMAIN post.body = 1..Length
        BY <1>1, LenProperties DEF Typed, PostShape, Length
      <4>2. QED
        BY <3>2, <4>1 DEF ToSet
    <3>4. QED
      BY <1>2, <1>3, <3>1, <3>3 DEF PostSurvived, Unpaired
  <2>2. CASE vals # <<>>
    <3>1. stage' = "toxml"
      BY <1>1, <1>6, <2>2, ListKept DEF UrlEnd
    <3>2. QED
      BY <1>3, <3>1 DEF PostSurvived, Unpaired
  <2>3. QED
    BY <2>1, <2>2
<1>7. QED
  BY <1>4, <1>5, <1>6

(* The letter at each of these places.                                     *)
LEMMA HeadLetter ==
  ASSUME HasBoundary, SurviveInv, i < Length,
         post.kind = "multipart", Head(post.parts).named
  PROVE  /\ Len(Head(post.parts).name) \in Nat
         /\ i < L => Letter = Boundary[i + 1]
         /\ i = L => Letter = "cr"
         /\ i = L + 1 => Letter = "lf"
         /\ i = L + 2 => Letter = "D"
         /\ i = L + 3 => Letter = ":"
         /\ i = L + 4 => Letter = "sp"
         /\ i = L + 5 => Letter = "N"
         /\ i \in L + 6..L + 6 + Len(Head(post.parts).name) => Letter # "cr"
         /\ i = L + 7 + Len(Head(post.parts).name) => Letter = "cr"
<1> DEFINE n == Len(Head(post.parts).name)
           b == post.body
           k == i + 1
<1>1. /\ i \in Nat /\ L \in Nat /\ Length \in Nat /\ Length = Len(b)
      /\ post \in PostShape /\ IsMeant(post)
  BY InType DEF SurviveInv, Length, Typed
<1>2. k \in 1..Len(b)
  BY <1>1
<1>3. /\ n \in Nat
      /\ k <= L => b[k] = Boundary[k]
      /\ k = L + 1 => b[k] = "cr"
      /\ k = L + 2 => b[k] = "lf"
      /\ k = L + 3 => b[k] = "D"
      /\ k = L + 4 => b[k] = ":"
      /\ k = L + 5 => b[k] = "sp"
      /\ k = L + 6 => b[k] = "N"
      /\ k \in L + 7..L + 7 + n => b[k] # "cr"
      /\ k = L + 8 + n => b[k] = "cr"
  BY <1>1, <1>2, FirstLetters
<1>4. Letter = b[k]
  BY DEF Letter
<1> HIDE DEF n, b
<1>5. /\ i < L => k <= L
      /\ i = L => k = L + 1
      /\ i = L + 1 => k = L + 2
      /\ i = L + 2 => k = L + 3
      /\ i = L + 3 => k = L + 4
      /\ i = L + 4 => k = L + 5
      /\ i = L + 5 => k = L + 6
      /\ i \in L + 6..L + 6 + n => k \in L + 7..L + 7 + n
      /\ i = L + 7 + n => k = L + 8 + n
  BY <1>1, <1>3
<1> HIDE DEF k
<1>6. /\ n \in Nat
      /\ i < L => Letter = Boundary[k]
      /\ i = L => Letter = "cr"
      /\ i = L + 1 => Letter = "lf"
      /\ i = L + 2 => Letter = "D"
      /\ i = L + 3 => Letter = ":"
      /\ i = L + 4 => Letter = "sp"
      /\ i = L + 5 => Letter = "N"
      /\ i \in L + 6..L + 6 + n => Letter # "cr"
      /\ i = L + 7 + n => Letter = "cr"
  BY <1>3, <1>4, <1>5
<1>7. QED
  BY <1>6 DEF n, k

LEMMA SubSeqOne ==
  ASSUME NEW S, NEW b \in Seq(S), NEW k \in 1..Len(b)
  PROVE  SubSeq(b, k, k) = <<b[k]>>
<1>1. Len(b) \in Nat
  BY LenProperties
<1>2. k \in k..Len(b)
  BY <1>1
<1>3. SubSeq(b, k, k) = <<b[k]>> \o SubSeq(b, k + 1, k)
  BY <1>2, SubSeqRecursiveFirst
<1>4. SubSeq(b, k + 1, k) = <<>>
  BY <1>1, SubSeqEmpty
<1>5. <<b[k]>> \in Seq(S)
  <2>1. b[k] \in S
    BY ElementOfSeq
  <2>2. QED
    BY <2>1
<1>6. <<b[k]>> \o <<>> = <<b[k]>>
  BY <1>5, ConcatEmptySeq
<1>7. QED
  BY <1>3, <1>4, <1>6

(* Each step of the parser is at its place in the first head, or has the   *)
(* name behind it.                                                         *)
LEMMA FirstHeadNext ==
  ASSUME HasBoundary, SurviveInv, stage = "parse", i < Length,
         post.kind = "multipart", Head(post.parts).named, vals = <<>>,
         StartBoundary \/ HeaderField \/ HeaderValue
  PROVE  stage' # "crashed" /\ InFirstHead'
<1> DEFINE n == Len(Head(post.parts).name)
<1>1. /\ Typed /\ Length \in Nat /\ i \in Nat /\ i <= Length /\ L \in Nat /\ L > 0
      /\ index \in 0..L + 1 /\ mark \in Nat /\ mark <= i
  BY InType DEF SurviveInv
<1>2. /\ n \in Nat
      /\ i < L => Letter = Boundary[i + 1]
      /\ i = L => Letter = "cr"
      /\ i = L + 1 => Letter = "lf"
      /\ i = L + 2 => Letter = "D"
      /\ i = L + 3 => Letter = ":"
      /\ i = L + 4 => Letter = "sp"
      /\ i = L + 5 => Letter = "N"
      /\ i \in L + 6..L + 6 + n => Letter # "cr"
      /\ i = L + 7 + n => Letter = "cr"
  BY HeadLetter
<1>3. \/ pstate = "start_boundary" /\ i = index
      \/ pstate = "header_field_start" /\ i = L + 2
      \/ pstate = "header_field" /\ i = L + 3 /\ mark = L + 2
      \/ pstate = "header_value_start" /\ i \in {L + 4, L + 5} /\ isContent
      \/ /\ pstate = "header_value" /\ mark = L + 5 /\ isContent
         /\ i \in L + 6..L + 7 + n
  BY DEF SurviveInv, InFirstHead
<1>4. L' = L
  BY DEF L
<1> HIDE DEF n
<1>5. CASE StartBoundary
  <2>1. post' = post /\ vals' = vals /\ pstate = "start_boundary" /\ i = index
    BY <1>3, <1>5 DEF StartBoundary, At
  <2>2. CASE Return /\ UNCHANGED index
    BY <2>2 DEF Return, InFirstHead
  <2>3. CASE index < L /\ index' = index + 1 /\ Goto("start_boundary")
    BY <1>1, <2>1, <2>3 DEF Goto, InFirstHead
  <2>4. CASE index = L /\ index' = index + 1 /\ Goto("start_boundary")
    BY <1>1, <2>1, <2>4 DEF Goto, InFirstHead
  <2>5. CASE index = L + 1 /\ index' = 0 /\ Goto("header_field_start")
    <3>1. stage' = stage /\ pstate' = "header_field_start" /\ i' = L + 2
      BY <1>1, <2>1, <2>5 DEF Goto
    <3>2. QED
      BY <1>4, <3>1 DEF InFirstHead, n
  <2>6. QED
    BY <1>5, <2>2, <2>3, <2>4, <2>5 DEF StartBoundary
<1>6. CASE HeaderField
  <2>1. post' = post /\ vals' = vals
    BY <1>6 DEF HeaderField
  <2>2. CASE pstate = "header_field_start"
    <3>1. i = L + 2 /\ Letter = "D"
      BY <1>2, <1>3, <2>2
    <3>2. stage' = stage /\ pstate' = "header_field" /\ i' = i + 1 /\ mark' = i
      BY <1>6, <2>2, <3>1 DEF HeaderField, Goto, FieldLetters
    <3>3. i' = L + 3 /\ mark' = L + 2
      BY <1>1, <3>1, <3>2
    <3>4. QED
      BY <1>4, <3>2, <3>3 DEF InFirstHead, n
  <2>3. CASE pstate = "header_field"
    <3>1. i = L + 3 /\ Letter = ":" /\ mark = L + 2
      BY <1>2, <1>3, <2>3
    <3>2. SubSeq(post.body, mark + 1, i) = <<"D">>
      <4>1. mark + 1 = L + 3 /\ i = L + 3 /\ L + 3 \in Nat
        BY <1>1, <3>1
      <4> DEFINE b == post.body
      <4>2. Len(b) \in Nat /\ b \in Seq(STRING) /\ Length = Len(b)
        BY <1>1, LenProperties DEF Typed, PostShape, Length
      <4>3. b[L + 3] = "D"
        <5>1. L + 3 \in 1..Len(b) /\ post \in PostShape
          BY <1>1, <3>1, <4>2 DEF Typed
        <5>2. QED
          BY <5>1, FirstLetters DEF SurviveInv
      <4> HIDE DEF b
      <4>4. L + 3 \in 1..Len(b)
        BY <1>1, <3>1, <4>2
      <4>5. SubSeq(b, L + 3, L + 3) = <<b[L + 3]>>
        BY <4>2, <4>4, SubSeqOne
      <4>6. QED
        BY <4>1, <4>3, <4>5 DEF b
    <3>3. stage' = stage /\ pstate' = "header_value_start" /\ i' = i + 1 /\ isContent'
      <4>1. isContent' = (SubSeq(post.body, mark + 1, i) = <<"D">>)
            /\ Goto("header_value_start")
        BY <1>6, <2>3, <3>1 DEF HeaderField, FieldLetters
      <4>2. QED
        BY <3>2, <4>1 DEF Goto
    <3>4. i' = L + 4
      BY <1>1, <3>1, <3>3
    <3>5. QED
      BY <1>4, <3>3, <3>4 DEF InFirstHead, n
  <2>4. QED
    BY <1>6, <2>2, <2>3 DEF HeaderField, At
<1>7. CASE HeaderValue
  <2>1. post' = post /\ isContent' = isContent /\ stage' = stage /\ i' = i + 1
    BY <1>7 DEF HeaderValue, others, Goto
  <2>2. CASE pstate = "header_value_start" /\ i = L + 4
    <3>1. Letter = "sp"
      BY <1>2, <2>2
    <3>2. pstate' = "header_value_start"
      BY <1>7, <2>2, <3>1 DEF HeaderValue, Goto
    <3>3. i' = L + 5 /\ isContent
      BY <1>1, <1>3, <2>1, <2>2
    <3>4. QED
      BY <1>4, <2>1, <3>2, <3>3 DEF InFirstHead, n
  <2>3. CASE pstate = "header_value_start" /\ i = L + 5
    <3>1. Letter = "N"
      BY <1>2, <2>3
    <3>2. pstate' = "header_value" /\ mark' = i
      BY <1>7, <2>3, <3>1 DEF HeaderValue, Goto
    <3>3. i' = L + 6 /\ i' \in L + 6..L + 7 + n /\ mark' = L + 5 /\ isContent
      BY <1>1, <1>2, <1>3, <2>1, <2>3, <3>2
    <3>4. QED
      BY <1>4, <2>1, <3>2, <3>3 DEF InFirstHead, n
  <2>4. CASE pstate = "header_value"
    <3>1. mark = L + 5 /\ isContent /\ i \in L + 6..L + 7 + n
      BY <1>3, <2>4
    <3>2. post.body[mark + 1] = "N"
      <4>1. mark + 1 = L + 6 /\ L + 6 \in 1..Len(post.body)
        BY <1>1, <3>1 DEF Length
      <4>2. QED
        BY <1>1, <4>1, FirstLetters DEF SurviveInv, Typed
    <3>3. ASSUME NEW len \in Nat, len > 1, OnHeaderValue(mark, len)
          PROVE  vals' # <<>>
      <4>1. OnName(mark + 1, NameLength(len))
        BY <3>1, <3>2, <3>3 DEF OnHeaderValue
      <4>2. QED
        BY <1>1, <4>1, ListKept
    <3>4. CASE Letter = "cr"
      <4>1. OnHeaderValue(mark, i - mark)
        BY <1>7, <2>4, <3>4 DEF HeaderValue
      <4>2. i = L + 7 + n
        BY <1>1, <1>2, <3>1, <3>4
      <4>3. i - mark \in Nat /\ i - mark > 1
        BY <1>1, <1>2, <3>1, <4>2
      <4>4. vals' # <<>>
        BY <3>3, <4>1, <4>3
      <4>5. QED
        BY <2>1, <4>4 DEF InFirstHead, n
    <3>5. CASE Letter # "cr"
      <4>1. pstate' = "header_value" /\ mark' = mark
        BY <1>7, <2>4, <3>5 DEF HeaderValue, Goto
      <4>2. i' \in L + 6..L + 7 + n
        BY <1>1, <1>2, <2>1, <3>1, <3>5
      <4>3. QED
        BY <1>4, <2>1, <3>1, <4>1, <4>2 DEF InFirstHead, n
    <3>6. QED
      BY <3>4, <3>5
  <2>5. QED
    BY <1>3, <1>7, <2>2, <2>3, <2>4 DEF HeaderValue, At
<1>8. QED
  BY <1>5, <1>6, <1>7

LEMMA SurviveInvNext ==
  ASSUME HasBoundary, SurviveInv, PostStep
  PROVE  SurviveInv'
<1>1. PostInv' /\ IsMeant(post)'
  <2>1. PostInv'
    BY PostInvNext DEF SurviveInv
  <2>2. post' = post
    BY DEF PostStep, Parse, vars, others, ToXml, UrlName, UrlValue, UrlEnd, StartBoundary,
      HeaderField, HeadersAlmostDone, HeaderValue, HeaderValueAlmostDone, OneLetter, PartData,
      AlmostBoundary, PartBoundary, AlmostEnd, FinalHyphen, PartEnd, EmitPart, Epilogue,
      MultipartEnd, Unparsed
  <2>3. QED
    BY <2>1, <2>2 DEF SurviveInv, IsMeant, EncodeParts, EncodePart
<1>2. Typed
  BY DEF SurviveInv, PostInv
<1>3. CASE UrlName \/ UrlValue \/ UrlEnd
  BY <1>1, <1>3, UrlencSurvives DEF SurviveInv
<1>4. CASE UNCHANGED vars
  BY <1>1, <1>4 DEF vars, SurviveInv, PostSurvived, Unpaired, InFirstHead, L
<1>5. CASE MultipartEnd \/ Unparsed
  BY <1>1, <1>5 DEF MultipartEnd, Unparsed, SurviveInv, PostSurvived, Unpaired, InFirstHead
<1>6. CASE ToXml
  <2>1. post' = post /\ stage' \in {"written", "crashed"}
        /\ (stage' = "crashed" => ~post.got)
    BY <1>6 DEF ToXml, others
  <2>2. QED
    BY <1>1, <2>1 DEF SurviveInv, PostSurvived, Unpaired, InFirstHead
<1> DEFINE Head1 == StartBoundary \/ HeaderField \/ HeaderValue
           Quiet == HeadersAlmostDone \/ HeaderValueAlmostDone \/ AlmostBoundary
                      \/ PartBoundary \/ AlmostEnd \/ Epilogue
           Emits == PartData \/ FinalHyphen \/ PartEnd
<1>7. ASSUME Head1 \/ Quiet \/ Emits
      PROVE  SurviveInv'
  <2>1. post' = post /\ post.kind = "multipart" /\ stage = "parse" /\ i < Length
    BY <1>7 DEF StartBoundary,
      HeaderField, HeadersAlmostDone, HeaderValue, HeaderValueAlmostDone, OneLetter, PartData,
      AlmostBoundary, PartBoundary, AlmostEnd, FinalHyphen, PartEnd, EmitPart, Epilogue, At,
      others
  <2>2. Unpaired'
    BY <2>1 DEF Unpaired
  <2>3. CASE ~Head(post.parts).named
    BY <1>1, <2>1, <2>2, <2>3 DEF SurviveInv, PostSurvived, InFirstHead
  <2>4. CASE Head(post.parts).named /\ vals = <<>>
    <3>1. pstate \in {"start_boundary", "header_field_start", "header_field",
                      "header_value_start", "header_value"}
      BY <2>1, <2>4 DEF SurviveInv, InFirstHead
    <3>2. Head1
      BY <1>7, <3>1 DEF HeadersAlmostDone, HeaderValueAlmostDone, OneLetter, PartData,
        AlmostBoundary, PartBoundary, AlmostEnd, FinalHyphen, PartEnd, EmitPart, Epilogue, At
    <3>3. stage' # "crashed" /\ InFirstHead'
      BY <2>1, <2>4, <3>2, FirstHeadNext
    <3>4. QED
      BY <1>1, <2>2, <3>3 DEF SurviveInv, PostSurvived
  <2>5. CASE vals # <<>>
    <3>1. stage' # "crashed" /\ vals' # <<>>
      <4>1. CASE Quiet
        BY <2>1, <2>5, <4>1 DEF HeadersAlmostDone, HeaderValueAlmostDone, OneLetter,
          AlmostBoundary, PartBoundary, AlmostEnd, Epilogue, Goto, Again, Return
      <4>2. CASE StartBoundary \/ HeaderField
        BY <2>1, <2>5, <4>2 DEF StartBoundary, HeaderField, Goto, Return
      <4>3. CASE HeaderValue
        <5>1. stage' = stage
          BY <4>3 DEF HeaderValue, Goto
        <5>2. vals' = vals \/ \E at, len : OnHeaderValue(at, len)
          BY <4>3 DEF HeaderValue
        <5>3. vals' = vals \/ \E at, len : OnName(at, len)
          BY <5>2 DEF OnHeaderValue
        <5>4. QED
          BY <1>2, <2>1, <2>5, <5>1, <5>3, ListKept
      <4>4. CASE Emits
        <5>1. \/ vals' = vals /\ stage' \in {stage, "toxml"}
              \/ \E at, len : OnData(at, len, "parse")
          BY <4>4 DEF PartData, FinalHyphen, PartEnd, EmitPart, Return
        <5>2. ASSUME NEW at, NEW len, OnData(at, len, "parse")
              PROVE  vals' # <<>> /\ stage' = "parse"
          BY <1>2, <2>5, <5>2, ListKept
        <5>3. QED
          BY <2>1, <2>5, <5>1, <5>2
      <4>5. QED
        BY <1>7, <4>1, <4>2, <4>3, <4>4
    <3>2. QED
      BY <1>1, <2>2, <3>1 DEF SurviveInv, PostSurvived, InFirstHead
  <2>6. QED
    BY <2>3, <2>4, <2>5
<1>8. QED
  BY <1>3, <1>4, <1>5, <1>6, <1>7 DEF PostStep, Parse
-----------------------------------------------------------------------------
(***************************************************************************)
(* The pairs of an urlencoded body: the names and values found so far are  *)
(* adjacent pieces of it, with one = or & between two of them.             *)
(***************************************************************************)
(* The offset behind a piece.                                              *)
EndOf(piece) == piece.at + piece.len

(* The k-th name starts behind the pair before it, and ends in front of    *)
(* the first = from there.                                                 *)
Named(b, list, k) ==
  LET name == list[k].name IN
  /\ name.at = IF k = 1 THEN 0 ELSE EndOf(list[k - 1].value) + 1
  /\ k # 1 => b[name.at] = "&"
  /\ EndOf(name) < Len(b) /\ b[EndOf(name) + 1] = "="
  /\ \A j \in name.at + 1..EndOf(name) : b[j] # "="

(* The k-th value starts behind that, and has no &.                        *)
Valued(b, list, k) ==
  LET value == list[k].value IN
  /\ value.at = EndOf(list[k].name) + 1
  /\ \A j \in value.at + 1..EndOf(value) : b[j] # "&"

(* The parser in a name: all pairs before it are whole.                    *)
InName(b, list, from, to) ==
  /\ \A j \in from + 1..to : b[j] # "="
  /\ \/ list = <<>> /\ from = 0
     \/ /\ list # <<>> /\ Valued(b, list, Len(list))
        /\ from = EndOf(list[Len(list)].value) + 1
        /\ b[from] = "&"

(* The parser in a value: that of the last name.                           *)
InValue(b, list, from, to) ==
  /\ list # <<>>
  /\ from = EndOf(list[Len(list)].name) + 1
  /\ \A j \in from + 1..to : b[j] # "&"

(* The list with the letters from one offset to another as its last value. *)
IsSet(new, list, from, to) ==
  new = [list EXCEPT ![Len(list)].value = Piece(from, to - from)]

(* All names have a value, and the last ends with the body.                *)
Whole(b, list) ==
  /\ list # <<>> /\ Valued(b, list, Len(list))
  /\ EndOf(list[Len(list)].value) = Len(b)

(* The pairs of the list are adjacent, the last value aside.               *)
Chained(b, list) ==
  /\ \A k \in 1..Len(list) : Named(b, list, k)
  /\ \A k \in 1..Len(list) - 1 : Valued(b, list, k)

(* What has been found at each step, and in the end.                       *)
PairsInv ==
  post.kind = "urlenc" /\ post.got =>
    /\ stage = "parse" =>
         /\ Chained(post.body, vals)
         /\ \/ pstate = "name" /\ InName(post.body, vals, mark, i)
            \/ pstate = "value" /\ InValue(post.body, vals, valStart, i)
    /\ stage \in {"toxml", "written"} /\ WellFormedPairs =>
         Chained(post.body, vals) /\ Whole(post.body, vals)

-----------------------------------------------------------------------------
(* A name, behind whole pairs.                                             *)
LEMMA ChainAppended ==
  ASSUME NEW b, NEW n \in Nat, n = Len(b), NEW list, ListIn(list, n), Chained(b, list),
         NEW at \in Nat, NEW i0 \in Nat, at <= i0, i0 < n, b[i0 + 1] = "=",
         InName(b, list, at, i0)
  PROVE  LET new == Append(list, [name |-> Piece(at, i0 - at), value |-> Unset])
         IN  Chained(b, new) /\ InValue(b, new, i0 + 1, i0 + 1)
<1> DEFINE S == [name : Pieces, value : Pieces]
           e == [name |-> Piece(at, i0 - at), value |-> Unset]
           new == Append(list, e)
           m == Len(list)
<1>1. list \in Seq(S) /\ m \in Nat
  <2>1. list \in Seq(S)
    BY DEF ListIn
  <2>2. QED
    BY <2>1, LenProperties
<1>2. e.name.at = at /\ EndOf(e.name) = i0 /\ e \in S
  BY DEF EndOf, Piece, Unset, Pieces
<1> HIDE DEF e, S
<1>3. /\ new \in Seq(S) /\ new # <<>> /\ Len(new) = m + 1
      /\ \A k \in 1..m : new[k] = list[k]
      /\ new[m + 1] = e
  BY <1>1, <1>2, AppendProperties
<1> HIDE DEF new
<1>4. ASSUME NEW k \in 1..m
      PROVE  Named(b, new, k) /\ (k \in 1..m - 1 => Valued(b, new, k))
  <2>1. new[k] = list[k] /\ (k # 1 => new[k - 1] = list[k - 1])
    BY <1>1, <1>3
  <2>2. Named(b, list, k) /\ (k \in 1..m - 1 => Valued(b, list, k))
    BY DEF Chained
  <2>3. QED
    BY <2>1, <2>2 DEF Named, Valued
<1>5. m # 0 => Valued(b, new, m)
  <2>1. SUFFICES ASSUME m # 0 PROVE Valued(b, new, m)
    OBVIOUS
  <2>2. list # <<>> /\ new[m] = list[m]
    BY <1>1, <1>3, <2>1
  <2>3. QED
    BY <2>2 DEF InName, Valued
<1>6. Named(b, new, m + 1)
  <2>1. at = IF m + 1 = 1 THEN 0 ELSE EndOf(new[m].value) + 1
    <3>1. CASE m = 0
      <4>1. list = <<>>
        BY <1>1, <3>1, EmptySeq
      <4>2. QED
        BY <3>1, <4>1 DEF InName
    <3>2. CASE m # 0
      <4>1. list # <<>> /\ new[m] = list[m]
        BY <1>1, <1>3, <3>2
      <4>2. QED
        BY <1>1, <3>2, <4>1 DEF InName
    <3>3. QED
      BY <3>1, <3>2
  <2>2. m + 1 # 1 => b[at] = "&"
    <3>1. m + 1 # 1 => list # <<>>
      BY <1>1
    <3>2. QED
      BY <3>1 DEF InName
  <2>3. (m + 1) - 1 = m
    BY <1>1
  <2>4. \A j \in at + 1..i0 : b[j] # "="
    BY DEF InName
  <2>5. QED
    BY <1>2, <1>3, <2>1, <2>2, <2>3, <2>4 DEF Named
<1>7. \A k \in 1..Len(new) : Named(b, new, k)
  BY <1>1, <1>3, <1>4, <1>6
<1>8. \A k \in 1..Len(new) - 1 : Valued(b, new, k)
  BY <1>1, <1>3, <1>4, <1>5
<1>9. InValue(b, new, i0 + 1, i0 + 1)
  BY <1>2, <1>3 DEF InValue
<1>10. QED
  BY <1>7, <1>8, <1>9 DEF Chained, new, e

(* The value of the last name.                                             *)
LEMMA ChainSet ==
  ASSUME NEW b, NEW n \in Nat, NEW list, ListIn(list, n), Chained(b, list),
         NEW at \in Nat, NEW i0 \in Nat, at <= i0, i0 <= n,
         InValue(b, list, at, i0),
         NEW new, IsSet(new, list, at, i0)
  PROVE  /\ Chained(b, new) /\ Valued(b, new, Len(new)) /\ new # <<>>
         /\ EndOf(new[Len(new)].value) = i0
<1> DEFINE S == [name : Pieces, value : Pieces]
           p == Piece(at, i0 - at)
           m == Len(list)
<1>1. list \in Seq(S) /\ m \in Nat /\ m # 0 /\ list # <<>>
  <2>1. list \in Seq(S) /\ list # <<>>
    BY DEF ListIn, InValue
  <2>2. QED
    BY <2>1, NotEmpty
<1>2. p.at = at /\ EndOf(p) = i0 /\ p \in Pieces
  BY DEF EndOf, Piece, Pieces
<1>3. DOMAIN list = 1..m /\ m \in 1..m
  BY <1>1, LenProperties
<1>4. list[m] \in S
  BY <1>1, <1>3, ElementOfSeq
<1>5. new = [list EXCEPT ![m] = [list[m] EXCEPT !.value = p]]
  BY DEF IsSet
<1> HIDE DEF p
<1>6. [list[m] EXCEPT !.value = p] \in S
  BY <1>2, <1>4
<1>7. Len(new) = m /\ new # <<>> /\ new \in Seq(S)
  <2>1. Len(new) = m /\ new \in Seq(S)
    BY <1>1, <1>3, <1>5, <1>6, ExceptSeq
  <2>2. QED
    BY <1>1, <2>1, NotEmpty
<1>8. new[m].value = p /\ new[m].name = list[m].name
  <2>1. new[m] = [list[m] EXCEPT !.value = p]
    BY <1>3, <1>5
  <2>2. QED
    BY <1>4, <2>1
<1>9. \A k \in 1..m - 1 : new[k] = list[k]
  BY <1>1, <1>3, <1>5
<1>10. ASSUME NEW k \in 1..m
       PROVE  Named(b, new, k)
  <2>1. new[k].name = list[k].name
    BY <1>1, <1>8, <1>9
  <2>2. k # 1 => new[k - 1] = list[k - 1]
    BY <1>1, <1>9
  <2>3. Named(b, list, k)
    BY DEF Chained
  <2>4. QED
    BY <2>1, <2>2, <2>3 DEF Named
<1>11. ASSUME NEW k \in 1..m - 1
       PROVE  Valued(b, new, k)
  BY <1>9 DEF Chained, Valued
<1>12. Valued(b, new, m)
  BY <1>2, <1>8 DEF Valued, InValue
<1>13. QED
  BY <1>2, <1>7, <1>8, <1>10, <1>11, <1>12 DEF Chained, p

LEMMA InitPairsInv ==
  ASSUME post \in PostShape, Init
  PROVE  PairsInv
<1>1. /\ post.got = (stage = "parse") /\ i = 0 /\ mark = 0 /\ vals = <<>>
      /\ stage \in {"parse", "toxml"}
      /\ post.kind = "urlenc" => pstate = "name"
  BY DEF Init, PostShape
<1>2. Chained(post.body, <<>>)
  BY DEF Chained
<1>3. InName(post.body, <<>>, 0, 0)
  BY DEF InName
<1>4. QED
  BY <1>1, <1>2, <1>3 DEF PairsInv

(* The body a parser is given is urlencoded, and it is in a name or in a   *)
(* value of it.                                                            *)
LEMMA UrlNamePairs ==
  ASSUME PostInv, PairsInv, UrlName
  PROVE  PairsInv'
<1> DEFINE b == post.body
           n == Length
<1>1. /\ stage = "parse" /\ post.kind = "urlenc" /\ pstate = "name" /\ i < n
      /\ i' = i + 1 /\ post' = post /\ stage' = stage /\ mark' = mark
  BY DEF UrlName, Urlenc, others
<1>2. SUFFICES ASSUME post.got PROVE PairsInv'
  BY <1>1 DEF PairsInv
<1>3. Chained(b, vals) /\ InName(b, vals, mark, i)
  BY <1>1, <1>2 DEF PairsInv
<1>4. /\ n \in Nat /\ n = Len(b) /\ ListIn(vals, n)
      /\ mark \in Nat /\ i \in Nat /\ mark <= i
  <2>1. Length \in Nat
    BY LenProperties DEF PostInv, Typed, PostShape, Length
  <2>2. QED
    BY <2>1 DEF PostInv, Typed, Length
<1>5. stage' = "parse" => ~(stage' \in {"toxml", "written"})
  OBVIOUS
<1>6. CASE ~EndsName
  <2>1. vals' = vals /\ pstate' = "name"
    BY <1>1, <1>6 DEF UrlName
  <2>2. \A j \in mark + 1..i + 1 : b[j] # "="
    BY <1>3, <1>4, <1>6 DEF InName, EndsName, Letter
  <2>3. InName(b, vals, mark, i + 1)
    BY <1>3, <2>2 DEF InName
  <2>4. QED
    BY <1>1, <1>3, <2>1, <2>3 DEF PairsInv
<1>7. CASE EndsName
  <2>1. /\ vals' = Append(vals, [name |-> Piece(mark, i - mark), value |-> Unset])
        /\ valStart' = i + 1 /\ pstate' = "value"
    BY <1>1, <1>7 DEF UrlName, OnName
  <2>2. b[i + 1] = "="
    BY <1>7 DEF EndsName, Letter
  <2> HIDE DEF b, n
  <2>3. Chained(b, vals') /\ InValue(b, vals', i + 1, i + 1)
    BY <1>1, <1>3, <1>4, <2>1, <2>2, ChainAppended
  <2>4. QED
    BY <1>1, <2>1, <2>3 DEF PairsInv, b
<1>8. QED
  BY <1>6, <1>7

LEMMA UrlValuePairs ==
  ASSUME PostInv, PairsInv, UrlValue
  PROVE  PairsInv'
<1> DEFINE b == post.body
           n == Length
<1>1. /\ stage = "parse" /\ post.kind = "urlenc" /\ pstate = "value" /\ i < n
      /\ i' = i + 1 /\ post' = post /\ valStart' = valStart
  BY DEF UrlValue, Urlenc, others
<1>2. SUFFICES ASSUME post.got PROVE PairsInv'
  BY <1>1 DEF PairsInv
<1>3. Chained(b, vals) /\ InValue(b, vals, valStart, i)
  BY <1>1, <1>2 DEF PairsInv
<1>4. /\ n \in Nat /\ n = Len(b) /\ ListIn(vals, n)
      /\ valStart \in Nat /\ i \in Nat /\ valStart <= i
  <2>1. Length \in Nat
    BY LenProperties DEF PostInv, Typed, PostShape, Length
  <2>2. QED
    BY <2>1 DEF PostInv, Typed, Length
<1>6. CASE ~EndsValue
  <2>1. vals' = vals /\ pstate' = "value" /\ stage' = "parse"
    BY <1>1, <1>6 DEF UrlValue
  <2>2. \A j \in valStart + 1..i + 1 : b[j] # "&"
    BY <1>3, <1>4, <1>6 DEF InValue, EndsValue, Letter
  <2>3. InValue(b, vals, valStart, i + 1)
    BY <1>3, <2>2 DEF InValue
  <2>4. QED
    BY <1>1, <1>3, <2>1, <2>3 DEF PairsInv
<1>7. CASE EndsValue
  <2>0. vals # <<>>
    BY <1>3 DEF InValue
  <2>1. /\ vals' = [vals EXCEPT ![Len(vals)].value = Piece(valStart, i - valStart)]
        /\ stage' = "parse" /\ mark' = i + 1 /\ pstate' = "name"
    BY <1>1, <1>7, <2>0 DEF UrlValue, OnData, WithData
  <2>2. b[i + 1] = "&"
    BY <1>7 DEF EndsValue, Letter
  <2> DEFINE new == [vals EXCEPT ![Len(vals)].value = Piece(valStart, i - valStart)]
  <2>e. IsSet(new, vals, valStart, i)
    BY DEF IsSet
  <2> HIDE DEF b, n, new
  <2>a. i <= n
    BY <1>1, <1>4
  <2>b. /\ Chained(b, new) /\ Valued(b, new, Len(new)) /\ new # <<>>
        /\ EndOf(new[Len(new)].value) = i
    BY <1>3, <1>4, <2>a, <2>e, ChainSet
  <2>c. vals' = new
    BY <2>1, <2>e DEF IsSet
  <2>3. /\ Chained(b, vals') /\ Valued(b, vals', Len(vals')) /\ vals' # <<>>
        /\ EndOf(vals'[Len(vals')].value) = i
    BY <2>b, <2>c
  <2>4. \A j \in (i + 1) + 1..i + 1 : b[j] # "="
    BY <1>4
  <2>5. InName(b, vals', i + 1, i + 1)
    BY <2>2, <2>3, <2>4 DEF InName
  <2>6. QED
    BY <1>1, <2>1, <2>3, <2>5 DEF PairsInv, b
<1>8. QED
  BY <1>6, <1>7

LEMMA UrlEndPairs ==
  ASSUME PostInv, PairsInv, UrlEnd
  PROVE  PairsInv'
<1> DEFINE b == post.body
           n == Length
<1>1. /\ stage = "parse" /\ post.kind = "urlenc" /\ i = n /\ post' = post
      /\ OnData(valStart, i - valStart, "toxml")
  BY DEF UrlEnd, others
<1>2. stage' # "parse"
  BY <1>1 DEF OnData
<1>3. SUFFICES ASSUME post.got, stage' \in {"toxml", "written"}, WellFormedPairs
               PROVE  Chained(b, vals') /\ Whole(b, vals')
  BY <1>1, <1>2 DEF PairsInv, WellFormedPairs
<1>4. Chained(b, vals)
  BY <1>1, <1>3 DEF PairsInv
<1>5. /\ n \in Nat /\ n = Len(b) /\ ListIn(vals, n) /\ valStart \in Nat /\ mark \in Nat
      /\ valStart <= i /\ mark <= i
  <2>1. Length \in Nat
    BY LenProperties DEF PostInv, Typed, PostShape, Length
  <2>2. QED
    BY <2>1 DEF PostInv, Typed, Length
<1>6. ~InName(b, vals, mark, i)
  <2>1. SUFFICES ASSUME InName(b, vals, mark, i) PROVE FALSE
    OBVIOUS
  <2>2. mark # 0 => b[mark] = "&"
    BY <2>1 DEF InName
  <2>3. mark \in {0} \cup {k \in 1..Len(b) : b[k] = "&"}
    BY <1>1, <1>5, <2>2
  <2>4. PICK k \in mark + 1..Len(b) : b[k] = "="
    BY <1>3, <2>3 DEF WellFormedPairs
  <2>5. QED
    BY <1>1, <1>5, <2>1, <2>4 DEF InName
<1>7. InValue(b, vals, valStart, i)
  BY <1>1, <1>3, <1>6 DEF PairsInv
<1>8. vals' = [vals EXCEPT ![Len(vals)].value = Piece(valStart, i - valStart)]
  BY <1>1, <1>7 DEF OnData, WithData, InValue
<1> DEFINE new == [vals EXCEPT ![Len(vals)].value = Piece(valStart, i - valStart)]
<1>e. IsSet(new, vals, valStart, i)
  BY DEF IsSet
<1> HIDE DEF b, n, new
<1>a. i \in Nat /\ i <= n
  BY <1>1, <1>5
<1>b. /\ Chained(b, new) /\ Valued(b, new, Len(new)) /\ new # <<>>
      /\ EndOf(new[Len(new)].value) = i
  BY <1>4, <1>5, <1>7, <1>a, <1>e, ChainSet
<1>c. vals' = new
  BY <1>8, <1>e DEF IsSet
<1>9. Whole(b, new)
  BY <1>1, <1>5, <1>b DEF Whole
<1>10. QED
  BY <1>b, <1>c, <1>9

(* Other steps change nothing that an urlencoded body is asked about.      *)
LEMMA PairsInvNext ==
  ASSUME PostInv, PairsInv, PostStep
  PROVE  PairsInv'
<1>1. CASE UrlName
  BY <1>1, UrlNamePairs
<1>2. CASE UrlValue
  BY <1>2, UrlValuePairs
<1>3. CASE UrlEnd
  BY <1>3, UrlEndPairs
<1>4. CASE ToXml
  BY <1>4 DEF ToXml, PairsInv, WellFormedPairs, others
<1>5. CASE UNCHANGED vars
  BY <1>5 DEF vars, PairsInv, WellFormedPairs
<1>6. CASE Parse /\ ~(UrlName \/ UrlValue \/ UrlEnd)
  <2>1. post.kind # "urlenc" /\ post' = post
    <3>1. CASE Unparsed
      BY <3>1 DEF Unparsed, others
    <3>2. CASE StartBoundary \/ HeaderField \/ HeaderValue \/ AlmostBoundary \/ PartBoundary
      BY <3>2 DEF StartBoundary, HeaderField, HeaderValue, AlmostBoundary, PartBoundary,
                  At, others
    <3>3. CASE \/ HeadersAlmostDone \/ HeaderValueAlmostDone
               \/ PartData \/ AlmostEnd \/ FinalHyphen \/ PartEnd \/ Epilogue \/ MultipartEnd
      BY <3>3 DEF HeadersAlmostDone, HeaderValueAlmostDone, OneLetter, PartData, AlmostEnd,
                  FinalHyphen, PartEnd, EmitPart, Epilogue, MultipartEnd, At, others
    <3>4. QED
      BY <1>6, <3>1, <3>2, <3>3 DEF Parse
  <2>2. QED
    BY <2>1 DEF PairsInv
<1>7. QED
  BY <1>1, <1>2, <1>3, <1>4, <1>5, <1>6 DEF PostStep, Parse

-----------------------------------------------------------------------------
(***************************************************************************)
(* And so the body is what Join makes of the names and values.             *)
(***************************************************************************)
(* A pair as Join writes it, which is how the body has it.                 *)
LEMMA PairText ==
  ASSUME NEW S, NEW b \in Seq(S), NEW m \in Nat, NEW e \in Nat, NEW to \in Nat,
         1 <= m, m <= e + 1, e < to, to <= Len(b), b[e + 1] = "="
  PROVE  SubSeq(b, m, e) \o <<"=">> \o SubSeq(b, e + 2, to) = SubSeq(b, m, to)
<1>1. Len(b) \in Nat
  BY LenProperties
<1>2. SubSeq(b, e + 1, e + 1) = <<"=">>
  <2>1. e + 1 \in 1..Len(b)
    BY <1>1
  <2>2. QED
    BY <2>1, SubSeqOne
<1>3. SubSeq(b, m, e) \o SubSeq(b, e + 1, e + 1) = SubSeq(b, m, e + 1)
  <2>1. m \in 1..Len(b) + 1 /\ e \in m - 1..Len(b) /\ e + 1 \in e..Len(b)
    BY <1>1
  <2>2. QED
    BY <2>1, ConcatAdjacentSubSeq
<1>4. SubSeq(b, m, e + 1) \o SubSeq(b, (e + 1) + 1, to) = SubSeq(b, m, to)
  <2>1. m \in 1..Len(b) + 1 /\ e + 1 \in m - 1..Len(b) /\ to \in e + 1..Len(b)
    BY <1>1
  <2> HIDE <1>1
  <2>2. QED
    BY <2>1, ConcatAdjacentSubSeq
<1>5. (e + 1) + 1 = e + 2
  OBVIOUS
<1>6. QED
  BY <1>2, <1>3, <1>4, <1>5

(* The texts, as Names and Values give them.                               *)
TextOf(b, piece) == SubSeq(b, piece.at + 1, piece.at + piece.len)

NamesOf(b, list) == [k \in 1..Len(list) |-> TextOf(b, list[k].name)]
ValuesOf(b, list) == [k \in 1..Len(list) |-> TextOf(b, list[k].value)]

(* Where the pairs end.                                                    *)
CutAt(list, k) == IF k = 0 THEN 0 ELSE EndOf(list[k].value)

(* A pair of the list is what the body has between two of these offsets.   *)
LEMMA PairFits ==
  ASSUME NEW S, NEW b \in Seq(S), NEW n \in Nat, n = Len(b), NEW list, ListIn(list, n),
         NEW k \in 1..Len(list), Named(b, list, k), Valued(b, list, k)
  PROVE  /\ CutAt(list, k) \in 0..n /\ CutAt(list, k - 1) \in 0..n
         /\ CutAt(list, k - 1) <= CutAt(list, k)
         /\ (IF k = 1 THEN <<>> ELSE <<"&">>)
              \o TextOf(b, list[k].name) \o <<"=">> \o TextOf(b, list[k].value)
            = SubSeq(b, CutAt(list, k - 1) + 1, CutAt(list, k))
<1> DEFINE name == list[k].name
           value == list[k].value
           e == EndOf(name)
           to == EndOf(value)
<1>1. list \in Seq([name : Pieces, value : Pieces]) /\ Len(list) \in Nat
  <2>1. list \in Seq([name : Pieces, value : Pieces])
    BY DEF ListIn
  <2>2. QED
    BY <2>1, LenProperties
<1>2. /\ name.at \in Nat /\ name.len \in Nat /\ name.at + name.len <= n
      /\ value.at \in Nat /\ value.len \in Nat /\ value.at + value.len <= n
  BY DEF ListIn, Inside, Pieces
<1>3. /\ e \in Nat /\ name.at <= e /\ e < n /\ to \in Nat /\ to <= n
      /\ value.at = e + 1 /\ e < to
  <2>1. e = name.at + name.len /\ to = value.at + value.len
    BY DEF EndOf
  <2>2. e < n
    BY DEF Named
  <2>3. value.at = e + 1
    BY DEF Valued
  <2> HIDE DEF e, to, name, value
  <2>4. QED
    BY <1>2, <2>1, <2>2, <2>3
<1>4. b[e + 1] = "="
  BY DEF Named
<1>5. TextOf(b, name) = SubSeq(b, name.at + 1, e) /\ TextOf(b, value) = SubSeq(b, e + 2, to)
  <2>1. value.at + 1 = e + 2
    BY <1>3
  <2>2. QED
    BY <1>3, <2>1 DEF TextOf, EndOf
<1>6. CutAt(list, k) = to
  BY DEF CutAt
<1>7. CASE k = 1
  <2>1. name.at = 0 /\ CutAt(list, k - 1) = 0
    BY <1>7 DEF Named, CutAt
  <2>2. <<>> \o SubSeq(b, 1, e) = SubSeq(b, 1, e)
    <3>1. \A j \in 1..e : b[j] \in S
      BY <1>3, ElementOfSeq
    <3>2. SubSeq(b, 1, e) \in Seq(S)
      BY <1>3, <3>1, SubSeqProperties
    <3>3. QED
      BY <3>2, ConcatEmptySeq
  <2> HIDE DEF e, to
  <2>3. SubSeq(b, 1, e) \o <<"=">> \o SubSeq(b, e + 2, to) = SubSeq(b, 1, to)
    BY <1>3, <1>4, PairText
  <2>4. (IF k = 1 THEN <<>> ELSE <<"&">>) = <<>>
    BY <1>7
  <2>5. TextOf(b, name) = SubSeq(b, 1, e)
    BY <1>5, <2>1
  <2>6. CutAt(list, k - 1) + 1 = 1
    BY <2>1
  <2>7. <<>> \o TextOf(b, name) \o <<"=">> \o TextOf(b, value) = SubSeq(b, 1, to)
    BY <1>5, <2>2, <2>3, <2>5
  <2>8. to \in 0..n /\ 0 \in 0..n /\ 0 <= to
    BY <1>3
  <2>9. QED
    BY <1>6, <2>1, <2>4, <2>6, <2>7, <2>8
<1>8. CASE k # 1
  <2> DEFINE from == EndOf(list[k - 1].value)
             at == name.at
  <2>1. at = from + 1 /\ b[at] = "&"
    BY <1>8 DEF Named
  <2>2. k - 1 \in 1..Len(list)
    BY <1>1, <1>8
  <2>3. from \in Nat
    <3>1. list[k - 1].value \in Pieces
      BY <2>2 DEF ListIn, Inside
    <3> HIDE DEF from
    <3>2. from = list[k - 1].value.at + list[k - 1].value.len
      BY DEF EndOf, from
    <3>3. QED
      BY <3>1, <3>2 DEF Pieces
  <2>4. CutAt(list, k - 1) = from
    BY <2>2 DEF CutAt
  <2>5. at \in 1..Len(b) + 1 /\ at \in 1..Len(b) /\ at \in at - 1..Len(b) /\ e \in at..Len(b)
    <3>1. at \in Nat /\ at # 0 /\ at <= e /\ e <= n /\ e \in Nat
      <4>1. at \in Nat /\ at <= e
        BY <1>2, <1>3
      <4> HIDE DEF at, from, e
      <4>2. QED
        BY <1>3, <2>1, <2>3, <4>1
    <3> HIDE DEF at, e
    <3>2. QED
      BY <3>1
  <2> HIDE DEF e, to, from
  <2>6. SubSeq(b, at, at) = <<"&">>
    BY <2>1, <2>5, SubSeqOne
  <2>7. SubSeq(b, at, at) \o SubSeq(b, at + 1, e) = SubSeq(b, at, e)
    BY <2>5, ConcatAdjacentSubSeq
  <2>8. SubSeq(b, at, e) \o <<"=">> \o SubSeq(b, e + 2, to) = SubSeq(b, at, to)
    <3>1. 1 <= at /\ at <= e + 1 /\ at \in Nat /\ to <= Len(b)
      <4> HIDE DEF at
      <4>1. QED
        BY <1>3, <2>5
    <3>2. QED
      BY <1>3, <1>4, <3>1, PairText
  <2>9. (IF k = 1 THEN <<>> ELSE <<"&">>) = <<"&">>
    BY <1>8
  <2>10. from <= to /\ from \in 0..n /\ to \in 0..n
    BY <1>2, <1>3, <2>1, <2>3
  <2>11. TextOf(b, name) = SubSeq(b, at + 1, e)
    BY <1>5
  <2> HIDE DEF at
  <2>12. <<"&">> \o TextOf(b, name) \o <<"=">> \o TextOf(b, value) = SubSeq(b, from + 1, to)
    BY <1>5, <2>1, <2>6, <2>7, <2>8, <2>11
  <2>13. QED
    BY <1>6, <2>4, <2>9, <2>10, <2>12
<1>9. QED
  BY <1>7, <1>8

(* The letters of names and of values.                                     *)
LEMMA PairLetters ==
  ASSUME NEW S, NEW b \in Seq(S), NEW n \in Nat, n = Len(b), NEW piece, Inside(piece, n),
         NEW letter, \A j \in piece.at + 1..EndOf(piece) : b[j] # letter
  PROVE  letter \notin ToSet(TextOf(b, piece))
<1> DEFINE at == piece.at
           len == piece.len
           text == TextOf(b, piece)
<1>1. at \in Nat /\ len \in Nat /\ at + len <= n /\ EndOf(piece) = at + len
  BY DEF Inside, Pieces, EndOf
<1>2. text = SubSeq(b, at + 1, at + len)
  BY DEF TextOf
<1> HIDE DEF at, len, text
<1>3. \A j \in at + 1..at + len : b[j] \in S
  BY <1>1, ElementOfSeq
<1>4. Len(text) = len /\ text \in Seq(S) /\ \A j \in 1..len : text[j] = b[at + j]
  <2>1. at + 1 \in Int /\ at + len \in Int
    BY <1>1
  <2> DEFINE x == at + 1
             y == at + len
  <2>2. /\ SubSeq(b, x, y) \in Seq(S)
        /\ Len(SubSeq(b, x, y)) = IF x <= y THEN y - x + 1 ELSE 0
        /\ \A j \in 1..y - x + 1 : SubSeq(b, x, y)[j] = b[x + j - 1]
    <3> HIDE DEF x, y
    <3>1. QED
      BY <1>3, <2>1, SubSeqProperties DEF x, y
  <2>3. y - x + 1 = len
    BY <1>1
  <2>4. \A j \in 1..len : x + j - 1 = at + j
    BY <1>1
  <2>5. (IF x <= y THEN y - x + 1 ELSE 0) = len
    BY <1>1
  <2>6. text = SubSeq(b, x, y)
    BY <1>2
  <2>7. \A j \in 1..len : text[j] = b[x + j - 1]
    BY <2>2, <2>3, <2>6
  <2> HIDE DEF x, y
  <2>8. Len(text) = len /\ text \in Seq(S)
    BY <2>2, <2>5, <2>6
  <2>9. QED
    BY <2>4, <2>7, <2>8
<1>5. \A j \in 1..len : b[at + j] # letter
  <2>1. \A j \in at + 1..at + len : b[j] # letter
    BY <1>1 DEF at
  <2>2. \A j \in 1..len : at + j \in at + 1..at + len
    BY <1>1
  <2>3. QED
    BY <2>1, <2>2
<1>6. ToSet(text) = {text[j] : j \in 1..len}
  <2>1. DOMAIN text = 1..len
    BY <1>4, LenProperties
  <2>2. QED
    BY <2>1 DEF ToSet
<1>7. QED
  BY <1>4, <1>5, <1>6 DEF text

(* The pairs make up the body, and their letters are what they should be.  *)
LEMMA PairsWhole ==
  ASSUME NEW S, NEW b \in Seq(S), NEW n \in Nat, n = Len(b), NEW list, ListIn(list, n),
         Chained(b, list), Whole(b, list)
  PROVE  /\ Join(NamesOf(b, list), ValuesOf(b, list)) = b
         /\ \A k \in 1..Len(list) : /\ "=" \notin ToSet(NamesOf(b, list)[k])
                                    /\ "&" \notin ToSet(ValuesOf(b, list)[k])
<1> DEFINE m == Len(list)
           names == NamesOf(b, list)
           values == ValuesOf(b, list)
           cut == [k \in 0..m |-> CutAt(list, k)]
           pair(k) == (IF k = 1 THEN <<>> ELSE <<"&">>)
                        \o TextOf(b, list[k].name) \o <<"=">> \o TextOf(b, list[k].value)
           s == [k \in 1..m |-> pair(k)]
<1>1. m \in Nat /\ m # 0
  <2>1. list \in Seq([name : Pieces, value : Pieces]) /\ list # <<>>
    BY DEF ListIn, Whole
  <2>2. QED
    BY <2>1, NotEmpty
<1>2. \A k \in 1..m : Named(b, list, k) /\ Valued(b, list, k)
  <2>1. \A k \in 1..m : k = m \/ k \in 1..m - 1
    BY <1>1
  <2>2. QED
    BY <2>1 DEF Chained, Whole
<1>3. \A k \in 1..m : /\ CutAt(list, k) \in 0..n /\ CutAt(list, k - 1) \in 0..n
                      /\ CutAt(list, k - 1) <= CutAt(list, k)
                      /\ pair(k) = SubSeq(b, CutAt(list, k - 1) + 1, CutAt(list, k))
  BY <1>2, PairFits
<1> HIDE DEF pair
<1>4. cut \in [0..m -> 0..n] /\ cut[0] = 0 /\ cut[m] = n
  <2>1. \A k \in 0..m : CutAt(list, k) \in 0..n
    <3>1. \A k \in 0..m : k = 0 \/ k \in 1..m
      BY <1>1
    <3>2. CutAt(list, 0) = 0
      BY DEF CutAt
    <3>3. QED
      BY <1>3, <3>1, <3>2
  <2>2. CutAt(list, 0) = 0 /\ CutAt(list, m) = n
    BY <1>1 DEF CutAt, Whole
  <2>3. 0 \in 0..m /\ m \in 0..m
    BY <1>1
  <2>4. QED
    BY <2>1, <2>2, <2>3
<1>5. \A k \in 1..m : cut[k] = CutAt(list, k) /\ cut[k - 1] = CutAt(list, k - 1)
  <2>1. \A k \in 1..m : k \in 0..m /\ k - 1 \in 0..m
    BY <1>1
  <2>2. QED
    BY <2>1
<1> HIDE DEF cut
<1>6. s \in Seq(Seq(S)) /\ Len(s) = m
  <2>1. ASSUME NEW k \in 1..m PROVE pair(k) \in Seq(S)
    <3> DEFINE x == CutAt(list, k - 1) + 1
               y == CutAt(list, k)
    <3>1. x \in Int /\ y \in Int /\ pair(k) = SubSeq(b, x, y)
      BY <1>3
    <3>2. \A j \in x..y : b[j] \in S
      <4>1. \A j \in x..y : j \in 1..Len(b)
        BY <1>3
      <4>2. QED
        BY <4>1, ElementOfSeq
    <3> HIDE DEF x, y
    <3>3. QED
      BY <3>1, <3>2, SubSeqProperties
  <2>2. s \in [1..m -> Seq(S)]
    BY <2>1
  <2> HIDE DEF s
  <2>3. s \in Seq(Seq(S))
    BY <1>1, <2>2
  <2>4. QED
    BY <1>1, <2>2, <2>3, LenProperties
<1>7. \A k \in 1..m : cut[k - 1] <= cut[k] /\ s[k] = SubSeq(b, cut[k - 1] + 1, cut[k])
  BY <1>3, <1>5
<1>8. FlattenSeq(s) = b
  <2> HIDE DEF s, m
  <2>1. FlattenSeq(s) = SubSeq(b, 1, cut[m])
    BY <1>4, <1>6, <1>7, FlattenTiles
  <2>2. QED
    BY <1>4, <2>1, SubSeqFull
<1>9. Join(names, values) = FlattenSeq(s)
  <2>1. Len(names) = m
    <3>1. names \in Seq({TextOf(b, list[k].name) : k \in 1..m}) /\ DOMAIN names = 1..m
      BY <1>1 DEF NamesOf
    <3>2. QED
      BY <1>1, <3>1, LenProperties
  <2>2. \A k \in 1..m : /\ names[k] = TextOf(b, list[k].name)
                        /\ values[k] = TextOf(b, list[k].value)
    BY DEF NamesOf, ValuesOf
  <2> HIDE DEF names, values, m
  <2>3. [k \in 1..Len(names) |->
           (IF k = 1 THEN <<>> ELSE <<"&">>) \o names[k] \o <<"=">> \o values[k]] = s
    BY <2>1, <2>2 DEF pair
  <2>4. QED
    BY <2>3 DEF Join
<1>10. ASSUME NEW k \in 1..m
       PROVE  "=" \notin ToSet(names[k]) /\ "&" \notin ToSet(values[k])
  <2>1. Inside(list[k].name, n) /\ Inside(list[k].value, n)
    BY DEF ListIn
  <2>2. \A j \in list[k].name.at + 1..EndOf(list[k].name) : b[j] # "="
    BY <1>2 DEF Named
  <2>3. \A j \in list[k].value.at + 1..EndOf(list[k].value) : b[j] # "&"
    BY <1>2 DEF Valued
  <2>4. names[k] = TextOf(b, list[k].name) /\ values[k] = TextOf(b, list[k].value)
    BY DEF NamesOf, ValuesOf
  <2>5. QED
    BY <2>1, <2>2, <2>3, <2>4, PairLetters
<1>11. QED
  BY <1>8, <1>9, <1>10

(* So that is what the invariant says in the end.                          *)
LEMMA PairsInvFound ==
  ASSUME PostInv, PairsInv
  PROVE  PairsFound
<1>1. SUFFICES ASSUME stage = "written", post.got, post.kind = "urlenc", WellFormedPairs
               PROVE  /\ Join(Names, Values) = post.body
                      /\ \A k \in 1..Len(vals) :
                           "=" \notin ToSet(Names[k]) /\ "&" \notin ToSet(Values[k])
  BY DEF PairsFound
<1> DEFINE b == post.body
<1>2. Chained(b, vals) /\ Whole(b, vals)
  BY <1>1 DEF PairsInv
<1>3. b \in Seq(STRING) /\ Length = Len(b) /\ Length \in Nat /\ ListIn(vals, Length)
  <2>1. b \in Seq(STRING) /\ Length = Len(b) /\ ListIn(vals, Length)
    BY DEF PostInv, Typed, PostShape, Length
  <2>2. QED
    BY <2>1, LenProperties
<1>4. Names = NamesOf(b, vals) /\ Values = ValuesOf(b, vals)
  BY DEF Names, Values, NamesOf, ValuesOf, Text, TextOf
<1> HIDE DEF b
<1>5. QED
  BY <1>2, <1>3, <1>4, PairsWhole DEF b
-----------------------------------------------------------------------------
(***************************************************************************)
(* What is found in a multipart body: the names and data of its parts, for *)
(* every list of parts, every boundary and every place where the body may  *)
(* be cut off.  The invariant says where in which part the parser is in    *)
(* each of its states, and what the list holds there.                      *)
(***************************************************************************)

(***************************************************************************)
(* The parts of a multipart body: where the k-th part and its head, name,  *)
(* second header, data and the line end behind that are.                   *)
(***************************************************************************)
Encoded(ps) == [k \in 1..Len(ps) |-> EncodePart(ps[k])]

NameLen(ps, k) == Len(ps[k].name)
DataLen(ps, k) == Len(ps[k].data)
TypeLen(ps, k) == IF ps[k].typed THEN 6 ELSE 0

PartAt(ps, k) == Len(FlattenSeq(SubSeq(Encoded(ps), 1, k - 1)))
HeadAt(ps, k) == PartAt(ps, k) + L + 2
NameAt(ps, k) == HeadAt(ps, k) + 4
TypeAt(ps, k) == NameAt(ps, k) + NameLen(ps, k) + 3
DataAt(ps, k) == TypeAt(ps, k) + TypeLen(ps, k) + 2
EndAt(ps, k) == DataAt(ps, k) + DataLen(ps, k)

(* The list as it should be before the k-th part: the parts in front of it *)
(* with their names and data, and the line end that all but the last keep. *)
KeptLen(ps, k) == DataLen(ps, k) + IF k < Len(ps) THEN 2 ELSE 0

FoundPart(ps, k) ==
  [name  |-> Piece(NameAt(ps, k), NameLen(ps, k)),
   value |-> Piece(DataAt(ps, k), KeptLen(ps, k))]

AllBefore(list, ps, k) == \A j \in 1..k - 1 : list[j] = FoundPart(ps, j)

Before(list, ps, k) == Len(list) = k - 1 /\ AllBefore(list, ps, k)

(* Between its name and its data.                                          *)
Behind(list, ps, k) ==
  /\ Len(list) = k /\ AllBefore(list, ps, k)
  /\ list[k] = [name |-> Piece(NameAt(ps, k), NameLen(ps, k)), value |-> Unset]

(* In a body that ends within the part.                                    *)
CutIn(list, ps, k) ==
  /\ Len(list) = k /\ AllBefore(list, ps, k)
  /\ list[k].name.at = NameAt(ps, k) /\ list[k].name.len <= NameLen(ps, k)
  /\ \/ list[k].value = Unset
     \/ /\ list[k].value.at = DataAt(ps, k)
        /\ list[k].value.len <= DataLen(ps, k) + 2

ListRight(list, ps) ==
  \/ \E k \in 1..Len(ps) + 1 : Before(list, ps, k)
  \/ \E k \in 1..Len(ps) : CutIn(list, ps, k)

(* The parser in the head of the k-th part, before it has its name.        *)
InHead(ps, k) ==
  /\ Before(vals, ps, k)
  /\ LET h == HeadAt(ps, k) IN
     \/ pstate = "start_boundary" /\ k = 1 /\ i = index /\ i <= L + 1
     \/ pstate = "header_field_start" /\ i = h
     \/ pstate = "header_field" /\ i = h + 1 /\ mark = h
     \/ pstate = "header_value_start" /\ i \in {h + 2, h + 3} /\ isContent
     \/ /\ pstate = "header_value" /\ mark = h + 3 /\ isContent
        /\ i \in h + 4..h + 5 + NameLen(ps, k)

(* And behind its name.                                                    *)
InRest(ps, k) ==
  /\ Behind(vals, ps, k)
  /\ LET c == TypeAt(ps, k)
         d == DataAt(ps, k)
     IN
     \/ pstate = "header_value_almost_done" /\ i = c - 1
     \/ pstate = "header_field_start" /\ i \in {c, d - 2}
     \/ /\ ps[k].typed
        /\ \/ pstate = "header_field" /\ i = c + 1 /\ mark = c
           \/ pstate = "header_value_start" /\ i \in {c + 2, c + 3} /\ ~isContent
           \/ pstate = "header_value" /\ i = c + 4 /\ mark = c + 3 /\ ~isContent
           \/ pstate = "header_value_almost_done" /\ i = c + 5
     \/ pstate = "headers_almost_done" /\ i = d - 1
     \/ pstate = "part_data_start" /\ i = d

(* A line feed behind which the parser has met index letters of a boundary *)
(* is in the data, or it is the one behind them.                           *)
Matched(ps, k) ==
  LET p == i - index - 1
      z == EndAt(ps, k)
  IN
  /\ index < L /\ p > DataAt(ps, k)
  /\ p # z + 1 => p < z /\ i <= z
  /\ post.body[p + 1] = "lf"
  /\ \A j \in 1..index : post.body[p + 1 + j] = Boundary[j]

(* In its data, or in the boundary behind that.                            *)
InData(ps, k) ==
  /\ Behind(vals, ps, k)
  /\ mark = DataAt(ps, k)
  /\ LET z == EndAt(ps, k) IN
     \/ pstate = "part_data" /\ i \in mark + 1..z
     \/ pstate = "part_data_almost_boundary" /\ i \in mark + 1..z + 1
     \/ pstate = "part_data_boundary" /\ Matched(ps, k)
     \/ pstate = "part_data_almost_end" /\ i = z + 2 + L
     \/ pstate = "part_data_end" /\ i = z + 3 + L /\ k < Len(ps)
     \/ pstate = "part_data_final_hyphen" /\ i = z + 3 + L /\ k = Len(ps)

BehindAll(ps) == pstate = "end" /\ Before(vals, ps, Len(ps) + 1)

InPlace(ps) ==
  \/ \E k \in 1..Len(ps) : InHead(ps, k) \/ InRest(ps, k) \/ InData(ps, k)
  \/ BehindAll(ps)

(* The body is cut off in front of its last line end or before that.       *)
IsCut(ps) == Length <= EndAt(ps, Len(ps)) + 4 + L

PartsInv ==
  post.kind = "multipart" /\ WellParted(post.parts) =>
    /\ ListRight(vals, post.parts)
    /\ stage = "parse" /\ i < Length => InPlace(post.parts)
    /\ post.got /\ (stage # "parse" \/ i = Length) =>
         IsCut(post.parts) \/ Before(vals, post.parts, Len(post.parts) + 1)
-----------------------------------------------------------------------------
(***************************************************************************)
(* The letters of a multipart body.                                        *)
(***************************************************************************)
(* b has s behind the first at letters, as far as it goes.                 *)
Spells(b, at, s) == \A j \in 1..Len(s) : at + j <= Len(b) => b[at + j] = s[j]

(* b has the letter at an offset, if it is that long.                      *)
Has(b, at, letter) == at < Len(b) => b[at + 1] = letter

LEMMA SpellsConcat ==
  ASSUME NEW S, NEW s \in Seq(S), NEW t \in Seq(S), NEW b, NEW at \in Nat
  PROVE  /\ s \o t \in Seq(S) /\ Len(s \o t) = Len(s) + Len(t) /\ Len(s) \in Nat
         /\ Spells(b, at, s \o t) => Spells(b, at, s) /\ Spells(b, at + Len(s), t)
<1>1. Len(s) \in Nat /\ Len(t) \in Nat
  BY LenProperties
<1>2. /\ s \o t \in Seq(S) /\ Len(s \o t) = Len(s) + Len(t)
      /\ \A k \in 1..Len(s) + Len(t) : (s \o t)[k] = IF k <= Len(s) THEN s[k] ELSE t[k - Len(s)]
  BY ConcatProperties
<1> DEFINE c == s \o t
           m == Len(s)
           n == Len(t)
<1> HIDE DEF c, m, n
<1>3. /\ m \in Nat /\ n \in Nat /\ Len(c) = m + n
      /\ \A k \in 1..m + n : c[k] = IF k <= m THEN s[k] ELSE t[k - m]
  BY <1>1, <1>2 DEF c, m, n
<1>4. ASSUME Spells(b, at, c)
      PROVE  Spells(b, at, s) /\ Spells(b, at + m, t)
  <2>1. \A j \in 1..m + n : at + j <= Len(b) => b[at + j] = c[j]
    BY <1>3, <1>4 DEF Spells
  <2>2. ASSUME NEW j \in 1..m, at + j <= Len(b)
        PROVE  b[at + j] = s[j]
    BY <1>3, <2>1, <2>2
  <2>3. ASSUME NEW j \in 1..n, (at + m) + j <= Len(b)
        PROVE  b[(at + m) + j] = t[j]
    <3>1. m + j \in 1..m + n /\ at + (m + j) = (at + m) + j /\ (m + j) - m = j /\ ~(m + j <= m)
      BY <1>3
    <3>2. b[at + (m + j)] = c[m + j]
      BY <2>1, <2>3, <3>1
    <3>3. c[m + j] = t[j]
      BY <1>3, <3>1
    <3>4. QED
      BY <3>1, <3>2, <3>3
  <2>4. QED
    BY <2>2, <2>3 DEF Spells, m, n
<1>5. QED
  BY <1>1, <1>2, <1>4 DEF c, m

(* Two letters, and one.                                                   *)
LEMMA SpellsPair ==
  ASSUME NEW b, NEW at \in Nat, NEW c, NEW d, Spells(b, at, <<c, d>>)
  PROVE  Has(b, at, c) /\ Has(b, at + 1, d)
<1>1. /\ Len(<<c, d>>) = 2 /\ <<c, d>>[1] = c /\ <<c, d>>[2] = d
      /\ (at + 1) + 1 = at + 2 /\ (Len(b) \in Int => (at < Len(b) <=> at + 1 <= Len(b)))
  OBVIOUS
<1>2. QED
  BY <1>1 DEF Spells, Has

(* c is s and t behind it.                                                 *)
Joins(c, s, t) == s \in Seq(Letters) /\ t \in Seq(Letters) /\ c = s \o t

LEMMA JoinsLen ==
  ASSUME NEW c, NEW s, NEW t, Joins(c, s, t)
  PROVE  c \in Seq(Letters) /\ Len(c) = Len(s) + Len(t)
  BY ConcatProperties DEF Joins

LEMMA JoinsSpells ==
  ASSUME NEW c, NEW s, NEW t, Joins(c, s, t), NEW b
  PROVE  \A at \in Nat : Spells(b, at, c) => Spells(b, at, s) /\ Spells(b, at + Len(s), t)
<1>1. s \in Seq(Letters) /\ t \in Seq(Letters) /\ c = s \o t
  BY DEF Joins
<1>2. QED
  BY <1>1, SpellsConcat

(* A part with a name, letter by letter.                                   *)
TypeText(part) == IF part.typed THEN <<"T", ":", "sp", "x">> \o EndOfLine ELSE <<>>

LEMMA TypeTextIs ==
  ASSUME NEW part
  PROVE  /\ TypeText(part) \in Seq(Letters)
         /\ Len(TypeText(part)) = IF part.typed THEN 6 ELSE 0
         /\ \A b : \A at \in Nat :
              part.typed /\ Spells(b, at, TypeText(part)) =>
                /\ Has(b, at, "T") /\ Has(b, at + 1, ":") /\ Has(b, at + 2, "sp")
                /\ Has(b, at + 3, "x") /\ Has(b, at + 4, "cr") /\ Has(b, at + 5, "lf")
<1> DEFINE c == <<"T", ":", "sp", "x">>
           y == TypeText(part)
<1>1. /\ c \in Seq(Letters) /\ Len(c) = 4
      /\ c[1] = "T" /\ c[2] = ":" /\ c[3] = "sp" /\ c[4] = "x"
  BY LettersIn
<1>2. EndOfLine \in Seq(Letters) /\ Len(EndOfLine) = 2
  BY Literals
<1>3. CASE ~part.typed
  BY <1>3, EmptySeq DEF TypeText
<1>4. CASE part.typed
  <2>1. Joins(y, c, EndOfLine)
    BY <1>1, <1>2, <1>4 DEF TypeText, Joins
  <2> HIDE DEF y, c
  <2> SUFFICES ASSUME TRUE
               PROVE  /\ y \in Seq(Letters) /\ Len(y) = 6
                      /\ \A b : \A at \in Nat :
                           Spells(b, at, y) =>
                             /\ Has(b, at, "T") /\ Has(b, at + 1, ":")
                             /\ Has(b, at + 2, "sp") /\ Has(b, at + 3, "x")
                             /\ Has(b, at + 4, "cr") /\ Has(b, at + 5, "lf")
    BY <1>4 DEF y
  <2>a. y \in Seq(Letters) /\ Len(y) = Len(c) + Len(EndOfLine)
    BY <2>1, JoinsLen
  <2>2. y \in Seq(Letters) /\ Len(y) = 6
    BY <1>1, <1>2, <2>a
  <2>3. ASSUME NEW b, NEW at \in Nat, Spells(b, at, y)
        PROVE  /\ Has(b, at, "T") /\ Has(b, at + 1, ":")
               /\ Has(b, at + 2, "sp") /\ Has(b, at + 3, "x")
               /\ Has(b, at + 4, "cr") /\ Has(b, at + 5, "lf")
    <3>1. Spells(b, at, c) /\ Spells(b, at + 4, EndOfLine)
      BY <1>1, <2>1, <2>3, JoinsSpells
    <3>2. Has(b, at + 4, "cr") /\ Has(b, (at + 4) + 1, "lf")
      BY <3>1, SpellsPair DEF EndOfLine
    <3>3. \A j \in 1..4 : at + j <= Len(b) => b[at + j] = c[j]
      BY <1>1, <3>1 DEF Spells
    <3>4. Has(b, at, "T") /\ Has(b, at + 1, ":") /\ Has(b, at + 2, "sp") /\ Has(b, at + 3, "x")
      <4>1. /\ at + 1 <= Len(b) => b[at + 1] = "T"
            /\ at + 2 <= Len(b) => b[at + 2] = ":"
            /\ at + 3 <= Len(b) => b[at + 3] = "sp"
            /\ at + 4 <= Len(b) => b[at + 4] = "x"
        BY <1>1, <3>3
      <4>2. (at + 1) + 1 = at + 2 /\ (at + 2) + 1 = at + 3 /\ (at + 3) + 1 = at + 4
        OBVIOUS
      <4>3. QED
        BY <4>1, <4>2 DEF Has
    <3>5. (at + 4) + 1 = at + 5
      OBVIOUS
    <3>6. QED
      BY <3>2, <3>4, <3>5
  <2>4. QED
    BY <2>2, <2>3
<1>5. QED
  BY <1>3, <1>4

LEMMA PartSpelled ==
  ASSUME HasBoundary, NEW part \in PartShape, part.named, NEW b, NEW at \in Nat
  PROVE  LET m == Len(part.name)
             t == IF part.typed THEN 6 ELSE 0
             d == Len(part.data)
         IN  /\ EncodePart(part) \in Seq(Letters)
             /\ Len(EncodePart(part)) = L + 13 + m + t + d
             /\ m \in Nat /\ d \in Nat
             /\ Spells(b, at, EncodePart(part)) =>
                  /\ Spells(b, at, Boundary) /\ Spells(b, at + L, EndOfLine)
                  /\ Spells(b, at + L + 2, <<"D", ":", "sp">>)
                  /\ Spells(b, at + L + 5, <<"N">>) /\ Spells(b, at + L + 6, part.name)
                  /\ Spells(b, at + L + 6 + m, <<"quote">>)
                  /\ Spells(b, at + L + 7 + m, EndOfLine)
                  /\ Spells(b, at + L + 9 + m, TypeText(part))
                  /\ Spells(b, at + L + 9 + m + t, EndOfLine)
                  /\ Spells(b, at + L + 11 + m + t, part.data)
                  /\ Spells(b, at + L + 11 + m + t + d, EndOfLine)
<1> DEFINE m == Len(part.name)
           t == IF part.typed THEN 6 ELSE 0
           d == Len(part.data)
           c == <<"D", ":", "sp">>
           y == TypeText(part)
           o == <<"N">>
           u == <<"quote">>
           v == o \o part.name
           w == v \o u
           s1 == Boundary \o EndOfLine
           s2 == s1 \o c
           s3 == s2 \o w
           s4 == s3 \o EndOfLine
           s5 == s4 \o y
           s6 == s5 \o EndOfLine
           s7 == s6 \o part.data
           s8 == s7 \o EndOfLine
<1>1. /\ L \in Nat /\ m \in Nat /\ d \in Nat /\ t \in Nat /\ Len(Boundary) = L
      /\ Boundary \in Seq(Letters) /\ part.name \in Seq(Letters) /\ part.data \in Seq(Letters)
  <2>1. /\ Boundary \in Seq(STRING) /\ part.name \in Seq(STRING) /\ part.data \in Seq(STRING)
    BY DEF HasBoundary, PartShape
  <2>2. /\ Boundary \in Seq(Letters) /\ part.name \in Seq(Letters)
        /\ part.data \in Seq(Letters)
    BY <2>1, SeqMonotonic DEF Letters
  <2>3. L \in Nat /\ m \in Nat /\ d \in Nat /\ Len(Boundary) = L
    BY <2>1, LenProperties DEF L
  <2>4. QED
    BY <2>2, <2>3
<1>2. /\ EndOfLine \in Seq(Letters) /\ Len(EndOfLine) = 2
      /\ c \in Seq(Letters) /\ Len(c) = 3
      /\ o \in Seq(Letters) /\ Len(o) = 1
      /\ u \in Seq(Letters) /\ Len(u) = 1
  BY Literals
<1>3. y \in Seq(Letters) /\ Len(y) = t
  BY TypeTextIs
<1>4. EncodePart(part) = s8
  BY DEF EncodePart, TypeText
<1> HIDE DEF c, y, m, d, t, o, u
<1>5. /\ v \in Seq(Letters) /\ Len(v) = m + 1
       /\ \A x \in Nat : Spells(b, x, v) => Spells(b, x, o) /\ Spells(b, x + 1, part.name)
  <2>1. Joins(v, o, part.name)
    BY <1>1, <1>2 DEF Joins
  <2>2. Len(o) = 1 /\ Len(part.name) = m
    BY <1>1, <1>2 DEF m, d
  <2> HIDE DEF v
  <2>3. v \in Seq(Letters) /\ Len(v) = Len(o) + Len(part.name)
    BY <2>1, JoinsLen
  <2>4. \A x \in Nat :
          Spells(b, x, v) => Spells(b, x, o) /\ Spells(b, x + Len(o), part.name)
    BY <2>1, JoinsSpells
  <2>5. QED
    BY <1>1, <2>2, <2>3, <2>4
<1> HIDE DEF v
<1>6. /\ w \in Seq(Letters) /\ Len(w) = m + 2
       /\ \A x \in Nat : Spells(b, x, w) => Spells(b, x, v) /\ Spells(b, x + (m + 1), u)
  <2>1. Joins(w, v, u)
    BY <1>1, <1>2, <1>5 DEF Joins
  <2>2. Len(v) = m + 1 /\ Len(u) = 1
    BY <1>1, <1>2, <1>5 DEF m, d
  <2> HIDE DEF w
  <2>3. w \in Seq(Letters) /\ Len(w) = Len(v) + Len(u)
    BY <2>1, JoinsLen
  <2>4. \A x \in Nat :
          Spells(b, x, w) => Spells(b, x, v) /\ Spells(b, x + Len(v), u)
    BY <2>1, JoinsSpells
  <2>5. QED
    BY <1>1, <2>2, <2>3, <2>4
<1> HIDE DEF w
<1>7. /\ s1 \in Seq(Letters) /\ Len(s1) = L + 2
       /\ \A x \in Nat : Spells(b, x, s1) => Spells(b, x, Boundary) /\ Spells(b, x + L, EndOfLine)
  <2>1. Joins(s1, Boundary, EndOfLine)
    BY <1>1, <1>2 DEF Joins
  <2>2. Len(Boundary) = L /\ Len(EndOfLine) = 2
    BY <1>1, <1>2 DEF m, d
  <2> HIDE DEF s1
  <2>3. s1 \in Seq(Letters) /\ Len(s1) = Len(Boundary) + Len(EndOfLine)
    BY <2>1, JoinsLen
  <2>4. \A x \in Nat :
          Spells(b, x, s1) => Spells(b, x, Boundary) /\ Spells(b, x + Len(Boundary), EndOfLine)
    BY <2>1, JoinsSpells
  <2>5. QED
    BY <1>1, <2>2, <2>3, <2>4
<1> HIDE DEF s1
<1>8. /\ s2 \in Seq(Letters) /\ Len(s2) = L + 5
       /\ \A x \in Nat : Spells(b, x, s2) => Spells(b, x, s1) /\ Spells(b, x + (L + 2), c)
  <2>1. Joins(s2, s1, c)
    BY <1>2, <1>7 DEF Joins
  <2>2. Len(s1) = L + 2 /\ Len(c) = 3
    BY <1>2, <1>7 DEF m, d
  <2> HIDE DEF s2
  <2>3. s2 \in Seq(Letters) /\ Len(s2) = Len(s1) + Len(c)
    BY <2>1, JoinsLen
  <2>4. \A x \in Nat :
          Spells(b, x, s2) => Spells(b, x, s1) /\ Spells(b, x + Len(s1), c)
    BY <2>1, JoinsSpells
  <2>5. QED
    BY <1>1, <2>2, <2>3, <2>4
<1> HIDE DEF s2
<1>9. /\ s3 \in Seq(Letters) /\ Len(s3) = L + 7 + m
       /\ \A x \in Nat : Spells(b, x, s3) => Spells(b, x, s2) /\ Spells(b, x + (L + 5), w)
  <2>1. Joins(s3, s2, w)
    BY <1>6, <1>8 DEF Joins
  <2>2. Len(s2) = L + 5 /\ Len(w) = m + 2
    BY <1>6, <1>8 DEF m, d
  <2> HIDE DEF s3
  <2>3. s3 \in Seq(Letters) /\ Len(s3) = Len(s2) + Len(w)
    BY <2>1, JoinsLen
  <2>4. \A x \in Nat :
          Spells(b, x, s3) => Spells(b, x, s2) /\ Spells(b, x + Len(s2), w)
    BY <2>1, JoinsSpells
  <2>5. QED
    BY <1>1, <2>2, <2>3, <2>4
<1> HIDE DEF s3
<1>10. /\ s4 \in Seq(Letters) /\ Len(s4) = L + 9 + m
       /\ \A x \in Nat : Spells(b, x, s4) => Spells(b, x, s3) /\ Spells(b, x + (L + 7 + m), EndOfLine)
  <2>1. Joins(s4, s3, EndOfLine)
    BY <1>2, <1>9 DEF Joins
  <2>2. Len(s3) = L + 7 + m /\ Len(EndOfLine) = 2
    BY <1>2, <1>9 DEF m, d
  <2> HIDE DEF s4
  <2>3. s4 \in Seq(Letters) /\ Len(s4) = Len(s3) + Len(EndOfLine)
    BY <2>1, JoinsLen
  <2>4. \A x \in Nat :
          Spells(b, x, s4) => Spells(b, x, s3) /\ Spells(b, x + Len(s3), EndOfLine)
    BY <2>1, JoinsSpells
  <2>5. QED
    BY <1>1, <2>2, <2>3, <2>4
<1> HIDE DEF s4
<1>11. /\ s5 \in Seq(Letters) /\ Len(s5) = L + 9 + m + t
       /\ \A x \in Nat : Spells(b, x, s5) => Spells(b, x, s4) /\ Spells(b, x + (L + 9 + m), y)
  <2>1. Joins(s5, s4, y)
    BY <1>3, <1>10 DEF Joins
  <2>2. Len(s4) = L + 9 + m /\ Len(y) = t
    BY <1>3, <1>10 DEF m, d
  <2> HIDE DEF s5
  <2>3. s5 \in Seq(Letters) /\ Len(s5) = Len(s4) + Len(y)
    BY <2>1, JoinsLen
  <2>4. \A x \in Nat :
          Spells(b, x, s5) => Spells(b, x, s4) /\ Spells(b, x + Len(s4), y)
    BY <2>1, JoinsSpells
  <2>5. QED
    BY <1>1, <2>2, <2>3, <2>4
<1> HIDE DEF s5
<1>12. /\ s6 \in Seq(Letters) /\ Len(s6) = L + 11 + m + t
       /\ \A x \in Nat : Spells(b, x, s6) => Spells(b, x, s5) /\ Spells(b, x + (L + 9 + m + t), EndOfLine)
  <2>1. Joins(s6, s5, EndOfLine)
    BY <1>2, <1>11 DEF Joins
  <2>2. Len(s5) = L + 9 + m + t /\ Len(EndOfLine) = 2
    BY <1>2, <1>11 DEF m, d
  <2> HIDE DEF s6
  <2>3. s6 \in Seq(Letters) /\ Len(s6) = Len(s5) + Len(EndOfLine)
    BY <2>1, JoinsLen
  <2>4. \A x \in Nat :
          Spells(b, x, s6) => Spells(b, x, s5) /\ Spells(b, x + Len(s5), EndOfLine)
    BY <2>1, JoinsSpells
  <2>5. QED
    BY <1>1, <2>2, <2>3, <2>4
<1> HIDE DEF s6
<1>13. /\ s7 \in Seq(Letters) /\ Len(s7) = L + 11 + m + t + d
       /\ \A x \in Nat : Spells(b, x, s7) => Spells(b, x, s6) /\ Spells(b, x + (L + 11 + m + t), part.data)
  <2>1. Joins(s7, s6, part.data)
    BY <1>1, <1>12 DEF Joins
  <2>2. Len(s6) = L + 11 + m + t /\ Len(part.data) = d
    BY <1>1, <1>12 DEF m, d
  <2> HIDE DEF s7
  <2>3. s7 \in Seq(Letters) /\ Len(s7) = Len(s6) + Len(part.data)
    BY <2>1, JoinsLen
  <2>4. \A x \in Nat :
          Spells(b, x, s7) => Spells(b, x, s6) /\ Spells(b, x + Len(s6), part.data)
    BY <2>1, JoinsSpells
  <2>5. QED
    BY <1>1, <2>2, <2>3, <2>4
<1> HIDE DEF s7
<1>14. /\ s8 \in Seq(Letters) /\ Len(s8) = L + 13 + m + t + d
       /\ \A x \in Nat : Spells(b, x, s8) => Spells(b, x, s7) /\ Spells(b, x + (L + 11 + m + t + d), EndOfLine)
  <2>1. Joins(s8, s7, EndOfLine)
    BY <1>2, <1>13 DEF Joins
  <2>2. Len(s7) = L + 11 + m + t + d /\ Len(EndOfLine) = 2
    BY <1>2, <1>13 DEF m, d
  <2> HIDE DEF s8
  <2>3. s8 \in Seq(Letters) /\ Len(s8) = Len(s7) + Len(EndOfLine)
    BY <2>1, JoinsLen
  <2>4. \A x \in Nat :
          Spells(b, x, s8) => Spells(b, x, s7) /\ Spells(b, x + Len(s7), EndOfLine)
    BY <2>1, JoinsSpells
  <2>5. QED
    BY <1>1, <2>2, <2>3, <2>4
<1> HIDE DEF s8
<1>16. /\ at + (L + 2) = at + L + 2 /\ at + (L + 5) = at + L + 5
       /\ at + (L + 7 + m) = at + L + 7 + m /\ at + (L + 9 + m) = at + L + 9 + m
       /\ at + (L + 9 + m + t) = at + L + 9 + m + t
       /\ at + (L + 11 + m + t) = at + L + 11 + m + t
       /\ at + (L + 11 + m + t + d) = at + L + 11 + m + t + d
       /\ (at + (L + 5)) + 1 = at + L + 6 /\ (at + (L + 5)) + (m + 1) = at + L + 6 + m
       /\ at + (L + 5) \in Nat
  BY <1>1
<1>17. ASSUME Spells(b, at, s8)
       PROVE  /\ Spells(b, at, Boundary) /\ Spells(b, at + L, EndOfLine)
              /\ Spells(b, at + L + 2, c)
              /\ Spells(b, at + L + 5, o) /\ Spells(b, at + L + 6, part.name)
              /\ Spells(b, at + L + 6 + m, u)
              /\ Spells(b, at + L + 7 + m, EndOfLine)
              /\ Spells(b, at + L + 9 + m, y)
              /\ Spells(b, at + L + 9 + m + t, EndOfLine)
              /\ Spells(b, at + L + 11 + m + t, part.data)
              /\ Spells(b, at + L + 11 + m + t + d, EndOfLine)
  <2>1. Spells(b, at, s7) /\ Spells(b, at + (L + 11 + m + t + d), EndOfLine)
    BY <1>14, <1>17
  <2>2. Spells(b, at, s6) /\ Spells(b, at + (L + 11 + m + t), part.data)
    BY <1>13, <2>1
  <2>3. Spells(b, at, s5) /\ Spells(b, at + (L + 9 + m + t), EndOfLine)
    BY <1>12, <2>2
  <2>4. Spells(b, at, s4) /\ Spells(b, at + (L + 9 + m), y)
    BY <1>11, <2>3
  <2>5. Spells(b, at, s3) /\ Spells(b, at + (L + 7 + m), EndOfLine)
    BY <1>10, <2>4
  <2>6. Spells(b, at, s2) /\ Spells(b, at + (L + 5), w)
    BY <1>9, <2>5
  <2>7. Spells(b, at + (L + 5), v) /\ Spells(b, (at + (L + 5)) + (m + 1), u)
    BY <1>6, <1>16, <2>6
  <2>8. Spells(b, at + (L + 5), o) /\ Spells(b, (at + (L + 5)) + 1, part.name)
    BY <1>5, <1>16, <2>7
  <2>9. Spells(b, at, s1) /\ Spells(b, at + (L + 2), c)
    BY <1>8, <2>6
  <2>10. Spells(b, at, Boundary) /\ Spells(b, at + L, EndOfLine)
    BY <1>7, <2>9
  <2>11. QED
    BY <1>16, <2>1, <2>2, <2>3, <2>4, <2>5, <2>7, <2>8, <2>9, <2>10
<1>18. QED
  BY <1>1, <1>4, <1>14, <1>17 DEF c, y, m, d, t, o, u

(* The parts stand one behind the other.                                   *)
AllNamed(ps) == ps \in Seq(PartShape) /\ \A k \in 1..Len(ps) : ps[k].named

LEMMA EncodedParts ==
  ASSUME HasBoundary, NEW ps, AllNamed(ps)
  PROVE  /\ Len(ps) \in Nat /\ Encoded(ps) \in Seq(Seq(Letters))
         /\ Len(Encoded(ps)) = Len(ps)
         /\ \A k \in 1..Len(ps) : /\ ps[k] \in PartShape
                                  /\ Encoded(ps)[k] = EncodePart(ps[k])
<1>1. Len(ps) \in Nat /\ \A k \in 1..Len(ps) : ps[k] \in PartShape /\ ps[k].named
  BY LenProperties, ElementOfSeq DEF AllNamed
<1>2. \A k \in 1..Len(ps) : EncodePart(ps[k]) \in Seq(Letters)
  BY <1>1, PartSpelled
<1>3. Encoded(ps) \in [1..Len(ps) -> Seq(Letters)]
  BY <1>2 DEF Encoded
<1>4. Encoded(ps) \in Seq(Seq(Letters)) /\ Len(Encoded(ps)) = Len(ps)
  <2>1. Encoded(ps) \in Seq(Seq(Letters)) /\ DOMAIN Encoded(ps) = 1..Len(ps)
    BY <1>1, <1>3
  <2>2. QED
    BY <1>1, <2>1, LenProperties
<1>5. \A k \in 1..Len(ps) : Encoded(ps)[k] = EncodePart(ps[k])
  BY DEF Encoded
<1>6. QED
  BY <1>1, <1>4, <1>5

LEMMA PartsPlaced ==
  ASSUME HasBoundary, NEW ps, AllNamed(ps)
  PROVE  /\ Len(ps) \in Nat /\ PartAt(ps, 1) = 0
         /\ \A k \in 1..Len(ps) :
              /\ PartAt(ps, k) \in Nat /\ NameLen(ps, k) \in Nat /\ DataLen(ps, k) \in Nat
              /\ TypeLen(ps, k) \in {0, 6}
              /\ PartAt(ps, k + 1) = EndAt(ps, k) + 2
<1> DEFINE s == Encoded(ps)
           n == Len(ps)
           pre(m) == FlattenSeq(SubSeq(s, 1, m))
<1>1. /\ n \in Nat /\ s \in Seq(Seq(Letters)) /\ Len(s) = n
      /\ \A k \in 1..n : ps[k] \in PartShape /\ ps[k].named /\ s[k] = EncodePart(ps[k])
  BY EncodedParts DEF AllNamed
<1>2. \A x \in Nat : PartAt(ps, x + 1) = Len(pre(x))
  <2>1. \A x \in Nat : (x + 1) - 1 = x
    OBVIOUS
  <2>2. QED
    BY <2>1 DEF PartAt
<1>3. PartAt(ps, 1) = 0
  <2>1. SubSeq(s, 1, 0) = <<>>
    BY SubSeqEmpty
  <2> HIDE DEF s
  <2>2. pre(0) = <<>>
    BY <2>1, EmptySeq DEF FlattenSeq
  <2>3. PartAt(ps, 0 + 1) = Len(pre(0)) /\ 0 + 1 = 1
    BY <1>2
  <2>4. QED
    BY <2>2, <2>3, EmptySeq
<1> HIDE DEF s
<1>4. ASSUME NEW m \in Nat, m < n
      PROVE  /\ pre(m + 1) = pre(m) \o s[m + 1]
             /\ pre(m) \in Seq(Letters)
  BY <1>1, <1>4, FlattenMore
<1> HIDE DEF pre
<1>5. ASSUME NEW k \in 1..n
      PROVE  /\ PartAt(ps, k) \in Nat /\ NameLen(ps, k) \in Nat /\ DataLen(ps, k) \in Nat
             /\ TypeLen(ps, k) \in {0, 6}
             /\ PartAt(ps, k + 1) = EndAt(ps, k) + 2
  <2> DEFINE m == k - 1
             e == s[k]
  <2>1. m \in Nat /\ m < n /\ m + 1 = k /\ k \in Nat
    BY <1>1
  <2>2. /\ e \in Seq(Letters) /\ NameLen(ps, k) \in Nat /\ DataLen(ps, k) \in Nat
        /\ Len(e) = L + 13 + NameLen(ps, k) + TypeLen(ps, k) + DataLen(ps, k)
    BY <1>1, PartSpelled DEF NameLen, DataLen, TypeLen
  <2>3. pre(k) = pre(m) \o e /\ pre(m) \in Seq(Letters)
    BY <1>4, <2>1
  <2>4. PartAt(ps, k + 1) = Len(pre(k)) /\ PartAt(ps, k) = Len(pre(m))
    <3>1. PartAt(ps, m + 1) = Len(pre(m))
      BY <1>2, <2>1
    <3>2. QED
      BY <1>2, <2>1, <3>1
  <2> HIDE DEF m, e
  <2>5. Len(pre(m) \o e) = Len(pre(m)) + Len(e) /\ Len(pre(m)) \in Nat
    BY <2>2, <2>3, ConcatProperties, LenProperties
  <2>6. TypeLen(ps, k) \in {0, 6} /\ L \in Nat
    BY LenProperties DEF TypeLen, HasBoundary, L
  <2>7. EndAt(ps, k) =
          PartAt(ps, k) + L + 2 + 4 + NameLen(ps, k) + 3 + TypeLen(ps, k) + 2 + DataLen(ps, k)
    BY DEF EndAt, DataAt, TypeAt, NameAt, HeadAt
  <2>8. PartAt(ps, k + 1) = PartAt(ps, k) + Len(e) /\ PartAt(ps, k) \in Nat
    BY <2>3, <2>4, <2>5
  <2>9. PartAt(ps, k + 1) = EndAt(ps, k) + 2
    <3> DEFINE x == NameLen(ps, k)
               y == TypeLen(ps, k)
               z == DataLen(ps, k)
               p == PartAt(ps, k)
    <3>1. x \in Nat /\ y \in Nat /\ z \in Nat /\ p \in Nat /\ L \in Nat
      BY <2>2, <2>6, <2>8
    <3>2. /\ EndAt(ps, k) = p + L + 2 + 4 + x + 3 + y + 2 + z
          /\ PartAt(ps, k + 1) = p + Len(e) /\ Len(e) = L + 13 + x + y + z
      BY <2>2, <2>7, <2>8
    <3> HIDE DEF x, y, z, p
    <3>3. p + L + 2 + 4 + x + 3 + y + 2 + z + 2 = p + (L + 13 + x + y + z)
      BY <3>1
    <3>4. QED
      BY <3>2, <3>3
  <2>10. QED
    BY <2>2, <2>6, <2>8, <2>9
<1>6. QED
  BY <1>1, <1>3, <1>5

(* What b spells, if it is a body of these parts, or starts one.           *)
LEMMA BodySpelled ==
  ASSUME HasBoundary, NEW ps, AllNamed(ps), NEW b \in Seq(STRING), IsPrefix(b, EncodeParts(ps))
  PROVE  /\ \A k \in 1..Len(ps) : Spells(b, PartAt(ps, k), EncodePart(ps[k]))
         /\ Spells(b, PartAt(ps, Len(ps) + 1), Boundary)
         /\ Spells(b, PartAt(ps, Len(ps) + 1) + L, <<"-", "-">>)
         /\ Len(EncodeParts(ps)) = PartAt(ps, Len(ps) + 1) + L + 4
<1> DEFINE s == Encoded(ps)
           n == Len(ps)
           pre(m) == FlattenSeq(SubSeq(s, 1, m))
           c == <<"-", "-">>
           a == FlattenSeq(s)
           d == a \o Boundary
           f == d \o c
           e == EncodeParts(ps)
<1>1. /\ n \in Nat /\ s \in Seq(Seq(Letters)) /\ Len(s) = n
      /\ \A k \in 1..n : s[k] = EncodePart(ps[k])
  BY EncodedParts
<1>2. \A x \in Nat : PartAt(ps, x + 1) = Len(pre(x))
  <2>1. \A x \in Nat : (x + 1) - 1 = x
    OBVIOUS
  <2>2. QED
    BY <2>1 DEF PartAt
<1>3. e = f \o EndOfLine
  BY DEF EncodeParts, Encoded
<1>4. a = pre(n)
  BY <1>1, SubSeqFull
<1>5. a \in Seq(Letters) /\ Boundary \in Seq(Letters) /\ c \in Seq(Letters) /\ Len(c) = 2
  <2>1. a \in Seq(Letters)
    BY <1>1, FlattenTyped
  <2>2. Boundary \in Seq(Letters)
    BY SeqMonotonic DEF HasBoundary, Letters
  <2>3. c \in Seq(Letters) /\ Len(c) = 2
    BY LettersIn
  <2>4. QED
    BY <2>1, <2>2, <2>3
<1>6. EndOfLine \in Seq(Letters) /\ Len(EndOfLine) = 2
  BY Literals
<1> HIDE DEF c, a, e, s
<1>7. Joins(d, a, Boundary)
  BY <1>5 DEF Joins
<1> HIDE DEF d
<1>8. d \in Seq(Letters) /\ Len(d) = Len(a) + Len(Boundary)
  BY <1>7, JoinsLen
<1>9. Joins(f, d, c)
  BY <1>5, <1>8 DEF Joins
<1> HIDE DEF f
<1>10. f \in Seq(Letters) /\ Len(f) = Len(d) + Len(c)
  BY <1>9, JoinsLen
<1>11. Joins(e, f, EndOfLine)
  BY <1>3, <1>6, <1>10 DEF Joins
<1>12. e \in Seq(Letters) /\ Len(e) = Len(f) + Len(EndOfLine)
  BY <1>11, JoinsLen
<1>13. Spells(b, 0, e)
  <2>1. Len(b) \in Nat /\ Len(e) \in Nat /\ Len(b) <= Len(e)
        /\ SubSeq(b, 1, Len(b)) = SubSeq(e, 1, Len(b)) /\ SubSeq(b, 1, Len(b)) = b
    BY <1>12, LenProperties, SubSeqFull DEF IsPrefix, e
  <2>2. \A k \in 1..Len(b) : SubSeq(e, 1, Len(b))[k] = e[k]
    BY <1>12, <2>1
  <2>3. \A k \in 1..Len(b) : b[k] = e[k]
    BY <2>1, <2>2
  <2>4. QED
    BY <2>1, <2>3 DEF Spells
<1>14. Spells(b, 0, f)
  BY <1>11, <1>13, JoinsSpells
<1>15. Spells(b, 0, d) /\ Spells(b, 0 + Len(d), c)
  BY <1>9, <1>14, JoinsSpells
<1>16. Spells(b, 0, a) /\ Spells(b, 0 + Len(a), Boundary)
  BY <1>7, <1>15, JoinsSpells
<1>17. L \in Nat /\ Len(a) \in Nat /\ Len(a) = PartAt(ps, n + 1) /\ Len(Boundary) = L
  <2>1. L \in Nat /\ Len(a) \in Nat /\ Len(Boundary) = L
    BY <1>5, LenProperties DEF HasBoundary, L
  <2>2. QED
    BY <1>1, <1>2, <1>4, <2>1
<1>18. ASSUME NEW m \in Nat, m < n
       PROVE  Joins(pre(m + 1), pre(m), s[m + 1])
  <2>1. /\ pre(m + 1) = pre(m) \o s[m + 1] /\ pre(m) \in Seq(Letters)
    BY <1>1, <1>18, FlattenMore
  <2>2. s[m + 1] \in Seq(Letters)
    <3>1. m + 1 \in 1..Len(s)
      BY <1>1, <1>18
    <3>2. QED
      BY <1>1, <3>1, ElementOfSeq
  <2>3. QED
    BY <2>1, <2>2 DEF Joins
<1> HIDE DEF pre
<1>19. \A m \in 0..n : Spells(b, 0, pre(m))
  <2> DEFINE T == {x \in Nat : x <= n => Spells(b, 0, pre(n - x))}
  <2>1. 0 \in T
    BY <1>1, <1>4, <1>16
  <2>2. ASSUME NEW x \in Nat, x \in T
        PROVE  x + 1 \in T
    <3>1. SUFFICES ASSUME x + 1 <= n PROVE Spells(b, 0, pre(n - (x + 1)))
      OBVIOUS
    <3> DEFINE m == n - (x + 1)
    <3>2. m \in Nat /\ m < n /\ m + 1 = n - x
      BY <1>1, <3>1
    <3>3. Spells(b, 0, pre(n - x))
      BY <1>1, <2>2, <3>1
    <3> HIDE DEF m
    <3>4. Joins(pre(m + 1), pre(m), s[m + 1]) /\ Spells(b, 0, pre(m + 1))
      BY <1>18, <3>2, <3>3
    <3>5. Spells(b, 0, pre(m))
      BY <3>4, JoinsSpells
    <3>6. QED
      BY <3>5 DEF m
  <2> HIDE DEF T
  <2>3. Nat \subseteq T
    BY <2>1, <2>2, SetInduction
  <2>4. ASSUME NEW m \in 0..n
        PROVE  Spells(b, 0, pre(m))
    <3>1. n - m \in Nat /\ n - m <= n /\ n - (n - m) = m
      BY <1>1
    <3>2. n - m \in T
      BY <2>3, <3>1
    <3>3. QED
      BY <3>1, <3>2 DEF T
  <2>5. QED
    BY <2>4
<1>20. ASSUME NEW k \in 1..n
       PROVE  Spells(b, PartAt(ps, k), EncodePart(ps[k]))
  <2> DEFINE m == k - 1
  <2>1. m \in Nat /\ m < n /\ m + 1 = k /\ k \in 0..n
    BY <1>1
  <2> HIDE DEF m
  <2>2. Joins(pre(m + 1), pre(m), s[m + 1]) /\ Spells(b, 0, pre(m + 1))
    BY <1>18, <1>19, <2>1
  <2>3. Spells(b, 0 + Len(pre(m)), s[m + 1])
    BY <2>2, JoinsSpells
  <2>4. PartAt(ps, m + 1) = Len(pre(m)) /\ Len(pre(m)) \in Nat
    BY <1>2, <2>1, <2>2, LenProperties DEF Joins
  <2>5. QED
    BY <1>1, <2>1, <2>3, <2>4
<1>21. Len(e) = PartAt(ps, n + 1) + L + 4
  BY <1>5, <1>6, <1>8, <1>10, <1>12, <1>17
<1>22. Spells(b, PartAt(ps, n + 1), Boundary) /\ Spells(b, PartAt(ps, n + 1) + L, c)
  BY <1>8, <1>15, <1>16, <1>17
<1>23. QED
  BY <1>20, <1>21, <1>22 DEF c, e

LEMMA Offsets ==
  ASSUME HasBoundary, NEW ps, AllNamed(ps), NEW k \in 1..Len(ps)
  PROVE  /\ L \in Nat /\ L > 0
         /\ PartAt(ps, k) \in Nat /\ HeadAt(ps, k) = PartAt(ps, k) + L + 2
         /\ NameLen(ps, k) \in Nat /\ NameAt(ps, k) = HeadAt(ps, k) + 4
         /\ TypeAt(ps, k) = HeadAt(ps, k) + 7 + NameLen(ps, k)
         /\ TypeLen(ps, k) = IF ps[k].typed THEN 6 ELSE 0
         /\ DataAt(ps, k) = TypeAt(ps, k) + TypeLen(ps, k) + 2
         /\ DataLen(ps, k) \in Nat /\ EndAt(ps, k) = DataAt(ps, k) + DataLen(ps, k)
         /\ PartAt(ps, k + 1) = EndAt(ps, k) + 2
         /\ HeadAt(ps, k + 1) = EndAt(ps, k) + L + 4
         /\ HeadAt(ps, k) \in Nat /\ TypeAt(ps, k) \in Nat /\ DataAt(ps, k) \in Nat
         /\ EndAt(ps, k) \in Nat
<1>1. L \in Nat /\ L > 0
  BY LenProperties DEF HasBoundary, L
<1>2. /\ PartAt(ps, k) \in Nat /\ NameLen(ps, k) \in Nat /\ DataLen(ps, k) \in Nat
      /\ TypeLen(ps, k) \in {0, 6} /\ PartAt(ps, k + 1) = EndAt(ps, k) + 2
  BY PartsPlaced
<1>3. /\ HeadAt(ps, k) = PartAt(ps, k) + L + 2
      /\ NameAt(ps, k) = HeadAt(ps, k) + 4
      /\ TypeAt(ps, k) = NameAt(ps, k) + NameLen(ps, k) + 3
      /\ DataAt(ps, k) = TypeAt(ps, k) + TypeLen(ps, k) + 2
      /\ EndAt(ps, k) = DataAt(ps, k) + DataLen(ps, k)
      /\ HeadAt(ps, k + 1) = PartAt(ps, k + 1) + L + 2
  BY DEF HeadAt, NameAt, TypeAt, DataAt, EndAt
<1>4. HeadAt(ps, k) \in Nat /\ NameAt(ps, k) \in Nat
  BY <1>1, <1>2, <1>3
<1>5. TypeAt(ps, k) \in Nat /\ TypeAt(ps, k) = HeadAt(ps, k) + 7 + NameLen(ps, k)
  <2> DEFINE h == HeadAt(ps, k)
             m == NameLen(ps, k)
             c == TypeAt(ps, k)
  <2>1. h \in Nat /\ m \in Nat /\ c = (h + 4) + m + 3
    BY <1>2, <1>3, <1>4
  <2> HIDE DEF h, m, c
  <2>2. c \in Nat /\ c = h + 7 + m
    BY <2>1
  <2>3. QED
    BY <2>2 DEF h, m, c
<1>6. DataAt(ps, k) \in Nat /\ EndAt(ps, k) \in Nat
  BY <1>2, <1>3, <1>5
<1>7. HeadAt(ps, k + 1) = EndAt(ps, k) + L + 4
  BY <1>1, <1>2, <1>3, <1>6
<1>8. QED
  BY <1>1, <1>2, <1>3, <1>4, <1>5, <1>6, <1>7 DEF TypeLen

(* The letters of a part, and of the boundary behind it.                   *)
LEMMA PartLetters ==
  ASSUME HasBoundary, NEW ps, AllNamed(ps), NEW b \in Seq(STRING),
         IsPrefix(b, EncodeParts(ps)), NEW k \in 1..Len(ps)
  PROVE  LET h == HeadAt(ps, k)
             c == TypeAt(ps, k)
             d == DataAt(ps, k)
             z == EndAt(ps, k)
         IN  /\ Spells(b, PartAt(ps, k), Boundary) /\ Has(b, h - 2, "cr") /\ Has(b, h - 1, "lf")
             /\ Has(b, h, "D") /\ Has(b, h + 1, ":") /\ Has(b, h + 2, "sp") /\ Has(b, h + 3, "N")
             /\ Spells(b, h + 4, ps[k].name)
             /\ Has(b, c - 3, "quote") /\ Has(b, c - 2, "cr") /\ Has(b, c - 1, "lf")
             /\ ps[k].typed =>
                  /\ Has(b, c, "T") /\ Has(b, c + 1, ":") /\ Has(b, c + 2, "sp")
                  /\ Has(b, c + 3, "x") /\ Has(b, c + 4, "cr") /\ Has(b, c + 5, "lf")
             /\ Has(b, d - 2, "cr") /\ Has(b, d - 1, "lf")
             /\ Spells(b, d, ps[k].data) /\ Has(b, z, "cr") /\ Has(b, z + 1, "lf")
             /\ Spells(b, z + 2, Boundary)
             /\ k < Len(ps) => Has(b, z + 2 + L, "cr") /\ Has(b, z + 3 + L, "lf")
             /\ k = Len(ps) => Has(b, z + 2 + L, "-") /\ Has(b, z + 3 + L, "-")
<1> DEFINE p == PartAt(ps, k)
           h == HeadAt(ps, k)
           c == TypeAt(ps, k)
           d == DataAt(ps, k)
           z == EndAt(ps, k)
           m == NameLen(ps, k)
           t == TypeLen(ps, k)
           e == DataLen(ps, k)
           n == Len(ps)
           line == <<"D", ":", "sp">>
<1>1. /\ L \in Nat /\ L > 0 /\ p \in Nat /\ h \in Nat /\ c \in Nat /\ d \in Nat /\ z \in Nat
      /\ m \in Nat /\ t \in Nat /\ e \in Nat
      /\ h = p + L + 2 /\ c = h + 7 + m /\ d = c + t + 2 /\ z = d + e
      /\ PartAt(ps, k + 1) = z + 2
  <2>1. t \in Nat
    BY DEF TypeLen
  <2>2. QED
    BY <2>1, Offsets
<1>2. /\ n \in Nat /\ \A j \in 1..n : ps[j] \in PartShape /\ ps[j].named
  BY EncodedParts DEF AllNamed
<1>3. ASSUME NEW j \in 1..n, NEW x, x = PartAt(ps, j), x \in Nat
      PROVE  Spells(b, x, Boundary) /\ Spells(b, x + L, EndOfLine)
  <2>1. Spells(b, x, EncodePart(ps[j]))
    BY <1>3, BodySpelled
  <2>2. ps[j] \in PartShape /\ ps[j].named
    BY <1>2
  <2>3. QED
    BY <1>3, <2>1, <2>2, PartSpelled
<1>4. /\ Spells(b, p, Boundary) /\ Spells(b, p + L, EndOfLine)
      /\ Spells(b, p + L + 2, line)
      /\ Spells(b, p + L + 5, <<"N">>) /\ Spells(b, p + L + 6, ps[k].name)
      /\ Spells(b, p + L + 6 + m, <<"quote">>)
      /\ Spells(b, p + L + 7 + m, EndOfLine)
      /\ Spells(b, p + L + 9 + m, TypeText(ps[k]))
      /\ Spells(b, p + L + 9 + m + t, EndOfLine)
      /\ Spells(b, p + L + 11 + m + t, ps[k].data)
      /\ Spells(b, p + L + 11 + m + t + e, EndOfLine)
  <2>1. Spells(b, p, EncodePart(ps[k])) /\ ps[k] \in PartShape /\ ps[k].named
    BY <1>2, BodySpelled
  <2> HIDE DEF p
  <2>2. QED
    BY <1>1, <2>1, PartSpelled DEF m, t, e, NameLen, TypeLen, DataLen
<1> HIDE DEF p, h, c, d, z, m, t, e, line
<1>5. /\ p + L = h - 2 /\ p + L + 2 = h /\ p + L + 5 = h + 3 /\ p + L + 6 = h + 4
      /\ p + L + 6 + m = c - 3 /\ p + L + 7 + m = c - 2 /\ p + L + 9 + m = c
      /\ p + L + 9 + m + t = d - 2 /\ p + L + 11 + m + t = d
      /\ p + L + 11 + m + t + e = z
      /\ (h - 2) + 1 = h - 1 /\ (c - 2) + 1 = c - 1 /\ (d - 2) + 1 = d - 1
      /\ h - 2 \in Nat /\ c - 3 \in Nat /\ c - 2 \in Nat /\ d - 2 \in Nat
      /\ (z + 2 + L) + 1 = z + 3 + L /\ z + 2 + L \in Nat /\ z + 2 \in Nat
  BY <1>1
<1>6. Has(b, h - 2, "cr") /\ Has(b, h - 1, "lf")
  BY <1>4, <1>5, SpellsPair DEF EndOfLine
<1>7. Has(b, c - 2, "cr") /\ Has(b, c - 1, "lf")
  BY <1>4, <1>5, SpellsPair DEF EndOfLine
<1>8. Has(b, d - 2, "cr") /\ Has(b, d - 1, "lf")
  BY <1>4, <1>5, SpellsPair DEF EndOfLine
<1>9. Has(b, z, "cr") /\ Has(b, z + 1, "lf")
  BY <1>1, <1>4, <1>5, SpellsPair DEF EndOfLine
<1>10. Has(b, h, "D") /\ Has(b, h + 1, ":") /\ Has(b, h + 2, "sp")
  <2>1. /\ Len(line) = 3 /\ line[1] = "D" /\ line[2] = ":" /\ line[3] = "sp"
    BY Literals DEF line
  <2>2. Spells(b, h, line)
    BY <1>4, <1>5
  <2>3. /\ h + 1 <= Len(b) => b[h + 1] = "D"
        /\ h + 2 <= Len(b) => b[h + 2] = ":"
        /\ h + 3 <= Len(b) => b[h + 3] = "sp"
    BY <2>1, <2>2 DEF Spells
  <2>4. (h + 1) + 1 = h + 2 /\ (h + 2) + 1 = h + 3 /\ Len(b) \in Nat
    BY <1>1, LenProperties
  <2>5. QED
    BY <1>1, <2>3, <2>4 DEF Has
<1>11. Has(b, h + 3, "N") /\ Has(b, c - 3, "quote")
  <2>1. \A x \in Nat : \A l : Spells(b, x, <<l>>) => Has(b, x, l)
    <3>1. \A l : Len(<<l>>) = 1 /\ <<l>>[1] = l
      OBVIOUS
    <3>2. Len(b) \in Nat
      BY LenProperties
    <3>3. QED
      BY <3>1, <3>2 DEF Spells, Has
  <2>2. Spells(b, h + 3, <<"N">>) /\ Spells(b, c - 3, <<"quote">>)
    BY <1>4, <1>5
  <2>3. h + 3 \in Nat /\ c - 3 \in Nat
    BY <1>1, <1>5
  <2>4. QED
    BY <2>1, <2>2, <2>3
<1>12. ps[k].typed =>
         /\ Has(b, c, "T") /\ Has(b, c + 1, ":") /\ Has(b, c + 2, "sp")
         /\ Has(b, c + 3, "x") /\ Has(b, c + 4, "cr") /\ Has(b, c + 5, "lf")
  <2>1. Spells(b, c, TypeText(ps[k]))
    BY <1>4, <1>5
  <2>2. QED
    BY <1>1, <2>1, TypeTextIs
<1>13. Spells(b, z + 2, Boundary)
  <2>1. CASE k < n
    <3>1. k + 1 \in 1..n
      BY <1>2, <2>1
    <3>2. QED
      BY <1>1, <1>3, <1>5, <3>1
  <2>2. CASE k = n
    BY <1>1, <2>2, BodySpelled
  <2>3. QED
    BY <1>2, <2>1, <2>2
<1>14. k < n => Has(b, z + 2 + L, "cr") /\ Has(b, z + 3 + L, "lf")
  <2>1. SUFFICES ASSUME k < n PROVE Has(b, z + 2 + L, "cr") /\ Has(b, z + 3 + L, "lf")
    OBVIOUS
  <2>2. k + 1 \in 1..n
    BY <1>2, <2>1
  <2>3. Spells(b, z + 2 + L, EndOfLine)
    BY <1>1, <1>3, <1>5, <2>2
  <2>4. QED
    BY <1>5, <2>3, SpellsPair DEF EndOfLine
<1>15. k = n => Has(b, z + 2 + L, "-") /\ Has(b, z + 3 + L, "-")
  <2>1. SUFFICES ASSUME k = n PROVE Has(b, z + 2 + L, "-") /\ Has(b, z + 3 + L, "-")
    OBVIOUS
  <2>2. Spells(b, z + 2 + L, <<"-", "-">>)
    BY <1>1, <2>1, BodySpelled
  <2>3. QED
    BY <1>5, <2>2, SpellsPair
<1>16. Spells(b, h + 4, ps[k].name) /\ Spells(b, d, ps[k].data)
  BY <1>4, <1>5
<1>17. QED
  BY <1>4, <1>6, <1>7, <1>8, <1>9, <1>10, <1>11, <1>12, <1>13, <1>14, <1>15, <1>16
     DEF p, h, c, d, z

(* No part ends behind the last.                                           *)
LEMMA EndsGrow ==
  ASSUME HasBoundary, NEW ps, AllNamed(ps), NEW k \in 1..Len(ps)
  PROVE  EndAt(ps, k) <= EndAt(ps, Len(ps))
<1> DEFINE n == Len(ps)
           T == {x \in Nat : x < n => EndAt(ps, n - x) <= EndAt(ps, n)}
<1>1. n \in Nat
  BY EncodedParts
<1> HIDE DEF n
<1>2. \A j \in 1..n : EndAt(ps, j) \in Nat /\ PartAt(ps, j) \in Nat
                      /\ PartAt(ps, j) <= EndAt(ps, j) /\ PartAt(ps, j + 1) = EndAt(ps, j) + 2
  <2> SUFFICES ASSUME NEW j \in 1..n
               PROVE  EndAt(ps, j) \in Nat /\ PartAt(ps, j) \in Nat
                      /\ PartAt(ps, j) <= EndAt(ps, j) /\ PartAt(ps, j + 1) = EndAt(ps, j) + 2
    OBVIOUS
  <2>1. /\ L \in Nat /\ PartAt(ps, j) \in Nat /\ HeadAt(ps, j) = PartAt(ps, j) + L + 2
        /\ NameLen(ps, j) \in Nat /\ TypeAt(ps, j) = HeadAt(ps, j) + 7 + NameLen(ps, j)
        /\ DataAt(ps, j) = TypeAt(ps, j) + TypeLen(ps, j) + 2
        /\ DataLen(ps, j) \in Nat /\ EndAt(ps, j) = DataAt(ps, j) + DataLen(ps, j)
        /\ PartAt(ps, j + 1) = EndAt(ps, j) + 2 /\ EndAt(ps, j) \in Nat
    BY Offsets DEF n
  <2>2. TypeLen(ps, j) \in Nat
    BY DEF TypeLen
  <2>3. QED
    BY <2>1, <2>2
<1>3. 0 \in T
  BY <1>1, <1>2
<1>4. ASSUME NEW x \in Nat, x \in T
      PROVE  x + 1 \in T
  <2>1. SUFFICES ASSUME x + 1 < n PROVE EndAt(ps, n - (x + 1)) <= EndAt(ps, n)
    OBVIOUS
  <2> DEFINE j == n - (x + 1)
  <2>2. j \in 1..n /\ j + 1 \in 1..n /\ j + 1 = n - x /\ n \in 1..n
    BY <1>1, <2>1
  <2>3. EndAt(ps, n - x) <= EndAt(ps, n)
    BY <1>1, <1>4, <2>1
  <2> HIDE DEF j
  <2>4. EndAt(ps, j) <= EndAt(ps, j + 1)
    BY <1>2, <2>2
  <2>5. EndAt(ps, j) <= EndAt(ps, n)
    <3> DEFINE x0 == EndAt(ps, j)
               x1 == EndAt(ps, j + 1)
               x2 == EndAt(ps, n)
    <3>1. x0 \in Nat /\ x1 \in Nat /\ x2 \in Nat
      BY <1>2, <2>2
    <3>2. x0 <= x1 /\ x1 <= x2
      BY <2>2, <2>3, <2>4
    <3> HIDE DEF x0, x1, x2
    <3>3. x0 <= x2
      BY <3>1, <3>2
    <3>4. QED
      BY <3>3 DEF x0, x2
  <2>6. QED
    BY <2>5 DEF j
<1> HIDE DEF T
<1>5. Nat \subseteq T
  BY <1>3, <1>4, SetInduction
<1>6. n - k \in Nat /\ n - k < n /\ n - (n - k) = k
  BY <1>1 DEF n
<1>7. n - k \in T
  BY <1>5, <1>6
<1>8. QED
  BY <1>6, <1>7 DEF T, n

-----------------------------------------------------------------------------
(***************************************************************************)
(* The list, with a name or with data more.                                *)
(***************************************************************************)
LEMMA NameFound ==
  ASSUME NEW list \in Seq([name : Pieces, value : Pieces]), NEW ps, NEW k \in Nat,
         Before(list, ps, k), NEW len \in Nat, NameAt(ps, k) \in Nat,
         NEW new, new = Append(list, [name |-> Piece(NameAt(ps, k), len), value |-> Unset])
  PROVE  /\ len = NameLen(ps, k) => Behind(new, ps, k)
         /\ len <= NameLen(ps, k) => CutIn(new, ps, k)
<1> DEFINE at == NameAt(ps, k)
           e == [name |-> Piece(at, len), value |-> Unset]
<1>1. e \in [name : Pieces, value : Pieces]
  BY DEF Piece, Pieces, Unset
<1>2. e.name.at = at /\ e.name.len = len /\ e.value = Unset
  BY DEF Piece
<1> HIDE DEF e
<1>3. /\ Len(list) = k - 1 /\ Len(new) = Len(list) + 1 /\ new[Len(list) + 1] = e
      /\ \A j \in 1..Len(list) : new[j] = list[j]
  BY <1>1, AppendProperties DEF Before, e
<1>4. Len(new) = k /\ new[k] = e /\ \A j \in 1..k - 1 : new[j] = list[j]
  BY <1>3
<1>5. AllBefore(new, ps, k)
  BY <1>4 DEF Before, AllBefore
<1>6. len = NameLen(ps, k) => Behind(new, ps, k)
  BY <1>4, <1>5 DEF Behind, e
<1>7. len <= NameLen(ps, k) => CutIn(new, ps, k)
  BY <1>2, <1>4, <1>5 DEF CutIn
<1>8. QED
  BY <1>6, <1>7

LEMMA DataFound ==
  ASSUME NEW list \in Seq([name : Pieces, value : Pieces]), NEW ps, NEW k \in Nat, k > 0,
         Behind(list, ps, k), NEW len \in Nat, DataAt(ps, k) \in Nat, NameLen(ps, k) \in Nat,
         NEW new, new = [list EXCEPT ![Len(list)].value = Piece(DataAt(ps, k), len)]
  PROVE  /\ len = KeptLen(ps, k) => Before(new, ps, k + 1)
         /\ len <= DataLen(ps, k) + 2 => CutIn(new, ps, k)
<1> DEFINE at == DataAt(ps, k)
           S == [name : Pieces, value : Pieces]
           p == Piece(at, len)
           name == Piece(NameAt(ps, k), NameLen(ps, k))
           e == [name |-> name, value |-> p]
<1>1. Len(list) = k /\ k \in 1..Len(list) /\ list[k] = [name |-> name, value |-> Unset]
  BY DEF Behind
<1>2. list[k] \in S
  BY <1>1, ElementOfSeq
<1>3. p \in Pieces /\ p.at = at /\ p.len = len
  BY DEF Piece, Pieces
<1>n. name.at = NameAt(ps, k) /\ name.len = NameLen(ps, k)
  BY DEF Piece
<1> HIDE DEF p, name
<1>4. [list[k] EXCEPT !.value = p] = e
  BY <1>1
<1>5. e \in S
  <2>1. name \in Pieces
    BY <1>1, <1>2
  <2>2. QED
    BY <1>3, <2>1
<1>6. new = [list EXCEPT ![k] = e]
  <2>1. new = [list EXCEPT ![k] = [list[k] EXCEPT !.value = p]]
    BY <1>1 DEF p
  <2>2. QED
    BY <1>4, <2>1
<1>e. e.name = name /\ e.value = p
  OBVIOUS
<1> HIDE DEF e
<1>7. Len(new) = k /\ new[k] = e /\ \A j \in 1..k - 1 : new[j] = list[j]
  BY <1>1, <1>5, <1>6, ExceptSeq
<1>8. AllBefore(list, ps, k)
  BY DEF Behind
<1>9. ASSUME len = KeptLen(ps, k)
      PROVE  Before(new, ps, k + 1)
  <2>1. e = FoundPart(ps, k)
    BY <1>9 DEF FoundPart, e, name, p
  <2>2. \A j \in 1..k : j = k \/ j \in 1..k - 1
    OBVIOUS
  <2>3. \A j \in 1..k : new[j] = FoundPart(ps, j)
    BY <1>7, <1>8, <2>1, <2>2 DEF AllBefore
  <2>4. (k + 1) - 1 = k
    OBVIOUS
  <2>5. QED
    BY <1>7, <2>3, <2>4 DEF Before, AllBefore
<1>10. ASSUME len <= DataLen(ps, k) + 2
       PROVE  CutIn(new, ps, k)
  <2>1. AllBefore(new, ps, k)
    BY <1>7, <1>8 DEF AllBefore
  <2>2. new[k].name = name /\ new[k].value = p
    BY <1>7, <1>e
  <2>3. /\ new[k].name.at = NameAt(ps, k) /\ new[k].name.len <= NameLen(ps, k)
        /\ new[k].value.at = DataAt(ps, k) /\ new[k].value.len <= DataLen(ps, k) + 2
    BY <1>3, <1>10, <1>n, <2>2
  <2>4. QED
    BY <1>7, <2>1, <2>3 DEF CutIn
<1>11. QED
  BY <1>9, <1>10

LEMMA BehindCut ==
  ASSUME NEW list, NEW ps, NEW k, Behind(list, ps, k), NameLen(ps, k) \in Nat
  PROVE  CutIn(list, ps, k)
<1> DEFINE name == Piece(NameAt(ps, k), NameLen(ps, k))
<1>1. list[k] = [name |-> name, value |-> Unset]
  BY DEF Behind
<1>2. name.at = NameAt(ps, k) /\ name.len = NameLen(ps, k)
  BY DEF Piece
<1> HIDE DEF name
<1>3. list[k].name = name /\ list[k].value = Unset
  BY <1>1
<1>4. QED
  BY <1>2, <1>3 DEF Behind, CutIn

-----------------------------------------------------------------------------
(***************************************************************************)
(* The parser in such a body.                                              *)
(***************************************************************************)
Sent(ps) ==
  ps = post.parts /\ post.kind = "multipart" /\ IsMeant(post) /\ WellParted(ps)

LEMMA SentParts ==
  ASSUME PostInv, NEW ps, Sent(ps)
  PROVE  /\ AllNamed(ps) /\ Len(ps) \in Nat /\ Len(ps) > 0
         /\ post.body \in Seq(STRING) /\ Length = Len(post.body)
         /\ IsPrefix(post.body, EncodeParts(ps))
         /\ \A k \in 1..Len(ps) : \A j \in 1..Len(ps[k].name) : ps[k].name[j] # "cr"
<1>1. ps \in Seq(PartShape) /\ ps # <<>> /\ post.body \in Seq(STRING)
  BY DEF Sent, PostInv, Typed, PostShape, IsMeant
<1>2. Len(ps) \in Nat /\ Len(ps) > 0 /\ ps[1] = Head(ps) /\ 1 \in 1..Len(ps)
  BY <1>1, EmptySeq
<1>3. \A k \in 1..Len(ps) : ps[k].named /\ "cr" \notin ToSet(ps[k].name)
  BY DEF Sent, WellParted
<1>4. ASSUME NEW k \in 1..Len(ps), NEW j \in 1..Len(ps[k].name)
      PROVE  ps[k].name[j] # "cr"
  <2>1. ps[k].name \in Seq(STRING)
    <3>1. ps[k] \in PartShape
      BY <1>1, ElementOfSeq
    <3>2. QED
      BY <3>1 DEF PartShape
  <2>2. ps[k].name[j] \in ToSet(ps[k].name)
    BY <2>1, LenProperties DEF ToSet
  <2>3. QED
    BY <1>3, <2>2
<1>5. IsPrefix(post.body, EncodeParts(ps))
  BY <1>1, <1>2, <1>3 DEF Sent, IsMeant
<1>6. QED
  BY <1>1, <1>2, <1>3, <1>4, <1>5 DEF AllNamed, Length

(* The letter the parser is at, by its place in the k-th part.             *)
LEMMA LetterHere ==
  ASSUME HasBoundary, PostInv, NEW ps, Sent(ps), NEW k \in 1..Len(ps), i < Length
  PROVE  LET h == HeadAt(ps, k)
             c == TypeAt(ps, k)
             d == DataAt(ps, k)
             z == EndAt(ps, k)
         IN  /\ i >= h - L - 2 /\ i < h - 2 => Letter = Boundary[i - (h - L - 2) + 1]
             /\ i = h - 2 => Letter = "cr"
             /\ i = h - 1 => Letter = "lf"
             /\ i = h => Letter = "D"
             /\ i = h + 1 => Letter = ":"
             /\ i = h + 2 => Letter = "sp"
             /\ i = h + 3 => Letter = "N"
             /\ i >= h + 4 /\ i <= c - 3 => Letter # "cr"
             /\ i = c - 2 => Letter = "cr"
             /\ i = c - 1 => Letter = "lf"
             /\ ps[k].typed =>
                  /\ i = c => Letter = "T"
                  /\ i = c + 1 => Letter = ":"
                  /\ i = c + 2 => Letter = "sp"
                  /\ i = c + 3 => Letter = "x"
                  /\ i = c + 4 => Letter = "cr"
                  /\ i = c + 5 => Letter = "lf"
             /\ i = d - 2 => Letter = "cr"
             /\ i = d - 1 => Letter = "lf"
             /\ i = z => Letter = "cr"
             /\ i = z + 1 => Letter = "lf"
             /\ i >= z + 2 /\ i < z + 2 + L => Letter = Boundary[i - (z + 2) + 1]
             /\ i = z + 2 + L => Letter = IF k < Len(ps) THEN "cr" ELSE "-"
             /\ i = z + 3 + L => Letter = IF k < Len(ps) THEN "lf" ELSE "-"
<1> DEFINE b == post.body
           p == PartAt(ps, k)
           h == HeadAt(ps, k)
           c == TypeAt(ps, k)
           d == DataAt(ps, k)
           z == EndAt(ps, k)
           m == NameLen(ps, k)
           n == Len(ps)
<1>1. /\ AllNamed(ps) /\ b \in Seq(STRING) /\ Length = Len(b) /\ n \in Nat
      /\ IsPrefix(b, EncodeParts(ps)) /\ \A j \in 1..m : ps[k].name[j] # "cr"
  BY SentParts DEF NameLen
<1>2. /\ L \in Nat /\ p \in Nat /\ h \in Nat /\ h = p + L + 2 /\ m \in Nat
      /\ c \in Nat /\ c = h + 7 + m /\ d \in Nat /\ z \in Nat
  BY <1>1, Offsets
<1>3. i \in Nat /\ i < Len(b) /\ Len(b) \in Nat /\ Letter = b[i + 1]
  BY <1>1, InType DEF Letter
<1>4. /\ Spells(b, p, Boundary) /\ Has(b, h - 2, "cr") /\ Has(b, h - 1, "lf")
      /\ Has(b, h, "D") /\ Has(b, h + 1, ":") /\ Has(b, h + 2, "sp") /\ Has(b, h + 3, "N")
      /\ Spells(b, h + 4, ps[k].name)
      /\ Has(b, c - 3, "quote") /\ Has(b, c - 2, "cr") /\ Has(b, c - 1, "lf")
      /\ ps[k].typed =>
           /\ Has(b, c, "T") /\ Has(b, c + 1, ":") /\ Has(b, c + 2, "sp")
           /\ Has(b, c + 3, "x") /\ Has(b, c + 4, "cr") /\ Has(b, c + 5, "lf")
      /\ Has(b, d - 2, "cr") /\ Has(b, d - 1, "lf")
      /\ Has(b, z, "cr") /\ Has(b, z + 1, "lf")
      /\ Spells(b, z + 2, Boundary)
      /\ k < n => Has(b, z + 2 + L, "cr") /\ Has(b, z + 3 + L, "lf")
      /\ k = n => Has(b, z + 2 + L, "-") /\ Has(b, z + 3 + L, "-")
  BY <1>1, PartLetters
<1> HIDE DEF b, p, h, c, d, z, m, n
<1>5. \A l : \A x : Has(b, x, l) /\ i = x => Letter = l
  BY <1>3 DEF Has
<1>6. ASSUME NEW s, NEW at \in Nat, Spells(b, at, s), Len(s) \in Nat, i >= at, i < at + Len(s)
      PROVE  Letter = s[i - at + 1]
  <2>1. i - at + 1 \in 1..Len(s) /\ at + (i - at + 1) = i + 1 /\ i + 1 <= Len(b)
    BY <1>3, <1>6
  <2>2. b[at + (i - at + 1)] = s[i - at + 1]
    BY <1>6, <2>1 DEF Spells
  <2>3. QED
    BY <1>3, <2>1, <2>2
<1>7. Len(Boundary) = L
  BY DEF L
<1>8. i >= h - L - 2 /\ i < h - 2 => Letter = Boundary[i - (h - L - 2) + 1]
  <2>1. p = h - L - 2 /\ p + L = h - 2
    BY <1>2
  <2>2. i >= p /\ i < p + Len(Boundary) => Letter = Boundary[i - p + 1]
    BY <1>2, <1>4, <1>6, <1>7
  <2>3. QED
    BY <1>7, <2>1, <2>2
<1>9. i >= z + 2 /\ i < z + 2 + L => Letter = Boundary[i - (z + 2) + 1]
  <2>1. z + 2 \in Nat
    BY <1>2
  <2>2. QED
    BY <1>2, <1>4, <1>6, <1>7, <2>1
<1>10. i >= h + 4 /\ i <= c - 3 => Letter # "cr"
  <2>1. CASE i = c - 3
    <3>1. Letter = "quote"
      BY <1>4, <1>5, <2>1
    <3>2. QED
      BY <3>1
  <2>2. CASE i >= h + 4 /\ i < (h + 4) + m
    <3> DEFINE s == ps[k].name
    <3>1. Len(s) = m
      BY DEF m, NameLen
    <3>2. h + 4 \in Nat /\ i - (h + 4) + 1 \in 1..m
      BY <1>2, <1>3, <2>2
    <3>3. Spells(b, h + 4, s) /\ Len(s) \in Nat /\ i < (h + 4) + Len(s)
      BY <1>2, <1>4, <2>2, <3>1
    <3> HIDE DEF s
    <3>4. Letter = s[i - (h + 4) + 1]
      BY <1>6, <2>2, <3>2, <3>3
    <3>5. QED
      BY <1>1, <3>2, <3>4 DEF s
  <2>3. i >= h + 4 /\ i <= c - 3 => i = c - 3 \/ i < (h + 4) + m
    BY <1>2, <1>3
  <2>4. QED
    BY <2>1, <2>2, <2>3
<1>11. k < n \/ k = n
  BY <1>1 DEF n
<1>12. /\ i = z + 2 + L => Letter = IF k < n THEN "cr" ELSE "-"
       /\ i = z + 3 + L => Letter = IF k < n THEN "lf" ELSE "-"
  BY <1>1, <1>4, <1>5, <1>11
<1>13. QED
  BY <1>4, <1>5, <1>8, <1>9, <1>10, <1>12 DEF h, c, d, z, n

LEMMA EndedBoundary ==
  ASSUME HasBoundary
  PROVE  /\ L \in Nat /\ L > 0
         /\ \A j \in 1..L : Boundary[j] # "cr"
         /\ \A x \in 0..L + 1 :
              (Boundary \o <<"cr", "lf">>)[x + 1] =
                IF x < L THEN Boundary[x + 1] ELSE IF x = L THEN "cr" ELSE "lf"
<1> DEFINE e == <<"cr", "lf">>
<1>1. Boundary \in Seq(Letters) /\ L \in Nat /\ L > 0 /\ Len(Boundary) = L
  BY SeqMonotonic, LenProperties DEF HasBoundary, Letters, L
<1>2. e \in Seq(Letters) /\ Len(e) = 2 /\ e[1] = "cr" /\ e[2] = "lf"
  BY LettersIn
<1> HIDE DEF e
<1>3. \A j \in 1..L + 2 : (Boundary \o e)[j] = IF j <= L THEN Boundary[j] ELSE e[j - L]
  BY <1>1, <1>2, ConcatProperties
<1>4. ASSUME NEW j \in 1..L
      PROVE  Boundary[j] # "cr"
  BY <1>1 DEF HasBoundary, ToSet
<1>5. ASSUME NEW x \in 0..L + 1
      PROVE  (Boundary \o e)[x + 1] =
               IF x < L THEN Boundary[x + 1] ELSE IF x = L THEN "cr" ELSE "lf"
  <2>1. (Boundary \o e)[x + 1] = IF x + 1 <= L THEN Boundary[x + 1] ELSE e[(x + 1) - L]
    <3> DEFINE j == x + 1
    <3>1. j \in 1..L + 2
      BY <1>1
    <3> HIDE DEF j
    <3>2. (Boundary \o e)[j] = IF j <= L THEN Boundary[j] ELSE e[j - L]
      BY <1>3, <3>1
    <3>3. QED
      BY <3>2 DEF j
  <2>2. (x + 1 <= L <=> x < L) /\ (x = L => (x + 1) - L = 1) /\ (x = L + 1 => (x + 1) - L = 2)
    BY <1>1
  <2>3. x < L \/ x = L \/ x = L + 1
    BY <1>1
  <2>4. QED
    <3> DEFINE j == x + 1
               B == Boundary \o e
    <3>1. /\ B[j] = IF j <= L THEN Boundary[j] ELSE e[j - L]
          /\ (j <= L <=> x < L) /\ (x = L => j - L = 1) /\ (x = L + 1 => j - L = 2)
          /\ ~(x = L + 1 /\ x = L) /\ ~(L + 1 < L) /\ ~(L < L)
      BY <1>1, <2>1, <2>2
    <3> HIDE DEF j, B
    <3>2. B[j] = IF x < L THEN Boundary[j] ELSE IF x = L THEN "cr" ELSE "lf"
      BY <1>1, <1>2, <2>3, <3>1
    <3>3. QED
      BY <3>2 DEF j, B
<1>6. QED
  BY <1>1, <1>4, <1>5 DEF e

(* A step that leaves the parser in the k-th part, or behind it, in place. *)
LEMMA StepDone ==
  ASSUME HasBoundary, PostInv, NEW ps, Sent(ps), NEW k \in 1..Len(ps),
         post' = post, stage' = "parse", i' \in {i, i + 1},
         i <= EndAt(ps, k) + 3 + L, ListRight(vals', ps),
         i' < Length => InPlace(ps)'
  PROVE  PartsInv'
<1>1. AllNamed(ps) /\ Len(ps) \in Nat /\ Len(ps) \in 1..Len(ps) /\ ps = post.parts
  BY SentParts DEF Sent
<1>2. L \in Nat /\ EndAt(ps, k) \in Nat
  BY <1>1, Offsets
<1>3. EndAt(ps, k) <= EndAt(ps, Len(ps)) /\ EndAt(ps, Len(ps)) \in Nat
  <2>1. EndAt(ps, k) <= EndAt(ps, Len(ps))
    BY <1>1, EndsGrow
  <2> DEFINE n == Len(ps)
  <2>2. n \in 1..Len(ps)
    BY <1>1
  <2> HIDE DEF n
  <2>3. EndAt(ps, n) \in Nat
    BY <1>1, <2>2, Offsets
  <2>4. QED
    BY <2>1, <2>3 DEF n
<1>4. i \in Nat /\ Length \in Nat
  BY InType
<1>5. post'.parts = ps /\ Length' = Length /\ L' = L
  BY <1>1 DEF Length, L
<1>6. IsCut(ps)' <=> Length <= EndAt(ps, Len(ps)) + 4 + L
  BY <1>5 DEF IsCut
<1>7. i' = Length => IsCut(ps)'
  BY <1>2, <1>3, <1>4, <1>6
<1>8. QED
  BY <1>5, <1>7 DEF PartsInv

(* The same, by where the parser is afterwards.                            *)
LEMMA StaysInPlace ==
  ASSUME HasBoundary, PostInv, NEW ps, Sent(ps), NEW k \in 1..Len(ps),
         post' = post, stage' = "parse", i' \in {i, i + 1},
         i <= EndAt(ps, k) + 3 + L,
         InHead(ps, k)' \/ InRest(ps, k)' \/ InData(ps, k)'
  PROVE  PartsInv'
<1>1. InPlace(ps)'
  BY DEF InPlace
<1>2. ListRight(vals', ps)
  <2>1. CASE InHead(ps, k)'
    <3>1. Before(vals', ps, k)
      BY <2>1 DEF InHead
    <3>2. k \in 1..Len(ps) + 1
      BY SentParts
    <3>3. QED
      BY <3>1, <3>2 DEF ListRight
  <2>2. CASE InRest(ps, k)' \/ InData(ps, k)'
    <3>1. Behind(vals', ps, k)
      BY <2>2 DEF InRest, InData
    <3>2. NameLen(ps, k) \in Nat
      BY SentParts, Offsets
    <3>3. CutIn(vals', ps, k)
      <4> DEFINE new == vals'
      <4>1. Behind(new, ps, k)
        BY <3>1
      <4> HIDE DEF new
      <4>2. CutIn(new, ps, k)
        BY <3>2, <4>1, BehindCut
      <4>3. QED
        BY <4>2 DEF new
    <3>4. QED
      BY <3>3 DEF ListRight
  <2>3. QED
    BY <2>1, <2>2
<1>3. QED
  BY <1>1, <1>2, StepDone

(* And in a body that ends here.                                           *)
LEMMA EndsInPlace ==
  ASSUME HasBoundary, PostInv, NEW ps, Sent(ps), NEW k \in 1..Len(ps),
         post' = post, stage' = "parse", i' = i + 1, i' = Length,
         i <= EndAt(ps, k) + 3 + L, CutIn(vals', ps, k)
  PROVE  PartsInv'
<1>1. ListRight(vals', ps)
  BY DEF ListRight
<1>2. Length' = Length /\ Length \in Nat
  BY InType DEF Length
<1>3. ~(i' < Length)
  BY <1>2
<1>4. QED
  BY <1>1, <1>2, <1>3, StepDone

-----------------------------------------------------------------------------
(***************************************************************************)
(* The parser in the head of a part.                                       *)
(***************************************************************************)
LEMMA StartStep ==
  ASSUME HasBoundary, PostInv, NEW ps, Sent(ps), NEW k \in 1..Len(ps),
         InHead(ps, k), StartBoundary
  PROVE  PartsInv'
<1> DEFINE h == HeadAt(ps, k)
           z == EndAt(ps, k)
<1>1. /\ stage = "parse" /\ pstate = "start_boundary" /\ i < Length
      /\ post' = post /\ vals' = vals
  BY DEF StartBoundary, At
<1>2. k = 1 /\ i = index /\ i <= L + 1 /\ Before(vals, ps, k)
  BY <1>1 DEF InHead
<1>3. L \in Nat /\ L > 0 /\ i \in Nat /\ h = L + 2 /\ z \in Nat
  <2>1. L \in Nat /\ L > 0 /\ PartAt(ps, k) \in Nat /\ h = PartAt(ps, k) + L + 2 /\ z \in Nat
    BY SentParts, Offsets
  <2>2. PartAt(ps, 1) = 0
    BY SentParts, PartsPlaced
  <2>3. i \in Nat
    BY InType
  <2> HIDE DEF h, z
  <2>4. QED
    BY <1>2, <2>1, <2>2, <2>3
<1>4. /\ i >= h - L - 2 /\ i < h - 2 => Letter = Boundary[i - (h - L - 2) + 1]
      /\ i = h - 2 => Letter = "cr"
      /\ i = h - 1 => Letter = "lf"
  BY <1>1, LetterHere
<1> HIDE DEF h, z
<1>5. Letter = (Boundary \o <<"cr", "lf">>)[i + 1]
  <2>1. (Boundary \o <<"cr", "lf">>)[i + 1] =
          IF i < L THEN Boundary[i + 1] ELSE IF i = L THEN "cr" ELSE "lf"
    <3>1. i \in 0..L + 1
      BY <1>2, <1>3
    <3>2. QED
      BY <3>1, EndedBoundary
  <2>2. /\ i < L => i >= h - L - 2 /\ i < h - 2 /\ i - (h - L - 2) + 1 = i + 1
        /\ i = L => i = h - 2
        /\ i = L + 1 => i = h - 1 /\ ~(i < L) /\ i # L
        /\ i < L \/ i = L \/ i = L + 1
    BY <1>2, <1>3
  <2> DEFINE e == (Boundary \o <<"cr", "lf">>)[i + 1]
             b == Boundary[i + 1]
  <2>3. i < L => Letter = b
    BY <1>4, <2>2
  <2>4. /\ i = L => Letter = "cr" /\ ~(i < L)
        /\ i = L + 1 => Letter = "lf"
    BY <1>3, <1>4, <2>2
  <2>5. e = IF i < L THEN b ELSE IF i = L THEN "cr" ELSE "lf"
    BY <2>1
  <2> HIDE DEF e, b
  <2>6. Letter = e
    BY <2>2, <2>3, <2>4, <2>5
  <2>7. QED
    BY <2>6 DEF e
<1>6. \/ i <= L /\ index' = index + 1 /\ Goto("start_boundary")
      \/ i = L + 1 /\ Goto("header_field_start")
  <2>1. ~(Letter # (Boundary \o <<"cr", "lf">>)[index + 1])
    BY <1>2, <1>5
  <2> DEFINE e == (Boundary \o <<"cr", "lf">>)[index + 1]
  <2>2. \/ index < L /\ index' = index + 1 /\ Goto("start_boundary")
        \/ index = L /\ index' = index + 1 /\ Goto("start_boundary")
        \/ index = L + 1 /\ Goto("header_field_start")
    BY <2>1 DEF StartBoundary
  <2>3. QED
    BY <1>2, <1>3, <2>2
<1>7. InHead(ps, k)' /\ stage' = "parse" /\ i' = i + 1
  <2>1. CASE i <= L /\ index' = index + 1 /\ Goto("start_boundary")
    <3>1. stage' = "parse" /\ pstate' = "start_boundary" /\ i' = i + 1
      BY <1>1, <2>1 DEF Goto
    <3>2. i' = index' /\ i' <= L + 1
      BY <1>2, <1>3, <2>1, <3>1
    <3>3. QED
      BY <1>1, <1>2, <3>1, <3>2 DEF InHead, L
  <2>2. CASE i = L + 1 /\ Goto("header_field_start")
    <3>1. stage' = "parse" /\ pstate' = "header_field_start" /\ i' = i + 1
      BY <1>1, <2>2 DEF Goto
    <3>2. i' = h
      BY <1>3, <2>2, <3>1
    <3>3. QED
      BY <1>1, <1>2, <3>1, <3>2 DEF InHead, h
  <2>3. QED
    BY <1>6, <2>1, <2>2
<1>8. i <= z + 3 + L
  BY <1>2, <1>3
<1>9. QED
  BY <1>1, <1>7, <1>8, StaysInPlace DEF z

(* How the places in a part follow one another.                            *)
LEMMA PlacesOrder ==
  ASSUME HasBoundary, NEW ps, AllNamed(ps), NEW k \in 1..Len(ps)
  PROVE  LET h == HeadAt(ps, k)
             c == TypeAt(ps, k)
             d == DataAt(ps, k)
             z == EndAt(ps, k)
             m == NameLen(ps, k)
             e == DataLen(ps, k)
         IN  /\ L \in Nat /\ L > 0 /\ h \in Nat /\ c \in Nat /\ d \in Nat /\ z \in Nat
             /\ m \in Nat /\ e \in Nat /\ NameAt(ps, k) = h + 4 /\ c = h + 7 + m
             /\ c + 2 <= d /\ z = d + e
             /\ ps[k].typed => d = c + 8
             /\ ~ps[k].typed => d = c + 2
<1> DEFINE h == HeadAt(ps, k)
           c == TypeAt(ps, k)
           d == DataAt(ps, k)
           z == EndAt(ps, k)
           m == NameLen(ps, k)
           e == DataLen(ps, k)
           t == TypeLen(ps, k)
<1>1. /\ L \in Nat /\ L > 0 /\ h \in Nat /\ c \in Nat /\ d \in Nat /\ z \in Nat
      /\ m \in Nat /\ e \in Nat /\ NameAt(ps, k) = h + 4 /\ c = h + 7 + m
      /\ d = c + t + 2 /\ z = d + e /\ t = IF ps[k].typed THEN 6 ELSE 0
  BY Offsets
<1> HIDE DEF h, c, d, z, m, e, t
<1>2. c + 2 <= d /\ (ps[k].typed => d = c + 8) /\ (~ps[k].typed => d = c + 2)
  BY <1>1
<1>3. QED
  BY <1>1, <1>2 DEF h, c, d, z, m, e

LEMMA NameFieldStep ==
  ASSUME HasBoundary, PostInv, NEW ps, Sent(ps), NEW k \in 1..Len(ps),
         InHead(ps, k), HeaderField
  PROVE  PartsInv'
<1> DEFINE h == HeadAt(ps, k)
           c == TypeAt(ps, k)
           d == DataAt(ps, k)
           z == EndAt(ps, k)
           m == NameLen(ps, k)
           b == post.body
<1>1. /\ stage = "parse" /\ pstate \in {"header_field_start", "header_field"} /\ i < Length
      /\ post' = post /\ vals' = vals
  BY DEF HeaderField, At
<1>2. /\ Before(vals, ps, k)
      /\ \/ pstate = "header_field_start" /\ i = h
         \/ pstate = "header_field" /\ i = h + 1 /\ mark = h
  BY <1>1 DEF InHead
<1>3. /\ L \in Nat /\ L > 0 /\ h \in Nat /\ c \in Nat /\ d \in Nat /\ z \in Nat
      /\ m \in Nat /\ c = h + 7 + m /\ c + 2 <= d /\ d <= z
  <2> DEFINE e == DataLen(ps, k)
  <2>1. /\ L \in Nat /\ L > 0 /\ h \in Nat /\ c \in Nat /\ d \in Nat /\ z \in Nat
        /\ m \in Nat /\ e \in Nat /\ c = h + 7 + m /\ c + 2 <= d /\ z = d + e
    BY SentParts, PlacesOrder
  <2> HIDE DEF h, c, d, z, m, e
  <2>2. QED
    BY <2>1
<1>4. (i = h => Letter = "D") /\ (i = h + 1 => Letter = ":")
  BY <1>1, LetterHere
<1>5. Has(b, h, "D") /\ b \in Seq(STRING) /\ Length = Len(b)
  BY SentParts, PartLetters
<1> HIDE DEF h, c, d, z, m, b
<1>6. i <= z + 3 + L /\ i \in Nat
  BY <1>2, <1>3
<1>7. CASE pstate = "header_field_start"
  <2>1. Letter = "D" /\ i = h
    BY <1>2, <1>4, <1>7
  <2>2. mark' = i /\ Goto("header_field")
    BY <1>7, <2>1 DEF HeaderField, FieldLetters
  <2>3. stage' = "parse" /\ pstate' = "header_field" /\ i' = i + 1
    BY <1>1, <2>2 DEF Goto
  <2>4. InHead(ps, k)'
    BY <1>1, <1>2, <2>1, <2>2, <2>3 DEF InHead, h
  <2>5. QED
    BY <1>1, <1>6, <2>3, <2>4, StaysInPlace DEF z
<1>8. CASE pstate = "header_field"
  <2>1. Letter = ":" /\ i = h + 1 /\ mark = h
    BY <1>2, <1>4, <1>8
  <2> DEFINE x == SubSeq(b, mark + 1, i)
  <2>2. Goto("header_value_start") /\ isContent' = (x = <<"D">>)
    BY <1>8, <2>1 DEF HeaderField, FieldLetters, b
  <2>3. x = <<"D">>
    <3>1. h + 1 \in 1..Len(b) /\ h < Len(b)
      BY <1>1, <1>3, <1>5, <2>1
    <3>2. SubSeq(b, h + 1, h + 1) = <<b[h + 1]>> /\ b[h + 1] = "D"
      BY <1>5, <3>1, SubSeqOne DEF Has
    <3>3. QED
      BY <2>1, <3>2
  <2> HIDE DEF x
  <2>4. stage' = "parse" /\ pstate' = "header_value_start" /\ i' = i + 1 /\ isContent'
    BY <1>1, <2>2, <2>3 DEF Goto
  <2>5. i' = h + 2
    BY <1>3, <2>1, <2>4
  <2>6. InHead(ps, k)'
    BY <1>1, <1>2, <2>4, <2>5 DEF InHead, h
  <2>7. QED
    BY <1>1, <1>6, <2>4, <2>6, StaysInPlace DEF z
<1>9. QED
  BY <1>1, <1>7, <1>8

LEMMA NameValueStep ==
  ASSUME HasBoundary, PostInv, NEW ps, Sent(ps), NEW k \in 1..Len(ps),
         InHead(ps, k), HeaderValue
  PROVE  PartsInv'
<1> DEFINE h == HeadAt(ps, k)
           c == TypeAt(ps, k)
           d == DataAt(ps, k)
           z == EndAt(ps, k)
           m == NameLen(ps, k)
           b == post.body
<1>1. /\ stage = "parse" /\ pstate \in {"header_value_start", "header_value"} /\ i < Length
      /\ post' = post /\ isContent' = isContent
  BY DEF HeaderValue, At, others
<1>2. /\ Before(vals, ps, k) /\ isContent
      /\ \/ pstate = "header_value_start" /\ i \in {h + 2, h + 3}
         \/ pstate = "header_value" /\ mark = h + 3 /\ i \in h + 4..h + 5 + m
  BY <1>1 DEF InHead
<1>3. /\ L \in Nat /\ L > 0 /\ h \in Nat /\ c \in Nat /\ d \in Nat /\ z \in Nat
      /\ m \in Nat /\ c = h + 7 + m /\ c + 2 <= d /\ d <= z /\ NameAt(ps, k) = h + 4
  <2> DEFINE e == DataLen(ps, k)
  <2>1. /\ L \in Nat /\ L > 0 /\ h \in Nat /\ c \in Nat /\ d \in Nat /\ z \in Nat
        /\ m \in Nat /\ e \in Nat /\ c = h + 7 + m /\ c + 2 <= d /\ z = d + e
        /\ NameAt(ps, k) = h + 4
    BY SentParts, PlacesOrder
  <2> HIDE DEF h, c, d, z, m, e
  <2>2. QED
    BY <2>1
<1>4. /\ i = h + 2 => Letter = "sp"
      /\ i = h + 3 => Letter = "N"
      /\ i >= h + 4 /\ i <= c - 3 => Letter # "cr"
      /\ i = c - 2 => Letter = "cr"
  BY <1>1, LetterHere
<1>5. Has(b, h + 3, "N") /\ b \in Seq(STRING) /\ Length = Len(b)
  BY SentParts, PartLetters
<1>6. vals \in Seq([name : Pieces, value : Pieces]) /\ Length \in Nat /\ i \in Nat
  BY InType DEF ListIn
<1> HIDE DEF h, c, d, z, m, b
<1>7. i <= z + 3 + L
  BY <1>2, <1>3
<1>8. CASE pstate = "header_value_start" /\ i = h + 2
  <2>1. Goto("header_value_start") /\ vals' = vals
    BY <1>4, <1>8 DEF HeaderValue
  <2>2. stage' = "parse" /\ pstate' = "header_value_start" /\ i' = i + 1 /\ isContent'
    BY <1>1, <1>2, <2>1 DEF Goto
  <2>3. i' = h + 3
    BY <1>3, <1>8, <2>2
  <2>4. InHead(ps, k)'
    BY <1>2, <2>1, <2>2, <2>3 DEF InHead, h
  <2>5. QED
    BY <1>1, <1>7, <2>2, <2>4, StaysInPlace DEF z
<1>9. CASE pstate = "header_value_start" /\ i = h + 3
  <2>1. /\ mark' = i /\ Goto("header_value")
        /\ IF AtLast THEN OnHeaderValue(i, i - i + 1) ELSE UNCHANGED vals
    BY <1>4, <1>9 DEF HeaderValue
  <2>2. vals' = vals
    <3>1. i - i + 1 = 1
      BY <1>6
    <3>2. QED
      BY <2>1, <3>1 DEF OnHeaderValue
  <2>3. stage' = "parse" /\ pstate' = "header_value" /\ i' = i + 1 /\ isContent'
    BY <1>1, <1>2, <2>1 DEF Goto
  <2>4. i' \in h + 4..h + 5 + m /\ mark' = h + 3
    BY <1>3, <1>9, <2>1, <2>3
  <2>5. InHead(ps, k)'
    BY <1>2, <2>2, <2>3, <2>4 DEF InHead, h, m
  <2>6. QED
    BY <1>1, <1>7, <2>3, <2>5, StaysInPlace DEF z
<1>10. CASE pstate = "header_value"
  <2>1. mark = h + 3 /\ i \in h + 4..h + 5 + m /\ i >= h + 4
    BY <1>2, <1>3, <1>10
  <2>2. ASSUME NEW len \in Nat, OnHeaderValue(h + 3, len), len > 1
        PROVE  OnName(NameAt(ps, k), len - 2)
    <3>1. (h + 3) + 1 = h + 4 /\ h + 3 < Len(b)
      BY <1>1, <1>3, <1>5, <1>6, <2>1
    <3>2. b[(h + 3) + 1] = "N"
      BY <1>5, <3>1 DEF Has
    <3>3. OnName((h + 3) + 1, len - 2)
      BY <1>2, <2>2, <3>2 DEF OnHeaderValue, NameLength, b
    <3>4. QED
      BY <1>3, <3>1, <3>3
  <2>3. CASE i = c - 2
    <3>1. OnHeaderValue(h + 3, i - (h + 3)) /\ Goto("header_value_almost_done")
      BY <1>4, <1>10, <2>1, <2>3 DEF HeaderValue
    <3>2. i - (h + 3) = m + 2 /\ m + 2 \in Nat /\ m + 2 > 1 /\ (m + 2) - 2 = m
      BY <1>3, <2>3
    <3>3. OnName(NameAt(ps, k), m)
      BY <2>2, <3>1, <3>2
    <3> DEFINE new == vals'
    <3>4. new = Append(vals, [name |-> Piece(NameAt(ps, k), m), value |-> Unset])
      BY <3>3 DEF OnName
    <3> HIDE DEF new
    <3>5. NameAt(ps, k) \in Nat /\ k \in Nat
      BY <1>3
    <3>6. Behind(new, ps, k)
      BY <1>2, <1>3, <1>6, <3>4, <3>5, NameFound DEF m
    <3>7. stage' = "parse" /\ pstate' = "header_value_almost_done" /\ i' = i + 1
      BY <1>1, <3>1 DEF Goto
    <3>8. i' = c - 1
      BY <1>3, <2>3, <3>7
    <3>9. InRest(ps, k)'
      BY <3>6, <3>7, <3>8 DEF InRest, c, new
    <3>10. QED
      BY <1>1, <1>7, <3>7, <3>9, StaysInPlace DEF z
  <2>4. CASE i # c - 2
    <3>1. i <= c - 3
      BY <1>3, <2>1, <2>4
    <3>2. /\ mark' = mark /\ Goto("header_value")
          /\ IF AtLast THEN OnHeaderValue(h + 3, i - (h + 3) + 1) ELSE UNCHANGED vals
      BY <1>4, <1>10, <2>1, <3>1 DEF HeaderValue
    <3>3. stage' = "parse" /\ pstate' = "header_value" /\ i' = i + 1 /\ isContent'
      BY <1>1, <1>2, <3>2 DEF Goto
    <3>4. CASE AtLast
      <4> DEFINE len == i - (h + 3) + 1
      <4>1. len \in Nat /\ len > 1 /\ len - 2 \in Nat /\ len - 2 <= m
        BY <1>3, <1>6, <2>1, <3>1
      <4>2. OnHeaderValue(h + 3, len)
        BY <3>2, <3>4
      <4> HIDE DEF len
      <4>3. OnName(NameAt(ps, k), len - 2)
        BY <2>2, <4>1, <4>2
      <4> DEFINE x == len - 2
                 new == vals'
      <4>4. new = Append(vals, [name |-> Piece(NameAt(ps, k), x), value |-> Unset])
            /\ x \in Nat /\ x <= NameLen(ps, k)
        BY <4>1, <4>3 DEF OnName, m
      <4> HIDE DEF new, x
      <4>5. NameAt(ps, k) \in Nat /\ k \in Nat
        BY <1>3
      <4>6. CutIn(new, ps, k)
        BY <1>2, <1>6, <4>4, <4>5, NameFound
      <4>7. i' = Length
        BY <1>6, <3>3, <3>4 DEF AtLast
      <4>8. QED
        BY <1>1, <1>7, <3>3, <4>6, <4>7, EndsInPlace DEF z, new
    <3>5. CASE ~AtLast
      <4>1. vals' = vals
        BY <3>2, <3>5
      <4>2. i' \in h + 4..h + 5 + m /\ mark' = h + 3
        BY <1>3, <2>1, <3>1, <3>2, <3>3
      <4>3. InHead(ps, k)'
        BY <1>2, <3>3, <4>1, <4>2 DEF InHead, h, m
      <4>4. QED
        BY <1>1, <1>7, <3>3, <4>3, StaysInPlace DEF z
    <3>6. QED
      BY <3>4, <3>5
  <2>5. QED
    BY <2>3, <2>4
<1>11. QED
  BY <1>2, <1>8, <1>9, <1>10

(* Between the name of a part and its data.                                *)
LEMMA RestFieldStep ==
  ASSUME HasBoundary, PostInv, NEW ps, Sent(ps), NEW k \in 1..Len(ps),
         InRest(ps, k), HeaderField
  PROVE  PartsInv'
<1> DEFINE c == TypeAt(ps, k)
           d == DataAt(ps, k)
           z == EndAt(ps, k)
           b == post.body
<1>1. /\ stage = "parse" /\ pstate \in {"header_field_start", "header_field"} /\ i < Length
      /\ post' = post /\ vals' = vals
  BY DEF HeaderField, At
<1>2. /\ Behind(vals, ps, k)
      /\ \/ pstate = "header_field_start" /\ i \in {c, d - 2}
         \/ pstate = "header_field" /\ i = c + 1 /\ mark = c /\ ps[k].typed
  BY <1>1 DEF InRest
<1>3. /\ L \in Nat /\ L > 0 /\ c \in Nat /\ d \in Nat /\ z \in Nat
      /\ c + 2 <= d /\ d <= z
      /\ ps[k].typed => d = c + 8
      /\ ~ps[k].typed => d = c + 2
  <2> DEFINE e == DataLen(ps, k)
  <2>1. /\ L \in Nat /\ L > 0 /\ c \in Nat /\ d \in Nat /\ z \in Nat
        /\ e \in Nat /\ c + 2 <= d /\ z = d + e
        /\ ps[k].typed => d = c + 8
        /\ ~ps[k].typed => d = c + 2
    BY SentParts, PlacesOrder
  <2> HIDE DEF c, d, z, e
  <2>2. QED
    BY <2>1
<1>4. /\ ps[k].typed => (i = c => Letter = "T") /\ (i = c + 1 => Letter = ":")
      /\ i = d - 2 => Letter = "cr"
  BY <1>1, LetterHere
<1>5. ps[k].typed => Has(b, c, "T")
  BY SentParts, PartLetters
<1>6. b \in Seq(STRING) /\ Length = Len(b)
  BY SentParts
<1> HIDE DEF c, d, z, b
<1>7. i <= z + 3 + L /\ i \in Nat
  BY <1>2, <1>3
<1>8. CASE pstate = "header_field_start" /\ i = d - 2
  <2>1. Goto("headers_almost_done")
    BY <1>4, <1>8 DEF HeaderField, FieldLetters
  <2>2. stage' = "parse" /\ pstate' = "headers_almost_done" /\ i' = i + 1
    BY <1>1, <2>1 DEF Goto
  <2>3. i' = d - 1
    BY <1>3, <1>8, <2>2
  <2>4. InRest(ps, k)'
    BY <1>1, <1>2, <2>2, <2>3 DEF InRest, d
  <2>5. QED
    BY <1>1, <1>7, <2>2, <2>4, StaysInPlace DEF z
<1>9. CASE pstate = "header_field_start" /\ i = c /\ ps[k].typed
  <2>1. mark' = i /\ Goto("header_field")
    BY <1>4, <1>9 DEF HeaderField, FieldLetters
  <2>2. stage' = "parse" /\ pstate' = "header_field" /\ i' = i + 1
    BY <1>1, <2>1 DEF Goto
  <2>3. InRest(ps, k)'
    BY <1>1, <1>2, <1>9, <2>1, <2>2 DEF InRest, c
  <2>4. QED
    BY <1>1, <1>7, <2>2, <2>3, StaysInPlace DEF z
<1>10. CASE pstate = "header_field" /\ i = c + 1 /\ mark = c /\ ps[k].typed
  <2> DEFINE x == SubSeq(b, mark + 1, i)
  <2>1. Goto("header_value_start") /\ isContent' = (x = <<"D">>)
    BY <1>4, <1>10 DEF HeaderField, FieldLetters, b
  <2>2. x # <<"D">>
    <3>1. c + 1 \in 1..Len(b) /\ c < Len(b)
      BY <1>1, <1>3, <1>6, <1>10
    <3>2. SubSeq(b, c + 1, c + 1) = <<b[c + 1]>> /\ b[c + 1] = "T"
      BY <1>5, <1>6, <1>10, <3>1, SubSeqOne DEF Has
    <3>3. x = <<"T">>
      BY <1>10, <3>2
    <3>4. <<"T">>[1] = "T" /\ <<"D">>[1] = "D"
      OBVIOUS
    <3> HIDE DEF x
    <3>5. QED
      BY <3>3, <3>4
  <2> HIDE DEF x
  <2>3. stage' = "parse" /\ pstate' = "header_value_start" /\ i' = i + 1 /\ ~isContent'
    BY <1>1, <2>1, <2>2 DEF Goto
  <2>4. i' = c + 2
    BY <1>3, <1>10, <2>3
  <2>5. InRest(ps, k)'
    BY <1>1, <1>2, <1>10, <2>3, <2>4 DEF InRest, c
  <2>6. QED
    BY <1>1, <1>7, <2>3, <2>5, StaysInPlace DEF z
<1>11. i = c => i = d - 2 \/ ps[k].typed
  BY <1>3
<1>12. QED
  BY <1>2, <1>8, <1>9, <1>10, <1>11

LEMMA RestValueStep ==
  ASSUME HasBoundary, PostInv, NEW ps, Sent(ps), NEW k \in 1..Len(ps),
         InRest(ps, k), HeaderValue
  PROVE  PartsInv'
<1> DEFINE c == TypeAt(ps, k)
           d == DataAt(ps, k)
           z == EndAt(ps, k)
<1>1. /\ stage = "parse" /\ pstate \in {"header_value_start", "header_value"} /\ i < Length
      /\ post' = post /\ isContent' = isContent
  BY DEF HeaderValue, At, others
<1>2. /\ Behind(vals, ps, k) /\ ~isContent /\ ps[k].typed
      /\ \/ pstate = "header_value_start" /\ i \in {c + 2, c + 3}
         \/ pstate = "header_value" /\ i = c + 4 /\ mark = c + 3
  BY <1>1 DEF InRest
<1>3. /\ L \in Nat /\ L > 0 /\ c \in Nat /\ d \in Nat /\ z \in Nat
      /\ d <= z /\ d = c + 8
  <2> DEFINE e == DataLen(ps, k)
  <2>1. /\ L \in Nat /\ L > 0 /\ c \in Nat /\ d \in Nat /\ z \in Nat
        /\ e \in Nat /\ z = d + e /\ (ps[k].typed => d = c + 8)
    BY SentParts, PlacesOrder
  <2> HIDE DEF c, d, z, e
  <2>2. QED
    BY <1>2, <2>1
<1>4. (i = c + 2 => Letter = "sp") /\ (i = c + 3 => Letter = "x") /\ (i = c + 4 => Letter = "cr")
  BY <1>1, <1>2, LetterHere
<1> HIDE DEF c, d, z
<1>5. i <= z + 3 + L
  BY <1>2, <1>3
<1>6. \A at : \A len : OnHeaderValue(at, len) => vals' = vals
  BY <1>2 DEF OnHeaderValue
<1>7. CASE i = c + 2
  <2>1. Letter = "sp" /\ pstate = "header_value_start"
    BY <1>2, <1>3, <1>4, <1>7
  <2>2. Goto("header_value_start") /\ vals' = vals
    BY <2>1 DEF HeaderValue
  <2>3. stage' = "parse" /\ pstate' = "header_value_start" /\ i' = i + 1 /\ ~isContent'
    BY <1>1, <1>2, <2>2 DEF Goto
  <2>4. i' = c + 3
    BY <1>3, <1>7, <2>3
  <2>5. InRest(ps, k)'
    BY <1>2, <2>2, <2>3, <2>4 DEF InRest, c
  <2>6. QED
    BY <1>1, <1>5, <2>3, <2>5, StaysInPlace DEF z
<1>8. CASE i = c + 3
  <2>1. Letter = "x" /\ pstate = "header_value_start"
    BY <1>2, <1>3, <1>4, <1>8
  <2>2. mark' = i /\ Goto("header_value")
        /\ IF AtLast THEN OnHeaderValue(i, i - i + 1) ELSE UNCHANGED vals
    BY <2>1 DEF HeaderValue
  <2>3. vals' = vals
    BY <1>6, <2>2
  <2>4. stage' = "parse" /\ pstate' = "header_value" /\ i' = i + 1 /\ ~isContent'
    BY <1>1, <1>2, <2>2 DEF Goto
  <2>5. i' = c + 4 /\ mark' = c + 3
    BY <1>3, <1>8, <2>2, <2>4
  <2>6. InRest(ps, k)'
    BY <1>2, <2>3, <2>4, <2>5 DEF InRest, c
  <2>7. QED
    BY <1>1, <1>5, <2>4, <2>6, StaysInPlace DEF z
<1>9. CASE i = c + 4
  <2>1. Letter = "cr" /\ pstate = "header_value" /\ mark = c + 3
    BY <1>2, <1>3, <1>4, <1>9
  <2>2. OnHeaderValue(mark, i - mark) /\ Goto("header_value_almost_done")
    BY <2>1 DEF HeaderValue
  <2>3. vals' = vals
    BY <1>6, <2>2
  <2>4. stage' = "parse" /\ pstate' = "header_value_almost_done" /\ i' = i + 1
    BY <1>1, <2>2 DEF Goto
  <2>5. i' = c + 5
    BY <1>3, <1>9, <2>4
  <2>6. InRest(ps, k)'
    BY <1>2, <2>3, <2>4, <2>5 DEF InRest, c
  <2>7. QED
    BY <1>1, <1>5, <2>4, <2>6, StaysInPlace DEF z
<1>10. QED
  BY <1>2, <1>7, <1>8, <1>9

LEMMA RestLineStep ==
  ASSUME HasBoundary, PostInv, NEW ps, Sent(ps), NEW k \in 1..Len(ps),
         InRest(ps, k), HeadersAlmostDone \/ HeaderValueAlmostDone
  PROVE  PartsInv'
<1> DEFINE c == TypeAt(ps, k)
           d == DataAt(ps, k)
           z == EndAt(ps, k)
<1>1. /\ stage = "parse" /\ i < Length
      /\ \/ pstate = "headers_almost_done" /\ HeadersAlmostDone
         \/ pstate = "header_value_almost_done" /\ HeaderValueAlmostDone
      /\ post' = post /\ vals' = vals
  BY DEF HeadersAlmostDone, HeaderValueAlmostDone, OneLetter, At, others
<1>2. /\ Behind(vals, ps, k)
      /\ \/ pstate = "headers_almost_done" /\ i = d - 1
         \/ pstate = "header_value_almost_done" /\ i = c - 1
         \/ pstate = "header_value_almost_done" /\ i = c + 5 /\ ps[k].typed
  BY <1>1 DEF InRest
<1>3. /\ L \in Nat /\ L > 0 /\ c \in Nat /\ d \in Nat /\ z \in Nat
      /\ c + 2 <= d /\ d <= z
      /\ ps[k].typed => d = c + 8
      /\ ~ps[k].typed => d = c + 2
  <2> DEFINE e == DataLen(ps, k)
  <2>1. /\ L \in Nat /\ L > 0 /\ c \in Nat /\ d \in Nat /\ z \in Nat
        /\ e \in Nat /\ c + 2 <= d /\ z = d + e
        /\ ps[k].typed => d = c + 8
        /\ ~ps[k].typed => d = c + 2
    BY SentParts, PlacesOrder
  <2> HIDE DEF c, d, z, e
  <2>2. QED
    BY <2>1
<1>4. /\ i = c - 1 => Letter = "lf"
      /\ ps[k].typed => (i = c + 5 => Letter = "lf")
      /\ i = d - 1 => Letter = "lf"
  BY <1>1, LetterHere
<1> HIDE DEF c, d, z
<1>5. i <= z + 3 + L /\ Letter = "lf"
  BY <1>2, <1>3, <1>4
<1>6. CASE pstate = "headers_almost_done" /\ HeadersAlmostDone /\ i = d - 1
  <2>1. Goto("part_data_start")
    BY <1>5, <1>6 DEF HeadersAlmostDone, OneLetter
  <2>2. stage' = "parse" /\ pstate' = "part_data_start" /\ i' = i + 1
    BY <1>1, <2>1 DEF Goto
  <2>3. i' = d
    BY <1>3, <1>6, <2>2
  <2>4. InRest(ps, k)'
    BY <1>1, <1>2, <2>2, <2>3 DEF InRest, d
  <2>5. QED
    BY <1>1, <1>5, <2>2, <2>4, StaysInPlace DEF z
<1>7. CASE /\ pstate = "header_value_almost_done" /\ HeaderValueAlmostDone
           /\ i = c - 1 \/ (i = c + 5 /\ ps[k].typed)
  <2>1. Goto("header_field_start")
    BY <1>5, <1>7 DEF HeaderValueAlmostDone, OneLetter
  <2>2. stage' = "parse" /\ pstate' = "header_field_start" /\ i' = i + 1
    BY <1>1, <2>1 DEF Goto
  <2>3. i' \in {c, d - 2}
    BY <1>3, <1>7, <2>2
  <2>4. InRest(ps, k)'
    BY <1>1, <1>2, <2>2, <2>3 DEF InRest, c, d
  <2>5. QED
    BY <1>1, <1>5, <2>2, <2>4, StaysInPlace DEF z
<1>8. QED
  BY <1>1, <1>2, <1>6, <1>7

-----------------------------------------------------------------------------
(***************************************************************************)
(* The parser in the data of a part, and in the boundary behind it.        *)
(***************************************************************************)
LEMMA PrefixIf ==
  ASSUME NEW S, NEW s \in Seq(S), NEW t \in Seq(S), Len(s) <= Len(t),
         \A j \in 1..Len(s) : s[j] = t[j]
  PROVE  IsPrefix(s, t)
<1> DEFINE n == Len(s)
<1>1. n \in Nat /\ Len(t) \in Nat /\ n <= Len(t)
  BY LenProperties
<1>2. SubSeq(s, 1, n) = s
  BY SubSeqFull
<1> DEFINE u == SubSeq(t, 1, n)
<1> HIDE DEF n
<1>3. u \in Seq(S) /\ Len(u) = n /\ \A j \in 1..n : u[j] = t[j]
  <2>1. \A j \in 1..n : t[j] \in S
    <3>1. \A j \in 1..n : j \in 1..Len(t)
      BY <1>1
    <3>2. QED
      BY <3>1, ElementOfSeq
  <2>2. u \in Seq(S) /\ Len(u) = IF 1 <= n THEN n - 1 + 1 ELSE 0
    BY <1>1, <2>1, SubSeqProperties
  <2>3. Len(u) = n
    BY <1>1, <2>2
  <2>4. \A j \in 1..n : u[j] = t[j]
    BY <1>1
  <2>5. QED
    BY <2>2, <2>3, <2>4
<1> HIDE DEF u
<1>4. u = s
  BY <1>1, <1>3, SeqEqual DEF n
<1>5. QED
  BY <1>1, <1>2, <1>4 DEF IsPrefix, n, u

(* The data of a part has no boundary at the start of a line.              *)
LEMMA NoBoundaryInData ==
  ASSUME HasBoundary, PostInv, NEW ps, Sent(ps), NEW k \in 1..Len(ps),
         NEW p \in Nat, DataAt(ps, k) <= p, p + 1 + L <= EndAt(ps, k),
         p + 1 + L <= Length, post.body[p + 1] = "lf"
  PROVE  ~\A j \in 1..L : post.body[p + 1 + j] = Boundary[j]
<1> DEFINE d == DataAt(ps, k)
           z == EndAt(ps, k)
           e == DataLen(ps, k)
           b == post.body
           data == ps[k].data
           x == p + 1 - d
           T == SubSeq(data, x + 1, e)
<1>1. L \in Nat /\ L > 0 /\ d \in Nat /\ z \in Nat /\ e \in Nat /\ z = d + e
  BY SentParts, PlacesOrder
<1>2. Spells(b, d, data) /\ b \in Seq(STRING) /\ Length = Len(b)
  BY SentParts, PartLetters
<1>3. data \in Seq(STRING) /\ Len(data) = e
  <2>1. ps[k] \in PartShape
    BY SentParts, EncodedParts
  <2>2. QED
    BY <2>1 DEF PartShape, DataLen
<1>4. \A j \in 1..Len(data) :
        data[j] = "lf" => ~IsPrefix(Boundary, SubSeq(data, j + 1, Len(data)))
  BY DEF Sent, WellParted
<1> HIDE DEF d, z, e, b, data
<1>5. x \in 1..e /\ x + L <= e /\ d + x = p + 1
  BY <1>1 DEF z, d
<1>a. Len(b) \in Nat /\ p + 1 + L <= Len(b) /\ b[p + 1] = "lf"
  BY <1>2, LenProperties DEF b
<1> HIDE DEF x
<1>6. data[x] = "lf"
  <2>1. d + x <= Len(b)
    BY <1>1, <1>5, <1>a
  <2>2. b[d + x] = data[x]
    BY <1>2, <1>3, <1>5, <2>1 DEF Spells
  <2>3. QED
    BY <1>5, <1>a, <2>2
<1>7. ~IsPrefix(Boundary, T)
  BY <1>3, <1>4, <1>5, <1>6
<1>8. T \in Seq(STRING) /\ Len(T) = e - x /\ \A j \in 1..e - x : T[j] = data[x + j]
  <2>1. \A j \in x + 1..e : data[j] \in STRING
    <3>1. \A j \in x + 1..e : j \in 1..Len(data)
      BY <1>1, <1>3, <1>5
    <3>2. QED
      BY <1>3, <3>1, ElementOfSeq
  <2>2. T \in Seq(STRING) /\ Len(T) = IF x + 1 <= e THEN e - (x + 1) + 1 ELSE 0
    BY <1>1, <1>5, <2>1, SubSeqProperties
  <2>3. Len(T) = e - x
    BY <1>1, <1>5, <2>2
  <2>4. \A j \in 1..e - x : T[j] = data[x + j]
    BY <1>1, <1>3, <1>5
  <2>5. QED
    BY <2>2, <2>3, <2>4
<1> HIDE DEF T
<1>9. Boundary \in Seq(STRING) /\ Len(Boundary) = L
  BY DEF HasBoundary, L
<1>10. PICK j \in 1..L : T[j] # Boundary[j]
  <2>1. Len(Boundary) <= Len(T)
    BY <1>1, <1>5, <1>8, <1>9
  <2>2. QED
    BY <1>7, <1>8, <1>9, <2>1, PrefixIf
<1>11. T[j] = b[p + 1 + j]
  <2>1. x + j \in 1..e /\ d + (x + j) = p + 1 + j /\ d + (x + j) <= Len(b) /\ j \in 1..e - x
    BY <1>1, <1>5, <1>a
  <2> DEFINE y == x + j
  <2>2. T[j] = data[y] /\ y \in 1..Len(data) /\ d + y <= Len(b)
    BY <1>3, <1>8, <2>1
  <2> HIDE DEF y
  <2>3. b[d + y] = data[y]
    BY <1>2, <2>2 DEF Spells
  <2>4. QED
    BY <2>1, <2>2, <2>3 DEF y
<1>12. QED
  BY <1>10, <1>11 DEF b

(* ondata, of a piece of the data.                                         *)
LEMMA DataGiven ==
  ASSUME HasBoundary, PostInv, NEW ps, Sent(ps), NEW k \in 1..Len(ps), Behind(vals, ps, k),
         NEW len \in Nat, OnData(DataAt(ps, k), len, "parse")
  PROVE  /\ stage' = "parse"
         /\ len = KeptLen(ps, k) => Before(vals', ps, k + 1)
         /\ len <= DataLen(ps, k) + 2 => CutIn(vals', ps, k)
<1>1. vals \in Seq([name : Pieces, value : Pieces])
  BY InType DEF ListIn
<1>2. Len(vals) = k /\ k \in Nat /\ k > 0
  BY SentParts DEF Behind
<1>3. vals # <<>>
  BY <1>2, EmptySeq
<1> DEFINE new == vals'
<1>4. stage' = "parse" /\ new = [vals EXCEPT ![Len(vals)].value = Piece(DataAt(ps, k), len)]
  BY <1>3 DEF OnData, WithData
<1> HIDE DEF new
<1>5. DataAt(ps, k) \in Nat /\ NameLen(ps, k) \in Nat
  BY SentParts, PlacesOrder
<1>6. /\ len = KeptLen(ps, k) => Before(new, ps, k + 1)
      /\ len <= DataLen(ps, k) + 2 => CutIn(new, ps, k)
  BY <1>1, <1>2, <1>4, <1>5, DataFound
<1>7. QED
  BY <1>4, <1>6 DEF new

LEMMA DataStep ==
  ASSUME HasBoundary, PostInv, NEW ps, Sent(ps), NEW k \in 1..Len(ps),
         InRest(ps, k) \/ InData(ps, k), PartData
  PROVE  PartsInv'
<1> DEFINE d == DataAt(ps, k)
           z == EndAt(ps, k)
           e == DataLen(ps, k)
<1>1. /\ stage = "parse" /\ pstate \in {"part_data_start", "part_data"} /\ i < Length
      /\ post' = post /\ i' = i + 1
  BY DEF PartData, At, others
<1>2. L \in Nat /\ L > 0 /\ d \in Nat /\ z \in Nat /\ e \in Nat /\ z = d + e
  BY SentParts, PlacesOrder
<1>3. /\ Behind(vals, ps, k)
      /\ \/ pstate = "part_data_start" /\ i = d
         \/ pstate = "part_data" /\ mark = d /\ i \in d + 1..z
  <2>1. CASE InRest(ps, k)
    BY <1>1, <2>1 DEF InRest
  <2>2. CASE InData(ps, k)
    BY <1>1, <2>2 DEF InData
  <2>3. QED
    BY <2>1, <2>2
<1> HIDE DEF d, z, e
<1>4. i \in d..z /\ i \in Nat /\ i <= z + 3 + L
  BY <1>2, <1>3
<1>5. /\ mark' = d
      /\ IF AtLast
         THEN OnData(d, i - d + 1, "parse")
         ELSE pstate' = "part_data_almost_boundary" /\ UNCHANGED <<stage, vals>>
  <2>1. (IF pstate = "part_data_start" THEN i ELSE mark) = d
    BY <1>3
  <2>2. QED
    BY <2>1 DEF PartData
<1>6. CASE AtLast
  <2> DEFINE len == i - d + 1
  <2>1. len \in Nat /\ len <= e + 2
    BY <1>2, <1>4
  <2>2. OnData(d, len, "parse")
    BY <1>5, <1>6
  <2> HIDE DEF len
  <2>3. stage' = "parse" /\ CutIn(vals', ps, k)
    BY <1>3, <2>1, <2>2, DataGiven DEF d, e
  <2>4. i' = Length
    BY <1>1, <1>6, InType DEF AtLast
  <2>5. QED
    BY <1>1, <1>4, <2>3, <2>4, EndsInPlace DEF z
<1>7. CASE ~AtLast
  <2>1. stage' = "parse" /\ pstate' = "part_data_almost_boundary" /\ vals' = vals
    BY <1>1, <1>5, <1>7
  <2>2. i' \in d + 1..z + 1
    BY <1>1, <1>2, <1>4
  <2>3. InData(ps, k)'
    BY <1>3, <1>5, <2>1, <2>2 DEF InData, d, z
  <2>4. QED
    BY <1>1, <1>4, <2>1, <2>3, StaysInPlace DEF z
<1>8. QED
  BY <1>6, <1>7

LEMMA LineEndStep ==
  ASSUME HasBoundary, PostInv, NEW ps, Sent(ps), NEW k \in 1..Len(ps),
         InData(ps, k), AlmostBoundary
  PROVE  PartsInv'
<1> DEFINE d == DataAt(ps, k)
           z == EndAt(ps, k)
           b == post.body
<1>1. /\ stage = "parse" /\ pstate = "part_data_almost_boundary" /\ i < Length
      /\ post' = post /\ vals' = vals /\ mark' = mark
  BY DEF AlmostBoundary, At
<1>2. L \in Nat /\ L > 0 /\ d \in Nat /\ z \in Nat /\ i \in Nat
  BY SentParts, PlacesOrder, InType
<1>3. Behind(vals, ps, k) /\ mark = d /\ i \in mark + 1..z + 1
  BY <1>1 DEF InData
<1>4. (i = z => Letter = "cr") /\ (i = z + 1 => Letter = "lf")
  BY <1>1, LetterHere
<1> HIDE DEF d, z
<1>5. i <= z + 3 + L
  BY <1>2, <1>3
<1>6. CASE Letter = "lf"
  <2>1. Goto("part_data_boundary") /\ index' = 0
    BY <1>6 DEF AlmostBoundary
  <2>2. stage' = "parse" /\ pstate' = "part_data_boundary" /\ i' = i + 1
    BY <1>1, <2>1 DEF Goto
  <2>3. i' - index' - 1 = i
    BY <1>2, <2>1, <2>2
  <2>4. /\ index' < L /\ i > d
        /\ i # z + 1 => i < z /\ i' <= z
    BY <1>2, <1>3, <1>4, <1>6, <2>1, <2>2
  <2>5. b[i + 1] = "lf"
    BY <1>6 DEF Letter
  <2>6. \A j \in 1..index' : FALSE
    BY <2>1
  <2>7. Matched(ps, k)'
    <3> DEFINE p == i' - index' - 1
    <3>1. /\ index' < L /\ p > d
          /\ p # z + 1 => p < z /\ i' <= z
      BY <2>3, <2>4
    <3>2. b[p + 1] = "lf" /\ \A j \in 1..index' : b[p + 1 + j] = Boundary[j]
      BY <2>3, <2>5, <2>6
    <3>3. post'.body = b /\ L' = L
      BY <1>1 DEF L
    <3> HIDE DEF b
    <3>4. QED
      BY <3>1, <3>2, <3>3 DEF Matched, d, z, L
  <2>8. InData(ps, k)'
    BY <1>1, <1>3, <2>2, <2>7 DEF InData, d
  <2>9. QED
    BY <1>1, <1>5, <2>2, <2>8, StaysInPlace DEF z
<1>7. CASE Letter # "lf"
  <2>1. Again("part_data")
    BY <1>7 DEF AlmostBoundary
  <2>2. stage' = "parse" /\ pstate' = "part_data" /\ i' = i
    BY <1>1, <2>1 DEF Again
  <2>3. i \in mark + 1..z
    BY <1>2, <1>3, <1>4, <1>7
  <2>4. InData(ps, k)'
    BY <1>1, <1>3, <2>2, <2>3 DEF InData, d, z
  <2>5. QED
    BY <1>1, <1>5, <2>2, <2>4, StaysInPlace DEF z
<1>8. QED
  BY <1>6, <1>7

LEMMA BoundaryStep ==
  ASSUME HasBoundary, PostInv, NEW ps, Sent(ps), NEW k \in 1..Len(ps),
         InData(ps, k), PartBoundary
  PROVE  PartsInv'
<1> DEFINE d == DataAt(ps, k)
           z == EndAt(ps, k)
           b == post.body
           p == i - index - 1
<1>1. /\ stage = "parse" /\ pstate = "part_data_boundary" /\ i < Length
      /\ post' = post /\ vals' = vals /\ mark' = mark
  BY DEF PartBoundary, At
<1>2. /\ L \in Nat /\ L > 0 /\ d \in Nat /\ z \in Nat /\ i \in Nat /\ index \in Nat
      /\ Length \in Nat
  BY SentParts, PlacesOrder, InType
<1>3. /\ Behind(vals, ps, k) /\ mark = d /\ index < L /\ p > d
      /\ p # z + 1 => p < z /\ i <= z
      /\ b[p + 1] = "lf" /\ \A j \in 1..index : b[p + 1 + j] = Boundary[j]
  BY <1>1 DEF InData, Matched
<1>4. /\ i = z => Letter = "cr"
      /\ i >= z + 2 /\ i < z + 2 + L => Letter = Boundary[i - (z + 2) + 1]
  BY <1>1, LetterHere
<1>5. \A j \in 1..L : Boundary[j] # "cr"
  BY EndedBoundary
<1>6. Letter = b[i + 1]
  BY DEF Letter
<1>7. p \in Nat /\ i = p + 1 + index
  BY <1>2, <1>3
<1> HIDE DEF d, z, b, p
<1>8. i <= z + 3 + L
  BY <1>2, <1>3, <1>7
<1>9. CASE Letter = Boundary[index + 1]
  <2>1. /\ index' = index + 1
        /\ Goto(IF index' = L THEN "part_data_almost_end" ELSE "part_data_boundary")
    BY <1>9 DEF PartBoundary
  <2>2. /\ stage' = "parse" /\ i' = i + 1
        /\ pstate' = IF index' = L THEN "part_data_almost_end" ELSE "part_data_boundary"
    BY <1>1, <2>1 DEF Goto
  <2>3. \A j \in 1..index + 1 : b[p + 1 + j] = Boundary[j]
    <3>1. \A j \in 1..index + 1 : j \in 1..index \/ j = index + 1
      BY <1>2
    <3>2. p + 1 + (index + 1) = i + 1
      BY <1>2, <1>7
    <3>3. QED
      BY <1>3, <1>6, <1>9, <3>1, <3>2
  <2>4. p # z + 1 => i < z
    <3>1. index + 1 \in 1..L
      BY <1>2, <1>3
    <3>2. Letter # "cr"
      BY <1>5, <1>9, <3>1
    <3>3. QED
      BY <1>2, <1>3, <1>4, <3>2
  <2>5. CASE index' = L
    <3>1. p = z + 1
      <4>1. SUFFICES ASSUME p # z + 1 PROVE FALSE
        OBVIOUS
      <4>2. d <= p /\ p + 1 + L <= z /\ p + 1 + L <= Length
        BY <1>1, <1>2, <1>3, <1>7, <2>1, <2>4, <2>5, <4>1
      <4>3. \A j \in 1..L : b[p + 1 + j] = Boundary[j]
        BY <2>1, <2>3, <2>5
      <4>4. QED
        BY <1>3, <1>7, <4>2, <4>3, NoBoundaryInData DEF d, z, b
    <3>2. i' = z + 2 + L /\ pstate' = "part_data_almost_end"
      BY <1>2, <1>7, <2>1, <2>2, <2>5, <3>1
    <3>3. InData(ps, k)'
      BY <1>1, <1>3, <3>2 DEF InData, d, z, L
    <3>4. QED
      BY <1>1, <1>8, <2>2, <3>3, StaysInPlace DEF z
  <2>6. CASE index' # L
    <3>1. i' - index' - 1 = p
      BY <1>2, <1>7, <2>1, <2>2
    <3>2. /\ index' < L
          /\ p # z + 1 => p < z /\ i' <= z
      BY <1>2, <1>3, <2>1, <2>2, <2>4, <2>6
    <3>3. Matched(ps, k)'
      <4>1. post'.body = b /\ L' = L
        BY <1>1 DEF L, b
      <4>2. \A j \in 1..index' : b[p + 1 + j] = Boundary[j]
        BY <2>1, <2>3
      <4>3. p > d /\ b[p + 1] = "lf"
        BY <1>3
      <4>4. QED
        BY <3>1, <3>2, <4>1, <4>2, <4>3 DEF Matched, d, z, L
    <3>4. InData(ps, k)'
      BY <1>1, <1>3, <2>2, <2>6, <3>3 DEF InData, d
    <3>5. QED
      BY <1>1, <1>8, <2>2, <3>4, StaysInPlace DEF z
  <2>7. QED
    BY <2>5, <2>6
<1>10. CASE Letter # Boundary[index + 1]
  <2>1. Again("part_data")
    BY <1>10 DEF PartBoundary, Mismatch
  <2>2. stage' = "parse" /\ pstate' = "part_data" /\ i' = i
    BY <1>1, <2>1 DEF Again
  <2>3. p # z + 1
    <3>1. SUFFICES ASSUME p = z + 1 PROVE FALSE
      OBVIOUS
    <3>2. i >= z + 2 /\ i < z + 2 + L /\ i - (z + 2) + 1 = index + 1
      BY <1>2, <1>3, <1>7, <3>1
    <3>3. QED
      BY <1>4, <1>10, <3>2
  <2>4. i \in mark + 1..z
    BY <1>2, <1>3, <1>7, <2>3
  <2>5. InData(ps, k)'
    BY <1>1, <1>3, <2>2, <2>4 DEF InData, d, z
  <2>6. QED
    BY <1>1, <1>8, <2>2, <2>5, StaysInPlace DEF z
<1>11. QED
  BY <1>9, <1>10

LEMMA AlmostEndStep ==
  ASSUME HasBoundary, PostInv, NEW ps, Sent(ps), NEW k \in 1..Len(ps),
         InData(ps, k), AlmostEnd
  PROVE  PartsInv'
<1> DEFINE d == DataAt(ps, k)
           z == EndAt(ps, k)
           n == Len(ps)
<1>1. /\ stage = "parse" /\ pstate = "part_data_almost_end" /\ i < Length
      /\ post' = post /\ vals' = vals /\ mark' = mark
  BY DEF AlmostEnd, At, others
<1>2. L \in Nat /\ L > 0 /\ d \in Nat /\ z \in Nat /\ n \in Nat
  BY SentParts, PlacesOrder
<1>3. Behind(vals, ps, k) /\ mark = d /\ i = z + 2 + L
  BY <1>1 DEF InData
<1>4. i = z + 2 + L => Letter = IF k < n THEN "cr" ELSE "-"
  BY <1>1, LetterHere
<1> HIDE DEF d, z, n
<1>5. i <= z + 3 + L /\ (k < n \/ k = n)
  BY <1>2, <1>3 DEF n
<1>6. Goto(IF k < n THEN "part_data_end" ELSE "part_data_final_hyphen")
  BY <1>3, <1>4 DEF AlmostEnd
<1>7. /\ stage' = "parse" /\ i' = i + 1
      /\ pstate' = IF k < n THEN "part_data_end" ELSE "part_data_final_hyphen"
  BY <1>1, <1>6 DEF Goto
<1>8. i' = z + 3 + L
  BY <1>2, <1>3, <1>7
<1>9. InData(ps, k)'
  BY <1>1, <1>3, <1>5, <1>7, <1>8 DEF InData, d, z, n, L
<1>10. QED
  BY <1>1, <1>5, <1>7, <1>9, StaysInPlace DEF z

LEMMA LastStep ==
  ASSUME HasBoundary, PostInv, NEW ps, Sent(ps), NEW k \in 1..Len(ps),
         InData(ps, k), FinalHyphen
  PROVE  PartsInv'
<1> DEFINE d == DataAt(ps, k)
           z == EndAt(ps, k)
           e == DataLen(ps, k)
           n == Len(ps)
<1>1. /\ stage = "parse" /\ pstate = "part_data_final_hyphen" /\ i < Length /\ post' = post
  BY DEF FinalHyphen, EmitPart, At, others
<1>2. /\ L \in Nat /\ L > 0 /\ d \in Nat /\ z \in Nat /\ n \in Nat /\ e \in Nat
      /\ z = d + e
  BY SentParts, PlacesOrder
<1>3. Behind(vals, ps, k) /\ mark = d /\ i = z + 3 + L /\ k = n
  BY <1>1 DEF InData
<1>4. i = z + 3 + L => Letter = IF k < n THEN "lf" ELSE "-"
  BY <1>1, LetterHere
<1>5. KeptLen(ps, k) = e + IF k < n THEN 2 ELSE 0
  BY DEF KeptLen
<1> HIDE DEF d, z, e, n
<1>6. ~(k < n)
  BY <1>2, <1>3
<1>7. OnData(mark, i - mark - L - 3, "parse") /\ pstate' = "end" /\ i' = i + 1
  BY <1>3, <1>4, <1>6 DEF FinalHyphen, EmitPart, LastLength
<1>8. i - mark - L - 3 = e /\ KeptLen(ps, k) = e
  BY <1>2, <1>3, <1>5, <1>6
<1>9. stage' = "parse" /\ Before(vals', ps, k + 1)
  BY <1>2, <1>3, <1>7, <1>8, DataGiven DEF d
<1>10. BehindAll(ps)'
  BY <1>3, <1>7, <1>9 DEF BehindAll, n
<1>11. InPlace(ps)'
  BY <1>10 DEF InPlace
<1>12. ListRight(vals', ps)
  <2>1. k + 1 \in 1..Len(ps) + 1
    BY <1>2, <1>3 DEF n
  <2>2. QED
    BY <1>9, <2>1 DEF ListRight
<1>13. i <= z + 3 + L
  BY <1>2, <1>3
<1>14. QED
  BY <1>1, <1>7, <1>9, <1>11, <1>12, <1>13, StepDone DEF z

LEMMA NextPartStep ==
  ASSUME HasBoundary, PostInv, NEW ps, Sent(ps), NEW k \in 1..Len(ps),
         InData(ps, k), PartEnd
  PROVE  PartsInv'
<1> DEFINE d == DataAt(ps, k)
           z == EndAt(ps, k)
           e == DataLen(ps, k)
           n == Len(ps)
           q == k + 1
<1>1. /\ stage = "parse" /\ pstate = "part_data_end" /\ i < Length /\ post' = post
  BY DEF PartEnd, EmitPart, At, others
<1>2. /\ L \in Nat /\ L > 0 /\ d \in Nat /\ z \in Nat /\ n \in Nat /\ e \in Nat
      /\ z = d + e /\ HeadAt(ps, q) = z + L + 4
  BY SentParts, PlacesOrder, Offsets
<1>3. Behind(vals, ps, k) /\ mark = d /\ i = z + 3 + L /\ k < n
  BY <1>1 DEF InData
<1>4. i = z + 3 + L => Letter = IF k < n THEN "lf" ELSE "-"
  BY <1>1, LetterHere
<1>5. KeptLen(ps, k) = e + IF k < n THEN 2 ELSE 0
  BY DEF KeptLen
<1> HIDE DEF d, z, e, n
<1>7. OnData(mark, i - mark - L - 1, "parse") /\ pstate' = "header_field_start" /\ i' = i + 1
  BY <1>3, <1>4 DEF PartEnd, EmitPart, PartLength
<1>8. i - mark - L - 1 = e + 2 /\ KeptLen(ps, k) = e + 2 /\ e + 2 \in Nat
  BY <1>2, <1>3, <1>5
<1>9. stage' = "parse" /\ Before(vals', ps, q)
  BY <1>2, <1>3, <1>7, <1>8, DataGiven DEF d
<1>10. q \in 1..Len(ps) /\ q \in 1..Len(ps) + 1
  BY <1>2, <1>3 DEF n
<1>11. i' = HeadAt(ps, q)
  BY <1>2, <1>3, <1>7
<1> HIDE DEF q
<1>12. InHead(ps, q)'
  BY <1>7, <1>9, <1>11 DEF InHead
<1>13. InPlace(ps)'
  BY <1>10, <1>12 DEF InPlace
<1>14. ListRight(vals', ps)
  BY <1>9, <1>10 DEF ListRight
<1>15. i <= z + 3 + L
  BY <1>2, <1>3
<1>16. QED
  BY <1>1, <1>7, <1>9, <1>13, <1>14, <1>15, StepDone DEF z

-----------------------------------------------------------------------------
(***************************************************************************)
(* So the parser stays in place.                                           *)
(***************************************************************************)
(* A letter's step is that of the state the parser is in.                  *)
LEMMA LetterSteps ==
  ASSUME Parse, post.kind = "multipart", i < Length, i \in Int, Length \in Int
  PROVE  /\ post' = post /\ stage = "parse"
         /\ pstate = "start_boundary" => StartBoundary
         /\ pstate \in {"header_field_start", "header_field"} => HeaderField
         /\ pstate \in {"header_value_start", "header_value"} => HeaderValue
         /\ pstate = "header_value_almost_done" => HeaderValueAlmostDone
         /\ pstate = "headers_almost_done" => HeadersAlmostDone
         /\ pstate \in {"part_data_start", "part_data"} => PartData
         /\ pstate = "part_data_almost_boundary" => AlmostBoundary
         /\ pstate = "part_data_boundary" => PartBoundary
         /\ pstate = "part_data_almost_end" => AlmostEnd
         /\ pstate = "part_data_final_hyphen" => FinalHyphen
         /\ pstate = "part_data_end" => PartEnd
         /\ pstate = "end" => Epilogue
<1>1. ~UrlName /\ ~UrlValue /\ ~UrlEnd /\ ~Unparsed /\ ~MultipartEnd
  BY DEF UrlName, UrlValue, UrlEnd, Urlenc, Unparsed, MultipartEnd
<1>2. CASE StartBoundary
  BY <1>2 DEF StartBoundary, At
<1>3. CASE HeaderField
  BY <1>3 DEF HeaderField, At
<1>4. CASE HeaderValue
  BY <1>4 DEF HeaderValue, At, others
<1>5. CASE HeaderValueAlmostDone
  BY <1>5 DEF HeaderValueAlmostDone, OneLetter, At, others
<1>6. CASE HeadersAlmostDone
  BY <1>6 DEF HeadersAlmostDone, OneLetter, At, others
<1>7. CASE PartData
  BY <1>7 DEF PartData, At, others
<1>8. CASE AlmostBoundary
  BY <1>8 DEF AlmostBoundary, At
<1>9. CASE PartBoundary
  BY <1>9 DEF PartBoundary, At
<1>10. CASE AlmostEnd
  BY <1>10 DEF AlmostEnd, At, others
<1>11. CASE FinalHyphen
  BY <1>11 DEF FinalHyphen, EmitPart, At, others
<1>12. CASE PartEnd
  BY <1>12 DEF PartEnd, EmitPart, At, others
<1>13. CASE Epilogue
  BY <1>13 DEF Epilogue, At, others
<1>14. QED
  BY <1>1, <1>2, <1>3, <1>4, <1>5, <1>6, <1>7, <1>8, <1>9, <1>10, <1>11, <1>12, <1>13
  DEF Parse

LEMMA LetterInPlace ==
  ASSUME HasBoundary, PostInv, NEW ps, Sent(ps), PartsInv, Parse, i < Length
  PROVE  PartsInv'
<1>1. /\ i \in Nat /\ Length \in Nat /\ post.kind = "multipart" /\ ps = post.parts
      /\ WellParted(post.parts) /\ Len(ps) \in Nat /\ i \in Int /\ Length \in Int
  BY InType, SentParts DEF Sent
<1>2. post' = post /\ stage = "parse"
  BY <1>1, LetterSteps
<1>3. InPlace(ps) /\ ListRight(vals, ps)
  BY <1>1, <1>2 DEF PartsInv
<1>4. ASSUME NEW k \in 1..Len(ps), InHead(ps, k)
      PROVE  PartsInv'
  <2>1. pstate \in {"start_boundary", "header_field_start", "header_field",
                    "header_value_start", "header_value"}
    BY <1>4 DEF InHead
  <2>2. StartBoundary \/ HeaderField \/ HeaderValue
    BY <1>1, <2>1, LetterSteps
  <2>3. QED
    BY <1>4, <2>2, StartStep, NameFieldStep, NameValueStep
<1>5. ASSUME NEW k \in 1..Len(ps), InRest(ps, k)
      PROVE  PartsInv'
  <2>1. pstate \in {"header_value_almost_done", "header_field_start", "header_field",
                    "header_value_start", "header_value", "headers_almost_done",
                    "part_data_start"}
    BY <1>5 DEF InRest
  <2>2. \/ HeaderField \/ HeaderValue \/ HeadersAlmostDone \/ HeaderValueAlmostDone
        \/ PartData
    BY <1>1, <2>1, LetterSteps
  <2>3. QED
    BY <1>5, <2>2, RestFieldStep, RestValueStep, RestLineStep, DataStep
<1>6. ASSUME NEW k \in 1..Len(ps), InData(ps, k)
      PROVE  PartsInv'
  <2>1. pstate \in {"part_data", "part_data_almost_boundary", "part_data_boundary",
                    "part_data_almost_end", "part_data_end", "part_data_final_hyphen"}
    BY <1>6 DEF InData
  <2>2. \/ PartData \/ AlmostBoundary \/ PartBoundary \/ AlmostEnd \/ FinalHyphen
        \/ PartEnd
    BY <1>1, <2>1, LetterSteps
  <2>3. QED
    BY <1>6, <2>2, DataStep, LineEndStep, BoundaryStep, AlmostEndStep, LastStep, NextPartStep
<1>7. ASSUME BehindAll(ps)
      PROVE  PartsInv'
  <2>1. pstate = "end" /\ Before(vals, ps, Len(ps) + 1)
    BY <1>7 DEF BehindAll
  <2>2. Epilogue
    BY <1>1, <2>1, LetterSteps
  <2>3. stage' = "parse" /\ pstate' = "end" /\ vals' = vals
    BY <1>2, <2>2 DEF Epilogue, Goto
  <2>4. post'.parts = ps /\ Before(vals', ps, Len(ps) + 1)
    BY <1>1, <1>2, <2>1, <2>3
  <2>5. InPlace(ps)' /\ ListRight(vals', ps)
    BY <1>3, <2>3, <2>4 DEF InPlace, BehindAll
  <2>6. QED
    BY <2>4, <2>5 DEF PartsInv
<1>8. QED
  BY <1>3, <1>4, <1>5, <1>6, <1>7 DEF InPlace

LEMMA InitPartsInv ==
  ASSUME HasBoundary, post \in PostShape, IsMeant(post), Init
  PROVE  PartsInv
<1>1. PostInv
  BY InitPostInv
<1>2. SUFFICES ASSUME NEW ps, ps = post.parts, post.kind = "multipart", WellParted(ps)
               PROVE  PartsInv
  BY DEF PartsInv
<1>3. Sent(ps)
  BY <1>2 DEF Sent
<1>4. Len(ps) \in Nat /\ Len(ps) > 0 /\ AllNamed(ps)
  BY <1>1, <1>3, SentParts
<1>5. /\ stage = IF post.got THEN "parse" ELSE "toxml"
      /\ pstate = "start_boundary" /\ i = 0 /\ index = 0 /\ vals = <<>>
  BY <1>2 DEF Init
<1>6. Before(vals, ps, 1)
  <2>1. Len(vals) = 1 - 1 /\ \A j \in 1..1 - 1 : FALSE
    BY <1>5, EmptySeq
  <2>2. QED
    BY <2>1 DEF Before, AllBefore
<1>7. 1 \in 1..Len(ps) /\ 1 \in 1..Len(ps) + 1 /\ L \in Nat
  BY <1>4, LenProperties DEF HasBoundary, L
<1>8. ListRight(vals, ps)
  BY <1>6, <1>7 DEF ListRight
<1>9. InPlace(ps)
  <2>1. i = index /\ i <= L + 1
    BY <1>5, <1>7
  <2>2. InHead(ps, 1)
    BY <1>5, <1>6, <2>1 DEF InHead
  <2>3. QED
    BY <1>7, <2>2 DEF InPlace
<1>10. i = Length => IsCut(ps)
  <2> DEFINE n == Len(ps)
  <2>1. n \in 1..Len(ps)
    BY <1>4
  <2> HIDE DEF n
  <2>2. EndAt(ps, n) \in Nat
    BY <1>4, <2>1, Offsets
  <2>3. 0 <= EndAt(ps, n) + 4 + L
    BY <1>7, <2>2
  <2>4. QED
    BY <1>5, <2>3 DEF IsCut, n
<1>11. QED
  BY <1>2, <1>5, <1>8, <1>9, <1>10 DEF PartsInv

LEMMA PartsInvNext ==
  ASSUME HasBoundary, PostInv, IsMeant(post), PartsInv, PostStep
  PROVE  PartsInv'
<1>1. post' = post
  BY DEF PostStep, Parse, vars, others, ToXml, UrlName, UrlValue, UrlEnd, StartBoundary,
     HeaderField, HeadersAlmostDone, HeaderValue, HeaderValueAlmostDone, OneLetter, PartData,
     AlmostBoundary, PartBoundary, AlmostEnd, FinalHyphen, PartEnd, EmitPart, Epilogue,
     MultipartEnd, Unparsed
<1>2. SUFFICES ASSUME NEW ps, ps = post.parts, post.kind = "multipart", WellParted(ps)
               PROVE  PartsInv'
  BY <1>1 DEF PartsInv, WellParted
<1>3. Sent(ps)
  BY <1>2 DEF Sent
<1>4. i \in Nat /\ Length \in Nat /\ i <= Length
  BY InType
<1>5. CASE Parse /\ i < Length
  BY <1>3, <1>5, LetterInPlace
<1>6. ASSUME vals' = vals, i' = i, stage' # "parse", i = Length \/ stage # "parse"
      PROVE  PartsInv'
  <2>1. Length' = Length /\ IsCut(ps)' = IsCut(ps) /\ post'.parts = ps
    BY <1>1, <1>2 DEF Length, IsCut, L
  <2>2. /\ ListRight(vals, ps)
        /\ post.got => IsCut(ps) \/ Before(vals, ps, Len(ps) + 1)
    BY <1>2, <1>6 DEF PartsInv
  <2>3. /\ ListRight(vals', ps)
        /\ post'.got => IsCut(ps)' \/ Before(vals', ps, Len(ps) + 1)
    BY <1>1, <1>6, <2>1, <2>2
  <2>4. QED
    BY <1>6, <2>1, <2>3 DEF PartsInv
<1>7. CASE Parse /\ ~(i < Length)
  <2>1. MultipartEnd
    BY <1>2, <1>7 DEF Parse, UrlName, UrlValue, UrlEnd, Urlenc, StartBoundary, HeaderField,
       HeadersAlmostDone, HeaderValue, HeaderValueAlmostDone, OneLetter, PartData,
       AlmostBoundary, PartBoundary, AlmostEnd, FinalHyphen, PartEnd, EmitPart, Epilogue,
       Unparsed, At
  <2>2. vals' = vals /\ i' = i /\ stage' # "parse" /\ i = Length
    BY <2>1 DEF MultipartEnd
  <2>3. QED
    BY <1>6, <2>2
<1>8. CASE ToXml
  <2>1. vals' = vals /\ i' = i /\ stage' \in {"written", "crashed"} /\ stage = "toxml"
    BY <1>8 DEF ToXml
  <2>2. QED
    BY <1>6, <2>1
<1>9. CASE UNCHANGED vars
  <2>1. /\ stage' = stage /\ pstate' = pstate /\ i' = i /\ mark' = mark /\ index' = index
        /\ isContent' = isContent /\ vals' = vals
    BY <1>9 DEF vars
  <2>2. /\ Length' = Length /\ IsCut(ps)' = IsCut(ps) /\ InPlace(ps)' = InPlace(ps)
        /\ post'.parts = ps /\ post'.got = post.got
    BY <1>1, <1>2, <2>1 DEF Length, IsCut, InPlace, InHead, InRest, InData, BehindAll, Matched,
       L
  <2>3. QED
    BY <1>2, <2>1, <2>2 DEF PartsInv
<1>10. QED
  BY <1>5, <1>7, <1>8, <1>9 DEF PostStep

-----------------------------------------------------------------------------
(***************************************************************************)
(* And what is in the list is what was meant.                              *)
(***************************************************************************)
LEMMA TextSpelled ==
  ASSUME NEW b \in Seq(Letters), NEW s \in Seq(Letters), NEW at \in Nat, NEW len \in Nat,
         Spells(b, at, s), len <= Len(s), at + len <= Len(b)
  PROVE  /\ IsPrefix(SubSeq(b, at + 1, at + len), s)
         /\ len = Len(s) => SubSeq(b, at + 1, at + len) = s
<1> DEFINE u == SubSeq(b, at + 1, at + len)
<1>1. Len(b) \in Nat /\ Len(s) \in Nat
  BY LenProperties
<1>2. u \in Seq(Letters) /\ Len(u) = len
  <2>1. \A j \in at + 1..at + len : b[j] \in Letters
    <3>1. \A j \in at + 1..at + len : j \in 1..Len(b)
      BY <1>1
    <3>2. QED
      BY <3>1, ElementOfSeq
  <2>2. /\ u \in Seq(Letters)
        /\ Len(u) = IF at + 1 <= at + len THEN (at + len) - (at + 1) + 1 ELSE 0
    BY <2>1, SubSeqProperties
  <2>3. Len(u) = len
    BY <2>2
  <2>4. QED
    BY <2>2, <2>3
<1>3. \A j \in 1..len : u[j] = b[at + j]
  OBVIOUS
<1> HIDE DEF u
<1>4. ASSUME NEW j \in 1..len
      PROVE  u[j] = s[j]
  <2>1. j \in 1..Len(s) /\ at + j <= Len(b)
    BY <1>1
  <2>2. QED
    BY <1>3, <2>1 DEF Spells
<1>5. IsPrefix(u, s)
  BY <1>2, <1>4, PrefixIf
<1>6. len = Len(s) => u = s
  BY <1>2, <1>4, SeqEqual
<1>7. QED
  BY <1>5, <1>6 DEF u

(* The data with the line end behind it.                                   *)
LEMMA DataLine ==
  ASSUME HasBoundary, PostInv, NEW ps, Sent(ps), NEW k \in 1..Len(ps)
  PROVE  LET data == ps[k].data IN
         /\ data \in Seq(Letters) /\ Len(data) = DataLen(ps, k)
         /\ data \o EndOfLine \in Seq(Letters)
         /\ Len(data \o EndOfLine) = DataLen(ps, k) + 2
         /\ Spells(post.body, DataAt(ps, k), data)
         /\ Spells(post.body, DataAt(ps, k), data \o EndOfLine)
<1> DEFINE data == ps[k].data
           b == post.body
           d == DataAt(ps, k)
           z == EndAt(ps, k)
           e == DataLen(ps, k)
           f == EndOfLine
           c == data \o f
<1>1. /\ Spells(b, d, data) /\ Has(b, z, "cr") /\ Has(b, z + 1, "lf")
      /\ b \in Seq(STRING)
  BY SentParts, PartLetters
<1>2. z = d + e /\ d \in Nat /\ e \in Nat
  BY SentParts, PlacesOrder
<1>3. data \in Seq(Letters) /\ Len(data) = e
  <2>1. ps[k] \in PartShape
    BY SentParts, EncodedParts
  <2>2. data \in Seq(STRING) /\ Len(data) = e
    BY <2>1 DEF PartShape, DataLen
  <2> HIDE DEF data
  <2>3. QED
    BY <2>2, SeqMonotonic DEF Letters
<1>4. f \in Seq(Letters) /\ Len(f) = 2
  BY Literals
<1>5. f[1] = "cr" /\ f[2] = "lf"
  BY DEF EndOfLine
<1> HIDE DEF f, data, b, d, z, e
<1>6. /\ c \in Seq(Letters) /\ Len(c) = e + 2
      /\ \A j \in 1..Len(data) + Len(f) :
           c[j] = IF j <= Len(data) THEN data[j] ELSE f[j - Len(data)]
  <2>1. /\ data \o f \in Seq(Letters) /\ Len(data \o f) = Len(data) + Len(f)
        /\ \A j \in 1..Len(data) + Len(f) :
             (data \o f)[j] = IF j <= Len(data) THEN data[j] ELSE f[j - Len(data)]
    BY <1>3, <1>4, ConcatProperties
  <2> HIDE DEF c
  <2>2. c = data \o f
    BY DEF c
  <2>3. QED
    BY <1>3, <1>4, <2>1, <2>2
<1> HIDE DEF c
<1>7. ASSUME NEW j \in 1..e + 2, d + j <= Len(b)
      PROVE  b[d + j] = c[j]
  <2>1. c[j] = IF j <= e THEN data[j] ELSE f[j - e]
    BY <1>3, <1>4, <1>6
  <2>2. j <= e \/ j = e + 1 \/ j = e + 2
    BY <1>2
  <2>3. CASE j <= e
    <3>1. j \in 1..e /\ c[j] = data[j]
      BY <1>2, <2>1, <2>3
    <3>2. QED
      BY <1>1, <1>3, <1>7, <3>1 DEF Spells
  <2>4. CASE j = e + 1
    <3>1. j - e = 1 /\ ~(j <= e) /\ d + j = z + 1
      BY <1>2, <2>4
    <3>2. z < Len(b)
      BY <1>1, <1>2, <1>7, <3>1, LenProperties
    <3>3. QED
      BY <1>1, <1>5, <2>1, <3>1, <3>2 DEF Has
  <2>5. CASE j = e + 2
    <3>1. j - e = 2 /\ ~(j <= e) /\ d + j = (z + 1) + 1
      BY <1>2, <2>5
    <3>2. z + 1 < Len(b)
      BY <1>1, <1>2, <1>7, <3>1, LenProperties
    <3>3. QED
      BY <1>1, <1>5, <2>1, <3>1, <3>2 DEF Has
  <2>6. QED
    BY <2>2, <2>3, <2>4, <2>5
<1>8. Spells(b, d, c)
  BY <1>6, <1>7 DEF Spells
<1>9. QED
  BY <1>1, <1>3, <1>6, <1>8 DEF data, b, d, e, f, c

(* A piece that is as long as what is spelled there, or shorter.           *)
LEMMA PieceText ==
  ASSUME PostInv, NEW piece, Inside(piece, Length), NEW s \in Seq(Letters),
         Spells(post.body, piece.at, s), piece.len <= Len(s)
  PROVE  /\ IsPrefix(Text(piece), s)
         /\ piece.len = Len(s) => Text(piece) = s
<1>1. piece.at \in Nat /\ piece.len \in Nat /\ piece.at + piece.len <= Length
  BY DEF Inside, Pieces
<1>2. post.body \in Seq(Letters) /\ Length = Len(post.body)
  <2>1. post.body \in Seq(STRING)
    BY DEF PostInv, Typed, PostShape
  <2>2. QED
    BY <2>1, SeqMonotonic DEF Letters, Length
<1> DEFINE at == piece.at
           len == piece.len
           b == post.body
<1>3. /\ at \in Nat /\ len \in Nat /\ at + len <= Len(b) /\ b \in Seq(Letters)
      /\ Spells(b, at, s) /\ len <= Len(s) /\ Text(piece) = SubSeq(b, at + 1, at + len)
  BY <1>1, <1>2 DEF Text
<1> HIDE DEF at, len, b
<1>4. /\ IsPrefix(SubSeq(b, at + 1, at + len), s)
      /\ len = Len(s) => SubSeq(b, at + 1, at + len) = s
  BY <1>3, TextSpelled
<1>5. QED
  BY <1>3, <1>4 DEF len

(* A part that was found, and one in which the body ends.                  *)
LEMMA FoundText ==
  ASSUME HasBoundary, PostInv, NEW ps, Sent(ps), NEW k \in 1..Len(ps), k \in 1..Len(vals),
         vals[k] = FoundPart(ps, k)
  PROVE  /\ Text(vals[k].name) = ps[k].name /\ IsPrefix(Text(vals[k].name), ps[k].name)
         /\ k < Len(ps) => Text(vals[k].value) = ps[k].data \o EndOfLine
         /\ k = Len(ps) => Text(vals[k].value) = ps[k].data
         /\ IsPrefix(Text(vals[k].value), ps[k].data \o EndOfLine)
<1> DEFINE data == ps[k].data
           line == data \o EndOfLine
           name == ps[k].name
           x == vals[k].name
           y == vals[k].value
<1>1. Inside(x, Length) /\ Inside(y, Length)
  BY InType DEF ListIn
<1>2. /\ x.at = NameAt(ps, k) /\ x.len = NameLen(ps, k)
      /\ y.at = DataAt(ps, k) /\ y.len = KeptLen(ps, k)
  BY DEF FoundPart, Piece
<1>3. /\ data \in Seq(Letters) /\ Len(data) = DataLen(ps, k)
      /\ line \in Seq(Letters) /\ Len(line) = DataLen(ps, k) + 2
      /\ Spells(post.body, DataAt(ps, k), data) /\ Spells(post.body, DataAt(ps, k), line)
  BY DataLine
<1>4. name \in Seq(Letters) /\ Len(name) = NameLen(ps, k)
  <2>1. ps[k] \in PartShape
    BY SentParts, EncodedParts
  <2>2. name \in Seq(STRING) /\ Len(name) = NameLen(ps, k)
    BY <2>1 DEF PartShape, NameLen
  <2> HIDE DEF name
  <2>3. QED
    BY <2>2, SeqMonotonic DEF Letters
<1>5. Spells(post.body, NameAt(ps, k), name) /\ NameLen(ps, k) \in Nat /\ DataLen(ps, k) \in Nat
  <2>1. /\ Spells(post.body, HeadAt(ps, k) + 4, name) /\ NameAt(ps, k) = HeadAt(ps, k) + 4
        /\ NameLen(ps, k) \in Nat /\ DataLen(ps, k) \in Nat
    BY SentParts, PartLetters, PlacesOrder
  <2>2. QED
    BY <2>1
<1>6. KeptLen(ps, k) = DataLen(ps, k) + IF k < Len(ps) THEN 2 ELSE 0
  BY DEF KeptLen
<1> HIDE DEF data, line, name, x, y
<1>7. Text(x) = name /\ IsPrefix(Text(x), name)
  <2>1. x.len <= Len(name) /\ x.len = Len(name) /\ Spells(post.body, x.at, name)
    BY <1>2, <1>4, <1>5
  <2>2. QED
    BY <1>1, <1>4, <2>1, PieceText
<1>8. IsPrefix(Text(y), line) /\ (k < Len(ps) => Text(y) = line)
  <2>1. /\ y.len <= Len(line) /\ (k < Len(ps) => y.len = Len(line))
        /\ Spells(post.body, y.at, line)
    BY <1>2, <1>3, <1>5, <1>6
  <2>2. QED
    BY <1>1, <1>3, <2>1, PieceText
<1>9. ASSUME k = Len(ps)
      PROVE  Text(y) = data
  <2>1. Len(ps) \in Nat
    BY SentParts
  <2>2. y.len = Len(data) /\ y.len <= Len(data) /\ Spells(post.body, y.at, data)
    BY <1>2, <1>3, <1>5, <1>6, <1>9, <2>1
  <2>3. QED
    BY <1>1, <1>3, <2>2, PieceText
<1>10. QED
  BY <1>7, <1>8, <1>9 DEF data, line, name, x, y

LEMMA CutText ==
  ASSUME HasBoundary, PostInv, NEW ps, Sent(ps), NEW k \in 1..Len(ps), CutIn(vals, ps, k)
  PROVE  /\ IsPrefix(Text(vals[k].name), ps[k].name)
         /\ IsPrefix(Text(vals[k].value), ps[k].data \o EndOfLine)
<1> DEFINE line == ps[k].data \o EndOfLine
           name == ps[k].name
           x == vals[k].name
           y == vals[k].value
<1>1. Inside(x, Length) /\ Inside(y, Length)
  BY InType DEF ListIn, CutIn
<1>2. /\ x.at = NameAt(ps, k) /\ x.len <= NameLen(ps, k)
      /\ \/ y = Unset
         \/ y.at = DataAt(ps, k) /\ y.len <= DataLen(ps, k) + 2
  BY DEF CutIn
<1>3. /\ line \in Seq(Letters) /\ Len(line) = DataLen(ps, k) + 2
      /\ Spells(post.body, DataAt(ps, k), line)
  BY DataLine
<1>4. name \in Seq(Letters) /\ Len(name) = NameLen(ps, k)
  <2>1. ps[k] \in PartShape
    BY SentParts, EncodedParts
  <2>2. name \in Seq(STRING) /\ Len(name) = NameLen(ps, k)
    BY <2>1 DEF PartShape, NameLen
  <2> HIDE DEF name
  <2>3. QED
    BY <2>2, SeqMonotonic DEF Letters
<1>5. Spells(post.body, NameAt(ps, k), name) /\ DataLen(ps, k) \in Nat
  <2>1. /\ Spells(post.body, HeadAt(ps, k) + 4, name) /\ NameAt(ps, k) = HeadAt(ps, k) + 4
        /\ DataLen(ps, k) \in Nat
    BY SentParts, PartLetters, PlacesOrder
  <2>2. QED
    BY <2>1
<1> HIDE DEF line, name, x, y
<1>6. IsPrefix(Text(x), name)
  BY <1>1, <1>2, <1>4, <1>5, PieceText
<1>7. IsPrefix(Text(y), line)
  <2>1. CASE y = Unset
    <3>1. Text(y) = SubSeq(post.body, 1, 0)
      BY <2>1 DEF Text, Unset, Piece
    <3>2. Text(y) = <<>>
      BY <3>1, SubSeqEmpty
    <3>3. <<>> \in Seq(Letters) /\ Len(<<>>) = 0 /\ Len(<<>>) <= Len(line)
      BY <1>3, <1>5, EmptySeq
    <3>4. \A j \in 1..Len(<<>>) : <<>>[j] = line[j]
      BY <3>3
    <3>5. IsPrefix(<<>>, line)
      BY <1>3, <3>3, <3>4, PrefixIf
    <3>6. QED
      BY <3>2, <3>5
  <2>2. CASE y.at = DataAt(ps, k) /\ y.len <= DataLen(ps, k) + 2
    <3>1. Spells(post.body, y.at, line) /\ y.len <= Len(line)
      BY <1>3, <2>2
    <3>2. QED
      BY <1>1, <1>3, <3>1, PieceText
  <2>3. QED
    BY <1>2, <2>1, <2>2
<1>8. QED
  BY <1>6, <1>7 DEF line, name, x, y

LEMMA PartsInvFound ==
  ASSUME HasBoundary, PostInv, IsMeant(post), PartsInv
  PROVE  PartsFound /\ CutPartsTrue
<1>1. SUFFICES ASSUME NEW ps, ps = post.parts, post.kind = "multipart", WellParted(ps),
                      stage = "written"
               PROVE  PartsFound /\ CutPartsTrue
  BY DEF PartsFound, CutPartsTrue, WholeParts
<1> DEFINE n == Len(ps)
<1>2. Sent(ps) /\ ListRight(vals, ps)
  BY <1>1 DEF Sent, PartsInv
<1>3. n \in Nat /\ n > 0 /\ AllNamed(ps) /\ Length = Len(post.body)
  BY <1>2, SentParts
<1>4. ASSUME NEW q, Before(vals, ps, q), q \in 1..n + 1
      PROVE  Len(vals) = q - 1 /\ \A k \in 1..Len(vals) : vals[k] = FoundPart(ps, k)
  BY <1>4 DEF Before, AllBefore
<1>5. PartsFound
  <2>1. SUFFICES ASSUME post.got, post.body = EncodeParts(ps)
                 PROVE  /\ Names = [k \in 1..n |-> ps[k].name]
                        /\ Values = [k \in 1..n |->
                             ps[k].data \o IF k < n THEN EndOfLine ELSE <<>>]
    BY <1>1 DEF PartsFound, WholeParts
  <2>2. ~IsCut(ps)
    <3>1. Len(EncodeParts(ps)) = PartAt(ps, n + 1) + L + 4
      <4>1. post.body \in Seq(STRING) /\ IsPrefix(post.body, EncodeParts(ps))
        BY <1>2, SentParts
      <4>2. QED
        BY <1>3, <4>1, BodySpelled
    <3>2. PartAt(ps, n + 1) = EndAt(ps, n) + 2 /\ EndAt(ps, n) \in Nat /\ L \in Nat
      <4>1. n \in 1..Len(ps)
        BY <1>3
      <4> HIDE DEF n
      <4>2. QED
        BY <1>3, <4>1, Offsets
    <3>3. Length = EndAt(ps, n) + 2 + L + 4
      BY <1>3, <2>1, <3>1, <3>2
    <3>4. ~(Length <= EndAt(ps, n) + 4 + L)
      BY <3>2, <3>3
    <3>5. QED
      BY <3>4 DEF IsCut
  <2>3. Before(vals, ps, n + 1)
    BY <1>1, <2>1, <2>2 DEF PartsInv
  <2>4. n + 1 \in 1..n + 1 /\ (n + 1) - 1 = n
    BY <1>3
  <2>5. Len(vals) = n /\ \A k \in 1..n : vals[k] = FoundPart(ps, k)
    BY <1>4, <2>3, <2>4
  <2>6. ASSUME NEW k \in 1..n
        PROVE  /\ Text(vals[k].name) = ps[k].name
               /\ Text(vals[k].value) = ps[k].data \o IF k < n THEN EndOfLine ELSE <<>>
    <3>1. /\ Text(vals[k].name) = ps[k].name
          /\ k < Len(ps) => Text(vals[k].value) = ps[k].data \o EndOfLine
          /\ k = Len(ps) => Text(vals[k].value) = ps[k].data
      BY <1>2, <2>5, FoundText
    <3>2. ps[k].data \o <<>> = ps[k].data
      <4>1. ps[k].data \in Seq(Letters)
        BY <1>2, DataLine
      <4>2. QED
        BY <4>1, ConcatEmptySeq
    <3>3. k < n \/ (k = n /\ ~(k < n))
      BY <1>3
    <3>4. QED
      BY <3>1, <3>2, <3>3
  <2> HIDE DEF n
  <2>7. QED
    BY <2>5, <2>6 DEF Names, Values
<1>6. ASSUME NEW k \in 1..n, k \in 1..Len(vals), vals[k] = FoundPart(ps, k)
      PROVE  /\ IsPrefix(Names[k], ps[k].name)
             /\ IsPrefix(Values[k], ps[k].data \o EndOfLine)
             /\ k < n => Names[k] = ps[k].name /\ Values[k] = ps[k].data \o EndOfLine
  <2>1. Names[k] = Text(vals[k].name) /\ Values[k] = Text(vals[k].value)
    BY <1>6 DEF Names, Values
  <2>2. /\ Text(vals[k].name) = ps[k].name /\ IsPrefix(Text(vals[k].name), ps[k].name)
        /\ k < Len(ps) => Text(vals[k].value) = ps[k].data \o EndOfLine
        /\ IsPrefix(Text(vals[k].value), ps[k].data \o EndOfLine)
    BY <1>2, <1>6, FoundText
  <2>3. QED
    BY <2>1, <2>2
<1>7. CutPartsTrue
  <2>1. SUFFICES /\ Len(vals) <= n
                 /\ \A k \in 1..Len(vals) :
                      /\ IsPrefix(Names[k], ps[k].name)
                      /\ IsPrefix(Values[k], ps[k].data \o EndOfLine)
                      /\ k < Len(vals) =>
                           Names[k] = ps[k].name /\ Values[k] = ps[k].data \o EndOfLine
    BY <1>1 DEF CutPartsTrue
  <2>2. CASE \E q \in 1..n + 1 : Before(vals, ps, q)
    <3>1. PICK q \in 1..n + 1 : Before(vals, ps, q)
      BY <2>2
    <3>2. Len(vals) = q - 1 /\ \A k \in 1..Len(vals) : vals[k] = FoundPart(ps, k)
      BY <1>4, <3>1
    <3>3. Len(vals) <= n /\ \A k \in 1..Len(vals) : k \in 1..n /\ (k < Len(vals) => k < n)
      BY <1>3, <3>2
    <3> HIDE DEF n
    <3>4. QED
      BY <1>6, <3>2, <3>3
  <2>3. CASE \E q \in 1..n : CutIn(vals, ps, q)
    <3>1. PICK q \in 1..n : CutIn(vals, ps, q)
      BY <2>3
    <3>2. Len(vals) = q /\ \A k \in 1..q - 1 : vals[k] = FoundPart(ps, k)
      BY <3>1 DEF CutIn, AllBefore
    <3>3. /\ q <= n /\ q \in 1..q
          /\ \A k \in 1..q :
               /\ k \in 1..n
               /\ \/ k = q /\ ~(k < q)
                  \/ k \in 1..q - 1 /\ k < n
      <4>1. q \in Nat /\ q >= 1 /\ q <= n
        BY <1>3
      <4>2. ASSUME NEW k \in 1..q
            PROVE  /\ k \in 1..n
                   /\ \/ k = q /\ ~(k < q)
                      \/ k \in 1..q - 1 /\ k < n
        BY <1>3, <4>1
      <4>3. QED
        BY <4>1, <4>2
    <3>4. /\ IsPrefix(Names[q], ps[q].name)
          /\ IsPrefix(Values[q], ps[q].data \o EndOfLine)
      <4>1. /\ IsPrefix(Text(vals[q].name), ps[q].name)
            /\ IsPrefix(Text(vals[q].value), ps[q].data \o EndOfLine)
        BY <1>2, <3>1, CutText
      <4>2. Names[q] = Text(vals[q].name) /\ Values[q] = Text(vals[q].value)
        BY <3>2, <3>3 DEF Names, Values
      <4>3. QED
        BY <4>1, <4>2
    <3> HIDE DEF n
    <3>5. ASSUME NEW k \in 1..q
          PROVE  /\ IsPrefix(Names[k], ps[k].name)
                 /\ IsPrefix(Values[k], ps[k].data \o EndOfLine)
                 /\ k < q => Names[k] = ps[k].name /\ Values[k] = ps[k].data \o EndOfLine
      <4>1. CASE k = q /\ ~(k < q)
        BY <3>4, <4>1
      <4>2. CASE k \in 1..q - 1 /\ k < n
        BY <1>6, <3>2, <3>3, <4>2
      <4>3. QED
        BY <3>3, <4>1, <4>2
    <3>6. QED
      BY <3>2, <3>3, <3>5
  <2>4. QED
    BY <1>2, <2>2, <2>3 DEF ListRight
<1>8. QED
  BY <1>5, <1>7
==============================================================================
