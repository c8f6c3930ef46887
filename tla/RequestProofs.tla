---------------------------- MODULE RequestProofs ----------------------------
(***************************************************************************)
(* Theorems about a worker's request, for every path, body and boundary    *)
(* that the assumptions allow: what PostDataProofs shows of the post data, *)
(* and here of the area the message is written in and of the path that is  *)
(* decoded, mapped to a folder and written.                                *)
(***************************************************************************)
EXTENDS Request, Induction, SequenceTheorems, FiniteSetTheorems

Found == INSTANCE PostDataProofs WITH i <- offset

-----------------------------------------------------------------------------
(***************************************************************************)
(* The message: StrBuffer, for every size of the first area and every      *)
(* sequence of appends.  Byte need not have the backslash: Char has it.    *)
(***************************************************************************)
Char == Byte \cup {Backslash}

\* What val_append has in hand is nothing while it is not running.
Idle == ~inval => tail = <<>> /\ todo = <<>>

IInv == TypeOK /\ InArea /\ Idle

\* An extension by what is needed leaves at least that much more room.
LEMMA ExtendedEnough ==
  ASSUME maxlen \in Nat, NEW needed \in Nat
  PROVE  /\ Extended(needed) \in Nat
         /\ Extended(needed) >= maxlen + needed
  BY SizesAssumption DEF Extended

\* A letter takes one or two characters.
LEMMA EscapeType ==
  ASSUME NEW let \in Byte
  PROVE  /\ Escape(let) \in Seq(Char)
         /\ Len(Escape(let)) \in Nat
         /\ Len(Escape(let)) <= 2
<1>1. CASE let \in Special
  <2>1. Escape(let) = <<Backslash, let>>
    BY <1>1 DEF Escape
  <2> QED
    BY <2>1 DEF Char
<1>2. CASE let \notin Special
  <2>1. Escape(let) = <<let>>
    BY <1>2 DEF Escape
  <2> QED
    BY <2>1 DEF Char
<1> QED
  BY <1>1, <1>2

\* Behind MakeRoom there is room for two characters and the NUL.
LEMMA RoomMade ==
  ASSUME TypeOK, InArea, MakeRoom
  PROVE  /\ maxlen' \in Nat
         /\ lost' \in BOOLEAN
         /\ KeptTail \in Seq(Char)
         /\ Len(KeptTail) \in Nat
         /\ Len(content) \in Nat
         /\ Len(content) + Len(KeptTail) + 3 <= maxlen'
<1>1. maxlen \in Nat /\ Len(content) \in Nat /\ Len(tail) \in Nat /\ tail \in Seq(Char)
  BY DEF TypeOK, Char
<1>2. lost' \in BOOLEAN
  BY DEF TypeOK, MakeRoom, NearlyFull
<1>3. CASE NearlyFull
  <2>1. KeptTail = <<>> /\ maxlen' = Extended(2)
    BY <1>3 DEF KeptTail, MakeRoom
  <2>2. Extended(2) \in Nat /\ Extended(2) >= maxlen + 2
    BY <1>1, ExtendedEnough
  <2> QED
    BY <1>1, <1>2, <2>1, <2>2 DEF InArea
<1>4. CASE ~NearlyFull
  <2>1. KeptTail = tail /\ maxlen' = maxlen
    BY <1>4 DEF KeptTail, MakeRoom
  <2> QED
    BY <1>1, <1>2, <1>4, <2>1 DEF NearlyFull, MaxPos
<1> QED
  BY <1>3, <1>4

-----------------------------------------------------------------------------
(***************************************************************************)
(* The type, and that all is in the area.                                  *)
(***************************************************************************)
LEMMA InitIInv == Init => IInv
<1> SUFFICES ASSUME Init PROVE IInv
  OBVIOUS
<1>1. TypeOK
  <2>1. <<>> \in Seq(Byte) /\ <<>> \in Seq(Byte \cup {Backslash})
    OBVIOUS
  <2>2. BufLen \in Nat
    BY SizesAssumption
  <2> QED
    BY <2>1, <2>2 DEF Init, TypeOK
<1>2. Len(content) = 0 /\ Len(tail) = 0 /\ maxlen \in Nat \ {0}
  BY SizesAssumption DEF Init
<1>3. InArea
  BY <1>2 DEF InArea
<1>4. Idle
  BY DEF Init, Idle
<1> QED
  BY <1>1, <1>3, <1>4 DEF IInv

LEMMA AppendIInv ==
  ASSUME IInv, NEW s \in Seq(Byte), StrAppend(s)
  PROVE  IInv'
<1> DEFINE end == Len(content) + Len(s)
<1>1. /\ ~inval /\ tail = <<>> /\ todo = <<>>
      /\ maxlen \in Nat
      /\ content \in Seq(Char) /\ text \in Seq(Char) /\ s \in Seq(Char)
  BY DEF IInv, TypeOK, Idle, StrAppend, Char
<1>2. /\ content' = content \o s
      /\ text' = text \o s
      /\ maxlen' = IF end > MaxPos THEN Extended(end - MaxPos) ELSE maxlen
      /\ UNCHANGED <<tail, todo, inval, lost>>
  BY DEF StrAppend
<1>3. /\ content' \in Seq(Char) /\ text' \in Seq(Char)
      /\ Len(content') = end
      /\ end \in Nat
  BY <1>1, <1>2, ConcatProperties
<1>4. maxlen' \in Nat /\ end + 1 <= maxlen'
  <2>1. CASE end > MaxPos
    <3>1. end - MaxPos \in Nat
      BY <1>1, <1>3, <2>1 DEF MaxPos
    <3>2. Extended(end - MaxPos) \in Nat /\ Extended(end - MaxPos) >= maxlen + (end - MaxPos)
      BY <1>1, <3>1, ExtendedEnough
    <3> QED
      BY <1>1, <1>2, <1>3, <2>1, <3>2 DEF MaxPos
  <2>2. CASE ~(end > MaxPos)
    BY <1>1, <1>2, <1>3, <2>2 DEF MaxPos
  <2> QED
    BY <2>1, <2>2
<1>5. TypeOK'
  BY <1>2, <1>3, <1>4 DEF IInv, TypeOK, Char
<1>6. InArea' /\ Idle'
  BY <1>1, <1>2, <1>3, <1>4 DEF InArea, Idle
<1> QED
  BY <1>5, <1>6 DEF IInv

LEMMA BeginIInv ==
  ASSUME IInv, NEW val \in Seq(Byte), ValBegin(val)
  PROVE  IInv'
  BY DEF IInv, TypeOK, InArea, Idle, ValBegin

LEMMA LetterIInv ==
  ASSUME IInv, ValLetter
  PROVE  IInv'
<1> DEFINE let == Head(todo)
           escaped == Escape(let)
<1>1. let \in Byte /\ Tail(todo) \in Seq(Byte)
  BY HeadTailProperties DEF IInv, TypeOK, ValLetter
<1>2. escaped \in Seq(Char) /\ Len(escaped) \in Nat /\ Len(escaped) <= 2
  BY <1>1, EscapeType
<1>3. /\ maxlen' \in Nat /\ lost' \in BOOLEAN
      /\ KeptTail \in Seq(Char) /\ Len(KeptTail) \in Nat /\ Len(content) \in Nat
      /\ Len(content) + Len(KeptTail) + 3 <= maxlen'
  BY RoomMade DEF IInv, ValLetter
<1>4. /\ tail' = KeptTail \o escaped
      /\ text' = text \o escaped
      /\ todo' = Tail(todo)
      /\ inval /\ UNCHANGED <<content, inval>>
  BY DEF ValLetter
<1>5. /\ tail' \in Seq(Char)
      /\ Len(tail') = Len(KeptTail) + Len(escaped)
  BY <1>2, <1>3, <1>4, ConcatProperties
<1>6. text' \in Seq(Char)
  BY <1>2, <1>4, ConcatProperties DEF IInv, TypeOK, Char
<1>7. TypeOK'
  BY <1>1, <1>3, <1>4, <1>5, <1>6 DEF IInv, TypeOK, Char
<1>8. Len(content') + Len(tail') + 1 <= maxlen'
  <2>1. Len(content') = Len(content)
    BY <1>4
  <2> HIDE DEF escaped
  <2> QED
    BY <1>2, <1>3, <1>5, <2>1
<1>9. InArea'
  BY <1>8 DEF InArea
<1>10. Idle'
  BY <1>4 DEF Idle
<1> QED
  BY <1>7, <1>9, <1>10 DEF IInv

LEMMA EndIInv ==
  ASSUME IInv, ValEnd
  PROVE  IInv'
<1>1. /\ maxlen' \in Nat /\ lost' \in BOOLEAN
      /\ KeptTail \in Seq(Char) /\ Len(KeptTail) \in Nat /\ Len(content) \in Nat
      /\ Len(content) + Len(KeptTail) + 3 <= maxlen'
  BY RoomMade DEF IInv, ValEnd
<1>2. /\ content' = content \o KeptTail
      /\ tail' = <<>> /\ inval' = FALSE /\ todo = <<>>
      /\ UNCHANGED <<todo, text>>
  BY DEF ValEnd
<1>3. /\ content' \in Seq(Char)
      /\ Len(content') = Len(content) + Len(KeptTail)
  BY <1>1, <1>2, ConcatProperties DEF IInv, TypeOK, Char
<1>4. TypeOK'
  <2>1. tail' \in Seq(Char) /\ todo' \in Seq(Byte) /\ text' \in Seq(Char)
    BY <1>2 DEF IInv, TypeOK, Char
  <2> QED
    BY <1>1, <1>2, <1>3, <2>1 DEF TypeOK, Char
<1>5. Len(tail') = 0 /\ Len(content') + 3 <= maxlen'
  BY <1>1, <1>2, <1>3
<1>6. InArea'
  <2>1. Len(content') \in Nat
    BY <1>1, <1>3
  <2> QED
    BY <1>1, <1>5, <2>1 DEF InArea
<1>7. Idle'
  BY <1>2 DEF Idle
<1> QED
  BY <1>4, <1>6, <1>7 DEF IInv

LEMMA NextIInv == IInv /\ [Next]_vars => IInv'
<1> SUFFICES ASSUME IInv, [Next]_vars PROVE IInv'
  OBVIOUS
<1>1. ASSUME NEW s \in Seq(Byte), StrAppend(s) PROVE IInv'
  BY <1>1, AppendIInv
<1>2. ASSUME NEW s \in Seq(Byte), ValBegin(s) PROVE IInv'
  BY <1>2, BeginIInv
<1>3. CASE ValLetter
  BY <1>3, LetterIInv
<1>4. CASE ValEnd
  BY <1>4, EndIInv
<1>5. CASE UNCHANGED vars
  BY <1>5 DEF vars, IInv, TypeOK, InArea, Idle
<1> QED
  BY <1>1, <1>2, <1>3, <1>4, <1>5 DEF Next

\* Neither str_append nor val_append writes outside the area, whatever is
\* appended and whatever size the area starts with.
THEOREM StaysInArea == Spec => []InArea
<1>1. IInv => InArea
  BY DEF IInv
<1> QED
  BY <1>1, InitIInv, NextIInv, PTL DEF Spec

-----------------------------------------------------------------------------
(***************************************************************************)
(* What the buffer holds.                                                  *)
(***************************************************************************)
LEMMA NextTextKept == IInv /\ TextKept /\ [Next]_vars => TextKept'
<1> SUFFICES ASSUME IInv, TextKept, [Next]_vars, ~lost'
             PROVE  (content \o tail = text)'
  BY DEF TextKept
<1>1. /\ content \in Seq(Char) /\ tail \in Seq(Char) /\ text \in Seq(Char)
      /\ todo \in Seq(Byte) /\ lost \in BOOLEAN /\ Idle
  BY DEF IInv, TypeOK, Char
<1>2. ASSUME NEW s \in Seq(Byte), StrAppend(s) PROVE (content \o tail = text)'
  <2>1. /\ tail = <<>> /\ tail' = <<>> /\ ~lost
        /\ content' = content \o s /\ text' = text \o s
        /\ s \in Seq(Char)
    BY <1>1, <1>2 DEF StrAppend, Idle, Char
  <2>2. content = text
    BY <1>1, <2>1, ConcatEmptySeq DEF TextKept
  <2>3. content' \in Seq(Char)
    BY <1>1, <2>1, ConcatProperties
  <2>4. content' \o <<>> = content'
    BY <2>3, ConcatEmptySeq
  <2> QED
    BY <2>1, <2>2, <2>4
<1>3. ASSUME NEW s \in Seq(Byte), ValBegin(s) PROVE (content \o tail = text)'
  BY <1>1, <1>3 DEF ValBegin, Idle, TextKept
<1>4. ASSUME MakeRoom PROVE ~lost /\ KeptTail = tail
  BY <1>1, <1>4 DEF MakeRoom, KeptTail
<1>5. CASE ValLetter
  <2> DEFINE escaped == Escape(Head(todo))
  <2>1. /\ tail' = tail \o escaped /\ text' = text \o escaped
        /\ content' = content /\ content \o tail = text
    BY <1>4, <1>5 DEF ValLetter, TextKept
  <2>2. escaped \in Seq(Char)
    BY <1>1, <1>5, HeadTailProperties, EscapeType DEF ValLetter
  <2>3. (content \o tail) \o escaped = content \o (tail \o escaped)
    BY <1>1, <2>2, ConcatAssociative
  <2> QED
    BY <2>1, <2>3
<1>6. CASE ValEnd
  <2>1. /\ content' = content \o tail /\ tail' = <<>> /\ text' = text
        /\ content \o tail = text
    BY <1>4, <1>6 DEF ValEnd, TextKept
  <2>2. text \o <<>> = text
    BY <1>1, ConcatEmptySeq
  <2> QED
    BY <2>1, <2>2
<1>7. CASE UNCHANGED vars
  BY <1>7 DEF vars, TextKept
<1> QED
  BY <1>2, <1>3, <1>5, <1>6, <1>7 DEF Next

\* The buffer holds what was appended, in order and escaped, as long as
\* val_append did not extend it behind letters of its own.
THEOREM KeepsText == Spec => []TextKept
<1>1. Init => TextKept
  BY ConcatEmptySeq DEF Init, TextKept
<1> QED
  BY <1>1, InitIInv, NextIInv, NextTextKept, PTL DEF Spec

-----------------------------------------------------------------------------
(***************************************************************************)
(* The post data: Request takes the steps of PostData.                     *)
(***************************************************************************)
LEMMA FoundShape == Post!PostShape = Found!PostShape
  BY DEF Post!PostShape, Found!PostShape, Post!PartShape, Found!PartShape

LEMMA FoundMeant ==
  ASSUME NEW p
  PROVE  Post!IsMeant(p) = Found!IsMeant(p)
  BY DEF Post!IsMeant, Found!IsMeant, Post!EncodeParts, Found!EncodeParts,
         Post!EncodePart, Found!EncodePart, Post!EndOfLine, Found!EndOfLine,
         Post!FlattenSeq, Found!FlattenSeq, Post!IsPrefix, Found!IsPrefix,
         Post!ToSet, Found!ToSet

LEMMA FoundInit == Post!Init <=> Found!Init
  BY DEF Post!Init, Found!Init

LEMMA FoundParse == Post!Parse <=> Found!Parse
  BY DEF Post!Parse, Found!Parse, Post!UrlName, Found!UrlName, Post!UrlValue,
         Found!UrlValue, Post!UrlEnd, Found!UrlEnd, Post!StartBoundary,
         Found!StartBoundary, Post!HeaderField, Found!HeaderField,
         Post!HeadersAlmostDone, Found!HeadersAlmostDone, Post!HeaderValue,
         Found!HeaderValue, Post!HeaderValueAlmostDone, Found!HeaderValueAlmostDone,
         Post!PartData, Found!PartData, Post!AlmostBoundary, Found!AlmostBoundary,
         Post!PartBoundary, Found!PartBoundary, Post!AlmostEnd, Found!AlmostEnd,
         Post!FinalHyphen, Found!FinalHyphen, Post!PartEnd, Found!PartEnd,
         Post!Epilogue, Found!Epilogue, Post!MultipartEnd, Found!MultipartEnd,
         Post!Unparsed, Found!Unparsed, Post!Urlenc, Found!Urlenc, Post!At, Found!At,
         Post!OneLetter, Found!OneLetter, Post!EmitPart, Found!EmitPart,
         Post!Goto, Found!Goto, Post!Again, Found!Again, Post!Return, Found!Return,
         Post!OnName, Found!OnName, Post!OnData, Found!OnData, Post!WithData,
         Found!WithData, Post!OnHeaderValue, Found!OnHeaderValue, Post!NameLength,
         Found!NameLength, Post!Piece, Found!Piece, Post!Unset, Found!Unset,
         Post!EndsName, Found!EndsName, Post!EndsValue, Found!EndsValue,
         Post!Mismatch, Found!Mismatch, Post!LastLength, Found!LastLength,
         Post!PartLength, Found!PartLength, Post!FieldLetters, Found!FieldLetters,
         Post!Length, Found!Length, Post!Letter, Found!Letter, Post!AtLast, Found!AtLast,
         Post!L, Found!L, Post!others, Found!others

LEMMA FoundToXml == Post!ToXml <=> Found!ToXml
  BY DEF Post!ToXml, Found!ToXml, Post!others, Found!others

(* Each step of the request is one of them, or leaves the post data alone. *)
LEMMA FoundNext ==
  ASSUME [RequestNext]_allvars
  PROVE  Found!PostStep
<1>1. CASE ParseBody
  BY <1>1, FoundParse DEF ParseBody, Found!PostStep
<1>2. CASE BodyToXml
  BY <1>2, FoundToXml DEF BodyToXml, Found!PostStep
<1>3. CASE UNCHANGED postvars
  BY <1>3 DEF postvars, Found!PostStep, Found!vars
<1>4. Construct \/ Serve => UNCHANGED postvars
  BY DEF Construct, Serve
<1>5. AppendPreamble \/ AppendPath \/ AppendLetter \/ AppendNul \/ AppendClosing
        => UNCHANGED postvars
  BY DEF AppendPreamble, AppendPath, AppendLetter, AppendNul, AppendClosing
<1>6. UNCHANGED allvars => UNCHANGED postvars
  BY DEF allvars
<1>7. QED
  BY <1>1, <1>2, <1>3, <1>4, <1>5, <1>6 DEF RequestNext, Write

(* What holds of the post that a request comes with.                       *)
LEMMA PostGiven ==
  ASSUME RequestInit
  PROVE  /\ Found!HasBoundary /\ post \in Found!PostShape /\ Found!IsMeant(post)
         /\ Found!Init
<1>1. Found!HasBoundary
  BY BoundaryAssumption DEF Found!HasBoundary, Found!L, ToSet, Found!ToSet
<1>2. PICK r \in Requests : post = r.post
  BY DEF RequestInit
<1>3. post \in Post!PostShape /\ Post!IsMeant(post)
  BY <1>2, RequestsAssumption
<1>4. QED
  BY <1>1, <1>3, FoundShape, FoundMeant, FoundInit DEF RequestInit

LEMMA BoundaryGiven == Found!HasBoundary
  BY BoundaryAssumption DEF Found!HasBoundary, Found!L, ToSet, Found!ToSet

PostIInv == Found!SurviveInv /\ Found!PairsInv /\ Found!PartsInv

LEMMA InitPostIInv == RequestInit => PostIInv
<1> SUFFICES ASSUME RequestInit PROVE PostIInv
  OBVIOUS
<1>1. Found!SurviveInv
  BY PostGiven, Found!InitSurviveInv
<1>2. Found!PairsInv
  BY PostGiven, Found!InitPairsInv
<1>3. Found!PartsInv
  BY PostGiven, Found!InitPartsInv
<1>4. QED
  BY <1>1, <1>2, <1>3 DEF PostIInv

LEMMA NextPostIInv == PostIInv /\ [RequestNext]_allvars => PostIInv'
<1> SUFFICES ASSUME PostIInv, [RequestNext]_allvars PROVE PostIInv'
  OBVIOUS
<1>1. Found!PostStep /\ Found!HasBoundary
  BY FoundNext, BoundaryGiven
<1>2. Found!SurviveInv'
  BY <1>1, Found!SurviveInvNext DEF PostIInv
<1>3. Found!PairsInv'
  BY <1>1, Found!PairsInvNext DEF PostIInv, Found!SurviveInv
<1>4. Found!PartsInv'
  BY <1>1, Found!PartsInvNext DEF PostIInv, Found!SurviveInv
<1>5. QED
  BY <1>2, <1>3, <1>4 DEF PostIInv

\* The pairs of a well-formed urlencoded body are found, whatever it is.
THEOREM FindsPairs == RequestSpec => []PairsFound
<1>1. PostIInv => PairsFound
  <2>1. PostIInv => Found!PairsFound
    BY Found!PairsInvFound DEF PostIInv, Found!SurviveInv
  <2>2. Found!PairsFound => Post!PairsFound
    BY DEF Found!PairsFound, Post!PairsFound, Found!Join, Post!Join, Found!Names, Post!Names,
           Found!Values, Post!Values, Found!Text, Post!Text,
           Found!WellFormedPairs, Post!WellFormedPairs,
           Found!FlattenSeq, Post!FlattenSeq, Found!ToSet, Post!ToSet
  <2>3. QED
    BY <2>1, <2>2 DEF PairsFound
<1>2. QED
  BY <1>1, InitPostIInv, NextPostIInv, PTL DEF RequestSpec

\* The parts of a whole multipart body are found, whatever data and pieces of
\* a boundary it has, and of one that is cut off nothing is made up.
THEOREM FindsParts == RequestSpec => []PartsTrue
<1>1. PostIInv => PartsTrue
  <2>1. PostIInv => Found!PartsFound /\ Found!CutPartsTrue
    BY BoundaryGiven, Found!PartsInvFound DEF PostIInv, Found!SurviveInv
  <2>2. ASSUME NEW ps
        PROVE  Found!WellParted(ps) = Post!WellParted(ps)
    BY DEF Found!WellParted, Post!WellParted, Found!ToSet, Post!ToSet,
           Found!IsPrefix, Post!IsPrefix
  <2>3. Found!Names = Post!Names /\ Found!Values = Post!Values
    BY DEF Found!Names, Post!Names, Found!Values, Post!Values, Found!Text, Post!Text
  <2>4. ASSUME NEW ps
        PROVE  Found!EncodeParts(ps) = Post!EncodeParts(ps)
    BY DEF Post!EncodeParts, Found!EncodeParts, Post!EncodePart, Found!EncodePart,
           Post!EndOfLine, Found!EndOfLine, Post!FlattenSeq, Found!FlattenSeq
  <2>5. Found!PartsFound => Post!PartsFound
    BY <2>2, <2>3, <2>4 DEF Found!PartsFound, Post!PartsFound, Found!WholeParts,
       Post!WholeParts, Found!EndOfLine, Post!EndOfLine
  <2>6. Found!CutPartsTrue => Post!CutPartsTrue
    BY <2>2, <2>3 DEF Found!CutPartsTrue, Post!CutPartsTrue, Found!EndOfLine, Post!EndOfLine,
       Found!IsPrefix, Post!IsPrefix
  <2>7. QED
    BY <2>1, <2>5, <2>6 DEF PartsTrue
<1>2. QED
  BY <1>1, InitPostIInv, NextPostIInv, PTL DEF RequestSpec

\* A worker survives every post but the three kinds that are listed.
THEOREM SurvivesPosts == RequestSpec => []PostSurvived
<1>1. PostIInv => PostSurvived
  BY DEF PostIInv, Found!SurviveInv, PostSurvived, Post!PostSurvived, Found!PostSurvived,
         Post!ToSet, Found!ToSet
<1>2. QED
  BY <1>1, InitPostIInv, NextPostIInv, PTL DEF RequestSpec

-----------------------------------------------------------------------------
(***************************************************************************)
(* decode: the loop as a function from the number of turns to its state.   *)
(***************************************************************************)
(* The state of decode's loop over n bytes.                                *)
Turns(n) ==
  [mem : [0..n -> Byte], read : Nat, write : Nat, dup : BOOLEAN, slash : Nat]

FirstTurn(in, heap) ==
  [mem   |-> [i \in 0..Len(in) |-> IF i < Len(in) THEN in[i + 1] ELSE heap],
   read  |-> 0, write |-> 0, dup |-> FALSE, slash |-> 0]

(* turn is the loop over in, and Decode gives what it ends with.           *)
IsDecoding(turn, in, heap) ==
  LET n == Len(in) IN
  /\ turn \in [0..n - 1 -> Turns(n)]
  /\ turn[0] = FirstTurn(in, heap)
  /\ \A k \in 1..n - 1 : turn[k] = DecodeLetter(turn[k - 1], n - k, heap)
  /\ Decode(in, heap) =
       [mem |-> [turn[n - 1].mem EXCEPT ![n] = 0], len |-> n, slashcnt |-> turn[n - 1].slash]

LEMMA HexTyped ==
  ASSUME NEW b1 \in Byte, NEW b2 \in Byte
  PROVE  HexByte(b1, b2) \in Byte
<1>1. Byte = 0..255
  BY BytesAssumption
<1>2. ASSUME NEW b \in Byte, IsHex(b)
      PROVE  HexValue(b) \in 0..15
  BY <1>1, <1>2 DEF IsHex, HexValue
<1>3. CASE IsHex(b1) /\ IsHex(b2)
  <2>1. HexValue(b1) \in 0..15 /\ HexValue(b2) \in 0..15
    BY <1>2, <1>3
  <2>2. HexByte(b1, b2) = 16 * HexValue(b1) + HexValue(b2)
    BY <1>3 DEF HexByte
  <2>3. QED
    BY <1>1, <2>1, <2>2
<1>4. CASE IsHex(b1) /\ ~IsHex(b2)
  <2>1. HexValue(b1) \in 0..15
    BY <1>2, <1>4
  <2>2. HexByte(b1, b2) = HexValue(b1)
    BY <1>4 DEF HexByte
  <2>3. QED
    BY <1>1, <2>1, <2>2
<1>5. CASE ~IsHex(b1)
  <2>1. HexByte(b1, b2) = 0
    BY <1>5 DEF HexByte
  <2>2. QED
    BY <1>1, <2>1
<1>6. QED
  BY <1>3, <1>4, <1>5

(* The letter that a turn takes.                                           *)
IsEscape(d, left, heap) == Bytes(d.mem, heap, d.read) = Percent /\ left >= 2

Taken(d, left, heap) ==
  IF IsEscape(d, left, heap)
  THEN HexByte(Bytes(d.mem, heap, d.read + 1), Bytes(d.mem, heap, d.read + 2))
  ELSE Bytes(d.mem, heap, d.read)

LEMMA TurnTaken ==
  ASSUME NEW d, NEW left, NEW heap
  PROVE  LET escape == IsEscape(d, left, heap)
             let == Taken(d, left, heap)
         IN  DecodeLetter(d, left, heap) =
               [mem   |-> IF d.dup \/ escape THEN [d.mem EXCEPT ![d.write] = let] ELSE d.mem,
                read  |-> d.read + IF escape THEN 3 ELSE 1,
                write |-> d.write + 1,
                dup   |-> d.dup \/ escape,
                slash |-> d.slash + IF let = Slash THEN 1 ELSE 0]
  BY DEF DecodeLetter, IsEscape, Taken

LEMMA TurnTyped ==
  ASSUME NEW n \in Nat, NEW d \in Turns(n), NEW left, NEW heap \in Byte
  PROVE  /\ Taken(d, left, heap) \in Byte
         /\ DecodeLetter(d, left, heap) \in Turns(n)
<1> DEFINE let == Taken(d, left, heap)
<1>1. /\ d.mem \in [0..n -> Byte] /\ d.read \in Nat /\ d.write \in Nat
      /\ d.dup \in BOOLEAN /\ d.slash \in Nat
  BY DEF Turns
<1>2. \A i : Bytes(d.mem, heap, i) \in Byte
  BY <1>1 DEF Bytes
<1>3. let \in Byte
  <2>1. CASE IsEscape(d, left, heap)
    BY <1>2, <2>1, HexTyped DEF Taken
  <2>2. CASE ~IsEscape(d, left, heap)
    BY <1>2, <2>2 DEF Taken
  <2>3. QED
    BY <2>1, <2>2
<1> HIDE DEF let
<1>4. [d.mem EXCEPT ![d.write] = let] \in [0..n -> Byte]
  BY <1>1, <1>3
<1>5. DecodeLetter(d, left, heap) \in Turns(n)
  <2> DEFINE escape == IsEscape(d, left, heap)
             new == DecodeLetter(d, left, heap)
  <2>1. new = [mem   |-> IF d.dup \/ escape THEN [d.mem EXCEPT ![d.write] = let] ELSE d.mem,
               read  |-> d.read + IF escape THEN 3 ELSE 1,
               write |-> d.write + 1,
               dup   |-> d.dup \/ escape,
               slash |-> d.slash + IF let = Slash THEN 1 ELSE 0]
    BY TurnTaken DEF let
  <2>2. escape \in BOOLEAN
    BY DEF IsEscape
  <2>3. (IF d.dup \/ escape THEN [d.mem EXCEPT ![d.write] = let] ELSE d.mem) \in [0..n -> Byte]
    BY <1>1, <1>4
  <2>4. /\ d.read + (IF escape THEN 3 ELSE 1) \in Nat /\ d.write + 1 \in Nat
        /\ d.slash + (IF let = Slash THEN 1 ELSE 0) \in Nat
    BY <1>1
  <2>5. (d.dup \/ escape) \in BOOLEAN
    BY <1>1, <2>2
  <2> HIDE DEF new, escape
  <2>6. QED
    BY <2>1, <2>3, <2>4, <2>5 DEF Turns, new
<1>6. QED
  BY <1>3, <1>5 DEF let

LEMMA FirstTurnTyped ==
  ASSUME NEW in \in Seq(Byte), NEW heap \in Byte
  PROVE  FirstTurn(in, heap) \in Turns(Len(in))
<1>1. Len(in) \in Nat
  BY LenProperties
<1>2. [i \in 0..Len(in) |-> IF i < Len(in) THEN in[i + 1] ELSE heap] \in [0..Len(in) -> Byte]
  <2>1. ASSUME NEW i \in 0..Len(in), i < Len(in)
        PROVE  in[i + 1] \in Byte
    <3>1. i + 1 \in 1..Len(in)
      BY <1>1, <2>1
    <3>2. QED
      BY <3>1, ElementOfSeq
  <2>2. QED
    BY <2>1
<1>3. QED
  BY <1>2 DEF FirstTurn, Turns

LEMMA DecodingExists ==
  ASSUME NEW in \in Seq(Byte), in # <<>>, NEW heap \in Byte
  PROVE  \E turn : IsDecoding(turn, in, heap)
<1> DEFINE n == Len(in)
           N == n - 1
           V == Turns(n)
           base == FirstTurn(in, heap)
           next == [x \in V \X (1..N) |-> DecodeLetter(x[1], n - x[2], heap)]
<1>1. n \in Nat /\ n # 0 /\ N \in Nat
  <2>1. n \in Nat /\ n # 0
    BY LenProperties, EmptySeq
  <2>2. QED
    BY <2>1
<1>2. base \in V
  BY FirstTurnTyped
<1>3. IsStep(next, N, V)
  <2>1. ASSUME NEW x \in V \X (1..N)
        PROVE  DecodeLetter(x[1], n - x[2], heap) \in V
    <3>1. x[1] \in V
      OBVIOUS
    <3>2. QED
      BY <1>1, <3>1, TurnTyped
  <2>2. QED
    BY <2>1 DEF IsStep
<1>4. \A d \in V, k \in 1..N : next[<<d, k>>] = DecodeLetter(d, n - k, heap)
  OBVIOUS
<1> HIDE DEF next, V, base, N
<1>5. PICK f : IsRun(f, base, next, N, V)
  BY <1>1, <1>2, <1>3, RecursionExists
<1>6. f \in [0..N -> V] /\ f[0] = base
  BY <1>5 DEF IsRun
<1>7. \A k \in 1..N : f[k] = DecodeLetter(f[k - 1], n - k, heap)
  <2>1. ASSUME NEW k \in 1..N
        PROVE  f[k] = DecodeLetter(f[k - 1], n - k, heap)
    <3>1. k - 1 \in 0..N
      BY <1>1
    <3>2. f[k - 1] \in V /\ f[k] = next[<<f[k - 1], k>>]
      BY <1>5, <1>6, <3>1 DEF IsRun
    <3>3. QED
      BY <1>4, <3>2
  <2>2. QED
    BY <2>1
<1> DEFINE Is(g) == g = [k \in 0..N |-> IF k = 0 THEN base ELSE DecodeLetter(g[k - 1], n - k, heap)]
           turn == CHOOSE g : Is(g)
<1>8. Is(f)
  <2>1. \A k \in 0..N : f[k] = IF k = 0 THEN base ELSE DecodeLetter(f[k - 1], n - k, heap)
    <3>1. \A k \in 0..N : k = 0 \/ k \in 1..N
      BY <1>1
    <3>2. QED
      BY <1>6, <1>7, <3>1
  <2>2. QED
    BY <1>6, <2>1
<1>9. Is(turn)
  <2> HIDE DEF Is
  <2>1. QED
    BY <1>8
<1>10. Decode(in, heap) =
         [mem |-> [turn[N].mem EXCEPT ![n] = 0], len |-> n, slashcnt |-> turn[N].slash]
  BY DEF Decode, FirstTurn, N, base
<1>11. turn[0] = base /\ \A k \in 1..N : turn[k] = DecodeLetter(turn[k - 1], n - k, heap)
  <2> HIDE DEF turn
  <2>1. \A k \in 0..N : turn[k] = IF k = 0 THEN base ELSE DecodeLetter(turn[k - 1], n - k, heap)
    BY <1>9
  <2>2. 0 \in 0..N /\ \A k \in 1..N : k \in 0..N /\ k # 0
    BY <1>1
  <2>3. QED
    BY <2>1, <2>2
<1>12. turn \in [0..N -> V]
  <2> HIDE DEF turn
  <2> DEFINE T == {k \in Nat : k <= N => turn[k] \in V}
  <2>1. 0 \in T
    BY <1>2, <1>11
  <2>2. ASSUME NEW k \in Nat, k \in T
        PROVE  k + 1 \in T
    <3>1. SUFFICES ASSUME k + 1 <= N PROVE turn[k + 1] \in V
      OBVIOUS
    <3>2. k + 1 \in 1..N /\ (k + 1) - 1 = k /\ turn[k] \in V
      BY <1>1, <2>2, <3>1
    <3>3. turn[k + 1] = DecodeLetter(turn[k], n - (k + 1), heap)
      BY <1>11, <3>2
    <3>4. QED
      BY <1>1, <3>2, <3>3, TurnTyped DEF V
  <2>3. Nat \subseteq T
    <3> HIDE DEF T
    <3>1. QED
      BY <2>1, <2>2, SetInduction
  <2>4. \A k \in 0..N : turn[k] \in V
    BY <2>3
  <2>5. turn = [k \in 0..N |-> turn[k]]
    BY <1>9
  <2>6. QED
    BY <2>4, <2>5
<1> HIDE DEF turn, Is
<1>13. IsDecoding(turn, in, heap)
  BY <1>10, <1>11, <1>12 DEF IsDecoding, N, V, base
<1>14. QED
  BY <1>13

(* Until the first escape the loop writes where it reads, and it does not  *)
(* write at all: what is there is what it would write.                     *)
InPlace(d, k) == d.write = k /\ d.read \in Nat /\ d.read >= k /\ (~d.dup => d.read = k)

LEMMA TurnEffect ==
  ASSUME NEW n \in Nat, NEW d \in Turns(n), NEW left, NEW heap \in Byte,
         NEW k \in 0..n, InPlace(d, k)
  PROVE  LET e == DecodeLetter(d, left, heap) IN
         /\ InPlace(e, k + 1)
         /\ e.mem[k] = Taken(d, left, heap)
         /\ \A j \in 0..n \ {k} : e.mem[j] = d.mem[j]
         /\ e.read = d.read + IF IsEscape(d, left, heap) THEN 3 ELSE 1
         /\ e.slash = d.slash + IF e.mem[k] = Slash THEN 1 ELSE 0
<1> DEFINE e == DecodeLetter(d, left, heap)
           let == Taken(d, left, heap)
           escape == IsEscape(d, left, heap)
<1>1. e = [mem   |-> IF d.dup \/ escape THEN [d.mem EXCEPT ![d.write] = let] ELSE d.mem,
           read  |-> d.read + IF escape THEN 3 ELSE 1,
           write |-> d.write + 1,
           dup   |-> d.dup \/ escape,
           slash |-> d.slash + IF let = Slash THEN 1 ELSE 0]
  BY TurnTaken
<1>2. d.mem \in [0..n -> Byte] /\ d.dup \in BOOLEAN /\ d.slash \in Nat /\ let \in Byte
  BY TurnTyped DEF Turns
<1>3. escape \in BOOLEAN
  BY DEF IsEscape
<1>4. ~d.dup /\ ~escape => let = d.mem[k]
  BY <1>2 DEF Taken, Bytes, InPlace
<1> HIDE DEF e, let, escape
<1>5. /\ e.mem = IF d.dup \/ escape THEN [d.mem EXCEPT ![k] = let] ELSE d.mem
      /\ e.read = d.read + IF escape THEN 3 ELSE 1
      /\ e.write = k + 1 /\ e.dup = (d.dup \/ escape)
      /\ e.slash = d.slash + IF let = Slash THEN 1 ELSE 0
  BY <1>1 DEF InPlace
<1>6. e.mem[k] = let /\ \A j \in 0..n \ {k} : e.mem[j] = d.mem[j]
  <2>1. CASE d.dup \/ escape
    <3>1. e.mem = [d.mem EXCEPT ![k] = let]
      BY <1>5, <2>1
    <3>2. QED
      BY <1>2, <3>1
  <2>2. CASE ~(d.dup \/ escape)
    <3>1. e.mem = d.mem
      BY <1>5, <2>2
    <3>2. QED
      BY <1>4, <2>2, <3>1
  <2>3. QED
    BY <2>1, <2>2
<1>7. InPlace(e, k + 1)
  <2>0. d.read \in Nat /\ d.read >= k /\ (~d.dup => d.read = k) /\ k \in Nat
    BY DEF InPlace
  <2>1. CASE escape
    <3>1. e.read = d.read + 3 /\ e.dup /\ e.write = k + 1
      BY <1>5, <2>1
    <3>2. e.read \in Nat /\ e.read >= k + 1
      BY <2>0, <3>1
    <3>3. QED
      BY <3>1, <3>2 DEF InPlace
  <2>2. CASE ~escape
    <3>1. e.read = d.read + 1 /\ (~e.dup => ~d.dup) /\ e.write = k + 1
      BY <1>2, <1>5, <2>2
    <3>2. e.read \in Nat /\ e.read >= k + 1
      BY <2>0, <3>1
    <3>3. ~e.dup => e.read = k + 1
      BY <2>0, <3>1
    <3>4. QED
      BY <3>1, <3>2, <3>3 DEF InPlace
  <2>3. QED
    BY <1>3, <2>1, <2>2
<1>8. QED
  BY <1>5, <1>6, <1>7 DEF e, let, escape

(* Where slashes are, up to an offset.                                     *)
SlashesTo(mem, to) == {j \in 0..to : mem[j] = Slash}

LEMMA SlashesFinite ==
  ASSUME NEW mem, NEW to \in Int
  PROVE  /\ IsFiniteSet(SlashesTo(mem, to)) /\ Cardinality(SlashesTo(mem, to)) \in Nat
         /\ Cardinality(SlashesTo(mem, to)) <= to + 1 \/ to < 0
<1>1. IsFiniteSet(0..to) /\ Cardinality(0..to) = IF 0 > to THEN 0 ELSE to - 0 + 1
  BY FS_Interval
<1>2. SlashesTo(mem, to) \subseteq 0..to
  BY DEF SlashesTo
<1>3. /\ IsFiniteSet(SlashesTo(mem, to))
      /\ Cardinality(SlashesTo(mem, to)) <= Cardinality(0..to)
  BY <1>1, <1>2, FS_Subset
<1>4. Cardinality(SlashesTo(mem, to)) \in Nat
  BY <1>3, FS_CardinalityType
<1>5. QED
  BY <1>1, <1>3, <1>4

(* One letter more.                                                        *)
LEMMA SlashesNext ==
  ASSUME NEW mem, NEW new, NEW to \in Int, NEW k \in Nat, to < k,
         \A j \in 0..to : new[j] = mem[j],
         \A j \in to + 1..k - 1 : new[j] # Slash
  PROVE  Cardinality(SlashesTo(new, k)) =
           Cardinality(SlashesTo(mem, to)) + IF new[k] = Slash THEN 1 ELSE 0
<1> DEFINE S == SlashesTo(mem, to)
<1>1. \A j : j \in 0..k <=> j = k \/ j \in 0..to \/ (j \in to + 1..k - 1 /\ j >= 0)
  OBVIOUS
<1>2. SlashesTo(new, k) = IF new[k] = Slash THEN S \cup {k} ELSE S
  BY <1>1 DEF SlashesTo
<1>3. k \notin S /\ IsFiniteSet(S) /\ Cardinality(S) \in Nat
  <2>1. k \notin S
    BY DEF SlashesTo
  <2>2. QED
    BY <2>1, SlashesFinite
<1>4. Cardinality(S \cup {k}) = Cardinality(S) + 1
  <2> HIDE DEF S
  <2>1. QED
    BY <1>3, FS_AddElement
<1>5. QED
  BY <1>2, <1>3, <1>4

(* After k turns k letters are written, and slash counts those of them     *)
(* that are a slash.                                                       *)
LEMMA TurnsCount ==
  ASSUME NEW in \in Seq(Byte), in # <<>>, NEW heap \in Byte,
         NEW turn, IsDecoding(turn, in, heap), NEW k \in 0..Len(in) - 1
  PROVE  /\ InPlace(turn[k], k)
         /\ turn[k].slash = Cardinality(SlashesTo(turn[k].mem, k - 1))
<1> DEFINE n == Len(in)
           Good(m) == /\ InPlace(turn[m], m)
                      /\ turn[m].slash = Cardinality(SlashesTo(turn[m].mem, m - 1))
           T == {m \in Nat : m <= n - 1 => Good(m)}
<1>1. n \in Nat /\ n # 0
  BY LenProperties, EmptySeq
<1>2. 0 \in T
  <2>1. turn[0] = FirstTurn(in, heap)
    BY DEF IsDecoding
  <2>2. turn[0].write = 0 /\ turn[0].read = 0 /\ turn[0].dup = FALSE /\ turn[0].slash = 0
    BY <2>1 DEF FirstTurn
  <2>3. SlashesTo(turn[0].mem, 0 - 1) = {}
    BY DEF SlashesTo
  <2>4. Cardinality({}) = 0
    BY FS_EmptySet
  <2>5. InPlace(turn[0], 0)
    BY <2>2 DEF InPlace
  <2>6. turn[0].slash = Cardinality(SlashesTo(turn[0].mem, 0 - 1))
    BY <2>2, <2>3, <2>4
  <2>7. QED
    BY <2>5, <2>6
<1>3. ASSUME NEW m \in Nat, m \in T
      PROVE  m + 1 \in T
  <2>1. SUFFICES ASSUME m + 1 <= n - 1 PROVE Good(m + 1)
    OBVIOUS
  <2>2. m + 1 \in 1..n - 1 /\ (m + 1) - 1 = m /\ m \in 0..n - 1 /\ m \in 0..n /\ m \in Nat
    BY <1>1, <2>1
  <2>3. Good(m)
    BY <1>1, <1>3, <2>1
  <2> DEFINE d == turn[m]
             left == n - (m + 1)
             e == DecodeLetter(d, left, heap)
  <2>4. turn[m + 1] = e /\ d \in Turns(n)
    <3>1. turn[m + 1] = DecodeLetter(turn[(m + 1) - 1], n - (m + 1), heap)
      BY <2>2 DEF IsDecoding
    <3>2. d \in Turns(n)
      BY <2>2 DEF IsDecoding
    <3>3. QED
      BY <2>2, <3>1, <3>2
  <2> HIDE DEF left
  <2>5. /\ InPlace(e, m + 1)
        /\ \A j \in 0..n \ {m} : e.mem[j] = d.mem[j]
        /\ e.slash = d.slash + IF e.mem[m] = Slash THEN 1 ELSE 0
    BY <1>1, <2>2, <2>3, <2>4, TurnEffect
  <2> HIDE DEF e, d
  <2>6. Cardinality(SlashesTo(e.mem, m)) =
          Cardinality(SlashesTo(d.mem, m - 1)) + IF e.mem[m] = Slash THEN 1 ELSE 0
    <3>1. \A j \in 0..m - 1 : j \in 0..n \ {m}
      BY <2>2
    <3>2. \A j \in 0..m - 1 : e.mem[j] = d.mem[j]
      BY <2>5, <3>1
    <3>3. \A j \in (m - 1) + 1..m - 1 : e.mem[j] # Slash
      BY <2>2
    <3>4. m - 1 \in Int /\ m - 1 < m
      BY <2>2
    <3> DEFINE to == m - 1
    <3>a. /\ to \in Int /\ to < m
          /\ \A j \in 0..to : e.mem[j] = d.mem[j]
          /\ \A j \in to + 1..m - 1 : e.mem[j] # Slash
      BY <3>2, <3>3, <3>4
    <3> DEFINE old == d.mem
               new == e.mem
    <3> HIDE DEF to, old, new
    <3>b. /\ \A j \in 0..to : new[j] = old[j]
          /\ \A j \in to + 1..m - 1 : new[j] # Slash
      BY <3>a DEF old, new
    <3>c. Cardinality(SlashesTo(new, m)) =
            Cardinality(SlashesTo(old, to)) + IF new[m] = Slash THEN 1 ELSE 0
      BY <3>a, <3>b, SlashesNext
    <3>5. Cardinality(SlashesTo(e.mem, m)) =
            Cardinality(SlashesTo(d.mem, to)) + IF e.mem[m] = Slash THEN 1 ELSE 0
      BY <3>c DEF old, new
    <3>6. QED
      BY <3>5 DEF to
  <2>7. d.slash = Cardinality(SlashesTo(d.mem, m - 1))
    BY <2>3 DEF d
  <2>8. QED
    BY <2>2, <2>4, <2>5, <2>6, <2>7
<1>4. Nat \subseteq T
  <2> HIDE DEF T
  <2>1. QED
    BY <1>2, <1>3, SetInduction
<1>5. k \in Nat /\ k <= n - 1
  BY <1>1
<1>6. QED
  BY <1>4, <1>5

(* What request::request makes of a path.                                  *)
PathTyped(p) ==
  /\ p.len \in Nat /\ p.len # 0
  /\ p.mem \in [0..p.len -> Byte] /\ p.mem[p.len] = 0
  /\ p.slashcnt \in 0..p.len
  /\ p.slashcnt = Cardinality(SlashesTo(p.mem, p.len - 2))

LEMMA DecodeTyped ==
  ASSUME NEW in \in Seq(Byte), in # <<>>, NEW heap \in Byte
  PROVE  PathTyped(Decode(in, heap)) /\ Decode(in, heap).len = Len(in)
<1> DEFINE n == Len(in)
           p == Decode(in, heap)
<1>1. n \in Nat /\ n # 0 /\ n - 1 \in 0..n - 1 /\ n \in 0..n /\ 0 \in Byte /\ n - 2 \in Int
  <2>1. n \in Nat /\ n # 0
    BY LenProperties, EmptySeq
  <2>2. 0 \in Byte
    BY BytesAssumption
  <2>3. QED
    BY <2>1, <2>2
<1>2. PICK turn : IsDecoding(turn, in, heap)
  BY DecodingExists
<1> DEFINE d == turn[n - 1]
<1>3. /\ d \in Turns(n)
      /\ p = [mem |-> [d.mem EXCEPT ![n] = 0], len |-> n, slashcnt |-> d.slash]
  BY <1>1, <1>2 DEF IsDecoding
<1>4. d.slash = Cardinality(SlashesTo(d.mem, (n - 1) - 1))
  BY <1>1, <1>2, TurnsCount
<1> HIDE DEF p, d
<1>5. p.len = n /\ p.slashcnt = d.slash /\ p.mem = [d.mem EXCEPT ![n] = 0]
  BY <1>3
<1>6. d.mem \in [0..n -> Byte]
  BY <1>3 DEF Turns
<1>7. p.mem \in [0..n -> Byte] /\ p.mem[n] = 0
  BY <1>1, <1>5, <1>6
<1>8. SlashesTo(p.mem, n - 2) = SlashesTo(d.mem, (n - 1) - 1)
  <2>1. (n - 1) - 1 = n - 2 /\ \A j \in 0..n - 2 : j \in 0..n /\ j # n
    BY <1>1
  <2>2. \A j \in 0..n - 2 : p.mem[j] = d.mem[j]
    BY <1>5, <1>6, <2>1
  <2>3. QED
    BY <2>1, <2>2 DEF SlashesTo
<1>9. p.slashcnt = Cardinality(SlashesTo(p.mem, n - 2))
  BY <1>4, <1>5, <1>8
<1>10. p.slashcnt \in 0..n
  <2>1. /\ Cardinality(SlashesTo(p.mem, n - 2)) \in Nat
        /\ Cardinality(SlashesTo(p.mem, n - 2)) <= (n - 2) + 1 \/ n - 2 < 0
    BY <1>1, SlashesFinite
  <2>2. n - 2 < 0 => SlashesTo(p.mem, n - 2) = {}
    BY <1>1 DEF SlashesTo
  <2>3. Cardinality({}) = 0
    BY FS_EmptySet
  <2> HIDE DEF n
  <2>4. CASE n = 1
    <3>1. n - 2 < 0
      BY <2>4
    <3>2. p.slashcnt = 0
      BY <1>9, <2>2, <2>3, <3>1
    <3>3. QED
      BY <1>1, <3>2
  <2>5. CASE n # 1
    <3>a. n \in Nat /\ n # 0
      BY <1>1
    <3>1. ~(n - 2 < 0)
      BY <2>5, <3>a
    <3>2. p.slashcnt \in Nat /\ p.slashcnt <= (n - 2) + 1
      BY <1>9, <2>1, <3>1
    <3>3. QED
      BY <1>1, <3>2
  <2>6. QED
    BY <2>4, <2>5
<1>11. QED
  BY <1>1, <1>5, <1>7, <1>9, <1>10 DEF PathTyped, p

-----------------------------------------------------------------------------
(***************************************************************************)
(* C strings and the slashes that were counted in a path that was decoded. *)
(***************************************************************************)
(* A C string ends at the first NUL.                                       *)
EndsAt(p, from, nul) ==
  /\ nul \in from..p.len /\ p.mem[nul] = 0
  /\ \A j \in from..nul - 1 : p.mem[j] # 0

LEMMA CStringFound ==
  ASSUME NEW p, PathTyped(p), NEW from \in 0..p.len
  PROVE  \E nul \in from..p.len :
           /\ EndsAt(p, from, nul)
           /\ CString(p, from) = [i \in 1..nul - from |-> p.mem[from + i - 1]]
           /\ CString(p, from) \in Seq(Byte)
<1>1. /\ p.len \in Nat /\ p.mem \in [0..p.len -> Byte] /\ p.mem[p.len] = 0
      /\ from \in Nat /\ from <= p.len
  BY DEF PathTyped
<1> DEFINE C == {j \in from..p.len : p.mem[j] = 0}
<1>2. C \in SUBSET Nat /\ C # {}
  BY <1>1
<1>3. PICK x \in C : \A y \in C : x <= y
  BY <1>2, LeastNat
<1>4. EndsAt(p, from, x)
  <2>1. ASSUME NEW j \in from..x - 1 PROVE p.mem[j] # 0
    <3>1. j \in from..p.len /\ ~(x <= j)
      BY <1>1
    <3>2. QED
      BY <1>3, <3>1
  <2>2. QED
    BY <2>1 DEF EndsAt
<1> DEFINE nul == CHOOSE i \in from..p.len : p.mem[i] = 0 /\ \A j \in from..i - 1 : p.mem[j] # 0
<1>5. EndsAt(p, from, nul)
  BY <1>4 DEF EndsAt
<1>6. CString(p, from) = [i \in 1..nul - from |-> p.mem[from + i - 1]]
  BY DEF CString
<1> HIDE DEF nul
<1>7. nul \in from..p.len
  BY <1>5 DEF EndsAt
<1>8. CString(p, from) \in Seq(Byte)
  <2>1. ASSUME NEW i \in 1..nul - from PROVE p.mem[from + i - 1] \in Byte
    <3>1. from + i - 1 \in 0..p.len
      BY <1>1, <1>7
    <3>2. QED
      BY <1>1, <3>1
  <2>2. nul - from \in Nat
    BY <1>1, <1>7
  <2>3. CString(p, from) \in [1..nul - from -> Byte]
    BY <1>6, <2>1
  <2>4. QED
    BY <2>2, <2>3
<1>9. QED
  BY <1>5, <1>6, <1>7, <1>8

(* The k-th slash that was counted is at at.                               *)
IsSlash(p, k, at) ==
  /\ at \in 0..p.len - 2 /\ p.mem[at] = Slash
  /\ Cardinality(SlashesTo(p.mem, at)) = k

LEMMA NextSlashFound ==
  ASSUME NEW p, PathTyped(p), NEW k \in Nat, k < p.slashcnt, NEW at \in Int,
         at < p.len - 1, at >= 0 - 1, Cardinality(SlashesTo(p.mem, at)) = k
  PROVE  /\ IsSlash(p, k + 1, NextSlash(p, at + 1))
         /\ NextSlash(p, at + 1) > at
         /\ \A j \in at + 1..NextSlash(p, at + 1) - 1 : p.mem[j] # Slash
<1> DEFINE n == p.len
           C == {j \in at + 1..n - 2 : p.mem[j] = Slash}
           IsNext(x) == /\ x \in at + 1..n - 1 /\ p.mem[x] = Slash
                        /\ \A j \in at + 1..x - 1 : p.mem[j] # Slash
           next == NextSlash(p, at + 1)
<1>1. n \in Nat /\ p.slashcnt = Cardinality(SlashesTo(p.mem, n - 2)) /\ p.slashcnt \in Nat
  BY DEF PathTyped
<1>2. C # {}
  <2>1. SUFFICES ASSUME C = {} PROVE FALSE
    OBVIOUS
  <2>2. \A j : j \in 0..n - 2 => j \in 0..at \/ j \in at + 1..n - 2
    BY <1>1
  <2>3. \A j : j \in 0..at => j \in 0..n - 2
    BY <1>1
  <2>4. SlashesTo(p.mem, n - 2) = SlashesTo(p.mem, at)
    BY <2>1, <2>2, <2>3 DEF SlashesTo
  <2>5. QED
    BY <1>1, <2>4
<1>3. C \in SUBSET Nat
  BY <1>1
<1>4. PICK x \in C : \A y \in C : x <= y
  BY <1>2, <1>3, LeastNat
<1>5. IsNext(x)
  <2>1. ASSUME NEW j \in at + 1..x - 1 PROVE p.mem[j] # Slash
    <3>1. j \in at + 1..n - 2 /\ ~(x <= j)
      BY <1>1
    <3>2. QED
      BY <1>4, <3>1
  <2>2. x \in at + 1..n - 1 /\ p.mem[x] = Slash
    BY <1>1
  <2>3. QED
    BY <2>1, <2>2
<1>6. next = CHOOSE y \in at + 1..n - 1 : p.mem[y] = Slash /\ \A j \in at + 1..y - 1 : p.mem[j] # Slash
  BY DEF NextSlash
<1>7. IsNext(next)
  BY <1>5, <1>6
<1> HIDE DEF next
<1>8. next \in Nat /\ next <= x /\ at < next
  <2>1. next \in Nat /\ at < next /\ x \in Nat /\ x >= at + 1
    BY <1>1, <1>7
  <2>2. ~(x < next)
    <3>1. x < next => x \in at + 1..next - 1
      BY <2>1
    <3>2. QED
      BY <1>7, <3>1
  <2>3. QED
    BY <2>1, <2>2
<1>9. Cardinality(SlashesTo(p.mem, next)) = k + 1
  <2>1. \A j \in at + 1..next - 1 : p.mem[j] # Slash
    BY <1>7
  <2> DEFINE mem == p.mem
  <2> HIDE DEF mem
  <2>2. \A j \in 0..at : mem[j] = mem[j]
    OBVIOUS
  <2>3. Cardinality(SlashesTo(mem, next)) =
          Cardinality(SlashesTo(mem, at)) + IF mem[next] = Slash THEN 1 ELSE 0
    BY <1>8, <2>1, <2>2, SlashesNext DEF mem
  <2>4. QED
    BY <1>7, <2>3 DEF mem
<1>10. next \in 0..n - 2
  BY <1>1, <1>8
<1>11. QED
  BY <1>7, <1>8, <1>9, <1>10 DEF IsSlash, next

LEMMA SlashPosFound ==
  ASSUME NEW p, PathTyped(p), NEW k \in 1..p.slashcnt
  PROVE  /\ IsSlash(p, k, SlashPos(p)[k])
         /\ k = 1 => SlashPos(p)[k] = NextSlash(p, 0)
<1> DEFINE n == p.len
           m == p.slashcnt
           V == Int
           from(x) == NextSlash(p, x + 1)
           next == [x \in V \X (1..m) |-> IF from(x[1]) \in Int THEN from(x[1]) ELSE 0]
<1>1. n \in Nat /\ n # 0 /\ m \in Nat /\ 0 - 1 \in Int
  BY DEF PathTyped
<1>2. IsStep(next, m, V)
  BY DEF IsStep
<1>3. \A x \in V, j \in 1..m : next[<<x, j>>] = IF from(x) \in Int THEN from(x) ELSE 0
  OBVIOUS
<1> HIDE DEF next, V
<1>4. PICK f : IsRun(f, 0 - 1, next, m, V)
  <2> DEFINE base == 0 - 1
  <2>1. base \in V
    BY DEF V
  <2> HIDE DEF base
  <2>2. \E f : IsRun(f, base, next, m, V)
    BY <1>1, <1>2, <2>1, RecursionExists
  <2>3. QED
    BY <2>2 DEF base
<1>5. /\ f \in [0..m -> Int] /\ f[0] = 0 - 1
      /\ \A j \in 1..m : f[j] = next[<<f[j - 1], j>>]
  BY <1>4 DEF IsRun, V
<1> DEFINE Good(j) == /\ f[j] \in Int /\ f[j] < n - 1 /\ f[j] >= 0 - 1
                      /\ Cardinality(SlashesTo(p.mem, f[j])) = j
           T == {j \in Nat : j <= m => Good(j)}
<1>6. Good(0)
  <2>1. SlashesTo(p.mem, 0 - 1) = {}
    BY DEF SlashesTo
  <2>2. Cardinality({}) = 0
    BY FS_EmptySet
  <2>3. f[0] = 0 - 1
    BY <1>5
  <2>4. Cardinality(SlashesTo(p.mem, f[0])) = 0
    BY <2>1, <2>2, <2>3
  <2>5. f[0] \in Int /\ f[0] < n - 1 /\ f[0] >= 0 - 1
    BY <1>1, <2>3
  <2>6. QED
    BY <2>4, <2>5
<1>7. ASSUME NEW j \in Nat, j + 1 <= m, Good(j)
      PROVE  /\ f[j + 1] = NextSlash(p, f[j] + 1)
             /\ IsSlash(p, j + 1, f[j + 1])
  <2>1. /\ IsSlash(p, j + 1, NextSlash(p, f[j] + 1))
    <3>1. j < m
      BY <1>1, <1>7
    <3> DEFINE at == f[j]
    <3>2. at \in Int /\ at < p.len - 1 /\ at >= 0 - 1 /\ Cardinality(SlashesTo(p.mem, at)) = j
      BY <1>7
    <3> HIDE DEF at
    <3>3. IsSlash(p, j + 1, NextSlash(p, at + 1))
      BY <3>1, <3>2, NextSlashFound
    <3>4. QED
      BY <3>3 DEF at
  <2>2. from(f[j]) \in Int
    BY <1>1, <2>1 DEF IsSlash
  <2>3. j + 1 \in 1..m /\ (j + 1) - 1 = j
    BY <1>1, <1>7
  <2>4. f[j + 1] = next[<<f[j], j + 1>>]
    BY <1>5, <2>3
  <2>5. f[j + 1] = from(f[j])
    <3> DEFINE x == f[j]
    <3>1. x \in V /\ from(x) \in Int
      BY <1>7, <2>2 DEF V
    <3> HIDE DEF x
    <3>2. next[<<x, j + 1>>] = from(x)
      BY <1>3, <2>3, <3>1
    <3>3. QED
      BY <2>4, <3>2 DEF x
  <2>6. QED
    BY <2>1, <2>5
<1>8. Nat \subseteq T
  <2>1. ASSUME NEW j \in Nat, j \in T PROVE j + 1 \in T
    <3>1. SUFFICES ASSUME j + 1 <= m PROVE Good(j + 1)
      OBVIOUS
    <3>2. Good(j)
      BY <1>1, <2>1, <3>1
    <3>3. IsSlash(p, j + 1, f[j + 1])
      BY <1>7, <3>1, <3>2
    <3>4. QED
      BY <1>1, <3>3 DEF IsSlash
  <2>2. 0 \in T
    BY <1>6
  <2> HIDE DEF T
  <2>3. QED
    BY <2>1, <2>2, SetInduction
<1>9. \A j \in 1..m : /\ f[j] = NextSlash(p, f[j - 1] + 1)
                      /\ IsSlash(p, j, f[j])
  <2>1. ASSUME NEW j \in 1..m
        PROVE  f[j] = NextSlash(p, f[j - 1] + 1) /\ IsSlash(p, j, f[j])
    <3>1. j - 1 \in Nat /\ (j - 1) + 1 = j /\ j <= m
      BY <1>1
    <3>2. Good(j - 1)
      BY <1>1, <1>8, <3>1
    <3> DEFINE l == j - 1
    <3>3. l \in Nat /\ l + 1 = j /\ Good(l)
      BY <3>1, <3>2
    <3> HIDE DEF l, Good
    <3>4. f[l + 1] = NextSlash(p, f[l] + 1) /\ IsSlash(p, l + 1, f[l + 1])
      BY <1>7, <3>1, <3>3
    <3>5. QED
      BY <3>3, <3>4 DEF l
  <2>2. QED
    BY <2>1
<1> DEFINE Is(g) == g = [j \in 1..m |-> NextSlash(p, IF j = 1 THEN 0 ELSE g[j - 1] + 1)]
           pos == CHOOSE g : Is(g)
           h == [j \in 1..m |-> f[j]]
<1>10. Is(h)
  <2>1. ASSUME NEW j \in 1..m
        PROVE  f[j] = NextSlash(p, IF j = 1 THEN 0 ELSE h[j - 1] + 1)
    <3>1. CASE j = 1
      <4>1. f[j - 1] + 1 = 0
        BY <1>5, <3>1
      <4>2. QED
        BY <1>9, <3>1, <4>1
    <3>2. CASE j # 1
      <4>1. j - 1 \in 1..m
        BY <1>1, <3>2
      <4>2. QED
        BY <1>9, <3>2, <4>1
    <3>3. QED
      BY <3>1, <3>2
  <2>2. QED
    BY <2>1
<1>11. Is(pos)
  <2> HIDE DEF Is
  <2>1. QED
    BY <1>10
<1>12. SlashPos(p) = pos
  BY DEF SlashPos
<1> HIDE DEF pos
<1>13. \A j \in 1..m : pos[j] = f[j]
  <2> DEFINE U == {j \in Nat : j \in 1..m => pos[j] = f[j]}
  <2>1. 0 \in U
    OBVIOUS
  <2>2. ASSUME NEW j \in Nat, j \in U PROVE j + 1 \in U
    <3>1. SUFFICES ASSUME j + 1 \in 1..m PROVE pos[j + 1] = f[j + 1]
      OBVIOUS
    <3>2. pos[j + 1] = NextSlash(p, IF j + 1 = 1 THEN 0 ELSE pos[(j + 1) - 1] + 1)
      BY <1>11, <3>1
    <3>3. (j + 1) - 1 = j
      OBVIOUS
    <3>4. f[j + 1] = NextSlash(p, f[j] + 1)
      BY <1>9, <3>1, <3>3
    <3>5. CASE j = 0
      <4>1. f[j] + 1 = 0
        BY <1>5, <3>5
      <4>2. j + 1 = 1
        BY <3>5
      <4>3. QED
        BY <3>2, <3>4, <4>1, <4>2
    <3>6. CASE j # 0
      <4>1. j \in 1..m /\ j + 1 # 1
        BY <1>1, <3>1, <3>6
      <4>2. pos[j] = f[j]
        BY <2>2, <4>1
      <4>3. QED
        BY <3>2, <3>3, <3>4, <4>1, <4>2
    <3>7. QED
      BY <3>5, <3>6
  <2>3. Nat \subseteq U
    <3> HIDE DEF U
    <3>1. QED
      BY <2>1, <2>2, SetInduction
  <2>4. QED
    BY <2>3
<1>14. k = 1 => f[k] = NextSlash(p, 0)
  <2>1. SUFFICES ASSUME k = 1 PROVE f[k] = NextSlash(p, 0)
    OBVIOUS
  <2>2. f[k - 1] + 1 = 0
    BY <1>5, <2>1
  <2>3. QED
    BY <1>9, <2>2
<1>15. QED
  BY <1>9, <1>12, <1>13, <1>14

(* So the file's name is behind the last slash that was counted.           *)
LEMMA FileTyped ==
  ASSUME NEW p, PathTyped(p), p.slashcnt # 0
  PROVE  GetFile(p) \in Seq(Byte)
<1> DEFINE k == p.slashcnt
           at == SlashPos(p)[k]
<1>1. k \in 1..p.slashcnt /\ p.len \in Nat
  BY DEF PathTyped
<1>2. IsSlash(p, k, at)
  BY <1>1, SlashPosFound
<1> HIDE DEF k, at
<1>3. at + 1 \in 0..p.len
  BY <1>1, <1>2 DEF IsSlash
<1>4. CString(p, at + 1) \in Seq(Byte)
  BY <1>3, CStringFound
<1>5. QED
  BY <1>4 DEF GetFile, at, k

(* A mapped path has a slash.                                              *)
LEMMA MappedTyped ==
  ASSUME NEW p, PathTyped(p)
  PROVE  /\ IsMapped(p, Folders) \in 0..Len(Folders)
         /\ IsMapped(p, Folders) # 0 =>
              /\ InFolder(p, FolderPath(Folders[IsMapped(p, Folders)]))
              /\ p.slashcnt # 0
         /\ IsMapped(p, Folders) = 0 =>
              \A k \in 1..Len(Folders) : ~InFolder(p, FolderPath(Folders[k]))
<1> DEFINE in == {k \in 1..Len(Folders) : InFolder(p, FolderPath(Folders[k]))}
           f == IsMapped(p, Folders)
<1>1. f = IF in = {} THEN 0 ELSE CHOOSE k \in in : \A j \in in : k <= j
  BY DEF IsMapped
<1>2. Len(Folders) \in Nat /\ Folders \in Seq(Seq(Byte \ {0}))
  BY BytesAssumption, LenProperties
<1>3. CASE in = {}
  <2>1. f = 0
    BY <1>1, <1>3
  <2> HIDE DEF f
  <2>2. QED
    BY <1>2, <1>3, <2>1 DEF f
<1>4. CASE in # {}
  <2>1. in \in SUBSET Nat
    BY <1>2
  <2>2. \E k \in in : \A j \in in : k <= j
    <3> HIDE DEF in
    <3>1. QED
      BY <1>4, <2>1, LeastNat
  <2>3. f \in in
    BY <1>1, <1>4, <2>2
  <2> HIDE DEF f
  <2>4. f \in 1..Len(Folders) /\ InFolder(p, FolderPath(Folders[f]))
    BY <2>3
  <2>5. p.slashcnt # 0
    <3> DEFINE url == Folders[f]
               S == {k \in 1..Len(url) : url[k] = Slash}
    <3>1. FolderPath(url).slashcnt = p.slashcnt - 1
      BY <2>4 DEF InFolder
    <3>2. FolderPath(url).slashcnt = Cardinality(S)
      BY DEF FolderPath
    <3>3. url \in Seq(Byte \ {0})
      BY <1>2, <2>4, ElementOfSeq
    <3>4. Len(url) \in Int
      BY <3>3, LenProperties
    <3>5. IsFiniteSet(1..Len(url))
      <4> DEFINE l == Len(url)
      <4> HIDE DEF l
      <4>1. IsFiniteSet(1..l)
        BY <3>4, FS_Interval DEF l
      <4>2. QED
        BY <4>1 DEF l
    <3>6. S \subseteq 1..Len(url)
      OBVIOUS
    <3> HIDE DEF S
    <3>7. IsFiniteSet(S)
      BY <3>5, <3>6, FS_Subset
    <3>8. Cardinality(S) \in Nat
      BY <3>7, FS_CardinalityType
    <3>9. p.slashcnt \in Nat
      BY DEF PathTyped
    <3>10. QED
      BY <3>1, <3>2, <3>8, <3>9
  <2>6. f # 0
    BY <1>2, <2>4
  <2>7. QED
    BY <1>2, <2>4, <2>5, <2>6 DEF f
<1>5. QED
  BY <1>3, <1>4

-----------------------------------------------------------------------------
(***************************************************************************)
(* The invariant of the path and of the message.                           *)
(***************************************************************************)
(* The path is that of what came, as soon as there is one.                 *)
HasPath == step \notin {"raw", "crashed"}

PathMade ==
  IF HasPath
  THEN In # <<>> /\ \E heap \in HeapBytes : path = Decode(In, heap)
  ELSE path = NoPath

(* It is served as what it is.                                             *)
Served ==
  /\ ~HasPath \/ step = "body" => folder = 0 /\ file = <<>>
  /\ HasPath /\ step # "body" => folder = IsMapped(path, Folders)
  /\ step = "static" => folder # 0 /\ file = GetFile(path)
  /\ HasPath /\ step \notin {"body", "static"} => folder = 0 /\ file = <<>>

(* What request_to_xml has written: the calls before the path, its letters *)
(* that are not to do any more, the closing.                               *)
EscapesOf(c) == [k \in 1..Len(c) |-> Escape(c[k])]

Begun(s, n) == FlattenSeq(SubSeq(s, 1, n))

(* In the letters c of the path, left are to do.                           *)
WrittenUpTo(t, c, left) ==
  LET done == Len(c) - Len(left) IN
  /\ done \in 0..Len(c) /\ left = SubSeq(c, done + 1, Len(c))
  /\ t = FlattenSeq(Preamble) \o Begun(EscapesOf(c), done)

WrittenAll(t, c) == t = FlattenSeq(Preamble) \o FlattenSeq(EscapesOf(c))

Written ==
  /\ step \in {"raw", "crashed", "body", "static"} => part = 0 /\ text = <<>>
  /\ step = "xml" => text = Begun(Preamble, part)
  /\ step = "path" => WrittenUpTo(text, CString(path, 0), todo)
  /\ step = "close" => WrittenAll(text, CString(path, 0))
  /\ step = "sent" => \E t : WrittenAll(t, CString(path, 0)) /\ text = t \o Closing

RequestTyped ==
  /\ raw \in Seq(Byte \ {0})
  /\ step \in {"raw", "crashed", "body", "static", "xml", "path", "close", "sent"}
  /\ part \in 0..Len(Preamble)
  /\ inval = (step = "path")

RequestIInv == IInv /\ TextKept /\ RequestTyped /\ PathMade /\ Served /\ Written

LEMMA InTyped ==
  ASSUME raw \in Seq(Byte \ {0})
  PROVE  In \in Seq(Byte \ {0}) /\ In \in Seq(Byte)
<1>1. In \in Seq(Byte \ {0})
  BY HeadTailProperties DEF In, WithoutSlash
<1>2. \A s : s \in Seq(Byte \ {0}) => s \in Seq(Byte)
  OBVIOUS
<1>3. QED
  BY <1>1, <1>2

LEMMA PathIsTyped ==
  ASSUME RequestTyped, PathMade, HasPath
  PROVE  /\ PathTyped(path) /\ path.len = Len(In)
         /\ CString(path, 0) \in Seq(Byte)
<1>1. PICK heap \in HeapBytes : path = Decode(In, heap)
  BY DEF PathMade
<1>2. heap \in Byte /\ In # <<>> /\ In \in Seq(Byte)
  BY BytesAssumption, InTyped DEF PathMade, RequestTyped
<1>3. PathTyped(path) /\ path.len = Len(In)
  BY <1>1, <1>2, DecodeTyped
<1>4. 0 \in 0..path.len
  BY <1>3 DEF PathTyped
<1>5. QED
  BY <1>3, <1>4, CStringFound

(* Each step of the request is a step of the buffer, or leaves it alone.   *)
LEMMA BufferNext ==
  ASSUME RequestTyped, PathMade, [RequestNext]_allvars
  PROVE  [Next]_vars
<1>1. CASE AppendPreamble
  <2>1. part + 1 \in 1..Len(Preamble)
    BY <1>1, BytesAssumption DEF AppendPreamble, RequestTyped
  <2>2. Preamble[part + 1] \in Seq(Byte)
    BY <2>1, BytesAssumption, ElementOfSeq
  <2>3. QED
    BY <1>1, <2>2 DEF AppendPreamble, Next
<1>2. CASE AppendPath
  <2>1. CString(path, 0) \in Seq(Byte)
    BY <1>2, PathIsTyped DEF AppendPath, HasPath
  <2>2. QED
    BY <1>2, <2>1 DEF AppendPath, Next
<1>3. CASE AppendLetter
  BY <1>3 DEF AppendLetter, Next
<1>4. CASE AppendNul
  BY <1>4 DEF AppendNul, Next
<1>5. CASE AppendClosing
  BY <1>5, BytesAssumption DEF AppendClosing, Next
<1>6. CASE Construct \/ ParseBody \/ Serve \/ BodyToXml
  BY <1>6 DEF Construct, ParseBody, Serve, BodyToXml
<1>7. CASE UNCHANGED allvars
  BY <1>7 DEF allvars
<1>8. QED
  BY <1>1, <1>2, <1>3, <1>4, <1>5, <1>6, <1>7 DEF RequestNext, Write

LEMMA EmptyBegun ==
  ASSUME NEW S, NEW s \in Seq(S)
  PROVE  Begun(s, 0) = <<>>
<1>1. SubSeq(s, 1, 0) = <<>>
  BY SubSeqEmpty
<1>2. FlattenSeq(<<>>) = <<>>
  BY DEF FlattenSeq
<1>3. QED
  BY <1>1, <1>2 DEF Begun

LEMMA InitRequestIInv == RequestInit => RequestIInv
<1> SUFFICES ASSUME RequestInit PROVE RequestIInv
  OBVIOUS
<1>1. IInv
  BY InitIInv DEF RequestInit
<1>2. TextKept
  BY ConcatEmptySeq DEF RequestInit, Init, TextKept
<1>3. RequestTyped
  <2>1. raw \in Seq(Byte \ {0})
    BY RequestsAssumption DEF RequestInit
  <2>2. 0 \in 0..Len(Preamble)
    BY BytesAssumption, LenProperties
  <2>3. QED
    BY <2>1, <2>2 DEF RequestTyped, RequestInit, Init
<1>4. PathMade /\ Served
  BY DEF RequestInit, PathMade, HasPath, Served
<1>5. Written
  BY DEF RequestInit, Init, Written
<1>6. QED
  BY <1>1, <1>2, <1>3, <1>4, <1>5 DEF RequestIInv

(* The type, the path and what it is served as.                            *)
LEMMA RequestTypedNext ==
  ASSUME RequestTyped, [RequestNext]_allvars
  PROVE  RequestTyped'
<1>1. CASE Construct
  BY <1>1 DEF Construct, RequestTyped, vars
<1>2. CASE ParseBody \/ BodyToXml
  BY <1>2 DEF ParseBody, BodyToXml, RequestTyped, vars, request
<1>3. CASE Serve
  BY <1>3 DEF Serve, RequestTyped, vars
<1>4. CASE AppendPreamble
  <2>1. part + 1 \in 0..Len(Preamble)
    BY <1>4, BytesAssumption DEF AppendPreamble, RequestTyped
  <2>2. QED
    BY <1>4, <2>1 DEF AppendPreamble, RequestTyped, request, StrAppend
<1>5. CASE AppendPath
  BY <1>5 DEF AppendPath, RequestTyped, request, ValBegin
<1>6. CASE AppendLetter
  BY <1>6 DEF AppendLetter, RequestTyped, request, ValLetter
<1>7. CASE AppendNul
  BY <1>7 DEF AppendNul, RequestTyped, request, ValEnd
<1>8. CASE AppendClosing
  BY <1>8 DEF AppendClosing, RequestTyped, request, StrAppend
<1>9. CASE UNCHANGED allvars
  BY <1>9 DEF allvars, vars, RequestTyped
<1>10. QED
  BY <1>1, <1>2, <1>3, <1>4, <1>5, <1>6, <1>7, <1>8, <1>9 DEF RequestNext, Write

LEMMA PathMadeNext ==
  ASSUME RequestTyped, PathMade, Served, [RequestNext]_allvars
  PROVE  PathMade' /\ Served'
<1>1. CASE Construct
  <2>1. step = "raw" /\ raw' = raw /\ folder' = folder /\ file' = file
    BY <1>1 DEF Construct
  <2>2. folder = 0 /\ file = <<>> /\ path = NoPath
    BY <2>1 DEF Served, PathMade, HasPath
  <2>3. CASE step' = "crashed" /\ path' = path
    BY <2>1, <2>2, <2>3 DEF PathMade, Served, HasPath
  <2>4. CASE step' = "body" /\ WithoutSlash(raw) # <<>>
             /\ \E heap \in HeapBytes : path' = Decode(WithoutSlash(raw), heap)
    BY <2>1, <2>2, <2>4 DEF PathMade, Served, HasPath, In
  <2>5. QED
    BY <1>1, <2>3, <2>4 DEF Construct
<1>2. CASE Serve
  <2>1. /\ step = "body" /\ raw' = raw /\ path' = path
        /\ folder' = IsMapped(path, Folders)
        /\ IF folder' # 0
           THEN step' = "static" /\ file' = GetFile(path)
           ELSE step' = "xml" /\ file' = file
    BY <1>2 DEF Serve
  <2>2. file = <<>>
    BY <2>1 DEF Served
  <2>3. PathMade'
    BY <2>1 DEF PathMade, HasPath, In
  <2>4. CASE folder' # 0
    <3>1. step' = "static" /\ file' = GetFile(path') /\ folder' = IsMapped(path', Folders)
      BY <2>1, <2>4
    <3>2. Served'
      BY <2>4, <3>1 DEF Served, HasPath
    <3>3. QED
      BY <2>3, <3>2
  <2>5. CASE folder' = 0
    <3>1. step' = "xml" /\ file' = <<>> /\ folder' = IsMapped(path', Folders)
      BY <2>1, <2>2, <2>5
    <3>2. Served'
      BY <2>5, <3>1 DEF Served, HasPath
    <3>3. QED
      BY <2>3, <3>2
  <2>6. QED
    BY <2>3, <2>4, <2>5
<1>3. CASE /\ request' = request
           /\ \/ step' = step
              \/ step \in {"xml", "path", "close"} /\ step' \in {"path", "close", "sent"}
  <2>1. raw' = raw /\ path' = path /\ folder' = folder /\ file' = file
    BY <1>3 DEF request
  <2>2. CASE step' = step
    BY <2>1, <2>2 DEF PathMade, Served, HasPath, In
  <2>3. CASE step \in {"xml", "path", "close"} /\ step' \in {"path", "close", "sent"}
    BY <2>1, <2>3 DEF PathMade, Served, HasPath, In
  <2>4. QED
    BY <1>3, <2>2, <2>3
<1>4. CASE ParseBody \/ BodyToXml \/ AppendPreamble \/ AppendLetter
  BY <1>3, <1>4 DEF ParseBody, BodyToXml, AppendPreamble, AppendLetter
<1>5. CASE AppendPath \/ AppendNul \/ AppendClosing
  BY <1>3, <1>5 DEF AppendPath, AppendNul, AppendClosing
<1>6. CASE UNCHANGED allvars
  BY <1>3, <1>6 DEF allvars, request
<1>7. QED
  BY <1>1, <1>2, <1>4, <1>5, <1>6 DEF RequestNext, Write

(* All of it begun.                                                        *)
LEMMA AllBegun ==
  ASSUME NEW S, NEW s \in Seq(S)
  PROVE  Begun(s, Len(s)) = FlattenSeq(s)
  BY SubSeqFull DEF Begun

(* The escapes of a C string.                                              *)
LEMMA EscapesTyped ==
  ASSUME NEW c \in Seq(Byte)
  PROVE  EscapesOf(c) \in Seq(Seq(Char)) /\ Len(EscapesOf(c)) = Len(c)
<1>1. Len(c) \in Nat /\ \A k \in 1..Len(c) : c[k] \in Byte
  BY LenProperties, ElementOfSeq
<1>2. \A k \in 1..Len(c) : Escape(c[k]) \in Seq(Char)
  BY <1>1, EscapeType
<1>3. QED
  BY <1>1, <1>2 DEF EscapesOf

(* One letter more.                                                        *)
LEMMA LetterWritten ==
  ASSUME NEW c \in Seq(Byte), NEW left, left # <<>>, NEW t, WrittenUpTo(t, c, left)
  PROVE  WrittenUpTo(t \o Escape(Head(left)), c, Tail(left))
<1> DEFINE n == Len(c)
           done == n - Len(left)
           s == EscapesOf(c)
           pre == FlattenSeq(Preamble)
<1>1. /\ done \in 0..n /\ left = SubSeq(c, done + 1, n)
      /\ t = pre \o Begun(s, done)
  BY DEF WrittenUpTo
<1>2. n \in Nat
  BY LenProperties
<1> HIDE DEF done
<1>3. done + 1 \in 1..n
  <2>1. done # n
    <3>1. SUFFICES ASSUME done = n PROVE FALSE
      OBVIOUS
    <3>2. SubSeq(c, n + 1, n) = <<>>
      BY <1>2, SubSeqEmpty
    <3>3. QED
      BY <1>1, <3>1, <3>2
  <2>2. QED
    BY <1>1, <1>2, <2>1
<1>4. /\ Head(left) = c[done + 1]
      /\ Tail(left) = SubSeq(c, (done + 1) + 1, n)
      /\ Len(left) = n - done /\ Len(Tail(left)) = n - (done + 1)
  <2> DEFINE a == done + 1
  <2>1. a \in 1..n /\ a + 1 \in Int /\ n \in Int
    BY <1>2, <1>3
  <2>2. left = SubSeq(c, a, n)
    BY <1>1
  <2> HIDE DEF a
  <2>3. left \in Seq(Byte) /\ Len(left) = n - a + 1 /\ left[1] = c[a]
    <3>1. \A k \in a..n : c[k] \in Byte
      BY <2>1, ElementOfSeq
    <3>2. /\ SubSeq(c, a, n) \in Seq(Byte)
          /\ Len(SubSeq(c, a, n)) = IF a <= n THEN n - a + 1 ELSE 0
          /\ \A k \in 1..n - a + 1 : SubSeq(c, a, n)[k] = c[a + k - 1]
      BY <2>1, <3>1, SubSeqProperties
    <3>3. 1 \in 1..n - a + 1 /\ a + 1 - 1 = a
      BY <2>1
    <3>4. QED
      BY <2>1, <2>2, <3>2, <3>3
  <2>4. Head(left) = c[a]
    BY <2>3
  <2>5. Tail(left) = SubSeq(c, a + 1, n)
    BY <2>1, <2>2, HeadTailOfSubSeq
  <2>6. Len(Tail(left)) = Len(left) - 1
    BY <2>3, HeadTailProperties
  <2>7. QED
    BY <1>1, <1>2, <2>3, <2>4, <2>5, <2>6 DEF a
<1>5. Begun(s, done + 1) = Begun(s, done) \o Escape(c[done + 1]) /\ Begun(s, done) \in Seq(Char)
  <2>1. s \in Seq(Seq(Char)) /\ Len(s) = n
    BY EscapesTyped
  <2>2. s[done + 1] = Escape(c[done + 1])
    BY <1>3 DEF EscapesOf
  <2> HIDE DEF s, n
  <2>3. done \in Nat /\ done < Len(s)
    BY <1>2, <1>3, <1>1, <2>1
  <2>4. QED
    BY <2>1, <2>2, <2>3, FlattenMore DEF Begun
<1>6. pre \in Seq(Char)
  <2>1. pre \in Seq(Byte)
    BY BytesAssumption, FlattenTyped
  <2>2. QED
    BY <2>1 DEF Char
<1>7. c[done + 1] \in Byte
  BY <1>3, ElementOfSeq
<1>8. (pre \o Begun(s, done)) \o Escape(c[done + 1]) = pre \o Begun(s, done + 1)
  <2> DEFINE x == Begun(s, done)
             y == Escape(c[done + 1])
  <2>1. pre \in Seq(Char) /\ x \in Seq(Char) /\ y \in Seq(Char)
    BY <1>5, <1>6, <1>7, EscapeType
  <2>2. Begun(s, done + 1) = x \o y
    BY <1>5
  <2> HIDE DEF pre, x, y
  <2>3. (pre \o x) \o y = pre \o (x \o y)
    BY <2>1, ConcatAssociative
  <2>4. QED
    BY <2>2, <2>3 DEF x, y
<1>9. n - Len(Tail(left)) = done + 1
  <2> DEFINE l == Len(Tail(left))
  <2>1. l = n - (done + 1)
    BY <1>4
  <2> HIDE DEF l, n
  <2>2. done \in Int /\ n \in Int
    BY <1>2, <1>3, <1>1
  <2>3. n - l = done + 1
    BY <2>1, <2>2
  <2>4. QED
    BY <2>3 DEF l
<1>10. QED
  <2>1. done + 1 \in 0..n
    BY <1>2, <1>3
  <2>2. t \o Escape(Head(left)) = pre \o Begun(s, done + 1)
    BY <1>1, <1>4, <1>8
  <2>3. /\ n - Len(Tail(left)) \in 0..n
        /\ Tail(left) = SubSeq(c, (n - Len(Tail(left))) + 1, n)
        /\ t \o Escape(Head(left)) = pre \o Begun(s, n - Len(Tail(left)))
    BY <1>4, <1>9, <2>1, <2>2
  <2>4. QED
    BY <2>3 DEF WrittenUpTo

(* And none left.                                                          *)
LEMMA LettersWritten ==
  ASSUME NEW c \in Seq(Byte), NEW t, WrittenUpTo(t, c, <<>>)
  PROVE  WrittenAll(t, c)
<1>1. Len(c) \in Nat /\ Len(<<>>) = 0 /\ Len(c) - 0 = Len(c)
  BY LenProperties
<1>2. t = FlattenSeq(Preamble) \o Begun(EscapesOf(c), Len(c))
  BY <1>1 DEF WrittenUpTo
<1>3. Begun(EscapesOf(c), Len(c)) = FlattenSeq(EscapesOf(c))
  BY EscapesTyped, AllBegun
<1>4. QED
  BY <1>2, <1>3 DEF WrittenAll

LEMMA WrittenNext ==
  ASSUME RequestIInv, [RequestNext]_allvars
  PROVE  Written'
<1>1. TypeOK /\ RequestTyped /\ PathMade /\ Written /\ Served
  BY DEF RequestIInv, IInv
<1>2. CASE Construct
  BY <1>1, <1>2 DEF Construct, Written, vars
<1>3. CASE Serve
  <2>1. step = "body" /\ step' \in {"static", "xml"} /\ part' = part /\ text' = text
    BY <1>3 DEF Serve, vars
  <2>2. part = 0 /\ text = <<>>
    BY <1>1, <2>1 DEF Written
  <2>3. Begun(Preamble, 0) = <<>>
    BY BytesAssumption, EmptyBegun
  <2>4. QED
    BY <2>1, <2>2, <2>3 DEF Written
<1>4. CASE AppendPreamble
  <2>1. /\ step = "xml" /\ step' = "xml" /\ part' = part + 1
        /\ text' = text \o Preamble[part + 1] /\ part < Len(Preamble)
    BY <1>4 DEF AppendPreamble, StrAppend
  <2>2. part \in Nat /\ text = Begun(Preamble, part)
    BY <1>1, <2>1, BytesAssumption DEF RequestTyped, Written
  <2>3. Begun(Preamble, part + 1) = Begun(Preamble, part) \o Preamble[part + 1]
    BY <2>1, <2>2, BytesAssumption, FlattenMore DEF Begun
  <2>4. QED
    BY <2>1, <2>2, <2>3 DEF Written
<1>5. CASE AppendPath
  <2>1. /\ step = "xml" /\ step' = "path" /\ part = Len(Preamble)
        /\ text' = text /\ todo' = CString(path, 0) /\ path' = path
    BY <1>5 DEF AppendPath, ValBegin, request
  <2> DEFINE c == CString(path, 0)
  <2>2. c \in Seq(Byte)
    BY <1>1, <2>1, PathIsTyped DEF HasPath
  <2> HIDE DEF c
  <2>3. text = FlattenSeq(Preamble)
    BY <1>1, <2>1, BytesAssumption, AllBegun DEF Written
  <2>4. Len(c) \in Nat /\ Len(c) - Len(c) = 0 /\ 0 + 1 = 1
    BY <2>2, LenProperties
  <2>5. SubSeq(c, 1, Len(c)) = c
    BY <2>2, SubSeqFull
  <2>6. Begun(EscapesOf(c), 0) = <<>>
    BY <2>2, EscapesTyped, EmptyBegun
  <2>7. text = text \o <<>>
    BY <1>1, ConcatEmptySeq DEF TypeOK
  <2>8. WrittenUpTo(text, c, c)
    <3> DEFINE done == Len(c) - Len(c)
    <3>1. done = 0 /\ done + 1 = 1 /\ done \in 0..Len(c)
      BY <2>4
    <3>2. c = SubSeq(c, done + 1, Len(c))
      BY <2>5, <3>1
    <3>3. text = FlattenSeq(Preamble) \o Begun(EscapesOf(c), done)
      BY <2>3, <2>6, <2>7, <3>1
    <3>4. QED
      BY <3>1, <3>2, <3>3 DEF WrittenUpTo
  <2>9. WrittenUpTo(text', CString(path', 0), todo')
    BY <2>1, <2>8 DEF c
  <2>10. QED
    BY <2>1, <2>9 DEF Written
<1>6. CASE AppendLetter
  <2>1. /\ step = "path" /\ step' = "path" /\ path' = path /\ todo # <<>>
        /\ text' = text \o Escape(Head(todo)) /\ todo' = Tail(todo)
    BY <1>6 DEF AppendLetter, ValLetter, request
  <2>2. CString(path, 0) \in Seq(Byte) /\ WrittenUpTo(text, CString(path, 0), todo)
    BY <1>1, <2>1, PathIsTyped DEF HasPath, Written
  <2>3. WrittenUpTo(text', CString(path, 0), todo')
    BY <2>1, <2>2, LetterWritten
  <2>4. QED
    BY <2>1, <2>3 DEF Written
<1>7. CASE AppendNul
  <2>1. /\ step = "path" /\ step' = "close" /\ path' = path /\ todo = <<>>
        /\ text' = text
    BY <1>7 DEF AppendNul, ValEnd, request
  <2>2. CString(path, 0) \in Seq(Byte) /\ WrittenUpTo(text, CString(path, 0), todo)
    BY <1>1, <2>1, PathIsTyped DEF HasPath, Written
  <2>3. WrittenAll(text, CString(path, 0))
    BY <2>1, <2>2, LettersWritten
  <2>4. WrittenAll(text', CString(path', 0))
    BY <2>1, <2>3
  <2>5. QED
    BY <2>1, <2>4 DEF Written
<1>8. CASE AppendClosing
  <2>1. /\ step = "close" /\ step' = "sent" /\ path' = path
        /\ text' = text \o Closing
    BY <1>8 DEF AppendClosing, StrAppend, request
  <2>2. WrittenAll(text, CString(path, 0))
    BY <1>1, <2>1 DEF Written
  <2>3. QED
    BY <2>1, <2>2 DEF Written
<1>9. CASE ParseBody \/ BodyToXml
  <2>1. step' = step /\ part' = part /\ text' = text /\ path' = path /\ todo' = todo
    BY <1>9 DEF ParseBody, BodyToXml, vars, request
  <2>2. QED
    BY <1>1, <2>1 DEF Written
<1>10. CASE UNCHANGED allvars
  <2>1. step' = step /\ part' = part /\ text' = text /\ path' = path /\ todo' = todo
    BY <1>10 DEF allvars, vars
  <2>2. QED
    BY <1>1, <2>1 DEF Written
<1>11. QED
  BY <1>2, <1>3, <1>4, <1>5, <1>6, <1>7, <1>8, <1>9, <1>10 DEF RequestNext, Write

LEMMA RequestIInvNext ==
  ASSUME RequestIInv, [RequestNext]_allvars
  PROVE  RequestIInv'
<1>1. [Next]_vars
  BY BufferNext DEF RequestIInv
<1>2. IInv'
  BY <1>1, NextIInv DEF RequestIInv
<1>3. TextKept'
  BY <1>1, NextTextKept DEF RequestIInv
<1>4. RequestTyped' /\ PathMade' /\ Served' /\ Written'
  BY RequestTypedNext, PathMadeNext, WrittenNext DEF RequestIInv
<1>5. QED
  BY <1>2, <1>3, <1>4 DEF RequestIInv

-----------------------------------------------------------------------------
(***************************************************************************)
(* The theorems about the message.                                         *)
(***************************************************************************)
\* The message never leaves its area.
THEOREM MessageInArea == RequestSpec => []InArea
<1>1. RequestIInv => InArea
  BY DEF RequestIInv, IInv
<1>2. QED
  BY <1>1, InitRequestIInv, RequestIInvNext, PTL DEF RequestSpec

\* And it has all that was written, if the area never grew within the path.
THEOREM MessageKept == RequestSpec => []TextKept
<1>1. RequestIInv => TextKept
  BY DEF RequestIInv
<1>2. QED
  BY <1>1, InitRequestIInv, RequestIInvNext, PTL DEF RequestSpec

\* The message is the path between what goes before and behind.
THEOREM MessageIsWhole == RequestSpec => []MessageWhole
<1>1. RequestIInv => MessageWhole
  <2> SUFFICES ASSUME RequestIInv, step = "sent", ~lost
               PROVE  content = FlattenSeq(Preamble)
                                \o FlattenSeq([i \in 1..Len(CString(path, 0)) |->
                                                 Escape(CString(path, 0)[i])])
                                \o Closing
    BY DEF MessageWhole
  <2>1. content = text
    <3>1. tail = <<>> /\ content \in Seq(Char)
      BY DEF RequestIInv, RequestTyped, IInv, Idle, TypeOK, Char
    <3>2. content \o <<>> = content
      BY <3>1, ConcatEmptySeq
    <3>3. QED
      BY <3>1, <3>2 DEF RequestIInv, TextKept
  <2>2. text = FlattenSeq(Preamble) \o FlattenSeq(EscapesOf(CString(path, 0))) \o Closing
    BY DEF RequestIInv, Written, WrittenAll
  <2>3. QED
    BY <2>1, <2>2 DEF EscapesOf
<1>2. QED
  BY <1>1, InitRequestIInv, RequestIInvNext, PTL DEF RequestSpec

(* What the type of the path's state is.                                   *)
LEMMA RequestTypedType ==
  ASSUME RequestIInv
  PROVE  /\ raw \in Seq(Byte)
         /\ path.len \in Nat /\ path.slashcnt \in 0..path.len
         /\ path.mem \in [0..path.len -> Byte]
         /\ folder \in 0..Len(Folders)
         /\ file \in Seq(Byte)
<1>1. raw \in Seq(Byte)
  <2>1. \A s : s \in Seq(Byte \ {0}) => s \in Seq(Byte)
    OBVIOUS
  <2>2. QED
    BY <2>1 DEF RequestIInv, RequestTyped
<1>2. CASE HasPath
  <2>1. PathTyped(path)
    BY <1>2, PathIsTyped DEF RequestIInv
  <2>2. path.len \in Nat /\ path.slashcnt \in 0..path.len /\ path.mem \in [0..path.len -> Byte]
    BY <2>1 DEF PathTyped
  <2>3. IsMapped(path, Folders) \in 0..Len(Folders)
    BY <2>1, MappedTyped
  <2>4. Len(Folders) \in Nat
    BY BytesAssumption, LenProperties
  <2>5. folder \in 0..Len(Folders)
    BY <1>2, <2>3, <2>4 DEF RequestIInv, Served
  <2>6. CASE step = "static"
    <3>1. IsMapped(path, Folders) # 0 /\ file = GetFile(path)
      BY <1>2, <2>6 DEF RequestIInv, Served
    <3>2. path.slashcnt # 0
      BY <2>1, <3>1, MappedTyped
    <3>3. file \in Seq(Byte)
      BY <2>1, <3>1, <3>2, FileTyped
    <3>4. QED
      BY <1>1, <2>2, <2>5, <3>3
  <2>7. CASE step # "static"
    <3>1. file = <<>>
      BY <1>2, <2>7 DEF RequestIInv, Served
    <3>2. QED
      BY <1>1, <2>2, <2>5, <3>1
  <2>8. QED
    BY <2>6, <2>7
<1>3. CASE ~HasPath
  <2>1. path = NoPath /\ folder = 0 /\ file = <<>>
    BY <1>3 DEF RequestIInv, PathMade, Served
  <2>2. Len(Folders) \in Nat /\ 0 \in Byte
    BY BytesAssumption, LenProperties
  <2>3. QED
    BY <1>1, <2>1, <2>2 DEF NoPath
<1>4. QED
  BY <1>2, <1>3

\* The state has its type: the offsets, names and values of the post data are
\* in the body, the slashes that were counted in the path, the file's name
\* and the folder are there when they are used.
THEOREM RequestTypeCorrect == RequestSpec => []RequestTypeOK
<1>1. PostIInv => Post!TypeOK
  <2>1. PostIInv => Found!TypeOK
    BY BoundaryGiven, Found!PostTyped DEF PostIInv, Found!SurviveInv
  <2>2. Found!TypeOK => Post!TypeOK
    BY FoundShape DEF Found!TypeOK, Post!TypeOK, Found!Length, Post!Length, Found!L, Post!L
  <2>3. QED
    BY <2>1, <2>2
<1>2. RequestIInv /\ PostIInv => RequestTypeOK
  <2>1. RequestIInv => TypeOK
    BY DEF RequestIInv, IInv
  <2>2. QED
    BY <1>1, <2>1, RequestTypedType DEF RequestTypeOK, RequestIInv, RequestTyped
<1>3. QED
  BY <1>2, InitRequestIInv, RequestIInvNext, InitPostIInv, NextPostIInv, PTL DEF RequestSpec

-----------------------------------------------------------------------------
(***************************************************************************)
(* What a well-formed path is decoded to.                                  *)
(***************************************************************************)
(* Where the letters start that are before offset r (from 1) of a path.    *)
StartsBefore(in, r) == {j \in Starts(in) : j < r}

(* After k turns: what is to be read is as it came; if something is, the   *)
(* k letters before it have been decoded; and each that is behind the      *)
(* reading is where it belongs.                                            *)
Unread(d, in) == \A i \in d.read..Len(in) - 1 : d.mem[i] = in[i + 1]

AtStart(d, in, k) ==
  d.read < Len(in) =>
    /\ d.read + 1 \in Starts(in)
    /\ Cardinality(StartsBefore(in, d.read + 1)) = k

Placed(d, in, r, k) ==
  LET at == Cardinality(StartsBefore(in, r)) IN at < k /\ d.mem[at] = Decoded(in, r)

ReadPlaced(d, in, k) == \A r \in Starts(in) : r <= d.read => Placed(d, in, r, k)

OnTrack(d, in, k) ==
  InPlace(d, k) /\ Unread(d, in) /\ AtStart(d, in, k) /\ ReadPlaced(d, in, k)

LEMMA StartsFinite ==
  ASSUME NEW in \in Seq(Byte), NEW r \in Int
  PROVE  /\ IsFiniteSet(StartsBefore(in, r))
         /\ Cardinality(StartsBefore(in, r)) \in Nat
<1>1. Len(in) \in Nat /\ IsFiniteSet(1..Len(in))
  BY LenProperties, FS_Interval
<1>2. StartsBefore(in, r) \subseteq 1..Len(in)
  BY DEF StartsBefore, Starts
<1>3. QED
  BY <1>1, <1>2, FS_Subset, FS_CardinalityType

(* The letter at r goes as far as the next one starts.                     *)
Taking(in, r) == IF in[r] = Percent THEN 3 ELSE 1

LEMMA NextStart ==
  ASSUME NEW in \in Seq(Byte), WellFormed(in), NEW r \in Starts(in)
  PROVE  /\ r \in 1..Len(in) /\ r + Taking(in, r) <= Len(in) + 1
         /\ r + Taking(in, r) <= Len(in) => r + Taking(in, r) \in Starts(in)
         /\ \A j \in Starts(in) : j < r + Taking(in, r) <=> j < r \/ j = r
         /\ Cardinality(StartsBefore(in, r + Taking(in, r))) =
              Cardinality(StartsBefore(in, r)) + 1
<1> DEFINE n == Len(in)
           s == r + Taking(in, r)
<1>1. n \in Nat /\ r \in 1..n
  BY LenProperties DEF Starts
<1>2. /\ \A j \in 1..n : j = r - 1 \/ j = r - 2 => in[j] # Percent
      /\ in[r] = Percent =>
           /\ r + 2 <= n
           /\ in[r + 1] # Percent /\ in[r + 2] # Percent
  <2>1. \A j \in {r - 1, r - 2} \cap (1..n) : in[j] # Percent
    BY DEF Starts
  <2>2. \A b : IsHex(b) => b # Percent
    BY DEF IsHex, Percent
  <2>3. in[r] = Percent => r + 2 <= n /\ IsHex(in[r + 1]) /\ IsHex(in[r + 2])
    BY <1>1 DEF WellFormed
  <2>4. QED
    BY <2>1, <2>2, <2>3
<1>3. s = (IF in[r] = Percent THEN r + 3 ELSE r + 1) /\ s \in Int
  BY <1>1 DEF Taking
<1>4. s <= n + 1
  BY <1>1, <1>2, <1>3
<1>5. \A j \in Starts(in) : j \in 1..n /\ \A l \in 1..n : l = j - 1 \/ l = j - 2 => in[l] # Percent
  BY DEF Starts
<1> HIDE DEF s
<1>6. \A j \in Starts(in) : j < s <=> j < r \/ j = r
  <2>1. CASE in[r] = Percent
    <3>1. s = r + 3 /\ r + 2 <= n
      BY <1>2, <1>3, <2>1
    <3>2. \A j \in Starts(in) : j # r + 1 /\ j # r + 2
      BY <1>1, <1>5, <2>1
    <3>3. QED
      BY <1>1, <1>5, <3>1, <3>2
  <2>2. CASE in[r] # Percent
    <3>1. s = r + 1
      BY <1>3, <2>2
    <3>2. QED
      BY <1>1, <1>5, <3>1
  <2>3. QED
    BY <2>1, <2>2
<1>7. s <= n => s \in Starts(in)
  <2>1. SUFFICES ASSUME s <= n
                 PROVE  s \in 1..n /\ \A j \in {s - 1, s - 2} \cap (1..n) : in[j] # Percent
    BY DEF Starts
  <2>2. CASE in[r] = Percent
    <3>1. s = r + 3 /\ s - 1 = r + 2 /\ s - 2 = r + 1
      BY <1>1, <1>3, <2>2
    <3>2. QED
      BY <1>1, <1>2, <2>1, <2>2, <3>1
  <2>3. CASE in[r] # Percent
    <3>1. s = r + 1 /\ s - 1 = r /\ s - 2 = r - 1
      BY <1>1, <1>3, <2>3
    <3>2. QED
      BY <1>1, <1>2, <2>1, <2>3, <3>1
  <2>4. QED
    BY <2>2, <2>3
<1>8. Cardinality(StartsBefore(in, s)) = Cardinality(StartsBefore(in, r)) + 1
  <2> DEFINE B == StartsBefore(in, r)
  <2>1. StartsBefore(in, s) = B \cup {r} /\ r \notin B
    <3>1. StartsBefore(in, s) = {j \in Starts(in) : j < r \/ j = r}
      BY <1>6 DEF StartsBefore
    <3>2. r \in Starts(in) /\ ~(r < r)
      BY <1>1
    <3>3. QED
      BY <3>1, <3>2 DEF StartsBefore
  <2>2. IsFiniteSet(B)
    BY <1>1, StartsFinite
  <2> HIDE DEF B
  <2>3. Cardinality(B \cup {r}) = Cardinality(B) + 1
    BY <2>1, <2>2, FS_AddElement
  <2>4. QED
    BY <2>1, <2>3 DEF B
<1>9. QED
  BY <1>1, <1>4, <1>6, <1>7, <1>8 DEF s

(* What a turn does that reads within the path.                            *)
LEMMA TurnTakes ==
  ASSUME NEW in \in Seq(Byte), WellFormed(in), NEW d \in Turns(Len(in)),
         NEW heap \in Byte, NEW k \in Nat, OnTrack(d, in, k), d.read < Len(in),
         NEW left, left = Len(in) - (k + 1)
  PROVE  /\ Taken(d, left, heap) = Decoded(in, d.read + 1)
         /\ IsEscape(d, left, heap) <=> in[d.read + 1] = Percent
<1> DEFINE n == Len(in)
           a == d.read
           r == a + 1
<1>1. /\ n \in Nat /\ a \in Nat /\ a < n /\ a >= k
      /\ DOMAIN d.mem = 0..n
      /\ \A i \in a..n - 1 : d.mem[i] = in[i + 1]
      /\ r \in Starts(in)
  BY LenProperties DEF Turns, OnTrack, InPlace, Unread, AtStart
<1>2. r + Taking(in, r) <= n + 1
  BY <1>1, NextStart
<1> HIDE DEF n
<1>3. Bytes(d.mem, heap, a) = in[r]
  <2>1. a \in 0..n /\ a \in a..n - 1
    BY <1>1
  <2>2. QED
    BY <1>1, <2>1 DEF Bytes
<1>4. CASE in[r] = Percent
  <2>1. a + 2 <= n - 1
    BY <1>1, <1>2, <1>4 DEF Taking
  <2>2. left >= 2
    BY <1>1, <2>1 DEF n
  <2>3. IsEscape(d, left, heap)
    BY <1>3, <1>4, <2>2 DEF IsEscape
  <2>4. Bytes(d.mem, heap, a + 1) = in[r + 1] /\ Bytes(d.mem, heap, a + 2) = in[r + 2]
    <3>1. a + 1 \in 0..n /\ a + 2 \in 0..n /\ a + 1 \in a..n - 1 /\ a + 2 \in a..n - 1
      BY <1>1, <2>1
    <3>2. (a + 1) + 1 = r + 1 /\ (a + 2) + 1 = r + 2
      BY <1>1
    <3>3. d.mem[a + 1] = in[(a + 1) + 1] /\ d.mem[a + 2] = in[(a + 2) + 1]
      BY <1>1, <3>1
    <3>4. QED
      BY <1>1, <3>1, <3>2, <3>3 DEF Bytes
  <2>5. QED
    BY <1>4, <2>3, <2>4 DEF Taken, Decoded
<1>5. CASE in[r] # Percent
  <2>1. ~IsEscape(d, left, heap)
    BY <1>3, <1>5 DEF IsEscape
  <2>2. QED
    BY <1>3, <1>5, <2>1 DEF Taken, Decoded
<1>6. QED
  BY <1>4, <1>5

LEMMA TurnOnTrack ==
  ASSUME NEW in \in Seq(Byte), WellFormed(in), NEW d \in Turns(Len(in)),
         NEW heap \in Byte, NEW k \in Nat, k + 1 < Len(in), OnTrack(d, in, k),
         NEW left, left = Len(in) - (k + 1), NEW e, e = DecodeLetter(d, left, heap)
  PROVE  OnTrack(e, in, k + 1)
<1> DEFINE n == Len(in)
           a == d.read
           r == a + 1
           took == Taken(d, left, heap)
<1>1. n \in Nat /\ k \in 0..n /\ a \in Nat /\ a >= k /\ DOMAIN d.mem = 0..n
  BY LenProperties DEF Turns, OnTrack, InPlace
<1>2. /\ InPlace(e, k + 1)
      /\ e.mem[k] = took
      /\ \A j \in 0..n \ {k} : e.mem[j] = d.mem[j]
      /\ e.read = a + IF IsEscape(d, left, heap) THEN 3 ELSE 1
  BY <1>1, TurnEffect DEF OnTrack
<1>3. e.read \in Nat /\ e.read > a
  BY <1>1, <1>2
<1>4. Unread(e, in)
  <2>1. SUFFICES ASSUME NEW i \in e.read..n - 1 PROVE e.mem[i] = in[i + 1]
    BY DEF Unread
  <2>2. i \in 0..n \ {k} /\ i \in a..n - 1
    BY <1>1, <1>3
  <2>3. d.mem[i] = in[i + 1]
    BY <2>2 DEF OnTrack, Unread
  <2>4. QED
    BY <1>2, <2>2, <2>3
<1>5. ASSUME NEW s \in Starts(in), s <= a
      PROVE  Placed(e, in, s, k + 1)
  <2> DEFINE at == Cardinality(StartsBefore(in, s))
  <2>1. at < k /\ d.mem[at] = Decoded(in, s)
    BY <1>5 DEF OnTrack, ReadPlaced, Placed
  <2>2. at \in Nat
    BY StartsFinite DEF Starts
  <2> HIDE DEF at
  <2>3. at \in 0..n \ {k} /\ at < k + 1
    BY <1>1, <2>1, <2>2
  <2>4. e.mem[at] = Decoded(in, s)
    BY <1>2, <2>1, <2>3
  <2>5. QED
    BY <2>3, <2>4 DEF at, Placed
<1>6. CASE a >= n
  <2>1. ~(e.read < n)
    BY <1>1, <1>3, <1>6
  <2>2. \A s \in Starts(in) : s <= a
    BY <1>1, <1>6 DEF Starts
  <2>3. AtStart(e, in, k + 1)
    BY <2>1 DEF AtStart
  <2>4. ReadPlaced(e, in, k + 1)
    BY <1>5, <2>2 DEF ReadPlaced
  <2>5. QED
    BY <1>2, <1>4, <2>3, <2>4 DEF OnTrack
<1>7. CASE a < n
  <2>1. /\ took = Decoded(in, r)
        /\ IsEscape(d, left, heap) <=> in[r] = Percent
    BY <1>7, TurnTakes
  <2>2. r \in Starts(in) /\ Cardinality(StartsBefore(in, r)) = k
    BY <1>7 DEF OnTrack, AtStart
  <2> HIDE DEF took
  <2>3. e.read + 1 = r + Taking(in, r)
    BY <1>1, <1>2, <2>1 DEF Taking
  <2> HIDE DEF n, a
  <2>4. /\ r + Taking(in, r) <= Len(in) => r + Taking(in, r) \in Starts(in)
        /\ \A j \in Starts(in) : j < r + Taking(in, r) <=> j < r \/ j = r
        /\ Cardinality(StartsBefore(in, r + Taking(in, r))) =
             Cardinality(StartsBefore(in, r)) + 1
    <3> HIDE DEF r
    <3>1. QED
      BY <2>2, NextStart
  <2>5. /\ e.read + 1 <= Len(in) => e.read + 1 \in Starts(in)
        /\ \A j \in Starts(in) : j < e.read + 1 <=> j < r \/ j = r
        /\ Cardinality(StartsBefore(in, e.read + 1)) = k + 1
    BY <2>2, <2>3, <2>4
  <2>6. AtStart(e, in, k + 1)
    BY <1>3, <2>5, LenProperties DEF AtStart
  <2>7. ReadPlaced(e, in, k + 1)
    <3>1. SUFFICES ASSUME NEW s \in Starts(in), s <= e.read
                   PROVE  Placed(e, in, s, k + 1)
      BY DEF ReadPlaced
    <3>2. s \in Int
      BY DEF Starts
    <3>3. s < r \/ s = r
      BY <1>3, <2>5, <3>1, <3>2
    <3>4. CASE s = r
      <4>1. k < k + 1
        OBVIOUS
      <4>2. QED
        BY <1>2, <2>1, <2>2, <3>4, <4>1 DEF Placed
    <3>5. CASE s < r
      BY <1>1, <1>5, <3>2, <3>5 DEF a
    <3>6. QED
      BY <3>3, <3>4, <3>5
  <2>8. QED
    BY <1>2, <1>4, <2>6, <2>7 DEF OnTrack
<1>8. QED
  BY <1>1, <1>6, <1>7

LEMMA TurnsOnTrack ==
  ASSUME NEW in \in Seq(Byte), in # <<>>, WellFormed(in), NEW heap \in Byte,
         NEW turn, IsDecoding(turn, in, heap)
  PROVE  OnTrack(turn[Len(in) - 1], in, Len(in) - 1)
<1> DEFINE n == Len(in)
           T == {m \in Nat : m <= n - 1 => OnTrack(turn[m], in, m)}
<1>1. n \in Nat /\ n # 0 /\ n - 1 \in Nat
  <2>1. n \in Nat /\ n # 0
    BY LenProperties, EmptySeq
  <2>2. QED
    BY <2>1
<1>2. 0 \in T
  <2> DEFINE d == turn[0]
  <2>1. d = FirstTurn(in, heap)
    BY DEF IsDecoding
  <2>2. /\ d.write = 0 /\ d.read = 0 /\ d.dup = FALSE
        /\ d.mem = [i \in 0..Len(in) |-> IF i < Len(in) THEN in[i + 1] ELSE heap]
    BY <2>1 DEF FirstTurn
  <2> HIDE DEF d
  <2>3. InPlace(d, 0)
    BY <2>2 DEF InPlace
  <2>4. Unread(d, in)
    BY <1>1, <2>2 DEF Unread
  <2>5. 1 \in Starts(in) /\ StartsBefore(in, 1) = {} /\ \A r \in Starts(in) : r >= 1
    BY <1>1 DEF Starts, StartsBefore
  <2>6. AtStart(d, in, 0)
    <3>1. 0 + 1 = 1
      OBVIOUS
    <3>2. QED
      BY <2>2, <2>5, <3>1, FS_EmptySet DEF AtStart
  <2>7. ReadPlaced(d, in, 0)
    <3>1. \A r \in Starts(in) : ~(r <= 0)
      BY DEF Starts
    <3>2. QED
      BY <2>2, <3>1 DEF ReadPlaced
  <2>8. QED
    BY <2>3, <2>4, <2>6, <2>7 DEF OnTrack, d
<1>3. ASSUME NEW m \in Nat, m \in T
      PROVE  m + 1 \in T
  <2>1. SUFFICES ASSUME m + 1 <= n - 1 PROVE OnTrack(turn[m + 1], in, m + 1)
    OBVIOUS
  <2>2. m + 1 \in 1..n - 1 /\ (m + 1) - 1 = m /\ m \in 0..n - 1 /\ m + 1 < n
    BY <1>1, <2>1
  <2>3. OnTrack(turn[m], in, m)
    BY <1>1, <1>3, <2>1
  <2> DEFINE d == turn[m]
             left == n - (m + 1)
             e == turn[m + 1]
  <2>4. e = DecodeLetter(d, left, heap) /\ d \in Turns(Len(in))
    <3>1. turn[m + 1] = DecodeLetter(turn[(m + 1) - 1], n - (m + 1), heap)
      BY <2>2 DEF IsDecoding
    <3>2. d \in Turns(n)
      BY <2>2 DEF IsDecoding
    <3>3. QED
      BY <2>2, <3>1, <3>2
  <2>5. OnTrack(d, in, m) /\ left = Len(in) - (m + 1) /\ m + 1 < Len(in)
    BY <2>2, <2>3
  <2> HIDE DEF d, e, left, n
  <2>6. OnTrack(e, in, m + 1)
    BY <2>4, <2>5, TurnOnTrack
  <2>7. QED
    BY <2>6 DEF e
<1>4. Nat \subseteq T
  <2> HIDE DEF T
  <2>1. QED
    BY <1>2, <1>3, SetInduction
<1>5. QED
  BY <1>1, <1>4

(* So the path starts with what in stands for.                             *)
LEMMA PathDecoded ==
  ASSUME NEW in \in Seq(Byte), in # <<>>, WellFormed(in), NEW heap \in Byte,
         NEW r \in Starts(in)
  PROVE  Decode(in, heap).mem[Cardinality(StartsBefore(in, r))] = Decoded(in, r)
<1> DEFINE n == Len(in)
           p == Decode(in, heap)
           at == Cardinality(StartsBefore(in, r))
<1>1. n \in Nat /\ n # 0 /\ n - 1 \in 0..n - 1 /\ r \in 1..n
  <2>1. n \in Nat /\ n # 0
    BY LenProperties, EmptySeq
  <2>2. QED
    BY <2>1 DEF Starts
<1>2. PICK turn : IsDecoding(turn, in, heap)
  BY DecodingExists
<1> DEFINE d == turn[n - 1]
<1>3. /\ d \in Turns(n)
      /\ p = [mem |-> [d.mem EXCEPT ![n] = 0], len |-> n, slashcnt |-> d.slash]
  BY <1>1, <1>2 DEF IsDecoding
<1>4. OnTrack(d, in, n - 1)
  BY <1>2, TurnsOnTrack
<1>5. at \in Nat
  BY <1>1, StartsFinite
<1> HIDE DEF p, d, at
<1>6. DOMAIN d.mem = 0..n /\ p.mem = [d.mem EXCEPT ![n] = 0]
  BY <1>3 DEF Turns
<1>7. at < n /\ d.mem[at] = Decoded(in, r)
  <2>1. d.read \in Nat /\ d.read >= n - 1
    BY <1>4 DEF OnTrack, InPlace
  <2>2. CASE r <= d.read
    <3>1. Placed(d, in, r, n - 1)
      BY <1>4, <2>2 DEF OnTrack, ReadPlaced
    <3>2. QED
      BY <1>1, <1>5, <3>1 DEF Placed, at
  <2>3. CASE r > d.read
    <3>1. d.read = n - 1 /\ r = n /\ d.read + 1 = r /\ d.read < n
      BY <1>1, <2>1, <2>3
    <3>2. at = n - 1
      BY <1>4, <3>1 DEF OnTrack, AtStart, at
    <3>3. d.mem[n - 1] = in[n]
      <4>1. n - 1 \in d.read..n - 1 /\ (n - 1) + 1 = n
        BY <1>1, <3>1
      <4>2. QED
        BY <1>4, <4>1 DEF OnTrack, Unread
    <3>4. in[n] # Percent
      <4>1. ~(n + 2 <= n) /\ n \in 1..n
        BY <1>1
      <4>2. QED
        BY <4>1 DEF WellFormed
    <3>5. Decoded(in, r) = in[n]
      BY <3>1, <3>4 DEF Decoded
    <3>6. QED
      BY <1>1, <3>2, <3>3, <3>5
  <2>4. QED
    BY <1>1, <2>1, <2>2, <2>3
<1>8. p.mem[at] = d.mem[at]
  <2>1. at \in 0..n /\ at # n
    BY <1>1, <1>5, <1>7
  <2>2. QED
    BY <1>6, <2>1
<1>9. QED
  BY <1>7, <1>8 DEF p, at

\* A path starts with its decoding, whatever it is and however long.
THEOREM PathIsDecoded == RequestSpec => []PathStartsDecoded
<1>1. RequestIInv => PathStartsDecoded
  <2> SUFFICES ASSUME RequestIInv, path # NoPath, WellFormed(In), NEW r \in Starts(In)
               PROVE  path.mem[Cardinality({j \in Starts(In) : j < r})] = Decoded(In, r)
    BY DEF PathStartsDecoded
  <2>1. In # <<>> /\ \E heap \in HeapBytes : path = Decode(In, heap)
    BY DEF RequestIInv, PathMade
  <2>2. PICK heap \in HeapBytes : path = Decode(In, heap)
    BY <2>1
  <2>3. heap \in Byte /\ In \in Seq(Byte)
    BY BytesAssumption, InTyped DEF RequestIInv, RequestTyped
  <2>4. path.mem[Cardinality(StartsBefore(In, r))] = Decoded(In, r)
    BY <2>1, <2>2, <2>3, PathDecoded
  <2>5. QED
    BY <2>4 DEF StartsBefore
<1>2. QED
  BY <1>1, InitRequestIInv, RequestIInvNext, PTL DEF RequestSpec

-----------------------------------------------------------------------------
(***************************************************************************)
(* What a path without escapes is mapped to.                               *)
(***************************************************************************)
(* A path without escapes is what it came as.                              *)
IsText(p, in) ==
  /\ PathTyped(p) /\ p.len = Len(in)
  /\ \A i \in 1..Len(in) : p.mem[i - 1] = in[i]

LEMMA PlainKept ==
  ASSUME NEW in \in Seq(Byte), in # <<>>, Plain(in), NEW heap \in Byte
  PROVE  IsText(Decode(in, heap), in)
<1> DEFINE n == Len(in)
           p == Decode(in, heap)
<1>1. n \in Nat /\ WellFormed(in) /\ Starts(in) = 1..n
  <2>1. n \in Nat /\ \A i \in 1..n : in[i] # Percent
    BY LenProperties DEF Plain
  <2>2. WellFormed(in)
    BY <2>1 DEF WellFormed
  <2>3. Starts(in) = 1..n
    BY <2>1 DEF Starts
  <2>4. QED
    BY <2>1, <2>2, <2>3
<1>2. ASSUME NEW i \in 1..n
      PROVE  p.mem[i - 1] = in[i]
  <2>1. StartsBefore(in, i) = 1..i - 1
    BY <1>1 DEF StartsBefore
  <2>2. Cardinality(1..i - 1) = i - 1
    <3> DEFINE l == i - 1
    <3>1. l \in Nat
      BY <1>1
    <3> HIDE DEF l
    <3>2. Cardinality(1..l) = IF 1 > l THEN 0 ELSE l - 1 + 1
      BY <3>1, FS_Interval
    <3>3. Cardinality(1..l) = l
      BY <3>1, <3>2
    <3>4. QED
      BY <3>3 DEF l
  <2>3. Decoded(in, i) = in[i]
    BY DEF Plain, Decoded
  <2>4. i \in Starts(in)
    BY <1>1
  <2>5. p.mem[Cardinality(StartsBefore(in, i))] = Decoded(in, i)
    BY <1>1, <2>4, PathDecoded
  <2>6. QED
    BY <2>1, <2>2, <2>3, <2>5
<1>3. PathTyped(p) /\ p.len = n
  BY DecodeTyped
<1>4. QED
  BY <1>2, <1>3 DEF IsText

LEMMA OneSlash ==
  ASSUME NEW mem, NEW to \in Int, NEW at \in SlashesTo(mem, to),
         Cardinality(SlashesTo(mem, to)) = 1
  PROVE  SlashesTo(mem, to) = {at}
<1> DEFINE S == SlashesTo(mem, to)
<1>1. IsFiniteSet(S) /\ Cardinality(S) = 1
  BY SlashesFinite
<1> HIDE DEF S
<1>2. \E s : S = {s}
  BY <1>1, FS_Singleton
<1>3. QED
  BY <1>2 DEF S

(* With a folder of one name, infolder finds the files in it.              *)
LEMMA FolderOfOneName ==
  ASSUME NEW url \in Seq(Byte), Slash \notin ToSet(url)
  PROVE  LET f == FolderPath(url) IN
         /\ Len(url) \in Nat /\ \A i \in 1..Len(url) : url[i] # Slash
         /\ f.slashcnt = 0 /\ f.len = Len(url)
         /\ \A i \in 1..Len(url) : f.mem[i - 1] = url[i]
<1>1. Len(url) \in Nat /\ \A i \in 1..Len(url) : url[i] # Slash
  BY LenProperties DEF ToSet
<1>2. {i \in 1..Len(url) : url[i] = Slash} = {}
  BY <1>1
<1>3. FolderPath(url).slashcnt = 0
  BY <1>2, FS_EmptySet DEF FolderPath
<1>4. \A i \in 1..Len(url) : FolderPath(url).mem[i - 1] = url[i]
  BY <1>1 DEF FolderPath
<1>5. FolderPath(url).len = Len(url)
  BY DEF FolderPath
<1>6. QED
  BY <1>1, <1>3, <1>4, <1>5

(* What it means that a path has the folder's url and a slash in front.     *)
LEMMA FolderPrefix ==
  ASSUME NEW in \in Seq(Byte), NEW url \in Seq(Byte), Len(url) + 1 \in 1..Len(in)
  PROVE  SubSeq(in, 1, Len(url) + 1) = url \o <<Slash>> <=>
           in[Len(url) + 1] = Slash /\ \A i \in 1..Len(url) : in[i] = url[i]
<1> DEFINE u == Len(url)
           a == SubSeq(in, 1, u + 1)
           b == url \o <<Slash>>
<1>1. u \in Nat /\ Len(in) \in Nat /\ u + 1 \in 1..Len(in)
  BY LenProperties
<1>2. /\ a \in Seq(Byte) /\ Len(a) = u + 1
      /\ \A i \in 1..u + 1 : a[i] = in[i]
  <2> DEFINE m == u + 1
  <2>1. 1 \in Int /\ m \in Int /\ 1 <= m /\ m - 1 + 1 = m /\ m <= Len(in)
    BY <1>1
  <2> HIDE DEF m
  <2>2. \A i \in 1..m : in[i] \in Byte
    <3>1. \A i \in 1..m : i \in 1..Len(in)
      BY <1>1, <2>1
    <3>2. QED
      BY <3>1, ElementOfSeq
  <2>3. /\ SubSeq(in, 1, m) \in Seq(Byte)
        /\ Len(SubSeq(in, 1, m)) = IF 1 <= m THEN m - 1 + 1 ELSE 0
        /\ \A i \in 1..m - 1 + 1 : SubSeq(in, 1, m)[i] = in[1 + i - 1]
    BY <2>1, <2>2, SubSeqProperties
  <2>4. \A i \in 1..m : 1 + i - 1 = i
    OBVIOUS
  <2>5. QED
    BY <2>1, <2>3, <2>4 DEF m
<1>3. /\ b \in Seq(Byte \cup {Slash}) /\ Len(b) = u + 1
      /\ b[u + 1] = Slash /\ \A i \in 1..u : b[i] = url[i]
  <2>1. url \in Seq(Byte \cup {Slash}) /\ <<Slash>> \in Seq(Byte \cup {Slash})
    OBVIOUS
  <2>2. Len(<<Slash>>) = 1 /\ <<Slash>>[1] = Slash
    OBVIOUS
  <2> DEFINE t == <<Slash>>
  <2> HIDE DEF t
  <2>3. /\ url \o t \in Seq(Byte \cup {Slash}) /\ Len(url \o t) = Len(url) + Len(t)
        /\ \A i \in 1..Len(url) + Len(t) :
             (url \o t)[i] = IF i <= Len(url) THEN url[i] ELSE t[i - Len(url)]
    BY <2>1, ConcatProperties DEF t
  <2>4. Len(t) = 1 /\ t[1] = Slash
    BY <2>2 DEF t
  <2> DEFINE c == url \o t
  <2>5. /\ c \in Seq(Byte \cup {Slash}) /\ Len(c) = u + 1
        /\ \A i \in 1..u + 1 : c[i] = IF i <= u THEN url[i] ELSE t[i - u]
    BY <2>3, <2>4
  <2> HIDE DEF c, u
  <2>6. c[u + 1] = Slash /\ \A i \in 1..u : c[i] = url[i]
    <3>1. u + 1 \in 1..u + 1 /\ ~(u + 1 <= u) /\ (u + 1) - u = 1
      BY <1>1
    <3>2. \A i \in 1..u : i \in 1..u + 1 /\ i <= u
      BY <1>1
    <3>3. QED
      BY <2>4, <2>5, <3>1, <3>2
  <2>7. QED
    BY <2>5, <2>6 DEF c, t
<1> HIDE DEF a, b, u
<1>4. a = b <=> \A i \in 1..u + 1 : a[i] = b[i]
  <2>1. Len(a) = Len(b) /\ Len(a) = u + 1
    BY <1>2, <1>3
  <2>2. a \in Seq(Byte \cup {Slash})
    <3>1. \A s : s \in Seq(Byte) => s \in Seq(Byte \cup {Slash})
      OBVIOUS
    <3>2. QED
      BY <1>2, <3>1
  <2>3. (\A i \in 1..Len(a) : a[i] = b[i]) => a = b
    BY <1>3, <2>1, <2>2, SeqEqual
  <2>4. QED
    BY <2>1, <2>3
<1>5. \A i : i \in 1..u + 1 <=> i = u + 1 \/ i \in 1..u
  BY <1>1
<1>6. QED
  BY <1>2, <1>3, <1>4, <1>5 DEF a, b, u

LEMMA InFolderRight ==
  ASSUME NEW in \in Seq(Byte), NEW p, IsText(p, in),
         NEW url \in Seq(Byte), Slash \notin ToSet(url)
  PROVE  /\ InFolder(p, FolderPath(url)) <=> NamesFileIn(in, url)
         /\ InFolder(p, FolderPath(url)) =>
              p.slashcnt = 1 /\ SlashPos(p)[1] = Len(url)
<1> DEFINE n == Len(in)
           u == Len(url)
           f == FolderPath(url)
           at == SlashPos(p)[1]
           S == SlashesTo(p.mem, n - 2)
<1>1. /\ n \in Nat /\ n # 0 /\ n - 2 \in Int /\ p.len = n
      /\ p.slashcnt = Cardinality(S) /\ PathTyped(p)
      /\ \A i \in 1..n : p.mem[i - 1] = in[i]
  BY DEF IsText, PathTyped
<1>2. /\ u \in Nat /\ \A i \in 1..u : url[i] # Slash
      /\ f.slashcnt = 0 /\ f.len = u
      /\ \A i \in 1..u : f.mem[i - 1] = url[i]
  BY FolderOfOneName
<1> HIDE DEF f
<1>3. p.slashcnt = 1 => IsSlash(p, 1, at)
  BY SlashPosFound, <1>1
<1> HIDE DEF at
<1>4. p.slashcnt = 1 => at \in 0..n - 2 /\ p.mem[at] = Slash /\ S = {at}
  <2>1. SUFFICES ASSUME p.slashcnt = 1
                 PROVE  at \in 0..n - 2 /\ p.mem[at] = Slash /\ S = {at}
    OBVIOUS
  <2>2. at \in 0..n - 2 /\ p.mem[at] = Slash
    BY <1>1, <1>3, <2>1 DEF IsSlash
  <2>3. at \in S
    BY <2>2 DEF SlashesTo
  <2>4. S = {at}
    BY <1>1, <2>1, <2>3, OneSlash
  <2>5. QED
    BY <2>2, <2>4
<1>5. InFolder(p, f) <=> /\ p.slashcnt = 1 /\ at = u
                         /\ \A i \in 0..u - 1 : f.mem[i] = p.mem[i]
  <2>1. p.slashcnt \in Nat
    BY <1>1 DEF PathTyped
  <2>2. (f.slashcnt = p.slashcnt - 1) <=> p.slashcnt = 1
    BY <1>2, <2>1
  <2>3. ~(f.slashcnt > 0)
    BY <1>2
  <2>4. QED
    BY <1>2, <2>2, <2>3 DEF InFolder, at
<1>6. ASSUME InFolder(p, f)
      PROVE  NamesFileIn(in, url)
  <2>1. /\ p.slashcnt = 1 /\ u \in 0..n - 2 /\ p.mem[u] = Slash /\ S = {u}
        /\ \A i \in 0..u - 1 : f.mem[i] = p.mem[i]
    BY <1>4, <1>5, <1>6
  <2>2. u + 1 \in 1..n /\ (u + 1) - 1 = u /\ n > u + 1
    BY <1>1, <1>2, <2>1
  <2>3. in[u + 1] = Slash
    BY <1>1, <2>1, <2>2
  <2>4. ASSUME NEW i \in 1..u PROVE in[i] = url[i]
    <3>1. i \in 1..n /\ i - 1 \in 0..u - 1
      BY <1>2, <2>2
    <3>2. in[i] = p.mem[i - 1] /\ url[i] = f.mem[i - 1] /\ f.mem[i - 1] = p.mem[i - 1]
      BY <1>1, <1>2, <2>1, <3>1
    <3>3. QED
      BY <3>2
  <2>5. SubSeq(in, 1, u + 1) = url \o <<Slash>>
    BY <1>2, <2>2, <2>3, <2>4, FolderPrefix
  <2>6. ASSUME NEW i \in u + 2..n - 1 PROVE in[i] # Slash
    <3>1. i \in 1..n /\ i - 1 \in 0..n - 2 /\ i - 1 # u
      BY <1>1, <1>2
    <3>2. in[i] = p.mem[i - 1] /\ i - 1 \notin S
      BY <1>1, <2>1, <3>1
    <3>3. QED
      BY <3>1, <3>2 DEF SlashesTo
  <2>7. QED
    BY <2>2, <2>5, <2>6 DEF NamesFileIn
<1>7. ASSUME NamesFileIn(in, url)
      PROVE  InFolder(p, f)
  <2>1. /\ n > u + 1 /\ SubSeq(in, 1, u + 1) = url \o <<Slash>>
        /\ \A i \in u + 2..n - 1 : in[i] # Slash
    BY <1>7 DEF NamesFileIn
  <2>2. u + 1 \in 1..n /\ (u + 1) - 1 = u
    BY <1>1, <1>2, <2>1
  <2>3. in[u + 1] = Slash /\ \A i \in 1..u : in[i] = url[i]
    BY <1>2, <2>1, <2>2, FolderPrefix
  <2>4. S = {u}
    <3>1. \A j \in 0..n - 2 : j + 1 \in 1..n /\ (j + 1) - 1 = j
      BY <1>1
    <3>2. \A j \in 0..n - 2 : p.mem[j] = in[j + 1]
      BY <1>1, <3>1
    <3>3. ASSUME NEW j \in 0..n - 2, j # u
          PROVE  p.mem[j] # Slash
      <4>1. CASE j < u
        <5>1. j + 1 \in 1..u
          BY <1>1, <1>2, <4>1
        <5>2. QED
          BY <1>2, <2>3, <3>2, <5>1
      <4>2. CASE j > u
        <5>1. j + 1 \in u + 2..n - 1
          BY <1>1, <1>2, <4>2
        <5>2. QED
          BY <2>1, <3>2, <5>1
      <4>3. QED
        BY <1>2, <3>3, <4>1, <4>2
    <3>4. u \in 0..n - 2 /\ p.mem[u] = Slash
      <4>1. u \in 0..n - 2
        BY <1>1, <1>2, <2>1
      <4>2. QED
        BY <2>3, <3>2, <4>1
    <3>5. QED
      BY <3>3, <3>4 DEF SlashesTo
  <2>5. p.slashcnt = 1
    BY <1>1, <2>4, FS_Singleton
  <2>6. at = u
    BY <1>4, <2>4, <2>5
  <2>7. ASSUME NEW i \in 0..u - 1 PROVE f.mem[i] = p.mem[i]
    <3>1. i + 1 \in 1..u /\ i + 1 \in 1..n /\ (i + 1) - 1 = i
      BY <1>1, <1>2, <2>2
    <3>2. f.mem[(i + 1) - 1] = url[i + 1] /\ p.mem[(i + 1) - 1] = in[i + 1] /\ in[i + 1] = url[i + 1]
      BY <1>1, <1>2, <2>3, <3>1
    <3>3. QED
      BY <3>1, <3>2
  <2>8. QED
    BY <1>5, <2>5, <2>6, <2>7
<1>8. QED
  BY <1>5, <1>6, <1>7 DEF f, at

(* And what is opened there is the rest of the path.                       *)
LEMMA FileRight ==
  ASSUME NEW in \in Seq(Byte \ {0}), in \in Seq(Byte), NEW p, IsText(p, in),
         p.slashcnt = 1, NEW u \in Nat, SlashPos(p)[1] = u, Len(in) > u + 1
  PROVE  GetFile(p) = SubSeq(in, u + 2, Len(in))
<1> DEFINE n == Len(in)
           from == u + 1
           file1 == CString(p, from)
           rest == SubSeq(in, u + 2, n)
<1>1. /\ n \in Nat /\ p.len = n /\ PathTyped(p) /\ p.mem[n] = 0
      /\ \A i \in 1..n : p.mem[i - 1] = in[i]
      /\ \A i \in 1..n : in[i] # 0
  <2>1. \A i \in 1..n : in[i] \in Byte \ {0}
    BY ElementOfSeq
  <2>2. QED
    BY <2>1, LenProperties DEF IsText, PathTyped
<1>2. from \in 0..p.len /\ from \in Nat /\ from < n
  BY <1>1
<1>3. GetFile(p) = file1
  BY DEF GetFile
<1> HIDE DEF from, file1
<1>4. PICK nul \in from..p.len :
        /\ EndsAt(p, from, nul)
        /\ file1 = [i \in 1..nul - from |-> p.mem[from + i - 1]]
        /\ file1 \in Seq(Byte)
  BY <1>1, <1>2, CStringFound DEF file1
<1>5. nul = n
  <2>1. p.mem[nul] = 0 /\ nul \in from..n
    BY <1>1, <1>4 DEF EndsAt
  <2>2. SUFFICES ASSUME nul # n PROVE FALSE
    OBVIOUS
  <2>3. nul + 1 \in 1..n /\ (nul + 1) - 1 = nul
    BY <1>1, <1>2, <2>1, <2>2
  <2>4. p.mem[(nul + 1) - 1] = in[nul + 1] /\ in[nul + 1] # 0
    BY <1>1, <2>3
  <2>5. QED
    BY <2>1, <2>3, <2>4
<1>6. /\ file1 \in Seq(Byte) /\ Len(file1) = n - from
      /\ \A i \in 1..n - from : file1[i] = in[from + i]
  <2>1. file1 = [i \in 1..n - from |-> p.mem[from + i - 1]] /\ n - from \in Nat
    BY <1>1, <1>2, <1>4, <1>5
  <2>2. Len(file1) = n - from
    BY <2>1
  <2>3. ASSUME NEW i \in 1..n - from PROVE file1[i] = in[from + i]
    <3>1. from + i \in 1..n /\ (from + i) - 1 = from + i - 1
      BY <1>1, <1>2
    <3>2. p.mem[(from + i) - 1] = in[from + i]
      BY <1>1, <3>1
    <3>3. file1[i] = p.mem[from + i - 1]
      BY <2>1
    <3>4. QED
      BY <3>1, <3>2, <3>3
  <2>4. QED
    BY <1>4, <2>2, <2>3
<1>7. /\ rest \in Seq(Byte) /\ Len(rest) = n - from
      /\ \A i \in 1..n - from : rest[i] = in[from + i]
  <2> DEFINE m == u + 2
  <2>1. m \in Int /\ n \in Int /\ m <= n /\ m = from + 1 /\ m >= 1 /\ from \in Int
    BY <1>1, <1>2 DEF from
  <2> HIDE DEF m
  <2>2. \A i \in m..n : in[i] \in Byte
    <3>1. \A i \in m..n : i \in 1..Len(in)
      <4> HIDE DEF n
      <4>1. \A i \in m..n : i \in 1..n
        BY <2>1
      <4>2. QED
        BY <4>1 DEF n
    <3>2. QED
      BY <3>1, ElementOfSeq
  <2>3. /\ SubSeq(in, m, n) \in Seq(Byte)
        /\ Len(SubSeq(in, m, n)) = IF m <= n THEN n - m + 1 ELSE 0
        /\ \A i \in 1..n - m + 1 : SubSeq(in, m, n)[i] = in[m + i - 1]
    BY <2>1, <2>2, SubSeqProperties
  <2>4. rest = SubSeq(in, m, n)
    BY DEF m
  <2> HIDE DEF rest, n
  <2>5. n - m + 1 = n - from
    BY <2>1
  <2>6. \A i \in 1..n - from : m + i - 1 = from + i
    BY <2>1
  <2>7. QED
    BY <2>1, <2>3, <2>4, <2>5, <2>6
<1>8. file1 = rest
  <2> HIDE DEF rest
  <2>1. Len(file1) = Len(rest) /\ \A i \in 1..Len(file1) : file1[i] = rest[i]
    BY <1>6, <1>7
  <2>2. QED
    BY <1>6, <1>7, <2>1, SeqEqual
<1>9. QED
  BY <1>3, <1>8

\* With folders of one name, a path without escapes is mapped exactly if it
\* names a file in one, whatever the folders and the path are.
THEOREM PathIsMappedRight == RequestSpec => []MappedRight
<1>1. RequestIInv => MappedRight
  <2> DEFINE fits == {i \in 1..Len(Folders) : NamesFileIn(In, Folders[i])}
  <2> SUFFICES ASSUME RequestIInv, OneName, Plain(In), step \notin {"raw", "body", "crashed"}
               PROVE  /\ folder = 0 => fits = {}
                      /\ folder # 0 =>
                           /\ folder \in fits
                           /\ file = SubSeq(In, Len(Folders[folder]) + 2, Len(In))
    BY DEF MappedRight
  <2>1. HasPath /\ folder = IsMapped(path, Folders)
    BY DEF RequestIInv, Served, HasPath
  <2>2. In # <<>> /\ \E heap \in HeapBytes : path = Decode(In, heap)
    BY <2>1 DEF RequestIInv, PathMade
  <2>3. PICK heap \in HeapBytes : path = Decode(In, heap)
    BY <2>2
  <2>4. heap \in Byte /\ In \in Seq(Byte) /\ In \in Seq(Byte \ {0})
    BY BytesAssumption, InTyped DEF RequestIInv, RequestTyped
  <2>5. IsText(path, In)
    BY <2>2, <2>3, <2>4, PlainKept
  <2>6. PathTyped(path)
    BY <2>5 DEF IsText
  <2>7. ASSUME NEW k \in 1..Len(Folders)
        PROVE  Folders[k] \in Seq(Byte) /\ Slash \notin ToSet(Folders[k])
    <3>1. Folders[k] \in Seq(Byte \ {0})
      BY BytesAssumption, ElementOfSeq
    <3>2. \A s : s \in Seq(Byte \ {0}) => s \in Seq(Byte)
      OBVIOUS
    <3>3. QED
      BY <3>1, <3>2 DEF OneName
  <2>8. ASSUME NEW k \in 1..Len(Folders)
        PROVE  /\ InFolder(path, FolderPath(Folders[k])) <=> NamesFileIn(In, Folders[k])
               /\ InFolder(path, FolderPath(Folders[k])) =>
                    path.slashcnt = 1 /\ SlashPos(path)[1] = Len(Folders[k])
    BY <2>4, <2>5, <2>7, InFolderRight
  <2>9. CASE folder = 0
    <3>1. \A k \in 1..Len(Folders) : ~InFolder(path, FolderPath(Folders[k]))
      BY <2>1, <2>6, <2>9, MappedTyped
    <3>2. QED
      BY <2>8, <2>9, <3>1
  <2>10. CASE folder # 0
    <3> DEFINE k == folder
    <3>1. k \in 1..Len(Folders) /\ InFolder(path, FolderPath(Folders[k]))
      <4>1. folder \in 0..Len(Folders) /\ InFolder(path, FolderPath(Folders[folder]))
        BY <2>1, <2>6, <2>10, MappedTyped
      <4>2. Len(Folders) \in Nat
        BY BytesAssumption, LenProperties
      <4>3. QED
        BY <2>10, <4>1, <4>2
    <3>2. /\ NamesFileIn(In, Folders[k])
          /\ path.slashcnt = 1 /\ SlashPos(path)[1] = Len(Folders[k])
      BY <2>8, <3>1
    <3>3. step = "static" /\ file = GetFile(path)
      BY <2>1, <2>10 DEF RequestIInv, Served
    <3>4. Len(Folders[k]) \in Nat /\ Len(In) > Len(Folders[k]) + 1
      BY <2>7, <3>1, <3>2, LenProperties DEF NamesFileIn
    <3>5. GetFile(path) = SubSeq(In, Len(Folders[k]) + 2, Len(In))
      BY <2>4, <2>5, <3>2, <3>4, FileRight
    <3>6. QED
      BY <2>10, <3>1, <3>2, <3>3, <3>5
  <2>11. QED
    BY <2>9, <2>10
<1>2. QED
  BY <1>1, InitRequestIInv, RequestIInvNext, PTL DEF RequestSpec
=============================================================================
