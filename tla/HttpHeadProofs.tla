--------------------------- MODULE HttpHeadProofs ---------------------------
(***************************************************************************)
(* Theorems about HttpHead, for every set of requests of its shape, every  *)
(* piece of one and any room for headers.                                  *)
(***************************************************************************)
EXTENDS HttpHead, Induction

HeaderShape == [name : Seq(Letters), value : Seq(Letters)]

TypeInv ==
  /\ HeadTypeOK
  /\ req \in Requests /\ first \in Nat
  /\ data \in Seq(Letters) /\ Size > 0
  /\ name \in Seq(Letters) /\ headers \in Seq(HeaderShape)
  /\ step = "value" => Len(headers) < MaxHeaders

-----------------------------------------------------------------------------
(***************************************************************************)
(* The operators that look at the buffer.                                  *)
(***************************************************************************)
\* A buffer and its letters.
LEMMA Buffer ==
  ASSUME NEW n \in Nat, data \in Seq(Letters)
  PROVE  /\ Size \in Nat
         /\ n < Size => Letter(n) = data[n + 1] /\ Letter(n) \in Letters
         /\ n >= Size => Letter(n) = "beyond"
<1>1. Size \in Nat
  BY LenProperties DEF Size
<1>2. ASSUME n < Size PROVE data[n + 1] \in Letters
  <2>1. n + 1 \in 1..Len(data)
    BY <1>1, <1>2 DEF Size
  <2>2. QED
    BY <2>1, ElementOfSeq
<1>3. QED
  BY <1>1, <1>2 DEF Letter

\* What letters are not.
LEMMA NoLetter == "beyond" \notin Letters
  BY DEF Letters, Blank, Control, TokenLetters, Words

\* Scan finds the first place with a letter of S.
LEMMA ScanFinds ==
  ASSUME NEW n \in Nat, n <= Size, data \in Seq(Letters), NEW S
  PROVE  /\ Size \in Nat /\ Scan(n, S) \in n..Size
         /\ Scan(n, S) < Size => Letter(Scan(n, S)) \in S
         /\ \A k \in n..Scan(n, S) - 1 : data[k + 1] \notin S
<1> DEFINE T == {Size} \cup {k \in n..Size - 1 : data[k + 1] \in S}
<1>1. Size \in Nat
  BY LenProperties DEF Size
<1>2. T \in SUBSET Nat /\ T # {} /\ T \subseteq n..Size
  BY <1>1
<1>3. PICK x \in T : \A y \in T : x <= y
  BY <1>2, LeastNat
<1>4. Scan(n, S) = Min(T)
  BY DEF Scan
<1> HIDE DEF T
<1>5. Min(T) \in T /\ \A y \in T : Min(T) <= y
  BY <1>3 DEF Min
<1> DEFINE m == Scan(n, S)
<1>6. m \in T /\ m \in n..Size /\ \A y \in T : m <= y
  BY <1>2, <1>4, <1>5
<1> HIDE DEF m
<1>7. ASSUME m < Size PROVE Letter(m) \in S
  BY <1>1, <1>6, <1>7 DEF T, Letter
<1>8. ASSUME NEW k \in n..m - 1 PROVE data[k + 1] \notin S
  BY <1>1, <1>6 DEF T
<1>9. QED
  BY <1>1, <1>6, <1>7, <1>8 DEF m

\* Where the line end at n ends, if there is one.
LEMMA EolTyped ==
  ASSUME NEW n \in 0..Size, data \in Seq(Letters)
  PROVE  Eol(n) \in {-1, -2} \cup n + 1..Size
<1>1. Size \in Nat /\ n \in Nat /\ n + 1 \in Nat
  BY LenProperties DEF Size
<1>2. ASSUME n >= Size PROVE Letter(n) = "beyond"
  BY <1>1, <1>2, Buffer
<1>3. ASSUME n + 1 >= Size PROVE Letter(n + 1) = "beyond"
  BY <1>1, <1>3, Buffer
<1>4. QED
  BY <1>1, <1>2, <1>3 DEF Eol

\* Where the token at n ends.
LEMMA TokenEndTyped ==
  ASSUME NEW n \in 0..Size, data \in Seq(Letters)
  PROVE  TokenEnd(n) \in {-1, -2} \cup n..Size - 1
<1> DEFINE S == Control \cup {"SP"}
<1>1. Size \in Nat /\ n \in Nat /\ n <= Size
  BY LenProperties DEF Size
<1>2. Scan(n, S) \in n..Size
  BY <1>1, ScanFinds
<1>3. QED
  BY <1>1, <1>2 DEF TokenEnd

\* Where the name or the value at n ends.
LEMMA ScanTyped ==
  ASSUME NEW n \in Nat, data \in Seq(Letters), NEW S
  PROVE  Scan(n, S) \in 0..Size /\ (n <= Size => Scan(n, S) >= n) /\ Size \in Nat
<1>1. Size \in Nat
  BY LenProperties DEF Size
<1>2. CASE n <= Size
  BY <1>1, <1>2, ScanFinds
<1>3. CASE n > Size
  <2>1. {Size} \cup {k \in n..Size - 1 : data[k + 1] \in S} = {Size}
    BY <1>1, <1>3
  <2>2. Min({Size}) = Size
    BY <1>1 DEF Min
  <2>3. Scan(n, S) = Size
    BY <2>1, <2>2 DEF Scan
  <2>4. QED
    BY <1>1, <1>3, <2>3
<1>4. QED
  BY <1>1, <1>2, <1>3

\* The bytes of the first letters.
LEMMA BytesCounted ==
  ASSUME data \in Seq(Letters)
  PROVE  /\ Size \in Nat
         /\ BytesTo \in [0..Size -> Nat] /\ BytesTo[0] = 0
         /\ \A k \in 1..Size : BytesTo[k] = BytesTo[k - 1] + Width(data[k])
<1> DEFINE N == Size
           stp == [x \in Nat \X (1..N) |-> x[1] + Width(data[x[2]])]
           F(f) == [n \in 0..Size |-> IF n = 0 THEN 0 ELSE f[n - 1] + Width(data[n])]
<1>1. N \in Nat
  BY LenProperties DEF Size
<1>2. \A l : Width(l) \in Nat
  BY DEF Width, Words
<1>3. IsStep(stp, N, Nat)
  BY <1>1, <1>2 DEF IsStep
<1>4. PICK f : IsRun(f, 0, stp, N, Nat)
  <2> HIDE DEF stp, N
  <2>1. QED
    BY <1>1, <1>3, RecursionExists
<1>5. /\ f \in [0..N -> Nat] /\ f[0] = 0
      /\ \A k \in 1..N : f[k] = f[k - 1] + Width(data[k])
  <2>1. f \in [0..N -> Nat] /\ f[0] = 0 /\ \A k \in 1..N : f[k] = stp[<<f[k - 1], k>>]
    BY <1>4 DEF IsRun
  <2>2. ASSUME NEW k \in 1..N PROVE f[k] = f[k - 1] + Width(data[k])
    <3>1. k - 1 \in 0..N
      BY <1>1
    <3>2. f[k - 1] \in Nat
      BY <2>1, <3>1
    <3>3. <<f[k - 1], k>> \in Nat \X (1..N)
      BY <3>2
    <3>4. stp[<<f[k - 1], k>>] = f[k - 1] + Width(data[k])
      BY <3>3
    <3>5. QED
      BY <2>1, <3>4
  <2>3. QED
    BY <2>1, <2>2
<1> HIDE DEF stp
<1>6. f = F(f)
  <2>1. ASSUME NEW n \in 0..Size PROVE f[n] = F(f)[n]
    BY <1>1, <1>5
  <2>2. QED
    BY <1>5, <2>1
<1>7. BytesTo = CHOOSE g : g = F(g)
  BY DEF BytesTo
<1>8. BytesTo = F(BytesTo)
  BY <1>6, <1>7
<1>9. BytesTo[0] = 0 /\ \A k \in 1..N : BytesTo[k] = BytesTo[k - 1] + Width(data[k])
  BY <1>1, <1>8
<1>10. BytesTo \in [0..N -> Nat]
  <2> DEFINE T == {n \in Nat : n <= N => BytesTo[n] \in Nat}
  <2>1. 0 \in T
    BY <1>9
  <2>2. ASSUME NEW n \in Nat, n \in T PROVE n + 1 \in T
    <3>1. SUFFICES ASSUME n + 1 <= N PROVE BytesTo[n + 1] \in Nat
      OBVIOUS
    <3>2. n + 1 \in 1..N /\ (n + 1) - 1 = n /\ n <= N
      BY <1>1, <3>1
    <3>3. BytesTo[n + 1] = BytesTo[n] + Width(data[n + 1])
      BY <1>9, <3>2
    <3>4. QED
      BY <1>2, <2>2, <3>2, <3>3
  <2> HIDE DEF T
  <2>3. Nat \subseteq T
    BY <2>1, <2>2, SetInduction
  <2>4. \A n \in 0..N : BytesTo[n] \in Nat
    BY <1>1, <2>3 DEF T
  <2>5. \E h : BytesTo = [n \in 0..N |-> h[n]]
    <3>1. BytesTo = [n \in 0..N |-> F(BytesTo)[n]]
      BY <1>8
    <3>2. QED
      BY <3>1
  <2>6. QED
    BY <2>4, <2>5
<1>11. QED
  BY <1>1, <1>9, <1>10

\* A piece of the buffer is letters.
LEMMA PieceTyped ==
  ASSUME data \in Seq(Letters), NEW m \in Nat, NEW n \in Int, n <= Size
  PROVE  SubSeq(data, m + 1, n) \in Seq(Letters)
<1>1. Size \in Nat
  BY LenProperties DEF Size
<1>2. ASSUME NEW k \in m + 1..n PROVE data[k] \in Letters
  <2>1. k \in 1..Len(data)
    BY <1>1 DEF Size
  <2>2. QED
    BY <2>1, ElementOfSeq
<1>3. QED
  BY <1>2, SubSeqProperties

-----------------------------------------------------------------------------
(***************************************************************************)
(* The type.                                                               *)
(***************************************************************************)
LEMMA InitTypeInv == Init => TypeInv
<1> SUFFICES ASSUME Init PROVE TypeInv
  OBVIOUS
<1> DEFINE stream == req.head \o req.body
<1>1. req \in Requests /\ RequestShape(req) /\ Len(req.head) > 0
  BY RequestsAssumption DEF Init
<1>2. stream \in Seq(Letters) /\ Len(stream) \in Nat
  <2>1. req.head \in Seq(Letters) /\ req.body \in Seq(Letters)
    BY <1>1 DEF RequestShape
  <2>2. QED
    BY <2>1, ConcatProperties, LenProperties
<1>3. PICK p \in 0..Len(stream) - 1 : \E j \in p + 1..Len(stream) :
        first = p /\ data = SubSeq(stream, p + 1, j)
  BY DEF Init
<1>4. PICK j \in p + 1..Len(stream) : first = p /\ data = SubSeq(stream, p + 1, j)
  BY <1>3
<1> HIDE DEF stream
<1>5. data \in Seq(Letters) /\ Len(data) = j - p /\ p \in Nat /\ j \in Nat
  <2>1. ASSUME NEW k \in p + 1..j PROVE stream[k] \in Letters
    <3>1. k \in 1..Len(stream)
      BY <1>2
    <3>2. QED
      BY <1>2, <3>1, ElementOfSeq
  <2>2. p + 1 \in Int /\ j \in Int /\ p \in Nat /\ j \in Nat /\ p + 1 <= j
    BY <1>2
  <2>3. QED
    BY <1>4, <2>1, <2>2, SubSeqProperties
<1>6. Size \in Nat /\ Size > 0
  BY <1>4, <1>5 DEF Size
<1>7. /\ <<>> \in Seq(HeaderShape) /\ NoName \in Seq(Letters) /\ Len(<<>>) = 0
      /\ headers = <<>> /\ name = NoName /\ step = "empty" /\ at = 0 /\ ret = 0 /\ path = NoPath
  BY DEF Init, NoName
<1>8. HeadTypeOK
  BY <1>6, <1>7, RequestsAssumption DEF HeadTypeOK
<1>9. QED
  BY <1>1, <1>4, <1>5, <1>6, <1>7, <1>8 DEF TypeInv

\* What TypeInv says, in parts.
LEMMA Typed ==
  ASSUME TypeInv
  PROVE  /\ data \in Seq(Letters) /\ Size \in Nat /\ Size > 0 /\ at \in 0..Size /\ at \in Nat
         /\ ret \in -2..Size /\ MaxHeaders \in Nat \ {0}
         /\ Len(headers) \in Nat /\ Len(headers) <= MaxHeaders
  BY LenProperties, RequestsAssumption DEF TypeInv, HeadTypeOK, Size

\* Reach keeps the type, where it leads to a place in the buffer.
LEMMA ReachTyped ==
  ASSUME TypeInv, UNCHANGED input, NEW n \in -2..Size, NEW next, Reach(n, next),
         next \in {"method", "path", "version", "headers", "value"}
  PROVE  /\ Size' = Size /\ at' \in 0..Size' /\ ret' \in -2..Size'
         /\ step' \in {"parsed", next}
         /\ req' = req /\ first' = first /\ data' = data
<1>1. Size \in Nat /\ at \in 0..Size /\ ret \in -2..Size
  BY Typed
<1>2. req' = req /\ first' = first /\ data' = data /\ Size' = Size
  BY DEF input, Size
<1>3. QED
  BY <1>1, <1>2 DEF Reach

\* The parser never looks for the last letter of the version behind the buffer.
LEMMA VersionInBuffer ==
  ASSUME TypeInv, Bytes(at) >= 9, Letter(at) = "HTTP/1.", Letter(at + 1) = "1"
  PROVE  Letter(at + 2) # "beyond" /\ at + 2 < Size
<1>1. data \in Seq(Letters) /\ Size \in Nat /\ at \in Nat
  BY Typed
<1>2. at < Size /\ at + 1 < Size /\ data[at + 1] = "HTTP/1." /\ data[at + 2] = "1"
  BY <1>1 DEF Letter
<1>3. Width("HTTP/1.") = 7 /\ Width("1") = 1
  BY DEF Width, Words
<1>4. at + 2 # Size
  <2>1. SUFFICES ASSUME at + 2 = Size PROVE FALSE
    OBVIOUS
  <2>2. /\ at + 1 \in 1..Size /\ at + 2 \in 1..Size /\ at \in 0..Size
        /\ (at + 1) - 1 = at /\ (at + 2) - 1 = at + 1
    BY <1>1, <1>2
  <2>3. /\ BytesTo[at + 1] = BytesTo[at] + 7
        /\ BytesTo[at + 2] = BytesTo[at + 1] + 1
        /\ BytesTo[at] \in Nat
    BY <1>1, <1>2, <1>3, <2>2, BytesCounted
  <2>4. Bytes(at) = 8
    BY <2>1, <2>3 DEF Bytes
  <2>5. QED
    BY <2>4
<1>5. at + 2 < Size
  BY <1>1, <1>2, <1>4
<1>6. Letter(at + 2) \in Letters
  BY <1>1, <1>5, Buffer
<1>7. QED
  BY <1>5, <1>6, NoLetter

\* Every step keeps the types.
LEMMA NextTypeInv == TypeInv /\ [Next]_vars => TypeInv'
<1> SUFFICES ASSUME TypeInv, [Next]_vars PROVE TypeInv'
  OBVIOUS
<1>1. /\ data \in Seq(Letters) /\ Size \in Nat /\ Size > 0 /\ at \in 0..Size /\ at \in Nat
      /\ ret \in -2..Size /\ MaxHeaders \in Nat \ {0}
      /\ Len(headers) \in Nat /\ Len(headers) <= MaxHeaders
  BY Typed
<1>2. /\ path = NoPath \/ path \in Seq(Letters)
      /\ req \in Requests /\ first \in Nat /\ name \in Seq(Letters) /\ headers \in Seq(HeaderShape)
      /\ step = "value" => Len(headers) < MaxHeaders
      /\ step \in {"empty", "method", "path", "version", "headers", "value", "parsed",
                   "constructed", "crashed", "done"}
  BY DEF TypeInv, HeadTypeOK
<1>3. ASSUME NEW n \in -2..Size, NEW next, Reach(n, next), UNCHANGED <<input, headers>>,
             next \in {"method", "path", "version", "headers", "value"},
             next = "value" => Len(headers) < MaxHeaders,
             path' = NoPath \/ path' \in Seq(Letters), name' \in Seq(Letters)
      PROVE  TypeInv'
  <2>1. /\ Size' = Size /\ at' \in 0..Size' /\ ret' \in -2..Size'
        /\ step' \in {"parsed", next}
        /\ req' = req /\ first' = first /\ data' = data
    BY <1>3, ReachTyped
  <2>2. HeadTypeOK'
    BY <1>1, <1>3, <2>1 DEF HeadTypeOK
  <2>3. QED
    BY <1>1, <1>2, <1>3, <2>1, <2>2 DEF TypeInv
<1>4. CASE EmptyLine
  <2>1. Eol(0) \in -2..Size
    BY <1>1, EolTyped
  <2>2. PICK n \in -2..Size : Reach(n, "method")
    BY <1>1, <1>4, <2>1 DEF EmptyLine
  <2>3. QED
    BY <1>2, <1>3, <1>4, <2>2 DEF EmptyLine
<1>5. CASE Method
  <2>1. TokenEnd(at) \in {-1, -2} \cup at..Size - 1
    BY <1>1, TokenEndTyped
  <2>2. PICK n \in -2..Size : Reach(n, "path")
    BY <1>1, <1>5, <2>1 DEF Method
  <2>3. QED
    BY <1>2, <1>3, <1>5, <2>2 DEF Method
<1>6. CASE Path
  <2>1. TokenEnd(at) \in {-1, -2} \cup at..Size - 1
    BY <1>1, TokenEndTyped
  <2>2. PICK n \in -2..Size : Reach(n, "version")
    BY <1>1, <1>6, <2>1 DEF Path
  <2>3. path' = NoPath \/ path' \in Seq(Letters)
    <3>1. CASE TokenEnd(at) < 0
      BY <1>2, <1>6, <3>1 DEF Path
    <3>2. CASE ~(TokenEnd(at) < 0)
      <4>1. TokenEnd(at) \in Int /\ TokenEnd(at) <= Size
        BY <1>1, <2>1, <3>2
      <4>2. SubSeq(data, at + 1, TokenEnd(at)) \in Seq(Letters)
        BY <1>1, <4>1, PieceTyped
      <4>3. QED
        BY <1>6, <3>2, <4>2 DEF Path
    <3>3. QED
      BY <3>1, <3>2
  <2>4. UNCHANGED <<input, headers, name>>
    BY <1>6 DEF Path
  <2>5. QED
    BY <1>2, <1>3, <2>2, <2>3, <2>4
<1>7. CASE Version
  <2>1. /\ Bytes(at) < 9 \/ Letter(at) # "HTTP/1." \/ Letter(at + 1) # "1"
           \/ (Letter(at + 2) # "beyond" /\ at + 2 < Size)
    <3>1. Bytes(at) \in Int
      BY <1>1, BytesCounted DEF Bytes
    <3>2. QED
      BY <3>1, VersionInBuffer
  <2>2. at + 2 < Size => Eol(at + 2) \in -2..Size
    <3>1. SUFFICES ASSUME at + 2 < Size PROVE Eol(at + 2) \in -2..Size
      OBVIOUS
    <3>2. at + 2 \in 0..Size
      BY <1>1, <3>1
    <3>3. Eol(at + 2) \in {-1, -2} \cup (at + 2) + 1..Size
      BY <1>1, <3>2, EolTyped
    <3>4. QED
      BY <1>1, <3>3
  <2>3. PICK n \in -2..Size : Reach(n, "headers")
    BY <1>1, <1>7, <2>1, <2>2 DEF Version
  <2>4. UNCHANGED <<input, headers, path, name>>
    BY <1>7 DEF Version
  <2>5. QED
    BY <1>2, <1>3, <2>3, <2>4
<1>8. CASE HeadersFail
  <2>1. PICK n \in -2..Size : Reach(n, "headers")
    BY <1>1, <1>8 DEF HeadersFail
  <2>2. QED
    BY <1>2, <1>3, <1>8, <2>1 DEF HeadersFail
<1>9. CASE HeadEnd
  <2>1. Eol(at) \in {-1, -2} \cup at + 1..Size
    BY <1>1, EolTyped
  <2>2. at' \in 0..Size /\ ret' \in -2..Size /\ step' = "parsed"
    BY <1>1, <1>9, <2>1 DEF HeadEnd
  <2>3. UNCHANGED <<input, path, headers, name>> /\ req' = req /\ first' = first /\ data' = data
    BY <1>9 DEF HeadEnd, input
  <2>4. Size' = Size
    BY <2>3 DEF Size
  <2>5. HeadTypeOK'
    BY <1>1, <1>2, <2>2, <2>3, <2>4 DEF HeadTypeOK
  <2>6. QED
    BY <1>1, <1>2, <2>2, <2>3, <2>4, <2>5 DEF TypeInv
<1>10. CASE Name
  <2> DEFINE k == Scan(at, Letters \ TokenLetters)
             v == Scan(k + 1, Letters \ Blank)
             n == CASE k = Size -> -2
                    [] k < Size /\ (Letter(k) # ":" \/ k = at) -> -1
                    [] k < Size /\ Letter(k) = ":" /\ k # at ->
                         IF v = Size THEN -2 ELSE v
  <2>1. k \in 0..Size /\ k + 1 \in Nat
    BY <1>1, ScanTyped
  <2>2. v \in 0..Size
    BY <1>1, <2>1, ScanTyped
  <2>3. Reach(n, "value") /\ name' = SubSeq(data, at + 1, k) /\ UNCHANGED <<input, path, headers>>
    BY <1>10 DEF Name
  <2>4. SubSeq(data, at + 1, k) \in Seq(Letters)
    <3> HIDE DEF k
    <3>1. k \in Int /\ k <= Size
      BY <1>1, <2>1
    <3>2. QED
      BY <1>1, <3>1, PieceTyped
  <2>5. Len(headers) < MaxHeaders
    BY <1>10 DEF Name, HeaderAhead
  <2> HIDE DEF k, v
  <2>6. n \in -2..Size
    BY <1>1, <2>1, <2>2
  <2> HIDE DEF n
  <2>7. QED
    BY <1>2, <1>3, <2>3, <2>4, <2>5, <2>6
<1>11. CASE Fold
  <2>1. Reach(at, "value") /\ at \in -2..Size /\ Len(headers) < MaxHeaders
    BY <1>1, <1>11 DEF Fold, HeaderAhead
  <2>2. NoName \in Seq(Letters)
    BY DEF NoName
  <2>3. UNCHANGED <<input, headers, path>> /\ name' = NoName
    BY <1>11 DEF Fold
  <2>4. QED
    BY <1>2, <1>3, <2>1, <2>2, <2>3
<1>12. CASE Value
  <2> DEFINE k == ValueEnd(at)
             n == IF k = Size THEN -2 ELSE Eol(k)
             h == [name |-> name, value |-> SubSeq(data, at + 1, k)]
  <2>1. k \in 0..Size
    BY <1>1, ScanTyped DEF ValueEnd
  <2>2. Eol(k) \in -2..Size
    <3>1. Eol(k) \in {-1, -2} \cup k + 1..Size
      BY <1>1, <2>1, EolTyped
    <3>2. QED
      BY <1>1, <2>1, <3>1
  <2>3. n \in -2..Size
    BY <1>1, <2>2
  <2>4. /\ Reach(n, "headers") /\ step = "value"
        /\ headers' = IF n < 0 THEN headers ELSE Append(headers, h)
        /\ UNCHANGED <<input, path, name>>
    BY <1>12 DEF Value
  <2>5. h \in HeaderShape
    <3>1. SubSeq(data, at + 1, k) \in Seq(Letters)
      <4> HIDE DEF k
      <4>1. k \in Int /\ k <= Size
        BY <1>1, <2>1
      <4>2. QED
        BY <1>1, <4>1, PieceTyped
    <3>2. QED
      BY <1>2, <3>1 DEF HeaderShape
  <2> HIDE DEF h, k
  <2> HIDE DEF n
  <2>6. headers' \in Seq(HeaderShape) /\ Len(headers') \in 0..MaxHeaders
    BY <1>1, <1>2, <2>4, <2>5, AppendProperties
  <2>7. /\ Size' = Size /\ at' \in 0..Size' /\ ret' \in -2..Size'
        /\ step' \in {"parsed", "headers"}
        /\ req' = req /\ first' = first /\ data' = data
    BY <2>3, <2>4, ReachTyped
  <2>8. HeadTypeOK'
    BY <1>2, <2>4, <2>6, <2>7 DEF HeadTypeOK
  <2>9. QED
    BY <1>1, <1>2, <2>4, <2>6, <2>7, <2>8 DEF TypeInv
<1>13. CASE Construct \/ TakePost \/ UNCHANGED vars
  <2>1. /\ UNCHANGED <<req, first, data, at, path, headers, name, ret>>
        /\ step' \in {step, "crashed", "constructed", "done"}
    BY <1>13 DEF Construct, TakePost, vars, input
  <2>2. Size' = Size
    BY <2>1 DEF Size
  <2>3. HeadTypeOK'
    BY <1>1, <1>2, <2>1, <2>2 DEF HeadTypeOK
  <2>4. QED
    BY <1>1, <1>2, <2>1, <2>2, <2>3 DEF TypeInv
<1>14. QED
  BY <1>4, <1>5, <1>6, <1>7, <1>8, <1>9, <1>10, <1>11, <1>12, <1>13 DEF Next

\* The parser stays in the buffer, for the version's last letter too, and in
\* the array of headers, whatever it is given.
THEOREM HeadTypeCorrect == Spec => []HeadTypeOK
<1>1. TypeInv => HeadTypeOK
  BY DEF TypeInv
<1>2. QED
  BY <1>1, InitTypeInv, NextTypeInv, PTL DEF Spec

-----------------------------------------------------------------------------
(***************************************************************************)
(* The letters of a sound request: where each part of the head is.         *)
(***************************************************************************)
Stream(r) == r.head \o r.body

PathAt(r) == Len(r.lead) + Len(r.method) + 1
VersionAt(r) == PathAt(r) + Len(r.path) + 1
LinesAt(r) == VersionAt(r) + 2 + Len(r.eol)

Lines(r) == [k \in DOMAIN r.lines |-> Spelled(r.lines[k])]
InFront(l) == IF l.name = <<>> THEN 0 ELSE Len(l.name) + 1 + Len(l.blanks)

LineAt(r, k) == LinesAt(r) + Len(FlattenSeq(SubSeq(Lines(r), 1, k - 1)))
ValueAt(r, k) == LineAt(r, k) + InFront(r.lines[k])
EolAt(r, k) == ValueAt(r, k) + Len(r.lines[k].value)

\* b has s behind the first at letters.
Holds(b, n, s) == \A j \in 1..Len(s) : n + j <= Len(b) /\ b[n + j] = s[j]

\* What a run of letters holds, two runs one after the other hold.
LEMMA HoldsConcat ==
  ASSUME NEW S, NEW s \in Seq(S), NEW t \in Seq(S)
  PROVE  /\ s \o t \in Seq(S) /\ Len(s \o t) = Len(s) + Len(t) /\ Len(s) \in Nat /\ Len(t) \in Nat
         /\ \A b : \A n \in Nat : Holds(b, n, s \o t) => Holds(b, n, s) /\ Holds(b, n + Len(s), t)
<1>1. Len(s) \in Nat /\ Len(t) \in Nat
  BY LenProperties
<1>2. /\ s \o t \in Seq(S) /\ Len(s \o t) = Len(s) + Len(t)
      /\ \A k \in 1..Len(s) + Len(t) : (s \o t)[k] = IF k <= Len(s) THEN s[k] ELSE t[k - Len(s)]
  BY ConcatProperties
<1> DEFINE c == s \o t
           m == Len(s)
           l == Len(t)
<1> HIDE DEF c, m, l
<1>3. /\ m \in Nat /\ l \in Nat /\ Len(c) = m + l
      /\ \A k \in 1..m + l : c[k] = IF k <= m THEN s[k] ELSE t[k - m]
  BY <1>1, <1>2 DEF c, m, l
<1>4. ASSUME NEW b, NEW n \in Nat, Holds(b, n, c)
      PROVE  Holds(b, n, s) /\ Holds(b, n + m, t)
  <2>1. \A j \in 1..m + l : n + j <= Len(b) /\ b[n + j] = c[j]
    BY <1>3, <1>4 DEF Holds
  <2>2. ASSUME NEW j \in 1..m
        PROVE  n + j <= Len(b) /\ b[n + j] = s[j]
    <3>1. j \in 1..m + l /\ j <= m
      BY <1>3
    <3>2. QED
      BY <1>3, <2>1, <3>1
  <2>3. ASSUME NEW j \in 1..l
        PROVE  (n + m) + j <= Len(b) /\ b[(n + m) + j] = t[j]
    <3>1. m + j \in 1..m + l /\ n + (m + j) = (n + m) + j /\ (m + j) - m = j /\ ~(m + j <= m)
      BY <1>3
    <3>2. n + (m + j) <= Len(b) /\ b[n + (m + j)] = c[m + j]
      BY <2>1, <3>1
    <3>3. c[m + j] = t[j]
      BY <1>3, <3>1
    <3>4. QED
      BY <3>1, <3>2, <3>3
  <2>4. QED
    BY <2>2, <2>3 DEF Holds, m, l
<1>5. QED
  BY <1>1, <1>2, <1>4 DEF c, m

\* What b has there, letter by letter.
LEMMA HoldsIn ==
  ASSUME NEW S, NEW s \in Seq(S), NEW b, NEW n \in Nat, Holds(b, n, s), NEW T, ToSet(s) \subseteq T,
         NEW p \in n..n + Len(s) - 1
  PROVE  p < Len(b) /\ b[p + 1] \in T /\ b[p + 1] = s[p - n + 1]
<1> DEFINE j == p - n + 1
<1>1. Len(s) \in Nat /\ DOMAIN s = 1..Len(s)
  BY LenProperties
<1>2. j \in 1..Len(s) /\ n + j = p + 1
  BY <1>1
<1>3. n + j <= Len(b) /\ b[n + j] = s[j]
  BY <1>2 DEF Holds
<1>4. s[j] \in ToSet(s)
  BY <1>1, <1>2 DEF ToSet
<1>5. QED
  BY <1>2, <1>3, <1>4

\* b has a line end there.
LEMMA HoldsEol ==
  ASSUME NEW b, Len(b) \in Nat, NEW n \in Nat, NEW e \in Eols, Holds(b, n, e)
  PROVE  /\ Len(e) \in {1, 2} /\ n + Len(e) <= Len(b) /\ e \in Seq(Letters)
         /\ Len(e) = 1 => b[n + 1] = "LF"
         /\ Len(e) = 2 => b[n + 1] = "CR" /\ b[n + 2] = "LF"
<1>1. CASE e = <<"CR", "LF">>
  <2>1. Len(e) = 2 /\ e[1] = "CR" /\ e[2] = "LF" /\ e \in Seq(Letters)
    BY <1>1 DEF Letters, Control
  <2>2. QED
    BY <2>1 DEF Holds
<1>2. CASE e = <<"LF">>
  <2>1. Len(e) = 1 /\ e[1] = "LF" /\ e \in Seq(Letters)
    BY <1>2 DEF Letters, Control
  <2>2. QED
    BY <2>1 DEF Holds
<1>3. QED
  BY <1>1, <1>2 DEF Eols

\* A line, in its parts.
LineHolds(b, n, l) ==
  LET v == n + InFront(l) IN
  /\ l.name # <<>> =>
       Holds(b, n, l.name) /\ Holds(b, n + Len(l.name), <<":">>) /\ Holds(b, n + Len(l.name) + 1, l.blanks)
  /\ Holds(b, v, l.value) /\ Holds(b, v + Len(l.value), l.eol)

\* A header line as it is spelled: its name, the colon and blanks, its value and its line end.
LEMMA LineSpelled ==
  ASSUME NEW l \in LineShape
  PROVE  /\ Spelled(l) \in Seq(Letters) /\ InFront(l) \in Nat
         /\ Len(l.value) \in Nat /\ Len(l.eol) \in Nat
         /\ Len(Spelled(l)) = InFront(l) + Len(l.value) + Len(l.eol)
         /\ \A b : \A n \in Nat : Holds(b, n, Spelled(l)) => LineHolds(b, n, l)
<1> DEFINE f == IF l.name = <<>> THEN <<>> ELSE (l.name \o <<":">>) \o l.blanks
           c == <<":">>
           d == l.name \o c
           g == f \o l.value
<1>1. /\ l.name \in Seq(Letters) /\ l.blanks \in Seq(Letters)
      /\ l.value \in Seq(Letters) /\ l.eol \in Seq(Letters)
  BY DEF LineShape
<1>2. c \in Seq(Letters) /\ Len(c) = 1
  BY DEF Letters
<1>3. Spelled(l) = g \o l.eol
  BY DEF Spelled
<1> HIDE DEF c
<1>4. /\ d \in Seq(Letters) /\ Len(d) = Len(l.name) + 1 /\ Len(l.name) \in Nat
      /\ \A b : \A n \in Nat : Holds(b, n, d) => Holds(b, n, l.name) /\ Holds(b, n + Len(l.name), c)
  BY <1>1, <1>2, HoldsConcat
<1> HIDE DEF d
<1>5. /\ d \o l.blanks \in Seq(Letters) /\ Len(d \o l.blanks) = Len(d) + Len(l.blanks)
      /\ Len(l.blanks) \in Nat
      /\ \A b : \A n \in Nat : Holds(b, n, d \o l.blanks) => Holds(b, n, d) /\ Holds(b, n + Len(d), l.blanks)
  BY <1>1, <1>4, HoldsConcat
<1>6. f = IF l.name = <<>> THEN <<>> ELSE d \o l.blanks
  BY DEF c, d
<1>7. f \in Seq(Letters) /\ Len(f) = InFront(l) /\ InFront(l) \in Nat
  <2>1. CASE l.name = <<>>
    BY <1>6, <2>1, EmptySeq DEF InFront
  <2>2. CASE l.name # <<>>
    <3>1. f = d \o l.blanks /\ InFront(l) = Len(l.name) + 1 + Len(l.blanks)
      BY <1>6, <2>2 DEF InFront
    <3>2. d \o l.blanks \in Seq(Letters) /\ Len(d \o l.blanks) = Len(d) + Len(l.blanks)
      BY <1>5
    <3>3. Len(d) = Len(l.name) + 1 /\ Len(l.name) \in Nat /\ Len(l.blanks) \in Nat
      BY <1>4, <1>5
    <3>4. f \in Seq(Letters) /\ Len(f) = Len(d) + Len(l.blanks)
      BY <3>1, <3>2
    <3> DEFINE x == Len(l.name)
               y == Len(l.blanks)
               z == Len(f)
    <3>5. x \in Nat /\ y \in Nat /\ z = (x + 1) + y /\ InFront(l) = x + 1 + y
      BY <3>1, <3>3, <3>4
    <3> HIDE DEF x, y, z
    <3>6. z = InFront(l) /\ InFront(l) \in Nat
      BY <3>5
    <3>7. QED
      BY <3>4, <3>6 DEF z
  <2>3. QED
    BY <2>1, <2>2
<1> HIDE DEF f
<1>8. /\ g \in Seq(Letters) /\ Len(g) = Len(f) + Len(l.value) /\ Len(l.value) \in Nat
      /\ \A b : \A n \in Nat : Holds(b, n, g) => Holds(b, n, f) /\ Holds(b, n + Len(f), l.value)
  BY <1>1, <1>7, HoldsConcat
<1> HIDE DEF g
<1>9. /\ g \o l.eol \in Seq(Letters) /\ Len(g \o l.eol) = Len(g) + Len(l.eol) /\ Len(l.eol) \in Nat
      /\ \A b : \A n \in Nat : Holds(b, n, g \o l.eol) => Holds(b, n, g) /\ Holds(b, n + Len(g), l.eol)
  BY <1>1, <1>8, HoldsConcat
<1>10. ASSUME NEW b, NEW n \in Nat, Holds(b, n, Spelled(l))
       PROVE  LineHolds(b, n, l)
  <2>1. Holds(b, n, g) /\ Holds(b, n + Len(g), l.eol)
    BY <1>3, <1>9, <1>10
  <2>2. Holds(b, n, f) /\ Holds(b, n + Len(f), l.value)
    BY <1>8, <2>1
  <2>3. n + Len(g) = (n + InFront(l)) + Len(l.value)
    BY <1>7, <1>8
  <2>4. ASSUME l.name # <<>>
        PROVE  Holds(b, n, l.name) /\ Holds(b, n + Len(l.name), <<":">>)
               /\ Holds(b, n + Len(l.name) + 1, l.blanks)
    <3>1. Holds(b, n, d) /\ Holds(b, n + Len(d), l.blanks)
      BY <1>5, <1>6, <2>2, <2>4
    <3>2. n + Len(d) = n + Len(l.name) + 1
      BY <1>4
    <3>3. QED
      BY <1>4, <3>1, <3>2 DEF c
  <2>5. QED
    BY <1>7, <2>1, <2>2, <2>3, <2>4 DEF LineHolds
<1>11. QED
  BY <1>3, <1>7, <1>8, <1>9, <1>10

\* The request line, in its parts.
RequestLineHolds(b, r) ==
  /\ Holds(b, 0, r.lead) /\ Holds(b, Len(r.lead), r.method)
  /\ Holds(b, Len(r.lead) + Len(r.method), <<"SP">>) /\ Holds(b, PathAt(r), r.path)
  /\ Holds(b, PathAt(r) + Len(r.path), <<"SP", "HTTP/1.", "1">>)
  /\ Holds(b, VersionAt(r) + 2, r.eol)

\* The request line as it is spelled: the blank line ahead of it, the method, the path and the version.
LEMMA RequestLineSpelled ==
  ASSUME NEW r, RequestShape(r)
  PROVE  /\ RequestLine(r) \in Seq(Letters) /\ Len(RequestLine(r)) = LinesAt(r)
         /\ Len(r.lead) \in Nat /\ Len(r.method) \in Nat /\ Len(r.path) \in Nat /\ Len(r.eol) \in Nat
         /\ PathAt(r) \in Nat /\ VersionAt(r) \in Nat /\ LinesAt(r) \in Nat
         /\ \A b : Holds(b, 0, RequestLine(r)) => RequestLineHolds(b, r)
<1> DEFINE sp == <<"SP">>
           ver == <<"SP", "HTTP/1.", "1">>
           c1 == r.lead \o r.method
           c2 == c1 \o sp
           c3 == c2 \o r.path
           c4 == c3 \o ver
           c5 == c4 \o r.eol
<1>1. /\ r.lead \in Seq(Letters) /\ r.method \in Seq(Letters) /\ r.path \in Seq(Letters)
      /\ r.eol \in Seq(Letters)
  BY DEF RequestShape
<1>2. sp \in Seq(Letters) /\ Len(sp) = 1 /\ ver \in Seq(Letters) /\ Len(ver) = 3
  BY DEF Letters, Blank, TokenLetters, Words
<1>3. RequestLine(r) = c5
  BY DEF RequestLine
<1> HIDE DEF sp, ver, c5
<1>4. /\ c1 \in Seq(Letters) /\ Len(c1) = Len(r.lead) + Len(r.method)
      /\ Len(r.lead) \in Nat /\ Len(r.method) \in Nat
      /\ \A b : \A n \in Nat : Holds(b, n, c1) => Holds(b, n, r.lead) /\ Holds(b, n + Len(r.lead), r.method)
  BY <1>1, HoldsConcat
<1> HIDE DEF c1
<1>5. /\ c2 \in Seq(Letters) /\ Len(c2) = Len(c1) + Len(sp)
      /\ \A b : \A n \in Nat : Holds(b, n, c2) => Holds(b, n, c1) /\ Holds(b, n + Len(c1), sp)
  BY <1>2, <1>4, HoldsConcat
<1> HIDE DEF c2
<1>6. /\ c3 \in Seq(Letters) /\ Len(c3) = Len(c2) + Len(r.path) /\ Len(r.path) \in Nat
      /\ \A b : \A n \in Nat : Holds(b, n, c3) => Holds(b, n, c2) /\ Holds(b, n + Len(c2), r.path)
  BY <1>1, <1>5, HoldsConcat
<1> HIDE DEF c3
<1>7. /\ c4 \in Seq(Letters) /\ Len(c4) = Len(c3) + Len(ver)
      /\ \A b : \A n \in Nat : Holds(b, n, c4) => Holds(b, n, c3) /\ Holds(b, n + Len(c3), ver)
  BY <1>2, <1>6, HoldsConcat
<1> HIDE DEF c4
<1>8. /\ c5 \in Seq(Letters) /\ Len(c5) = Len(c4) + Len(r.eol) /\ Len(r.eol) \in Nat
      /\ \A b : \A n \in Nat : Holds(b, n, c5) => Holds(b, n, c4) /\ Holds(b, n + Len(c4), r.eol)
  BY <1>1, <1>7, HoldsConcat DEF c5
<1>9. /\ Len(c1) = Len(r.lead) + Len(r.method) /\ Len(c2) = PathAt(r)
      /\ Len(c3) = PathAt(r) + Len(r.path) /\ Len(c4) = VersionAt(r) + 2 /\ Len(c5) = LinesAt(r)
      /\ PathAt(r) \in Nat /\ VersionAt(r) \in Nat /\ LinesAt(r) \in Nat
  <2>1. /\ Len(c1) = Len(r.lead) + Len(r.method) /\ Len(c2) = Len(c1) + 1
        /\ Len(r.lead) \in Nat /\ Len(r.method) \in Nat
    BY <1>2, <1>4, <1>5
  <2>2. Len(c3) = Len(c2) + Len(r.path) /\ Len(r.path) \in Nat
    BY <1>6
  <2>3. Len(c4) = Len(c3) + 3
    BY <1>2, <1>7
  <2>4. Len(c5) = Len(c4) + Len(r.eol) /\ Len(r.eol) \in Nat
    BY <1>8
  <2> DEFINE x == Len(r.lead)
             y == Len(r.method)
             z == Len(r.path)
             t == Len(r.eol)
  <2>5. /\ x \in Nat /\ y \in Nat /\ z \in Nat /\ t \in Nat
        /\ Len(c1) = x + y /\ Len(c2) = x + y + 1 /\ Len(c3) = x + y + 1 + z
        /\ Len(c4) = x + y + 1 + z + 3 /\ Len(c5) = x + y + 1 + z + 3 + t
    BY <2>1, <2>2, <2>3, <2>4
  <2>6. /\ PathAt(r) = x + y + 1 /\ VersionAt(r) = PathAt(r) + z + 1
        /\ LinesAt(r) = VersionAt(r) + 2 + t
    BY DEF PathAt, VersionAt, LinesAt
  <2> HIDE DEF x, y, z, t
  <2>7. /\ Len(c1) = x + y /\ Len(c2) = PathAt(r) /\ Len(c3) = PathAt(r) + z
        /\ Len(c4) = VersionAt(r) + 2 /\ Len(c5) = LinesAt(r)
        /\ PathAt(r) \in Nat /\ VersionAt(r) \in Nat /\ LinesAt(r) \in Nat
    BY <2>5, <2>6
  <2>8. QED
    BY <2>7 DEF x, y, z
<1>10. ASSUME NEW b, Holds(b, 0, c5) PROVE RequestLineHolds(b, r)
  <2>1. Holds(b, 0, c4) /\ Holds(b, 0 + Len(c4), r.eol)
    BY <1>8, <1>10
  <2>2. Holds(b, 0, c3) /\ Holds(b, 0 + Len(c3), ver)
    BY <1>7, <2>1
  <2>3. Holds(b, 0, c2) /\ Holds(b, 0 + Len(c2), r.path)
    BY <1>6, <2>2
  <2>4. Holds(b, 0, c1) /\ Holds(b, 0 + Len(c1), sp)
    BY <1>5, <2>3
  <2>5. Holds(b, 0, r.lead) /\ Holds(b, 0 + Len(r.lead), r.method)
    BY <1>4, <2>4
  <2>6. /\ 0 + Len(c4) = VersionAt(r) + 2 /\ 0 + Len(c3) = PathAt(r) + Len(r.path)
        /\ 0 + Len(c2) = PathAt(r) /\ 0 + Len(c1) = Len(r.lead) + Len(r.method)
        /\ 0 + Len(r.lead) = Len(r.lead)
    BY <1>4, <1>6, <1>9
  <2>7. QED
    BY <2>1, <2>2, <2>3, <2>4, <2>5, <2>6 DEF RequestLineHolds, sp, ver
<1>11. QED
  BY <1>3, <1>4, <1>6, <1>8, <1>9, <1>10

\* What is where in a sound request.
Layout(r) ==
  LET s == Stream(r)
      n == Len(r.lines)
  IN
  /\ Len(r.lead) \in Nat /\ Len(r.method) \in Nat /\ Len(r.path) \in Nat
  /\ PathAt(r) \in Nat /\ VersionAt(r) \in Nat /\ LinesAt(r) \in Nat
  /\ s \in Seq(Letters) /\ Len(s) \in Nat /\ Len(r.head) \in Nat
  /\ Len(r.head) <= Len(s) /\ n \in Nat
  /\ RequestLineHolds(s, r)
  /\ LineAt(r, 1) = LinesAt(r)
  /\ \A k \in 1..n :
       /\ r.lines[k] \in LineShape /\ IsLine(r.lines[k]) /\ LineAt(r, k) \in Nat
       /\ InFront(r.lines[k]) \in Nat
       /\ LineHolds(s, LineAt(r, k), r.lines[k])
       /\ LineAt(r, k + 1) = EolAt(r, k) + Len(r.lines[k].eol)
       /\ LineAt(r, k) <= LineAt(r, n + 1)
  /\ LineAt(r, n + 1) \in Nat /\ LineAt(r, n + 1) >= LinesAt(r)
  /\ Holds(s, LineAt(r, n + 1), r.last) /\ Len(r.head) = LineAt(r, n + 1) + Len(r.last)

\* Where in the bytes of a sound request its line, its headers, their values and the empty line at the end are.
LEMMA LaidOut ==
  ASSUME NEW r, RequestShape(r), IsSound(r)
  PROVE  Layout(r)
<1> DEFINE n == Len(r.lines)
           ls == Lines(r)
           pre(m) == FlattenSeq(SubSeq(ls, 1, m))
           all == FlattenSeq(ls)
           line == RequestLine(r)
           c == line \o all
           s == Stream(r)
<1>1. /\ n \in Nat /\ DOMAIN r.lines = 1..n /\ \A k \in 1..n : r.lines[k] \in LineShape
  <2>1. r.lines \in Seq(LineShape)
    BY DEF RequestShape
  <2>2. QED
    BY <2>1, LenProperties, ElementOfSeq
<1>2. /\ r.head \in Seq(Letters) /\ r.body \in Seq(Letters) /\ r.last \in Seq(Letters)
  BY DEF RequestShape
<1>3. /\ ls \in Seq(Seq(Letters)) /\ Len(ls) = n /\ \A k \in 1..n : ls[k] = Spelled(r.lines[k])
  <2>1. \A k \in 1..n : Spelled(r.lines[k]) \in Seq(Letters)
    BY <1>1, LineSpelled
  <2>2. ls = [k \in 1..n |-> Spelled(r.lines[k])]
    BY <1>1 DEF Lines
  <2>3. ls \in [1..n -> Seq(Letters)]
    BY <2>1, <2>2
  <2>4. ls \in Seq(Seq(Letters)) /\ DOMAIN ls = 1..n
    BY <1>1, <2>3
  <2>5. Len(ls) = n
    BY <1>1, <2>4, LenProperties
  <2>6. QED
    BY <2>2, <2>4, <2>5
<1>4. r.head = c \o r.last
  BY DEF IsSound, SpelledHead, Lines
<1>5. /\ line \in Seq(Letters) /\ Len(line) = LinesAt(r) /\ LinesAt(r) \in Nat
      /\ \A b : Holds(b, 0, line) => RequestLineHolds(b, r)
  BY RequestLineSpelled
<1>6. all \in Seq(Letters)
  BY <1>3, FlattenTyped
<1>7. \A k : LineAt(r, k) = LinesAt(r) + Len(pre(k - 1))
  BY DEF LineAt
<1>8. pre(0) = <<>>
  <2>1. SubSeq(ls, 1, 0) = <<>>
    BY SubSeqEmpty
  <2> HIDE DEF ls
  <2>2. QED
    BY <2>1 DEF FlattenSeq
<1>9. all = pre(n)
  BY <1>3, SubSeqFull
<1>10. ASSUME NEW m \in Nat, m < n
       PROVE  /\ pre(m + 1) = pre(m) \o ls[m + 1] /\ pre(m) \in Seq(Letters)
              /\ ls[m + 1] = Spelled(r.lines[m + 1]) /\ ls[m + 1] \in Seq(Letters)
  <2>1. m + 1 \in 1..n
    BY <1>1, <1>10
  <2>2. ls[m + 1] \in Seq(Letters)
    BY <1>3, <2>1, ElementOfSeq
  <2>3. pre(m + 1) = pre(m) \o ls[m + 1] /\ pre(m) \in Seq(Letters)
    BY <1>3, <1>10, FlattenMore
  <2>4. QED
    BY <1>3, <2>1, <2>2, <2>3
<1> HIDE DEF ls, all, line, pre
<1>11. /\ c \in Seq(Letters) /\ Len(c) = Len(line) + Len(all) /\ Len(all) \in Nat
       /\ \A b : \A x \in Nat : Holds(b, x, c) => Holds(b, x, line) /\ Holds(b, x + Len(line), all)
  BY <1>5, <1>6, HoldsConcat
<1> HIDE DEF c
<1>12. /\ Len(r.head) = Len(c) + Len(r.last) /\ Len(r.last) \in Nat /\ Len(r.head) \in Nat
       /\ \A b : \A x \in Nat : Holds(b, x, r.head) => Holds(b, x, c) /\ Holds(b, x + Len(c), r.last)
  <2>1. c \in Seq(Letters)
    BY <1>11
  <2>2. /\ Len(c \o r.last) = Len(c) + Len(r.last) /\ Len(c) \in Nat /\ Len(r.last) \in Nat
        /\ \A b : \A x \in Nat : Holds(b, x, c \o r.last) => Holds(b, x, c) /\ Holds(b, x + Len(c), r.last)
    BY <1>2, <2>1, HoldsConcat
  <2>3. Len(r.head) = Len(c) + Len(r.last) /\ Len(r.head) \in Nat
    <3>1. Len(r.head) = Len(c \o r.last)
      BY <1>4
    <3>2. Len(c \o r.last) = Len(c) + Len(r.last) /\ Len(c) \in Nat /\ Len(r.last) \in Nat
      BY <2>2
    <3>3. QED
      BY <3>1, <3>2
  <2>4. QED
    BY <1>4, <2>2, <2>3
<1>13. /\ s \in Seq(Letters) /\ Len(s) = Len(r.head) + Len(r.body) /\ Len(s) \in Nat
       /\ \A b : \A x \in Nat : Holds(b, x, s) => Holds(b, x, r.head)
  BY <1>2, HoldsConcat DEF Stream
<1>14. Holds(s, 0, s)
  <2>1. Len(s) \in Nat
    BY <1>13
  <2> HIDE DEF s
  <2>2. QED
    BY <2>1 DEF Holds
<1>15. Holds(s, 0, c) /\ Holds(s, 0 + Len(c), r.last)
  BY <1>12, <1>13, <1>14
<1>16. Holds(s, 0, line) /\ Holds(s, 0 + Len(line), all)
  BY <1>11, <1>15
<1>17. Len(pre(0)) = 0 /\ LineAt(r, 1) = LinesAt(r)
  <2>1. 1 - 1 = 0 /\ Len(<<>>) = 0
    OBVIOUS
  <2>2. QED
    BY <1>5, <1>7, <1>8, <2>1
<1>18. /\ LineAt(r, n + 1) = Len(c) /\ LineAt(r, n + 1) \in Nat
       /\ LineAt(r, n + 1) >= LinesAt(r)
  <2>1. (n + 1) - 1 = n
    BY <1>1
  <2>2. QED
    BY <1>5, <1>7, <1>9, <1>11, <2>1
<1>19. \A m \in 0..n : Holds(s, LinesAt(r), pre(m)) /\ Len(pre(m)) <= Len(all)
  <2> DEFINE T == {x \in Nat : x <= n => /\ Holds(s, LinesAt(r), pre(n - x))
                                        /\ Len(pre(n - x)) <= Len(all)}
  <2>1. 0 \in T
    <3>1. n - 0 = n /\ 0 + Len(line) = LinesAt(r) /\ Len(all) <= Len(all)
      BY <1>1, <1>5, <1>11
    <3>2. QED
      BY <1>9, <1>16, <3>1
  <2>2. ASSUME NEW x \in Nat, x \in T
        PROVE  x + 1 \in T
    <3>1. SUFFICES ASSUME x + 1 <= n
                   PROVE  Holds(s, LinesAt(r), pre(n - (x + 1))) /\ Len(pre(n - (x + 1))) <= Len(all)
      OBVIOUS
    <3> DEFINE m == n - (x + 1)
    <3>2. m \in Nat /\ m < n /\ m + 1 = n - x
      BY <1>1, <3>1
    <3>3. Holds(s, LinesAt(r), pre(n - x)) /\ Len(pre(n - x)) <= Len(all)
      BY <1>1, <2>2, <3>1
    <3> HIDE DEF m
    <3>4. Holds(s, LinesAt(r), pre(m) \o ls[m + 1])
      BY <1>10, <3>2, <3>3
    <3>5. pre(m) \in Seq(Letters) /\ ls[m + 1] \in Seq(Letters)
      BY <1>10, <3>2
    <3>6. Holds(s, LinesAt(r), pre(m))
      BY <1>5, <3>4, <3>5, HoldsConcat
    <3>7. Len(pre(m + 1)) = Len(pre(m)) + Len(ls[m + 1]) /\ Len(pre(m)) \in Nat /\ Len(ls[m + 1]) \in Nat
      <4>1. pre(m + 1) = pre(m) \o ls[m + 1]
        BY <1>10, <3>2
      <4>2. Len(pre(m) \o ls[m + 1]) = Len(pre(m)) + Len(ls[m + 1])
            /\ Len(pre(m)) \in Nat /\ Len(ls[m + 1]) \in Nat
        BY <3>5, HoldsConcat
      <4>3. QED
        BY <4>1, <4>2
    <3>8. Len(pre(m)) <= Len(all)
      <4> DEFINE u == Len(pre(m))
                 v == Len(ls[m + 1])
                 w == Len(all)
      <4>1. u \in Nat /\ v \in Nat /\ w \in Nat /\ u + v <= w
        BY <1>11, <3>2, <3>3, <3>7
      <4> HIDE DEF u, v, w
      <4>2. u <= w
        BY <4>1
      <4>3. QED
        BY <4>2 DEF u, w
    <3>9. QED
      BY <3>6, <3>8 DEF m
  <2> HIDE DEF T
  <2>3. Nat \subseteq T
    BY <2>1, <2>2, SetInduction
  <2>4. ASSUME NEW m \in 0..n
        PROVE  Holds(s, LinesAt(r), pre(m)) /\ Len(pre(m)) <= Len(all)
    <3>1. n - m \in Nat /\ n - m <= n /\ n - (n - m) = m
      BY <1>1
    <3>2. n - m \in T
      BY <2>3, <3>1
    <3>3. QED
      BY <3>1, <3>2 DEF T
  <2>5. QED
    BY <2>4
<1>20. ASSUME NEW k \in 1..n
       PROVE  /\ r.lines[k] \in LineShape /\ IsLine(r.lines[k]) /\ LineAt(r, k) \in Nat
              /\ InFront(r.lines[k]) \in Nat
              /\ LineHolds(s, LineAt(r, k), r.lines[k])
              /\ LineAt(r, k + 1) = EolAt(r, k) + Len(r.lines[k].eol)
              /\ LineAt(r, k) <= LineAt(r, n + 1)
  <2> DEFINE m == k - 1
             l == r.lines[k]
             e == Spelled(l)
  <2>1. m \in Nat /\ m < n /\ m + 1 = k /\ k \in 0..n /\ k \in Nat
    BY <1>1
  <2>2. l \in LineShape /\ IsLine(l)
    BY <1>1 DEF IsSound
  <2>3. /\ e \in Seq(Letters) /\ InFront(l) \in Nat
        /\ Len(l.value) \in Nat /\ Len(l.eol) \in Nat
        /\ Len(e) = InFront(l) + Len(l.value) + Len(l.eol)
        /\ \A b : \A x \in Nat : Holds(b, x, e) => LineHolds(b, x, l)
    BY <2>2, LineSpelled
  <2>4. LineAt(r, k) = LinesAt(r) + Len(pre(m)) /\ LineAt(r, k + 1) = LinesAt(r) + Len(pre(k))
    <3>1. (k + 1) - 1 = k
      BY <2>1
    <3>2. QED
      BY <1>7, <3>1
  <2>5. pre(k) = pre(m) \o e /\ pre(m) \in Seq(Letters)
    BY <1>10, <2>1
  <2>6. Holds(s, LinesAt(r), pre(k))
    BY <1>19, <2>1
  <2> HIDE DEF e, m
  <2>7. /\ Len(pre(k)) = Len(pre(m)) + Len(e) /\ Len(pre(m)) \in Nat
        /\ Holds(s, LinesAt(r) + Len(pre(m)), e)
    <3>1. pre(m) \in Seq(Letters) /\ e \in Seq(Letters) /\ Holds(s, LinesAt(r), pre(m) \o e)
      BY <2>3, <2>5, <2>6
    <3>2. Len(pre(m) \o e) = Len(pre(m)) + Len(e) /\ Len(pre(m)) \in Nat
      BY <3>1, HoldsConcat
    <3>3. Holds(s, LinesAt(r) + Len(pre(m)), e)
      BY <1>5, <3>1, HoldsConcat
    <3>4. QED
      BY <2>5, <3>2, <3>3
  <2>8. LineAt(r, k) \in Nat /\ LineHolds(s, LineAt(r, k), l)
    BY <1>5, <2>3, <2>4, <2>7
  <2>9. EolAt(r, k) = LineAt(r, k) + InFront(l) + Len(l.value)
    BY DEF EolAt, ValueAt
  <2>10. LineAt(r, k + 1) = EolAt(r, k) + Len(l.eol)
    <3>1. /\ Len(e) = InFront(l) + Len(l.value) + Len(l.eol) /\ InFront(l) \in Nat
          /\ Len(l.value) \in Nat /\ Len(l.eol) \in Nat /\ LinesAt(r) \in Nat
      BY <1>5, <2>3
    <3>2. Len(pre(k)) = Len(pre(m)) + Len(e) /\ Len(pre(m)) \in Nat
      BY <2>7
    <3> DEFINE x == Len(pre(m))
               y == InFront(l)
               z == Len(l.value)
               t == Len(l.eol)
               u == LinesAt(r)
    <3>3. /\ x \in Nat /\ y \in Nat /\ z \in Nat /\ t \in Nat /\ u \in Nat
          /\ LineAt(r, k + 1) = u + (x + (y + z + t)) /\ EolAt(r, k) = (u + x) + y + z
      BY <2>4, <2>9, <3>1, <3>2
    <3> HIDE DEF x, y, z, t, u
    <3>4. LineAt(r, k + 1) = EolAt(r, k) + t
      BY <3>3
    <3>5. QED
      BY <3>4 DEF t
  <2>11. LineAt(r, k) <= LineAt(r, n + 1)
    <3> DEFINE u == Len(pre(m))
               w == Len(all)
               v == LinesAt(r)
    <3>1. LineAt(r, k) = v + u /\ LineAt(r, n + 1) = v + w
      <4>1. (n + 1) - 1 = n
        BY <1>1
      <4>2. QED
        BY <1>7, <1>9, <2>4, <4>1
    <3>2. v \in Nat /\ u \in Nat /\ w \in Nat /\ u <= w
      <4>1. m \in 0..n
        BY <2>1
      <4>2. QED
        BY <1>5, <1>11, <1>19, <2>7, <4>1
    <3> HIDE DEF u, v, w
    <3>3. v + u <= v + w
      BY <3>2
    <3>4. QED
      BY <3>1, <3>3
  <2>12. QED
    BY <2>2, <2>3, <2>8, <2>10, <2>11
<1>21. Holds(s, LineAt(r, n + 1), r.last) /\ Len(r.head) = LineAt(r, n + 1) + Len(r.last)
  <2>1. Len(r.head) = Len(c) + Len(r.last) /\ LineAt(r, n + 1) = Len(c) /\ Len(c) \in Nat
    BY <1>12, <1>18
  <2>2. 0 + Len(c) = Len(c)
    BY <2>1
  <2>3. QED
    BY <1>15, <2>1, <2>2
<1>22. RequestLineHolds(s, r) /\ Len(r.head) <= Len(s)
  <2>1. Len(r.body) \in Nat
    BY <1>2, LenProperties
  <2>2. Len(s) = Len(r.head) + Len(r.body) /\ Len(r.head) \in Nat
    BY <1>12, <1>13
  <2>3. Len(r.head) <= Len(s)
    <3> DEFINE x == Len(r.head)
               y == Len(r.body)
               z == Len(s)
    <3>1. x \in Nat /\ y \in Nat /\ z = x + y
      BY <2>1, <2>2
    <3> HIDE DEF x, y, z
    <3>2. x <= z
      BY <3>1
    <3>3. QED
      BY <3>2 DEF x, z
  <2>4. QED
    BY <1>5, <1>16, <2>3
<1>23. /\ Len(r.lead) \in Nat /\ Len(r.method) \in Nat /\ Len(r.path) \in Nat
       /\ PathAt(r) \in Nat /\ VersionAt(r) \in Nat
  BY RequestLineSpelled
<1>24. QED
  BY <1>1, <1>5, <1>12, <1>13, <1>17, <1>18, <1>20, <1>21, <1>22, <1>23 DEF Layout

-----------------------------------------------------------------------------
(***************************************************************************)
(* What the operators that look at the buffer find, where it holds a part  *)
(* of the request.                                                         *)
(***************************************************************************)
\* The buffer is a piece of the request.
IsPiece ==
  /\ first + Size <= Len(Stream(req))
  /\ \A n \in 1..Size : data[n] = Stream(req)[first + n]

\* The request has t behind the first at letters of the buffer.
Ahead(n, t) == Holds(Stream(req), first + n, t)

\* As much of it as there is is in the buffer.
LEMMA InBuffer ==
  ASSUME TypeInv, IsPiece, NEW n \in Nat, NEW t, Len(t) \in Nat, Ahead(n, t)
  PROVE  \A j \in 1..Len(t) : n + j <= Size => data[n + j] = t[j]
<1> SUFFICES ASSUME NEW j \in 1..Len(t), n + j <= Size PROVE data[n + j] = t[j]
  OBVIOUS
<1> DEFINE s == Stream(req)
<1>1. first \in Nat /\ Size \in Nat /\ j \in Nat
  BY Typed DEF TypeInv
<1>2. n + j \in 1..Size /\ first + (n + j) = (first + n) + j
  BY <1>1
<1>3. data[n + j] = s[first + (n + j)]
  BY <1>2 DEF IsPiece
<1>4. s[(first + n) + j] = t[j]
  BY DEF Ahead, Holds
<1>5. QED
  BY <1>2, <1>3, <1>4

\* Scan goes over letters that are not of T to one that is, or to the end.
LEMMA ScanTo ==
  ASSUME TypeInv, IsPiece, NEW n \in 0..Size, NEW T,
         NEW t \in Seq(Letters), Ahead(n, t), ToSet(t) \cap T = {},
         NEW u, Len(u) \in Nat \ {0}, Ahead(n + Len(t), u), u[1] \in T
  PROVE  /\ Len(t) \in Nat
         /\ Scan(n, T) = IF n + Len(t) < Size THEN n + Len(t) ELSE Size
         /\ n + Len(t) < Size => Letter(n + Len(t)) = u[1]
<1> DEFINE l == Len(t)
           k == Scan(n, T)
<1>1. data \in Seq(Letters) /\ Size \in Nat /\ n \in Nat /\ l \in Nat /\ DOMAIN t = 1..l
  BY Typed, LenProperties
<1>2. \A j \in 1..l : n + j <= Size => data[n + j] = t[j]
  BY <1>1, InBuffer
<1>3. \A j \in 1..l : t[j] \notin T
  BY <1>1 DEF ToSet
<1>4. n + l < Size => data[n + l + 1] = u[1]
  <2>1. n + l \in Nat /\ 1 \in 1..Len(u) /\ Len(u) \in Nat
    BY <1>1
  <2>2. \A j \in 1..Len(u) : (n + l) + j <= Size => data[(n + l) + j] = u[j]
    BY <2>1, InBuffer
  <2>3. n + l < Size => (n + l) + 1 <= Size
    BY <1>1
  <2>4. QED
    BY <2>1, <2>2, <2>3
<1>5. /\ k \in n..Size
      /\ k < Size => Letter(k) \in T
      /\ \A j \in n..k - 1 : data[j + 1] \notin T
  BY <1>1, ScanFinds
<1> HIDE DEF k, l
<1>6. k < Size => ~(k < n + l)
  <2>1. SUFFICES ASSUME k < Size, k < n + l PROVE FALSE
    OBVIOUS
  <2>2. (k - n) + 1 \in 1..l /\ n + ((k - n) + 1) = k + 1 /\ k + 1 <= Size
    BY <1>1, <1>5, <2>1
  <2>3. data[k + 1] = t[(k - n) + 1]
    BY <1>2, <2>2
  <2>4. Letter(k) = data[k + 1]
    BY <2>1 DEF Letter
  <2>5. QED
    BY <1>3, <1>5, <2>1, <2>2, <2>3, <2>4
<1>7. n + l < Size => ~(k > n + l)
  <2>1. SUFFICES ASSUME n + l < Size, k > n + l PROVE FALSE
    OBVIOUS
  <2>2. n + l \in n..k - 1
    BY <1>1, <1>5, <2>1
  <2>3. QED
    BY <1>4, <1>5, <2>1, <2>2
<1>8. k = IF n + l < Size THEN n + l ELSE Size
  BY <1>1, <1>5, <1>6, <1>7
<1>9. n + l < Size => Letter(n + l) = u[1]
  BY <1>4 DEF Letter
<1>10. QED
  BY <1>1, <1>8, <1>9 DEF k, l

\* A line end is found, or is cut.
LEMMA EolTo ==
  ASSUME TypeInv, IsPiece, NEW n \in 0..Size, n < Size, NEW e \in Eols, Ahead(n, e)
  PROVE  /\ Len(e) \in {1, 2} /\ Letter(n) \in {"CR", "LF"}
         /\ Eol(n) = IF n + Len(e) <= Size THEN n + Len(e) ELSE -2
<1>1. Size \in Nat /\ n \in Nat /\ n + 1 \in Nat
  BY Typed
<1>2. CASE e = <<"LF">>
  <2>1. Len(e) = 1 /\ e[1] = "LF"
    BY <1>2
  <2>2. data[n + 1] = "LF"
    BY <1>1, <2>1, InBuffer
  <2>3. Letter(n) = "LF"
    BY <2>2 DEF Letter
  <2>4. QED
    BY <1>1, <2>1, <2>3 DEF Eol
<1>3. CASE e = <<"CR", "LF">>
  <2>1. Len(e) = 2 /\ Len(e) \in Nat /\ e[1] = "CR" /\ e[2] = "LF"
    BY <1>3
  <2>2. \A j \in 1..Len(e) : n + j <= Size => data[n + j] = e[j]
    BY <1>1, <2>1, InBuffer
  <2>3. data[n + 1] = "CR" /\ (n + 2 <= Size => data[n + 2] = "LF")
    BY <1>1, <2>1, <2>2
  <2>4. /\ Letter(n) = "CR" /\ n + 2 = (n + 1) + 1
        /\ n + 2 <= Size => Letter(n + 1) = "LF"
    BY <1>1, <2>3 DEF Letter
  <2>5. CASE n + 1 = Size
    <3>a. Letter(n + 1) = "beyond"
      BY <1>1, <2>5 DEF Letter
    <3>1. Eol(n) = -2
      BY <2>4, <2>5, <3>a DEF Eol
    <3>2. ~(n + 2 <= Size)
      BY <1>1, <2>5
    <3>3. QED
      BY <2>1, <2>4, <3>1, <3>2
  <2>6. CASE n + 1 # Size
    <3>1. Eol(n) = n + 2 /\ n + 2 <= Size
      BY <1>1, <2>4, <2>6 DEF Eol
    <3>2. QED
      BY <2>1, <2>4, <3>1
  <2>7. QED
    BY <2>5, <2>6
<1>4. QED
  BY <1>2, <1>3 DEF Eols

\* A part of the request that is in the buffer is a piece of it.
LEMMA Cut ==
  ASSUME TypeInv, IsPiece, NEW n \in 0..Size, NEW t \in Seq(Letters), Ahead(n, t),
         n + Len(t) <= Size
  PROVE  SubSeq(data, n + 1, n + Len(t)) = t
<1> DEFINE l == Len(t)
           c == SubSeq(data, n + 1, n + l)
<1>1. data \in Seq(Letters) /\ Size \in Nat /\ l \in Nat
  BY Typed, LenProperties
<1>2. \A j \in 1..l : n + j <= Size => data[n + j] = t[j]
  BY <1>1, InBuffer
<1>3. n + l \in Int /\ n + l <= Size /\ n \in Nat
  BY <1>1
<1>4. c \in Seq(Letters)
  <2> HIDE DEF l
  <2>1. QED
    BY <1>1, <1>3, PieceTyped
<1>5. Len(c) = l /\ \A j \in 1..l : c[j] = data[n + j]
  <2>1. ASSUME NEW k \in n + 1..n + l PROVE data[k] \in Letters
    <3>1. k \in 1..Len(data)
      BY <1>1, <1>3 DEF Size
    <3>2. QED
      BY <1>1, <3>1, ElementOfSeq
  <2> DEFINE m == n + 1
             x == n + l
  <2>2. m \in Int /\ x \in Int /\ x - m + 1 = l /\ \A j \in 1..l : m + j - 1 = n + j
    BY <1>1
  <2> HIDE DEF m, x
  <2>3. IF m <= x
        THEN Len(SubSeq(data, m, x)) = x - m + 1
             /\ \A j \in 1..x - m + 1 : SubSeq(data, m, x)[j] = data[m + j - 1]
        ELSE Len(SubSeq(data, m, x)) = 0
    BY <2>1, <2>2, SubSeqProperties DEF m, x
  <2>4. QED
    BY <1>1, <2>2, <2>3 DEF m, x
<1> HIDE DEF c, l
<1>6. \A j \in 1..l : c[j] = t[j]
  BY <1>1, <1>2, <1>3, <1>5
<1>7. c = t
  <2>1. Len(c) = Len(t) /\ \A j \in 1..Len(c) : c[j] = t[j]
    BY <1>5, <1>6 DEF l
  <2>2. QED
    BY <1>4, <2>1, SeqEqual
<1>8. QED
  BY <1>7 DEF c, l

\* A letter has a byte at least.
LEMMA Wide == \A l : Width(l) \in Nat /\ Width(l) >= 1
<1>1. ASSUME NEW w \in DOMAIN Words PROVE Words[w] \in 1..33
  <2>1. Words[w] \in {6, 7, 10, 12, 16, 30, 33}
    BY DEF Words
  <2>2. QED
    BY <2>1
<1>2. QED
  BY <1>1 DEF Width

\* The first letters are never more bytes than more of them.
LEMMA BytesGrow ==
  ASSUME data \in Seq(Letters), NEW m \in 0..Size
  PROVE  \A n \in m..Size : BytesTo[n] >= BytesTo[m] + (n - m)
<1> DEFINE T == {d \in Nat : m + d <= Size => BytesTo[m + d] >= BytesTo[m] + d}
<1>1. /\ Size \in Nat /\ BytesTo \in [0..Size -> Nat]
      /\ \A k \in 1..Size : BytesTo[k] = BytesTo[k - 1] + Width(data[k])
  BY BytesCounted
<1>2. 0 \in T
  BY <1>1
<1>3. ASSUME NEW d \in Nat, d \in T PROVE d + 1 \in T
  <2>1. SUFFICES ASSUME m + (d + 1) <= Size PROVE BytesTo[m + (d + 1)] >= BytesTo[m] + (d + 1)
    OBVIOUS
  <2> DEFINE k == m + (d + 1)
  <2>2. k \in 1..Size /\ k - 1 = m + d /\ k - 1 \in 0..Size
    BY <1>1, <2>1
  <2>3. BytesTo[k] = BytesTo[k - 1] + Width(data[k])
    BY <1>1, <2>2
  <2>4. Width(data[k]) \in Nat /\ Width(data[k]) >= 1
    BY Wide
  <2>5. BytesTo[m + d] >= BytesTo[m] + d /\ BytesTo[m + d] \in Nat /\ BytesTo[m] \in Nat
    BY <1>1, <1>3, <2>1, <2>2
  <2>6. QED
    BY <2>2, <2>3, <2>4, <2>5
<1> HIDE DEF T
<1>4. Nat \subseteq T
  BY <1>2, <1>3, SetInduction
<1>5. ASSUME NEW n \in m..Size PROVE BytesTo[n] >= BytesTo[m] + (n - m)
  <2>1. n - m \in Nat /\ m + (n - m) = n
    BY <1>1
  <2>2. n - m \in T
    BY <1>4, <2>1
  <2>3. QED
    BY <1>1, <2>1, <2>2 DEF T
<1>6. QED
  BY <1>5

\* There are nine bytes from the name of the protocol on, if a letter follows
\* the version, and fewer if the version is cut.
LEMMA BytesOfVersion ==
  ASSUME TypeInv, IsPiece, NEW n \in 0..Size, Ahead(n, <<"HTTP/1.", "1">>)
  PROVE  /\ Bytes(n) \in Int
         /\ n + 2 < Size => Bytes(n) >= 9
         /\ n + 1 >= Size => Bytes(n) < 9
         /\ n < Size => Letter(n) = "HTTP/1."
         /\ n + 1 < Size => Letter(n + 1) = "1"
<1> DEFINE t == <<"HTTP/1.", "1">>
<1>1. data \in Seq(Letters) /\ Size \in Nat /\ n \in Nat /\ Len(t) = 2 /\ t[1] = "HTTP/1." /\ t[2] = "1"
  BY Typed
<1>2. \A j \in 1..Len(t) : n + j <= Size => data[n + j] = t[j]
  BY <1>1, InBuffer
<1> HIDE DEF t
<1>3. (n + 1 <= Size => data[n + 1] = "HTTP/1.") /\ (n + 2 <= Size => data[n + 2] = "1")
  BY <1>1, <1>2
<1>4. /\ BytesTo \in [0..Size -> Nat]
      /\ \A k \in 1..Size : BytesTo[k] = BytesTo[k - 1] + Width(data[k])
  BY <1>1, BytesCounted
<1>5. Width("HTTP/1.") = 7 /\ Width("1") = 1
  BY DEF Width, Words
<1>6. Bytes(n) \in Int /\ Bytes(n) = BytesTo[Size] - BytesTo[n] /\ BytesTo[n] \in Nat /\ BytesTo[Size] \in Nat
  BY <1>1, <1>4 DEF Bytes
<1>7. n + 1 <= Size => BytesTo[n + 1] = BytesTo[n] + 7
  <2>1. SUFFICES ASSUME n + 1 <= Size PROVE BytesTo[n + 1] = BytesTo[n] + 7
    OBVIOUS
  <2>2. n + 1 \in 1..Size /\ (n + 1) - 1 = n
    BY <1>1, <2>1
  <2>3. QED
    BY <1>3, <1>4, <1>5, <2>1, <2>2
<1>8. n + 2 < Size => Bytes(n) >= 9
  <2>1. SUFFICES ASSUME n + 2 < Size PROVE Bytes(n) >= 9
    OBVIOUS
  <2>2. n + 1 \in 0..Size /\ Size \in n + 1..Size /\ Size - (n + 1) >= 2
    BY <1>1, <2>1
  <2>3. BytesTo[Size] >= BytesTo[n + 1] + (Size - (n + 1))
    BY <1>1, <2>2, BytesGrow
  <2>4. QED
    BY <1>1, <1>6, <1>7, <2>1, <2>2, <2>3
<1>9. n + 1 >= Size => Bytes(n) < 9
  <2>1. CASE n = Size
    BY <1>6, <2>1
  <2>2. CASE n + 1 = Size
    BY <1>6, <1>7, <2>2
  <2>3. QED
    BY <1>1, <2>1, <2>2
<1>10. QED
  BY <1>1, <1>3, <1>6, <1>8, <1>9 DEF Letter

-----------------------------------------------------------------------------
(***************************************************************************)
(* What the parser has found so far is what was meant.                     *)
(***************************************************************************)
\* In front of the headers: only the beginning of a request is where it should be.
BeforeHeaders ==
  /\ headers = <<>>
  /\ first = 0 =>
       /\ step = "empty" => at = 0
       /\ step = "method" => at = Len(req.lead)
       /\ step = "path" => at = PathAt(req)
       /\ step = "version" => at = VersionAt(req)
       /\ path = IF step = "version" THEN req.path ELSE NoPath

\* The first k headers have been found.
FirstHeaders(k) ==
  /\ headers = SubSeq(Headers(req), 1, k)
  /\ first <= VersionAt(req)
  /\ first = 0 => path = req.path

InHeaders ==
  \E k \in 0..Len(req.lines) : FirstHeaders(k) /\ first + at = LineAt(req, k + 1)

InValue ==
  \E k \in 0..Len(req.lines) - 1 :
    /\ FirstHeaders(k) /\ first + at = ValueAt(req, k + 1)
    /\ name = req.lines[k + 1].name

\* The parser has returned.
AtEnd ==
  /\ \E k \in 0..Len(req.lines) : headers = SubSeq(Headers(req), 1, k)
  /\ headers # <<>> => first <= VersionAt(req)
  /\ first = 0 =>
       /\ path \in {NoPath, req.path}
       /\ Len(req.lines) <= MaxHeaders =>
            IF Size < Len(req.head) THEN ret = -2
            ELSE ret = Len(req.head) /\ path = req.path /\ headers = Headers(req)

Meant ==
  /\ step \in {"empty", "method", "path", "version"} => BeforeHeaders
  /\ step = "headers" => InHeaders
  /\ step = "value" => InValue
  /\ Parsed => AtEnd

PostMeant ==
  step = "done" /\ ~expectContinue =>
    posted = IF dataType = "none" \/ ret >= Size THEN Nothing
             ELSE [from |-> ret, kind |-> dataType,
                   boundary |-> IF dataType = "multipart" THEN boundary ELSE <<>>]

\* The requests of which this can be said.
Followed == req.sound /\ (first = 0 \/ NamedOnce(req))

MeantInv == IsPiece /\ (Followed => Meant) /\ PostMeant

\* A sound request is laid out.
LEMMA SoundRequest ==
  ASSUME TypeInv, req.sound
  PROVE  Layout(req) /\ IsSound(req) /\ RequestShape(req)
<1>1. RequestShape(req) /\ IsSound(req)
  BY RequestsAssumption DEF TypeInv
<1>2. QED
  BY <1>1, LaidOut

\* Its parts follow each other.
LEMMA Order ==
  ASSUME NEW r, Layout(r), IsSound(r)
  PROVE  /\ Len(r.lead) \in Nat /\ Len(r.method) \in Nat /\ Len(r.path) \in Nat
         /\ Len(r.lines) \in Nat /\ Len(r.head) \in Nat
         /\ Len(r.lead) + Len(r.method) \in Nat
         /\ Len(r.eol) \in {1, 2} /\ Len(r.last) \in {1, 2}
         /\ PathAt(r) = Len(r.lead) + Len(r.method) + 1 /\ PathAt(r) \in Nat
         /\ VersionAt(r) = PathAt(r) + Len(r.path) + 1 /\ VersionAt(r) \in Nat
         /\ LinesAt(r) = VersionAt(r) + 2 + Len(r.eol) /\ LinesAt(r) \in Nat
         /\ LinesAt(r) < Len(r.head) /\ VersionAt(r) + 3 < Len(r.head)
<1>1. Len(r.eol) \in {1, 2} /\ Len(r.last) \in {1, 2}
  <2>1. \A e \in Eols : Len(e) \in {1, 2}
    BY DEF Eols
  <2>2. QED
    BY <2>1 DEF IsSound
<1>2. /\ Len(r.lead) \in Nat /\ Len(r.method) \in Nat /\ Len(r.path) \in Nat
      /\ Len(r.lines) \in Nat /\ Len(r.head) \in Nat
      /\ PathAt(r) \in Nat /\ VersionAt(r) \in Nat /\ LinesAt(r) \in Nat
  BY DEF Layout
<1>3. /\ PathAt(r) = Len(r.lead) + Len(r.method) + 1 /\ VersionAt(r) = PathAt(r) + Len(r.path) + 1
      /\ LinesAt(r) = VersionAt(r) + 2 + Len(r.eol)
  BY DEF PathAt, VersionAt, LinesAt
<1> DEFINE x == LineAt(r, Len(r.lines) + 1)
           y == Len(r.last)
           z == Len(r.head)
           u == Len(r.eol)
           p == Len(r.lead)
           q == Len(r.method)
<1>4. x \in Nat /\ x >= LinesAt(r) /\ z = x + y
  BY DEF Layout
<1>5. p \in Nat /\ q \in Nat /\ z \in Nat /\ u \in {1, 2} /\ y \in {1, 2} /\ LinesAt(r) = VersionAt(r) + 2 + u
  BY <1>1, <1>2, <1>3
<1> HIDE DEF x, y, z, u, p, q
<1>6. p + q \in Nat /\ LinesAt(r) < z /\ VersionAt(r) + 3 < z
  BY <1>2, <1>4, <1>5
<1>7. QED
  BY <1>1, <1>2, <1>3, <1>6 DEF p, q, z

\* So do the parts of its lines.
LEMMA LinesOrder ==
  ASSUME NEW r, Layout(r), IsSound(r)
  PROVE  /\ \A k \in 0..Len(r.lines) : LineAt(r, k + 1) \in Nat /\ LineAt(r, k + 1) < Len(r.head)
         /\ LineAt(r, Len(r.lines) + 1) + Len(r.last) = Len(r.head)
         /\ \A k \in 0..Len(r.lines) - 1 :
              /\ ValueAt(r, k + 1) = LineAt(r, k + 1) + InFront(r.lines[k + 1])
              /\ EolAt(r, k + 1) = ValueAt(r, k + 1) + Len(r.lines[k + 1].value)
              /\ LineAt(r, (k + 1) + 1) = EolAt(r, k + 1) + Len(r.lines[k + 1].eol)
              /\ ValueAt(r, k + 1) \in Nat /\ EolAt(r, k + 1) \in Nat
              /\ ValueAt(r, k + 1) < Len(r.head) /\ EolAt(r, k + 1) < Len(r.head)
              /\ LineAt(r, (k + 1) + 1) < Len(r.head)
<1> DEFINE n == Len(r.lines)
           h == Len(r.head)
           y == Len(r.last)
<1>1. n \in Nat /\ h \in Nat /\ y \in {1, 2}
  BY Order
<1>2. LineAt(r, n + 1) \in Nat /\ h = LineAt(r, n + 1) + y
  BY DEF Layout
<1>3. \A k \in 1..n : LineAt(r, k) \in Nat /\ LineAt(r, k) <= LineAt(r, n + 1)
  BY DEF Layout
<1> HIDE DEF n, h, y
<1>4. ASSUME NEW k \in 0..n
      PROVE  LineAt(r, k + 1) \in Nat /\ LineAt(r, k + 1) < h
  <2>1. k = n \/ k + 1 \in 1..n
    BY <1>1
  <2>2. QED
    BY <1>1, <1>2, <1>3, <2>1
<1>5. ASSUME NEW k \in 0..n - 1
      PROVE  /\ ValueAt(r, k + 1) = LineAt(r, k + 1) + InFront(r.lines[k + 1])
             /\ EolAt(r, k + 1) = ValueAt(r, k + 1) + Len(r.lines[k + 1].value)
             /\ LineAt(r, (k + 1) + 1) = EolAt(r, k + 1) + Len(r.lines[k + 1].eol)
             /\ ValueAt(r, k + 1) \in Nat /\ EolAt(r, k + 1) \in Nat
             /\ ValueAt(r, k + 1) < h /\ EolAt(r, k + 1) < h
             /\ LineAt(r, (k + 1) + 1) < h
  <2> DEFINE j == k + 1
             l == r.lines[j]
             f == InFront(l)
             v == Len(l.value)
             e == Len(l.eol)
             next == LineAt(r, j + 1)
  <2>1. j \in 1..n /\ j \in 0..n /\ k \in 0..n
    BY <1>1
  <2> HIDE DEF j
  <2>2. l \in LineShape /\ IsLine(l) /\ f \in Nat /\ next = EolAt(r, j) + e
    BY <2>1 DEF Layout, n
  <2>3. v \in Nat /\ e \in Nat
    BY <2>2, LenProperties DEF LineShape
  <2>4. ValueAt(r, j) = LineAt(r, j) + f /\ EolAt(r, j) = ValueAt(r, j) + v
    BY DEF ValueAt, EolAt
  <2>5. LineAt(r, j) \in Nat /\ next < h /\ next \in Nat
    <3>1. LineAt(r, j) \in Nat
      BY <1>3, <2>1
    <3>2. QED
      BY <1>4, <2>1, <3>1
  <2> HIDE DEF l, f, v, e, next
  <2>6. /\ ValueAt(r, j) \in Nat /\ EolAt(r, j) \in Nat
        /\ ValueAt(r, j) < h /\ EolAt(r, j) < h
    BY <1>1, <2>2, <2>3, <2>4, <2>5
  <2>7. QED
    BY <2>2, <2>4, <2>5, <2>6 DEF j, l, f, v, e, next
<1>6. QED
  BY <1>2, <1>4, <1>5 DEF n, h, y

\* A line of the request that the parser is at is ahead of it.
LEMMA LineAhead ==
  ASSUME TypeInv, Layout(req), NEW k \in 0..Len(req.lines) - 1, first + at = LineAt(req, k + 1)
  PROVE  LET l == req.lines[k + 1] IN
         /\ l \in LineShape /\ IsLine(l) /\ InFront(l) \in Nat
         /\ Len(l.name) \in Nat /\ Len(l.blanks) \in Nat /\ Len(l.value) \in Nat /\ Len(l.eol) \in Nat
         /\ l.name # <<>> =>
              /\ Ahead(at, l.name) /\ Ahead(at + Len(l.name), <<":">>)
              /\ Ahead(at + Len(l.name) + 1, l.blanks)
              /\ InFront(l) = Len(l.name) + 1 + Len(l.blanks)
         /\ l.name = <<>> => InFront(l) = 0
         /\ Ahead(at + InFront(l), l.value) /\ Ahead(at + InFront(l) + Len(l.value), l.eol)
<1> DEFINE j == k + 1
           l == req.lines[j]
           s == Stream(req)
           x == LineAt(req, j)
<1>1. first \in Nat /\ at \in Nat
  BY Typed DEF TypeInv
<1>2. j \in 1..Len(req.lines)
  BY DEF Layout
<1> HIDE DEF j
<1>3. l \in LineShape /\ IsLine(l) /\ InFront(l) \in Nat /\ LineHolds(s, x, l)
  BY <1>2 DEF Layout
<1>4. Len(l.name) \in Nat /\ Len(l.blanks) \in Nat /\ Len(l.value) \in Nat /\ Len(l.eol) \in Nat
  BY <1>3, LenProperties DEF LineShape
<1>5. x = first + at
  BY DEF j
<1>6. /\ l.name # <<>> =>
           /\ Holds(s, x, l.name) /\ Holds(s, x + Len(l.name), <<":">>)
           /\ Holds(s, x + Len(l.name) + 1, l.blanks)
           /\ InFront(l) = Len(l.name) + 1 + Len(l.blanks)
      /\ l.name = <<>> => InFront(l) = 0
      /\ Holds(s, x + InFront(l), l.value) /\ Holds(s, (x + InFront(l)) + Len(l.value), l.eol)
  BY <1>3 DEF LineHolds, InFront
<1> HIDE DEF x, l, s
<1> DEFINE nm == Len(l.name)
           vl == Len(l.value)
           f == InFront(l)
<1>7. nm \in Nat /\ vl \in Nat /\ f \in Nat
  BY <1>3, <1>4
<1> HIDE DEF nm, vl, f
<1>8. /\ x + nm = first + (at + nm) /\ x + nm + 1 = first + (at + nm + 1)
      /\ x + f = first + (at + f) /\ (x + f) + vl = first + (at + f + vl)
  BY <1>1, <1>5, <1>7
<1>9. /\ l.name # <<>> =>
           /\ Holds(s, first + at, l.name) /\ Holds(s, first + (at + nm), <<":">>)
           /\ Holds(s, first + (at + nm + 1), l.blanks)
      /\ Holds(s, first + (at + f), l.value) /\ Holds(s, first + (at + f + vl), l.eol)
  BY <1>5, <1>6, <1>8 DEF nm, vl, f
<1>10. QED
  BY <1>3, <1>4, <1>6, <1>9 DEF Ahead, j, l, s, nm, vl, f

\* The first letter of a line tells whether it is a header, goes on with the one
\* before it, or is the end of the head.
LEMMA AtLine ==
  ASSUME TypeInv, IsPiece, Layout(req), IsSound(req),
         NEW k \in 0..Len(req.lines), first + at = LineAt(req, k + 1), at < Size
  PROVE  /\ k = Len(req.lines) => Letter(at) \in {"CR", "LF"} /\ Ahead(at, req.last) /\ req.last \in Eols
         /\ k # Len(req.lines) =>
              /\ req.lines[k + 1].name # <<>> => Letter(at) \in TokenLetters
              /\ req.lines[k + 1].name = <<>> => Letter(at) \in Blank
<1>1. Size \in Nat /\ at \in Nat /\ at \in 0..Size /\ Len(req.lines) \in Nat
  BY Typed DEF Layout
<1>2. ASSUME k = Len(req.lines)
      PROVE  Letter(at) \in {"CR", "LF"} /\ Ahead(at, req.last) /\ req.last \in Eols
  <2>1. Ahead(at, req.last) /\ req.last \in Eols
    BY <1>2 DEF Ahead, Layout, IsSound
  <2>2. QED
    BY <1>1, <2>1, EolTo
<1>3. ASSUME NEW t \in Seq(Letters), t # <<>>, Ahead(at, t)
      PROVE  Letter(at) = t[1] /\ t[1] \in ToSet(t) /\ t[1] = Head(t)
  <2>1. Len(t) \in Nat /\ Len(t) # 0 /\ DOMAIN t = 1..Len(t) /\ 1 \in 1..Len(t)
    BY <1>3, LenProperties, EmptySeq
  <2>2. \A j \in 1..Len(t) : at + j <= Size => data[at + j] = t[j]
    BY <1>1, <1>3, <2>1, InBuffer
  <2>3. data[at + 1] = t[1]
    BY <1>1, <2>1, <2>2
  <2>4. QED
    BY <2>1, <2>3 DEF Letter, ToSet
<1>4. ASSUME k # Len(req.lines)
      PROVE  /\ req.lines[k + 1].name # <<>> => Letter(at) \in TokenLetters
             /\ req.lines[k + 1].name = <<>> => Letter(at) \in Blank
  <2> DEFINE l == req.lines[k + 1]
  <2>1. k \in 0..Len(req.lines) - 1
    BY <1>1, <1>4
  <2>2. /\ l \in LineShape /\ IsLine(l)
        /\ l.name # <<>> => Ahead(at, l.name)
        /\ l.name = <<>> => InFront(l) = 0
        /\ Ahead(at + InFront(l), l.value)
    BY <2>1, LineAhead
  <2> HIDE DEF l
  <2>3. l.name \in Seq(Letters) /\ l.value \in Seq(Letters)
    BY <2>2 DEF LineShape
  <2>4. ASSUME l.name # <<>> PROVE Letter(at) \in TokenLetters
    <3>1. Letter(at) \in ToSet(l.name)
      BY <1>3, <2>2, <2>3, <2>4
    <3>2. ToSet(l.name) \subseteq TokenLetters
      BY <2>2, <2>4 DEF IsLine
    <3>3. QED
      BY <3>1, <3>2
  <2>5. ASSUME l.name = <<>> PROVE Letter(at) \in Blank
    <3>1. l.value # <<>> /\ Head(l.value) \in Blank
      BY <2>2, <2>5 DEF IsLine
    <3>2. at + InFront(l) = at
      BY <1>1, <2>2, <2>5
    <3>3. Letter(at) = Head(l.value)
      BY <1>3, <2>2, <2>3, <3>1, <3>2
    <3>4. QED
      BY <3>1, <3>3
  <2>6. QED
    BY <2>4, <2>5 DEF l
<1>5. QED
  BY <1>2, <1>4

\* No step changes the input.
LEMMA SameInput ==
  ASSUME UNCHANGED input
  PROVE  req' = req /\ first' = first /\ data' = data /\ Size' = Size
  BY DEF input, Size

\* The headers that were meant.
LEMMA HeadersTyped ==
  ASSUME NEW r, RequestShape(r)
  PROVE  /\ Headers(r) \in Seq(HeaderShape) /\ Len(Headers(r)) = Len(r.lines)
         /\ Len(r.lines) \in Nat /\ DOMAIN r.lines = 1..Len(r.lines)
         /\ \A k \in 1..Len(r.lines) :
              Headers(r)[k] = [name |-> r.lines[k].name, value |-> r.lines[k].value]
         /\ SubSeq(Headers(r), 1, 0) = <<>>
<1>1. /\ r.lines \in Seq(LineShape) /\ Len(r.lines) \in Nat /\ DOMAIN r.lines = 1..Len(r.lines)
      /\ \A k \in 1..Len(r.lines) : r.lines[k] \in LineShape
  <2>1. r.lines \in Seq(LineShape)
    BY DEF RequestShape
  <2>2. QED
    BY <2>1, LenProperties, ElementOfSeq
<1>2. \A k \in 1..Len(r.lines) :
        [name |-> r.lines[k].name, value |-> r.lines[k].value] \in HeaderShape
  BY <1>1 DEF LineShape, HeaderShape
<1>3. Headers(r) = [k \in 1..Len(r.lines) |-> [name |-> r.lines[k].name, value |-> r.lines[k].value]]
  BY <1>1 DEF Headers
<1>4. Headers(r) \in [1..Len(r.lines) -> HeaderShape]
  BY <1>2, <1>3
<1>5. Headers(r) \in Seq(HeaderShape) /\ DOMAIN Headers(r) = 1..Len(r.lines)
  BY <1>1, <1>4
<1>6. Len(Headers(r)) = Len(r.lines)
  BY <1>1, <1>5, LenProperties
<1>7. SubSeq(Headers(r), 1, 0) = <<>>
  BY SubSeqEmpty
<1>8. QED
  BY <1>1, <1>3, <1>5, <1>6, <1>7

\* The parser gives up with the headers it has, because the head is cut.
LEMMA GivesUp ==
  ASSUME TypeInv, Layout(req), UNCHANGED <<input, headers>>, step' = "parsed",
         NEW k \in 0..Len(req.lines), headers = SubSeq(Headers(req), 1, k),
         headers # <<>> => first <= VersionAt(req),
         first = 0 =>
           /\ path' \in {NoPath, req.path}
           /\ Len(req.lines) <= MaxHeaders => ret' = -2 /\ Size < Len(req.head)
  PROVE  Meant'
<1>1. req' = req /\ first' = first /\ data' = data /\ Size' = Size /\ headers' = headers
  BY SameInput
<1>2. AtEnd'
  BY <1>1 DEF AtEnd
<1>3. QED
  BY <1>2 DEF Meant

\* In front of the headers the parser gives up, or goes to the next part.
LEMMA StaysBefore ==
  ASSUME TypeInv, Layout(req), RequestShape(req), BeforeHeaders, UNCHANGED <<input, headers>>,
         NEW n \in Int, NEW next \in {"method", "path", "version"}, Reach(n, next),
         first = 0 =>
           \/ n = -2 /\ Size < Len(req.head) /\ path' \in {NoPath, req.path}
           \/ /\ n >= 0
              /\ n = CASE next = "method" -> Len(req.lead)
                       [] next = "path" -> PathAt(req)
                       [] next = "version" -> VersionAt(req)
              /\ path' = IF next = "version" THEN req.path ELSE NoPath
  PROVE  Meant'
<1>1. req' = req /\ first' = first /\ data' = data /\ Size' = Size /\ headers' = headers
  BY SameInput
<1>2. headers = <<>> /\ headers = SubSeq(Headers(req), 1, 0) /\ 0 \in 0..Len(req.lines)
  BY HeadersTyped DEF BeforeHeaders
<1>3. CASE n < 0
  <2>1. step' = "parsed" /\ ret' = n
    BY <1>3 DEF Reach
  <2>2. first = 0 => n = -2 /\ Size < Len(req.head) /\ path' \in {NoPath, req.path}
    BY <1>3
  <2>3. QED
    BY <1>2, <2>1, <2>2, GivesUp
<1>4. CASE n >= 0
  <2>1. step' = next /\ at' = n
    BY <1>4 DEF Reach
  <2>2. first = 0 =>
          /\ n = CASE next = "method" -> Len(req.lead)
                   [] next = "path" -> PathAt(req)
                   [] next = "version" -> VersionAt(req)
          /\ path' = IF next = "version" THEN req.path ELSE NoPath
    BY <1>4
  <2>3. BeforeHeaders'
    BY <1>1, <1>2, <2>1, <2>2 DEF BeforeHeaders
  <2>4. QED
    BY <2>1, <2>3 DEF Meant, Parsed
<1>5. QED
  BY <1>3, <1>4

\* Skipping an empty line ahead of the request line.
LEMMA EmptyLineMeant ==
  ASSUME TypeInv, IsPiece, Followed, Meant, EmptyLine
  PROVE  Meant'
<1>1. Layout(req) /\ IsSound(req) /\ RequestShape(req)
  BY SoundRequest DEF Followed
<1>2. BeforeHeaders /\ step = "empty" /\ UNCHANGED <<input, headers>> /\ path' = path
  BY DEF EmptyLine, Meant
<1>3. Size \in Nat /\ Size > 0 /\ 0 \in 0..Size /\ data \in Seq(Letters)
  BY Typed
<1>4. Eol(0) \in Int
  <2>1. Eol(0) \in {-1, -2} \cup 0 + 1..Size
    BY <1>3, EolTyped
  <2>2. QED
    BY <2>1
<1> DEFINE n == IF Letter(0) \in {"CR", "LF"} THEN Eol(0) ELSE 0
<1>5. Reach(n, "method") /\ n \in Int
  BY <1>3, <1>4 DEF EmptyLine
<1>6. ASSUME first = 0
      PROVE  \/ n = -2 /\ Size < Len(req.head) /\ path' \in {NoPath, req.path}
             \/ n >= 0 /\ n = Len(req.lead) /\ path' = NoPath
  <2>1. path' = NoPath
    BY <1>2, <1>6 DEF BeforeHeaders
  <2>2. /\ Holds(Stream(req), 0, req.lead) /\ Holds(Stream(req), Len(req.lead), req.method)
        /\ Holds(Stream(req), Len(req.lead) + Len(req.method), <<"SP">>)
    BY <1>1 DEF Layout, RequestLineHolds
  <2>3. CASE req.lead = <<>>
    <3>1. Len(req.lead) = 0
      BY <2>3
    <3>2. Letter(0) \notin {"CR", "LF"}
      <4>1. CASE req.method = <<>>
        <5>1. Len(req.method) = 0
          BY <4>1
        <5>2. Ahead(0, <<"SP">>)
          BY <1>6, <2>2, <3>1, <5>1 DEF Ahead
        <5> DEFINE t == <<"SP">>
        <5>3. Len(t) = 1 /\ t[1] = "SP" /\ Len(t) \in Nat
          OBVIOUS
        <5> HIDE DEF t
        <5>4. \A j \in 1..Len(t) : 0 + j <= Size => data[0 + j] = t[j]
          BY <5>2, <5>3, InBuffer DEF t
        <5>5. data[1] = "SP"
          BY <1>3, <5>3, <5>4
        <5>6. QED
          BY <1>3, <5>5 DEF Letter
      <4>2. CASE req.method # <<>>
        <5> DEFINE t == req.method
        <5>1. Ahead(0, t)
          BY <1>6, <2>2, <3>1 DEF Ahead
        <5>2. t \in Seq(Letters) /\ ToSet(t) \subseteq Visible
          BY <1>1 DEF RequestShape, IsSound
        <5> HIDE DEF t
        <5>3. Len(t) \in Nat /\ Len(t) # 0 /\ DOMAIN t = 1..Len(t)
          BY <4>2, <5>2, LenProperties, EmptySeq DEF t
        <5>4. \A j \in 1..Len(t) : 0 + j <= Size => data[0 + j] = t[j]
          BY <5>1, <5>3, InBuffer
        <5>5. 1 \in 1..Len(t) /\ data[1] = t[1]
          BY <1>3, <5>3, <5>4
        <5>6. t[1] \in Visible
          BY <5>2, <5>3, <5>5 DEF ToSet
        <5>7. QED
          BY <1>3, <5>5, <5>6 DEF Letter, Visible, Control
      <4>3. QED
        BY <4>1, <4>2
    <3>3. QED
      BY <2>1, <3>1, <3>2
  <2>4. CASE req.lead \in Eols
    <3>1. Ahead(0, req.lead)
      BY <1>6, <2>2 DEF Ahead
    <3>2. /\ Len(req.lead) \in {1, 2} /\ Letter(0) \in {"CR", "LF"}
          /\ Eol(0) = IF 0 + Len(req.lead) <= Size THEN 0 + Len(req.lead) ELSE -2
      BY <1>3, <2>4, <3>1, EolTo
    <3>3. Len(req.lead) < Len(req.head)
      <4> DEFINE x == Len(req.lead)
                 y == Len(req.method)
                 z == Len(req.path)
                 h == Len(req.head)
      <4>1. /\ x \in Nat /\ y \in Nat /\ z \in Nat /\ h \in Nat
            /\ PathAt(req) = x + y + 1 /\ VersionAt(req) = PathAt(req) + z + 1
            /\ VersionAt(req) + 3 < h
        BY <1>1, Order
      <4> HIDE DEF x, y, z, h
      <4>2. x < h
        BY <4>1
      <4>3. QED
        BY <4>2 DEF x, h
    <3> DEFINE x == Len(req.lead)
               h == Len(req.head)
    <3>4. h \in Nat
      BY <1>1, Order
    <3> HIDE DEF x, h
    <3>5. /\ x \in {1, 2} /\ n = IF 0 + x <= Size THEN 0 + x ELSE -2
          /\ x < h
      BY <3>2, <3>3 DEF x, h
    <3>6. (n = -2 /\ Size < h) \/ (n >= 0 /\ n = x)
      BY <1>3, <3>4, <3>5
    <3>7. QED
      BY <2>1, <3>6 DEF x, h
  <2>5. QED
    BY <1>1, <2>3, <2>4 DEF IsSound
<1> HIDE DEF n
<1>7. QED
  BY <1>1, <1>2, <1>5, <1>6, StaysBefore

\* The token at n ends where it was meant to, or is cut.
LEMMA TokenTo ==
  ASSUME TypeInv, IsPiece, NEW n \in 0..Size, NEW t \in Seq(Letters), Ahead(n, t),
         ToSet(t) \subseteq Visible,
         NEW u, Len(u) \in Nat \ {0}, Ahead(n + Len(t), u), u[1] = "SP"
  PROVE  Len(t) \in Nat /\ TokenEnd(n) = IF n + Len(t) < Size THEN n + Len(t) ELSE -2
<1> DEFINE S == Control \cup {"SP"}
           k == Scan(n, S)
           m == n + Len(t)
<1>1. Size \in Nat /\ n \in Nat
  BY Typed
<1>2. ToSet(t) \cap S = {} /\ u[1] \in S
  BY DEF Visible
<1>3. /\ Len(t) \in Nat /\ k = IF m < Size THEN m ELSE Size
      /\ m < Size => Letter(m) = u[1]
  <2> HIDE DEF S
  <2>1. QED
    BY <1>2, ScanTo
<1>4. TokenEnd(n) = IF k = Size THEN -2 ELSE IF Letter(k) = "SP" THEN k ELSE -1
  BY DEF TokenEnd
<1>5. m \in Nat
  BY <1>1, <1>3
<1> HIDE DEF k, m
<1>6. TokenEnd(n) = IF m < Size THEN m ELSE -2
  BY <1>1, <1>3, <1>4, <1>5
<1>7. QED
  BY <1>3, <1>6 DEF m

\* Reading the method.
LEMMA MethodMeant ==
  ASSUME TypeInv, IsPiece, Followed, Meant, Method
  PROVE  Meant'
<1>1. Layout(req) /\ IsSound(req) /\ RequestShape(req)
  BY SoundRequest DEF Followed
<1>2. BeforeHeaders /\ step = "method" /\ UNCHANGED <<input, headers>> /\ path' = path
  BY DEF Method, Meant
<1>3. Size \in Nat /\ at \in 0..Size /\ data \in Seq(Letters)
  BY Typed
<1> DEFINE k == TokenEnd(at)
           n == IF k < 0 THEN k ELSE k + 1
<1>4. Reach(n, "path")
  BY DEF Method
<1>5. k \in Int /\ n \in Int
  <2>1. k \in {-1, -2} \cup at..Size - 1
    BY <1>3, TokenEndTyped
  <2> HIDE DEF k
  <2>2. QED
    BY <1>3, <2>1
<1>6. ASSUME first = 0
      PROVE  \/ n = -2 /\ Size < Len(req.head) /\ path' \in {NoPath, req.path}
             \/ n >= 0 /\ n = PathAt(req) /\ path' = NoPath
  <2>1. path' = NoPath /\ at = Len(req.lead)
    BY <1>2, <1>6 DEF BeforeHeaders
  <2> DEFINE t == req.method
             u == <<"SP">>
  <2>2. /\ Holds(Stream(req), Len(req.lead), t)
        /\ Holds(Stream(req), Len(req.lead) + Len(t), u)
    BY <1>1 DEF Layout, RequestLineHolds
  <2>3. t \in Seq(Letters) /\ ToSet(t) \subseteq Visible /\ Len(t) \in Nat
    BY <1>1, Order DEF RequestShape, IsSound
  <2>4. Len(u) \in Nat \ {0} /\ u[1] = "SP"
    OBVIOUS
  <2> HIDE DEF t, u
  <2>5. Ahead(at, t) /\ Ahead(at + Len(t), u)
    <3>1. first + at = Len(req.lead) /\ first + (at + Len(t)) = Len(req.lead) + Len(t)
      BY <1>3, <1>6, <2>1, <2>3
    <3>2. QED
      BY <2>2, <3>1 DEF Ahead
  <2>6. k = IF at + Len(t) < Size THEN at + Len(t) ELSE -2
    BY <1>3, <2>3, <2>4, <2>5, TokenTo
  <2> DEFINE x == Len(req.lead)
             y == Len(t)
             z == Len(req.path)
             h == Len(req.head)
  <2>7. /\ x \in Nat /\ y \in Nat /\ z \in Nat /\ h \in Nat
        /\ PathAt(req) = x + y + 1 /\ VersionAt(req) = PathAt(req) + z + 1
        /\ VersionAt(req) + 3 < h
    BY <1>1, Order DEF t
  <2>8. at = x /\ k = IF x + y < Size THEN x + y ELSE -2
    BY <2>1, <2>6
  <2> HIDE DEF x, y, z, h, k
  <2>9. (n = -2 /\ Size < h) \/ (n >= 0 /\ n = PathAt(req))
    BY <1>3, <2>7, <2>8
  <2>10. QED
    BY <2>1, <2>9 DEF h, k
<1> HIDE DEF n
<1>7. QED
  BY <1>1, <1>2, <1>4, <1>5, <1>6, StaysBefore

\* Reading the path.
LEMMA PathMeant ==
  ASSUME TypeInv, IsPiece, Followed, Meant, Path
  PROVE  Meant'
<1>1. Layout(req) /\ IsSound(req) /\ RequestShape(req)
  BY SoundRequest DEF Followed
<1>2. BeforeHeaders /\ step = "path" /\ UNCHANGED <<input, headers>>
  BY DEF Path, Meant
<1>3. Size \in Nat /\ at \in 0..Size /\ data \in Seq(Letters)
  BY Typed
<1> DEFINE k == TokenEnd(at)
           n == IF k < 0 THEN k ELSE k + 1
<1>4. Reach(n, "version") /\ path' = IF k < 0 THEN path ELSE SubSeq(data, at + 1, k)
  BY DEF Path
<1>5. k \in Int /\ n \in Int
  <2>1. k \in {-1, -2} \cup at..Size - 1
    BY <1>3, TokenEndTyped
  <2> HIDE DEF k
  <2>2. QED
    BY <1>3, <2>1
<1>6. ASSUME first = 0
      PROVE  \/ n = -2 /\ Size < Len(req.head) /\ path' \in {NoPath, req.path}
             \/ n >= 0 /\ n = VersionAt(req) /\ path' = req.path
  <2>1. path = NoPath /\ at = PathAt(req)
    BY <1>2, <1>6 DEF BeforeHeaders
  <2> DEFINE t == req.path
             u == <<"SP", "HTTP/1.", "1">>
  <2>2. /\ Holds(Stream(req), PathAt(req), t)
        /\ Holds(Stream(req), PathAt(req) + Len(t), u)
    BY <1>1 DEF Layout, RequestLineHolds
  <2>3. t \in Seq(Letters) /\ ToSet(t) \subseteq Visible /\ Len(t) \in Nat
    BY <1>1, Order DEF RequestShape, IsSound
  <2>4. Len(u) \in Nat \ {0} /\ u[1] = "SP"
    OBVIOUS
  <2> HIDE DEF t, u
  <2>5. Ahead(at, t) /\ Ahead(at + Len(t), u)
    <3>1. first + at = PathAt(req) /\ first + (at + Len(t)) = PathAt(req) + Len(t)
      BY <1>3, <1>6, <2>1, <2>3
    <3>2. QED
      BY <2>2, <3>1 DEF Ahead
  <2>6. k = IF at + Len(t) < Size THEN at + Len(t) ELSE -2
    BY <1>3, <2>3, <2>4, <2>5, TokenTo
  <2>7. at + Len(t) <= Size => SubSeq(data, at + 1, at + Len(t)) = t
    BY <1>3, <2>3, <2>5, Cut
  <2> DEFINE y == Len(t)
             h == Len(req.head)
  <2>8. /\ y \in Nat /\ h \in Nat
        /\ VersionAt(req) = PathAt(req) + y + 1 /\ VersionAt(req) \in Nat /\ PathAt(req) \in Nat
        /\ VersionAt(req) + 3 < h
    BY <1>1, Order DEF t
  <2>9. /\ k = IF at + y < Size THEN at + y ELSE -2
        /\ at + y <= Size => SubSeq(data, at + 1, at + y) = t
    BY <2>6, <2>7
  <2> HIDE DEF y, h, k
  <2>10. CASE at + y < Size
    <3>1. k = at + y /\ ~(k < 0) /\ at + y <= Size /\ n = VersionAt(req) /\ n >= 0
      BY <1>3, <2>1, <2>8, <2>9, <2>10
    <3>2. path' = t
      BY <1>4, <2>9, <3>1 DEF k
    <3>3. QED
      BY <3>1, <3>2 DEF t, k
  <2>11. CASE ~(at + y < Size)
    <3>1. k = -2 /\ k < 0 /\ Size < h /\ n = -2
      BY <1>3, <2>1, <2>8, <2>9, <2>11
    <3>2. path' = NoPath
      BY <1>4, <2>1, <3>1 DEF k
    <3>3. QED
      BY <3>1, <3>2 DEF h, k
  <2>12. QED
    BY <2>10, <2>11
<1> HIDE DEF n
<1>7. QED
  BY <1>1, <1>2, <1>4, <1>5, <1>6, StaysBefore

\* Only a request that was read from its beginning, or that is cut within the
\* request line, has the protocol where the parser looks for it.
LEMMA VersionMeant ==
  ASSUME TypeInv, IsPiece, Followed, Meant, Version
  PROVE  Meant'
<1>1. Layout(req) /\ IsSound(req) /\ RequestShape(req)
  BY SoundRequest DEF Followed
<1>2. /\ BeforeHeaders /\ UNCHANGED <<input, headers>> /\ path' = path /\ step = "version"
      /\ headers = <<>> /\ headers = SubSeq(Headers(req), 1, 0) /\ 0 \in 0..Len(req.lines)
  <2>1. BeforeHeaders /\ UNCHANGED <<input, headers>> /\ path' = path /\ step = "version"
    BY DEF Version, Meant
  <2>2. QED
    BY <1>1, <2>1, HeadersTyped DEF BeforeHeaders
<1>3. /\ Size \in Nat /\ at \in 0..Size /\ at \in Nat /\ first \in Nat /\ data \in Seq(Letters)
      /\ Bytes(at) \in Int
  BY Typed, BytesCounted DEF TypeInv, Bytes
<1>4. first = 0 => at = VersionAt(req) /\ path = req.path
  BY <1>2 DEF BeforeHeaders
<1> DEFINE v == VersionAt(req)
           h == Len(req.head)
           e == req.eol
<1>5. v \in Nat /\ h \in Nat /\ v + 3 < h /\ Len(e) \in {1, 2} /\ LinesAt(req) = v + 2 + Len(e)
  BY <1>1, Order
<1>6. ASSUME first # 0, NEW n \in {-1, -2}, Reach(n, "headers")
      PROVE  Meant'
  <2>1. step' = "parsed"
    BY <1>6 DEF Reach
  <2>2. QED
    BY <1>1, <1>2, <1>6, <2>1, GivesUp
<1>7. CASE first + at # v
  <2>1. first # 0
    BY <1>3, <1>4, <1>7
  <2>2. Letter(at) # "HTTP/1."
    <3>1. SUFFICES ASSUME Letter(at) = "HTTP/1." PROVE FALSE
      OBVIOUS
    <3>2. at < Size /\ data[at + 1] = "HTTP/1."
      BY <1>3, <3>1 DEF Letter
    <3>3. at + 1 \in 1..Size /\ first + (at + 1) = (first + at) + 1
      BY <1>3, <3>2
    <3> DEFINE s == Stream(req)
               i == (first + at) + 1
    <3>4. s[i] = "HTTP/1." /\ first + Size <= Len(s)
      BY <3>2, <3>3 DEF IsPiece
    <3>5. s \in Seq(Letters) /\ Len(s) \in Nat /\ DOMAIN s = 1..Len(s)
      BY <1>1, LenProperties DEF Layout
    <3>6. \A j \in DOMAIN s : s[j] = "HTTP/1." => j = Len(req.lead) + Len(req.method) + Len(req.path) + 3
      BY <2>1 DEF Followed, NamedOnce, Stream
    <3> HIDE DEF s
    <3>7. i \in DOMAIN s
      BY <1>3, <3>2, <3>4, <3>5
    <3>8. i = Len(req.lead) + Len(req.method) + Len(req.path) + 3
      BY <3>4, <3>6, <3>7
    <3>9. v = Len(req.lead) + Len(req.method) + 1 + Len(req.path) + 1
      BY DEF VersionAt, PathAt
    <3>10. Len(req.lead) \in Nat /\ Len(req.method) \in Nat /\ Len(req.path) \in Nat
      BY <1>1, Order
    <3> DEFINE x == Len(req.lead)
               y == Len(req.method)
               z == Len(req.path)
    <3>11. x \in Nat /\ y \in Nat /\ z \in Nat /\ i = x + y + z + 3 /\ v = x + y + 1 + z + 1
      BY <3>8, <3>9, <3>10
    <3> HIDE DEF x, y, z, v
    <3>12. first + at = v
      BY <1>3, <3>11
    <3>13. QED
      BY <1>7, <3>12
  <2>3. \E n \in {-1, -2} : Reach(n, "headers")
    BY <2>2 DEF Version
  <2>4. QED
    BY <1>6, <2>1, <2>3
<1>8. CASE first + at = v
  <2> DEFINE t == <<"HTTP/1.", "1">>
  <2>1. Ahead(at, t) /\ Ahead(at + 2, e) /\ e \in Eols
    <3> DEFINE u == <<"SP", "HTTP/1.", "1">>
               s == Stream(req)
               q == PathAt(req) + Len(req.path)
    <3>1. Holds(s, q, u) /\ Holds(s, v + 2, e) /\ e \in Eols
      BY <1>1 DEF Layout, RequestLineHolds, IsSound
    <3>2. v = q + 1 /\ q \in Nat
      <4>1. PathAt(req) \in Nat /\ Len(req.path) \in Nat
        BY <1>1, Order
      <4>2. QED
        BY <4>1 DEF VersionAt
    <3>3. /\ q + 2 <= Len(s) /\ s[q + 2] = "HTTP/1."
          /\ q + 3 <= Len(s) /\ s[q + 3] = "1"
      <4>1. Len(u) = 3 /\ u[2] = "HTTP/1." /\ u[3] = "1"
        OBVIOUS
      <4> HIDE DEF u, q, s
      <4>2. \A j \in 1..3 : q + j <= Len(s) /\ s[q + j] = u[j]
        BY <3>1, <4>1 DEF Holds
      <4>3. QED
        BY <4>1, <4>2
    <3> HIDE DEF q, s, v
    <3>4. v + 1 = q + 2 /\ v + 2 = q + 3
      BY <3>2
    <3>5. v + 1 <= Len(s) /\ s[v + 1] = "HTTP/1." /\ v + 2 <= Len(s) /\ s[v + 2] = "1"
      BY <3>3, <3>4
    <3>6. Holds(s, v, t)
      <4>1. Len(t) = 2 /\ t[1] = "HTTP/1." /\ t[2] = "1"
        OBVIOUS
      <4> HIDE DEF t
      <4>2. \A j \in 1..2 : j = 1 \/ j = 2
        OBVIOUS
      <4>3. QED
        BY <3>5, <4>1, <4>2 DEF Holds
    <3>7. first + (at + 2) = v + 2
      BY <1>3, <1>8
    <3>8. QED
      BY <1>8, <3>1, <3>6, <3>7 DEF Ahead, s
  <2>2. /\ at + 2 < Size => Bytes(at) >= 9
        /\ at + 1 >= Size => Bytes(at) < 9
        /\ at < Size => Letter(at) = "HTTP/1."
        /\ at + 1 < Size => Letter(at + 1) = "1"
    BY <1>3, <2>1, BytesOfVersion
  <2> HIDE DEF t
  <2>3. CASE Bytes(at) < 9
    <3>1. step' = "parsed" /\ ret' = -2
      BY <2>3 DEF Version, Reach
    <3>2. first = 0 => Size < h
      <4> HIDE DEF h, v
      <4>1. QED
        BY <1>3, <1>5, <1>8, <2>2, <2>3
    <3>3. QED
      BY <1>1, <1>2, <1>4, <3>1, <3>2, GivesUp
  <2>4. CASE ~(Bytes(at) < 9)
    <3>1. Letter(at) = "HTTP/1." /\ Letter(at + 1) = "1"
      BY <1>3, <2>2, <2>4
    <3>2. Letter(at + 2) # "beyond" /\ at + 2 < Size
      BY <1>3, <2>4, <3>1, VersionInBuffer
    <3> DEFINE n == Eol(at + 2)
    <3>3. Reach(n, "headers")
      BY <2>4, <3>1, <3>2 DEF Version
    <3>4. n = IF (at + 2) + Len(e) <= Size THEN (at + 2) + Len(e) ELSE -2
      <4>1. at + 2 \in 0..Size
        BY <1>3, <3>2
      <4>2. QED
        BY <2>1, <3>2, <4>1, EolTo
    <3> HIDE DEF n, e, h, v
    <3>5. CASE (at + 2) + Len(e) <= Size
      <4>1. n = (at + 2) + Len(e) /\ ~(n < 0) /\ first + n = LinesAt(req)
        BY <1>3, <1>5, <1>8, <3>4, <3>5
      <4>2. at' = n /\ step' = "headers"
        BY <3>3, <4>1 DEF Reach
      <4>3. LineAt(req, 0 + 1) = LinesAt(req)
        BY <1>1 DEF Layout
      <4>4. req' = req /\ first' = first /\ headers' = headers /\ Len(req.lines) \in Nat
        BY <1>1, <1>2, SameInput DEF Layout
      <4>5. first <= VersionAt(req)
        BY <1>3, <1>5, <1>8 DEF v
      <4>6. InHeaders'
        BY <1>2, <1>4, <4>1, <4>2, <4>3, <4>4, <4>5 DEF InHeaders, FirstHeaders
      <4>7. QED
        BY <4>2, <4>6 DEF Meant, Parsed
    <3>6. CASE ~((at + 2) + Len(e) <= Size)
      <4>1. n = -2 /\ n < 0
        BY <3>4, <3>6
      <4>2. step' = "parsed" /\ ret' = -2
        BY <3>3, <4>1 DEF Reach
      <4>3. first = 0 => Size < h
        <5>1. h > LinesAt(req)
          BY <1>1, Order DEF h
        <5>2. QED
          BY <1>3, <1>5, <1>8, <3>6, <5>1
      <4>4. QED
        BY <1>1, <1>2, <1>4, <4>2, <4>3, GivesUp DEF h
    <3>7. QED
      BY <3>5, <3>6
  <2>5. QED
    BY <2>3, <2>4
<1>9. QED
  BY <1>7, <1>8

\* Where the parser is, in front of a line.
LEMMA AtHeaders ==
  ASSUME TypeInv, IsPiece, Followed, Meant, step = "headers"
  PROVE  /\ Layout(req) /\ IsSound(req) /\ RequestShape(req)
         /\ Size \in Nat /\ at \in 0..Size /\ at \in Nat /\ first \in Nat
         /\ data \in Seq(Letters) /\ Len(req.lines) \in Nat /\ Len(req.head) \in Nat
         /\ MaxHeaders \in Nat
         /\ \E k \in 0..Len(req.lines) :
              /\ FirstHeaders(k) /\ first + at = LineAt(req, k + 1) /\ Len(headers) = k
              /\ LineAt(req, k + 1) \in Nat /\ LineAt(req, k + 1) < Len(req.head)
<1>1. Layout(req) /\ IsSound(req) /\ RequestShape(req)
  BY SoundRequest DEF Followed
<1>2. /\ Size \in Nat /\ at \in 0..Size /\ at \in Nat /\ first \in Nat
      /\ data \in Seq(Letters) /\ Len(req.lines) \in Nat /\ Len(req.head) \in Nat
      /\ MaxHeaders \in Nat
  BY <1>1, Typed DEF TypeInv, Layout
<1>3. PICK k \in 0..Len(req.lines) : FirstHeaders(k) /\ first + at = LineAt(req, k + 1)
  BY DEF Meant, InHeaders
<1>4. LineAt(req, k + 1) \in Nat /\ LineAt(req, k + 1) < Len(req.head)
  BY <1>1, LinesOrder
<1>5. Len(headers) = k
  <2> DEFINE s == Headers(req)
  <2>1. s \in Seq(HeaderShape) /\ Len(s) = Len(req.lines)
    BY <1>1, HeadersTyped
  <2>2. headers = SubSeq(s, 1, k)
    BY <1>3 DEF FirstHeaders
  <2> HIDE DEF s
  <2>3. \A i \in 1..k : s[i] \in HeaderShape
    <3>1. \A i \in 1..k : i \in 1..Len(s)
      BY <1>2, <2>1
    <3>2. QED
      BY <2>1, <3>1, ElementOfSeq
  <2>4. Len(SubSeq(s, 1, k)) = IF 1 <= k THEN k - 1 + 1 ELSE 0
    BY <1>2, <2>3, SubSeqProperties
  <2>5. QED
    BY <1>2, <2>2, <2>4
<1>6. QED
  BY <1>1, <1>2, <1>3, <1>4, <1>5

\* A failing header line leaves what was found of the lines before it.
LEMMA HeadersFailMeant ==
  ASSUME TypeInv, IsPiece, Followed, Meant, HeadersFail
  PROVE  Meant'
<1>1. step = "headers" /\ UNCHANGED <<input, headers>> /\ path' = path
  BY DEF HeadersFail
<1>2. /\ Layout(req) /\ IsSound(req) /\ RequestShape(req)
      /\ Size \in Nat /\ at \in 0..Size /\ at \in Nat /\ first \in Nat
      /\ Len(req.lines) \in Nat /\ Len(req.head) \in Nat /\ MaxHeaders \in Nat
  BY <1>1, AtHeaders
<1>3. PICK k \in 0..Len(req.lines) :
        /\ FirstHeaders(k) /\ first + at = LineAt(req, k + 1) /\ Len(headers) = k
        /\ LineAt(req, k + 1) \in Nat /\ LineAt(req, k + 1) < Len(req.head)
  BY <1>1, AtHeaders
<1>4. step' = "parsed"
  BY DEF HeadersFail, Reach
<1>5. first = 0 /\ Len(req.lines) <= MaxHeaders => ret' = -2 /\ Size < Len(req.head)
  <2>1. SUFFICES ASSUME first = 0, Len(req.lines) <= MaxHeaders
                 PROVE  ret' = -2 /\ Size < Len(req.head)
    OBVIOUS
  <2>2. CASE at = Size /\ Reach(-2, "headers")
    <3>1. ret' = -2
      BY <2>2 DEF Reach
    <3> DEFINE h == Len(req.head)
               x == LineAt(req, k + 1)
    <3>2. first + at = x /\ x < h /\ h \in Nat
      BY <1>2, <1>3
    <3> HIDE DEF h, x
    <3>3. Size < h
      BY <1>2, <2>1, <2>2, <3>2
    <3>4. QED
      BY <3>1, <3>3 DEF h
  <2>3. CASE at < Size /\ Letter(at) \notin {"CR", "LF"} /\ Len(headers) = MaxHeaders
    <3>1. k # Len(req.lines)
      BY <1>2, <1>3, <2>3, AtLine
    <3>2. FALSE
      BY <1>2, <1>3, <2>1, <2>3, <3>1
    <3>3. QED
      BY <3>2
  <2>4. QED
    BY <2>2, <2>3 DEF HeadersFail
<1>6. /\ headers = SubSeq(Headers(req), 1, k) /\ first <= VersionAt(req)
      /\ first = 0 => path' \in {NoPath, req.path}
  BY <1>1, <1>3 DEF FirstHeaders
<1>7. QED
  BY <1>1, <1>2, <1>4, <1>5, <1>6, GivesUp

\* The empty line that ends the head.
LEMMA HeadEndMeant ==
  ASSUME TypeInv, IsPiece, Followed, Meant, HeadEnd
  PROVE  Meant'
<1>1. step = "headers" /\ UNCHANGED <<input, headers>> /\ path' = path /\ step' = "parsed"
  BY DEF HeadEnd
<1>2. /\ Layout(req) /\ IsSound(req) /\ RequestShape(req)
      /\ Size \in Nat /\ at \in 0..Size /\ at \in Nat /\ first \in Nat
      /\ Len(req.lines) \in Nat /\ Len(req.head) \in Nat
  BY <1>1, AtHeaders
<1>3. PICK k \in 0..Len(req.lines) :
        /\ FirstHeaders(k) /\ first + at = LineAt(req, k + 1) /\ Len(headers) = k
        /\ LineAt(req, k + 1) \in Nat /\ LineAt(req, k + 1) < Len(req.head)
  BY <1>1, AtHeaders
<1>4. at < Size /\ Letter(at) \in {"CR", "LF"} /\ ret' = Eol(at)
  BY <1>2 DEF HeadEnd, Letter
<1>5. k = Len(req.lines)
  <2>1. SUFFICES ASSUME k # Len(req.lines) PROVE FALSE
    OBVIOUS
  <2>2. Letter(at) \in TokenLetters \cup Blank
    BY <1>2, <1>3, <1>4, <2>1, AtLine
  <2>3. QED
    BY <1>4, <2>2 DEF TokenLetters, Blank
<1>6. Ahead(at, req.last) /\ req.last \in Eols
  BY <1>2, <1>3, <1>4, <1>5, AtLine
<1>7. /\ Len(req.last) \in {1, 2}
      /\ Eol(at) = IF at + Len(req.last) <= Size THEN at + Len(req.last) ELSE -2
  BY <1>2, <1>4, <1>6, EolTo
<1>8. first + at + Len(req.last) = Len(req.head)
  BY <1>2, <1>3, <1>5, LinesOrder
<1>9. headers = Headers(req)
  <2>1. Headers(req) \in Seq(HeaderShape) /\ Len(Headers(req)) = Len(req.lines)
    BY <1>2, HeadersTyped
  <2>2. headers = SubSeq(Headers(req), 1, Len(Headers(req)))
    BY <1>3, <1>5, <2>1 DEF FirstHeaders
  <2>3. QED
    BY <2>1, <2>2, SubSeqFull
<1>10. first = 0 => IF Size < Len(req.head) THEN ret' = -2 ELSE ret' = Len(req.head)
  <2> DEFINE h == Len(req.head)
             y == Len(req.last)
  <2>1. /\ y \in {1, 2} /\ h \in Nat /\ first + at + y = h
        /\ ret' = IF at + y <= Size THEN at + y ELSE -2
    BY <1>2, <1>4, <1>7, <1>8
  <2> HIDE DEF h, y
  <2>2. first = 0 => IF Size < h THEN ret' = -2 ELSE ret' = h
    BY <1>2, <2>1
  <2>3. QED
    BY <2>2 DEF h
<1>11. /\ headers = SubSeq(Headers(req), 1, k) /\ first <= VersionAt(req)
       /\ first = 0 => path = req.path
  BY <1>3 DEF FirstHeaders
<1>12. req' = req /\ first' = first /\ Size' = Size /\ headers' = headers
  BY <1>1, SameInput
<1>13. AtEnd'
  BY <1>1, <1>9, <1>10, <1>11, <1>12 DEF AtEnd
<1>14. QED
  BY <1>1, <1>13 DEF Meant

\* A header in hand: its line, if there is a line at all.
LEMMA AtHeader ==
  ASSUME TypeInv, IsPiece, Followed, Meant, HeaderAhead
  PROVE  \E k \in 0..Len(req.lines) - 1 :
           /\ FirstHeaders(k) /\ first + at = LineAt(req, k + 1)
           /\ Folded <=> req.lines[k + 1].name = <<>>
<1>1. step = "headers" /\ at < Size /\ Letter(at) \notin {"CR", "LF"}
  BY DEF HeaderAhead
<1>2. Layout(req) /\ IsSound(req) /\ RequestShape(req) /\ Len(req.lines) \in Nat
  BY <1>1, AtHeaders
<1>3. PICK k \in 0..Len(req.lines) :
        FirstHeaders(k) /\ first + at = LineAt(req, k + 1) /\ Len(headers) = k
  BY <1>1, AtHeaders
<1>4. k # Len(req.lines)
  BY <1>1, <1>2, <1>3, AtLine
<1>5. k \in 0..Len(req.lines) - 1
  BY <1>2, <1>4
<1> DEFINE l == req.lines[k + 1]
<1>6. (l.name # <<>> => Letter(at) \in TokenLetters) /\ (l.name = <<>> => Letter(at) \in Blank)
  BY <1>1, <1>2, <1>3, <1>4, AtLine
<1>7. TokenLetters \cap Blank = {}
  BY DEF TokenLetters, Blank
<1>8. l.name = <<>> => k # 0
  <2>1. SUFFICES ASSUME l.name = <<>>, k = 0 PROVE FALSE
    OBVIOUS
  <2>2. req.lines # <<>>
    <3>1. Len(req.lines) # 0
      BY <1>5, <2>1
    <3>2. QED
      BY <3>1
  <2>3. req.lines[1].name # <<>>
    BY <1>2, <2>2 DEF IsSound
  <2>4. k + 1 = 1
    BY <2>1
  <2>5. QED
    BY <2>1, <2>3, <2>4
<1>9. Folded <=> l.name = <<>>
  BY <1>3, <1>6, <1>7, <1>8 DEF Folded
<1>10. QED
  BY <1>3, <1>5, <1>9

\* Reading the name of a header.
LEMMA NameMeant ==
  ASSUME TypeInv, IsPiece, Followed, Meant, Name
  PROVE  Meant'
<1>1. HeaderAhead /\ ~Folded /\ UNCHANGED <<input, headers>> /\ path' = path
  BY DEF Name
<1>2. step = "headers" /\ at < Size
  BY <1>1 DEF HeaderAhead
<1>3. /\ Layout(req) /\ IsSound(req) /\ RequestShape(req)
      /\ Size \in Nat /\ at \in 0..Size /\ at \in Nat /\ first \in Nat
      /\ Len(req.lines) \in Nat /\ Len(req.head) \in Nat
  BY <1>2, AtHeaders
<1>4. PICK j \in 0..Len(req.lines) - 1 :
        /\ FirstHeaders(j) /\ first + at = LineAt(req, j + 1)
        /\ Folded <=> req.lines[j + 1].name = <<>>
  BY <1>1, AtHeader
<1> DEFINE l == req.lines[j + 1]
           nm == l.name
           bl == l.blanks
           rest == IF l.value = <<>> THEN l.eol ELSE l.value
           x == Len(nm)
           y == Len(bl)
           k == Scan(at, Letters \ TokenLetters)
           v == Scan(k + 1, Letters \ Blank)
           n == CASE k = Size -> -2
                  [] k < Size /\ (Letter(k) # ":" \/ k = at) -> -1
                  [] k < Size /\ Letter(k) = ":" /\ k # at -> IF v = Size THEN -2 ELSE v
<1>5. nm # <<>>
  BY <1>1, <1>4
<1>6. /\ l \in LineShape /\ IsLine(l) /\ x \in Nat /\ y \in Nat
      /\ Ahead(at, nm) /\ Ahead(at + x, <<":">>) /\ Ahead(at + x + 1, bl)
      /\ InFront(l) = x + 1 + y /\ InFront(l) \in Nat
      /\ Ahead(at + InFront(l), l.value) /\ Ahead(at + InFront(l) + Len(l.value), l.eol)
  BY <1>3, <1>4, <1>5, LineAhead
<1>7. Reach(n, "value") /\ name' = SubSeq(data, at + 1, k)
  BY DEF Name
<1>8. /\ nm \in Seq(Letters) /\ bl \in Seq(Letters) /\ l.value \in Seq(Letters) /\ l.eol \in Seq(Letters)
      /\ ToSet(nm) \subseteq TokenLetters /\ ToSet(bl) \subseteq Blank
      /\ l.value # <<>> => Head(l.value) \notin Blank
      /\ l.eol \in Eols
  BY <1>5, <1>6 DEF LineShape, IsLine
<1> HIDE DEF l
<1>9. x # 0
  BY <1>5, <1>8, EmptySeq
<1>10. /\ Ahead(at + InFront(l), rest) /\ Len(rest) \in Nat \ {0} /\ rest[1] \in Letters \ Blank
  <2>1. CASE l.value = <<>>
    <3>1. rest = l.eol /\ Len(l.value) = 0
      BY <2>1
    <3>2. at + InFront(l) + Len(l.value) = at + InFront(l)
      <4>1. at \in Nat /\ InFront(l) \in Nat /\ Len(l.value) = 0
        BY <1>3, <1>6, <3>1
      <4>2. QED
        BY <4>1
    <3>3. Len(l.eol) \in Nat \ {0} /\ l.eol[1] \in Letters \ Blank
      BY <1>8 DEF Eols, Letters, Blank, Control
    <3>4. QED
      BY <1>6, <3>1, <3>2, <3>3
  <2>2. CASE l.value # <<>>
    <3>1. rest = l.value /\ Len(l.value) \in Nat \ {0}
      BY <1>8, <2>2, LenProperties, EmptySeq
    <3>2. l.value[1] \in Letters
      <4>1. 1 \in 1..Len(l.value)
        BY <3>1
      <4>2. QED
        BY <1>8, <4>1, ElementOfSeq
    <3>3. l.value[1] \notin Blank
      BY <1>8, <2>2
    <3>4. QED
      BY <1>6, <3>1, <3>2, <3>3
  <2>3. QED
    BY <2>1, <2>2
<1> HIDE DEF rest, nm, bl
<1>11. /\ k = IF at + x < Size THEN at + x ELSE Size
       /\ at + x < Size => Letter(at + x) = ":"
  <2> DEFINE u == <<":">>
             T == Letters \ TokenLetters
  <2>1. Len(u) \in Nat \ {0} /\ u[1] = ":" /\ u[1] \in T /\ ToSet(nm) \cap T = {}
    BY <1>8 DEF Letters, TokenLetters
  <2>2. Ahead(at + Len(nm), u)
    BY <1>6 DEF nm
  <2> HIDE DEF u, T
  <2>3. /\ Scan(at, T) = IF at + Len(nm) < Size THEN at + Len(nm) ELSE Size
        /\ at + Len(nm) < Size => Letter(at + Len(nm)) = u[1]
    BY <1>3, <1>6, <1>8, <2>1, <2>2, ScanTo
  <2>4. QED
    BY <2>1, <2>3 DEF T
<1>12. ASSUME at + x < Size
       PROVE  v = IF at + InFront(l) < Size THEN at + InFront(l) ELSE Size
  <2> DEFINE T == Letters \ Blank
             m == at + x + 1
  <2>1. m \in 0..Size /\ k + 1 = m /\ m + y = at + InFront(l)
    BY <1>3, <1>6, <1>11, <1>12
  <2>2. ToSet(bl) \cap T = {}
    BY <1>8
  <2>3. Ahead(m, bl) /\ Ahead(m + Len(bl), rest) /\ rest[1] \in T
    BY <1>6, <1>10, <2>1
  <2> HIDE DEF T, m
  <2>4. Scan(m, T) = IF m + Len(bl) < Size THEN m + Len(bl) ELSE Size
    BY <1>8, <1>10, <2>1, <2>2, <2>3, ScanTo
  <2>5. QED
    BY <2>1, <2>4 DEF T
<1>13. /\ ValueAt(req, j + 1) = LineAt(req, j + 1) + InFront(l)
       /\ ValueAt(req, j + 1) \in Nat /\ ValueAt(req, j + 1) < Len(req.head)
  BY <1>3, <1>4, LinesOrder DEF l
<1>14. first = 0 => path = req.path
  BY <1>4 DEF FirstHeaders
<1>15. headers = SubSeq(Headers(req), 1, j) /\ first <= VersionAt(req) /\ j \in 0..Len(req.lines)
  BY <1>3, <1>4 DEF FirstHeaders
<1>16. at + x < Size => SubSeq(data, at + 1, at + x) = nm
  <2>1. SUFFICES ASSUME at + x < Size PROVE SubSeq(data, at + 1, at + Len(nm)) = nm
    BY DEF x
  <2>2. at + Len(nm) <= Size
    BY <1>3, <1>6, <2>1
  <2>3. QED
    BY <1>3, <1>6, <1>8, <2>2, Cut
<1>17. Len(req.head) \in Nat /\ first + at = LineAt(req, j + 1) /\ InFront(l) = x + 1 + y
  BY <1>3, <1>4, <1>6
<1> DEFINE f == InFront(l)
           h == Len(req.head)
<1> HIDE DEF x, y, k, v, f, h
<1>18. CASE at + f < Size
  <2>1. /\ at + x < Size /\ k = at + x /\ v = at + f /\ k # at /\ Letter(k) = ":"
        /\ k < Size /\ k # Size /\ v # Size /\ ~(v < 0)
    BY <1>3, <1>6, <1>9, <1>11, <1>12, <1>17, <1>18 DEF f
  <2>2. n = v /\ ~(n < 0)
    BY <2>1
  <2>3. at' = n /\ step' = "value"
    BY <1>7, <2>2 DEF Reach
  <2>4. first + at' = ValueAt(req, j + 1)
    BY <1>3, <1>6, <1>13, <1>17, <2>1, <2>2, <2>3 DEF f
  <2>5. name' = nm
    BY <1>7, <1>16, <2>1
  <2>6. req' = req /\ first' = first /\ headers' = headers /\ path' = path
    BY <1>1, SameInput
  <2>7. InValue'
    BY <1>4, <1>14, <1>15, <2>4, <2>5, <2>6 DEF InValue, FirstHeaders, nm, l
  <2>8. QED
    BY <2>3, <2>7 DEF Meant, Parsed
<1>19. CASE ~(at + f < Size)
  <2>1. n = -2 /\ n < 0
    <3>1. CASE at + x < Size
      <4>1. k = at + x /\ v = Size /\ k # at /\ Letter(k) = ":" /\ k < Size
        BY <1>3, <1>6, <1>9, <1>11, <1>12, <1>19, <3>1 DEF f
      <4>2. QED
        BY <1>3, <4>1
    <3>2. CASE ~(at + x < Size)
      <4>1. k = Size
        BY <1>11, <3>2
      <4>2. QED
        BY <1>3, <4>1
    <3>3. QED
      BY <3>1, <3>2
  <2> HIDE DEF n
  <2>2. step' = "parsed" /\ ret' = -2
    BY <1>7, <2>1 DEF Reach
  <2>3. first = 0 => Size < h
    BY <1>3, <1>6, <1>13, <1>17, <1>19 DEF f, h
  <2>4. QED
    BY <1>1, <1>3, <1>14, <1>15, <2>2, <2>3, GivesUp DEF h
<1>20. QED
  BY <1>18, <1>19

\* Reading a folded line, which no sound request has.
LEMMA FoldMeant ==
  ASSUME TypeInv, IsPiece, Followed, Meant, Fold
  PROVE  Meant'
<1>1. /\ HeaderAhead /\ Folded /\ UNCHANGED <<input, headers>> /\ path' = path /\ name' = NoName
      /\ Reach(at, "value") /\ step = "headers"
  BY DEF Fold, HeaderAhead
<1>2. /\ Layout(req) /\ IsSound(req) /\ at \in Nat /\ first \in Nat /\ Len(req.lines) \in Nat
  BY <1>1, AtHeaders
<1>3. PICK k \in 0..Len(req.lines) - 1 :
        /\ FirstHeaders(k) /\ first + at = LineAt(req, k + 1)
        /\ Folded <=> req.lines[k + 1].name = <<>>
  BY <1>1, AtHeader
<1>4. step' = "value" /\ at' = at
  BY <1>1, <1>2 DEF Reach
<1>5. req' = req /\ first' = first /\ headers' = headers
  BY <1>1, SameInput
<1>6. first' + at' = ValueAt(req, k + 1)
  <2>1. InFront(req.lines[k + 1]) = 0
    BY <1>1, <1>3 DEF InFront
  <2>2. ValueAt(req, k + 1) = LineAt(req, k + 1) + InFront(req.lines[k + 1]) /\ LineAt(req, k + 1) \in Nat
    BY <1>2, <1>3, LinesOrder
  <2>3. QED
    BY <1>2, <1>3, <1>4, <1>5, <2>1, <2>2
<1>7. name' = req.lines[k + 1].name
  BY <1>1, <1>3 DEF NoName
<1>8. InValue'
  BY <1>1, <1>3, <1>5, <1>6, <1>7 DEF InValue, FirstHeaders
<1>9. QED
  BY <1>4, <1>8 DEF Meant, Parsed

\* One header more.
LEMMA HeaderMore ==
  ASSUME NEW r, RequestShape(r), NEW k \in 0..Len(r.lines) - 1
  PROVE  Append(SubSeq(Headers(r), 1, k), Headers(r)[k + 1]) = SubSeq(Headers(r), 1, k + 1)
<1> DEFINE s == Headers(r)
           n == k + 1
<1>1. s \in Seq(HeaderShape) /\ Len(s) = Len(r.lines) /\ Len(r.lines) \in Nat
  BY HeadersTyped
<1> HIDE DEF s
<1>2. n \in 1..Len(s) /\ 1 \in 1..Len(s) /\ 1 <= n /\ n - 1 = k /\ k \in Nat
  BY <1>1
<1>3. s[n] \in HeaderShape /\ \A i \in 1..k : s[i] \in HeaderShape
  <2>1. \A i \in 1..k : i \in 1..Len(s)
    BY <1>1, <1>2
  <2>2. QED
    BY <1>1, <1>2, <2>1, ElementOfSeq
<1>4. SubSeq(s, 1, k) \in Seq(HeaderShape)
  BY <1>2, <1>3, SubSeqProperties
<1> HIDE DEF n
<1>5. SubSeq(s, 1, n) = SubSeq(s, 1, n - 1) \o <<s[n]>>
  BY <1>1, <1>2, SubSeqRecursiveSecond
<1>6. Append(SubSeq(s, 1, k), s[n]) = SubSeq(s, 1, k) \o <<s[n]>>
  BY <1>3, <1>4, AppendIsConcat
<1>7. QED
  BY <1>2, <1>5, <1>6 DEF s, n

\* Reading the value of a header.
LEMMA ValueMeant ==
  ASSUME TypeInv, IsPiece, Followed, Meant, Value
  PROVE  Meant'
<1>1. step = "value" /\ UNCHANGED input /\ path' = path /\ name' = name
  BY DEF Value
<1>2. Layout(req) /\ IsSound(req) /\ RequestShape(req)
  BY SoundRequest DEF Followed
<1>3. /\ Size \in Nat /\ at \in 0..Size /\ at \in Nat /\ first \in Nat
      /\ data \in Seq(Letters) /\ Len(req.lines) \in Nat /\ Len(req.head) \in Nat
  BY <1>2, Typed DEF TypeInv, Layout
<1>4. PICK j \in 0..Len(req.lines) - 1 :
        /\ FirstHeaders(j) /\ first + at = ValueAt(req, j + 1)
        /\ name = req.lines[j + 1].name
  BY <1>1 DEF Meant, InValue
<1> DEFINE i == j + 1
           l == req.lines[i]
           t == l.value
           e == l.eol
           T == Control \ {"HT"}
           k == ValueEnd(at)
           n == IF k = Size THEN -2 ELSE Eol(k)
           h == Len(req.head)
           m == at + Len(t)
<1>5. i \in 1..Len(req.lines)
  BY <1>3
<1>6. /\ l \in LineShape /\ IsLine(l)
      /\ Holds(Stream(req), ValueAt(req, i), t)
      /\ Holds(Stream(req), ValueAt(req, i) + Len(t), e)
  BY <1>2, <1>5 DEF Layout, LineHolds, ValueAt
<1>7. t \in Seq(Letters) /\ e \in Eols /\ ToSet(t) \subseteq Visible \cup Blank /\ Len(t) \in Nat
  BY <1>6, LenProperties DEF LineShape, IsLine
<1>8. /\ EolAt(req, i) = ValueAt(req, i) + Len(t)
      /\ LineAt(req, i + 1) = EolAt(req, i) + Len(e)
      /\ ValueAt(req, i) \in Nat /\ EolAt(req, i) \in Nat
      /\ EolAt(req, i) < h /\ LineAt(req, i + 1) < h /\ h \in Nat
  BY <1>2, <1>3, LinesOrder
<1>9. first + at = ValueAt(req, i) /\ name = l.name /\ FirstHeaders(j)
  BY <1>4
<1>10. /\ Reach(n, "headers")
       /\ headers' = IF n < 0 THEN headers
                     ELSE Append(headers, [name |-> name, value |-> SubSeq(data, at + 1, k)])
  BY DEF Value
<1>11. Headers(req)[i] = [name |-> l.name, value |-> t]
  BY <1>2, <1>5, HeadersTyped
<1>12. Append(SubSeq(Headers(req), 1, j), Headers(req)[i]) = SubSeq(Headers(req), 1, i)
  BY <1>2, HeaderMore
<1>13. i \in 0..Len(req.lines) /\ j \in 0..Len(req.lines)
  BY <1>3
<1> HIDE DEF i, l, t, e
<1>14. Ahead(at, t) /\ Ahead(m, e) /\ m \in Nat
  <2>1. first + m = ValueAt(req, i) + Len(t) /\ m \in Nat
    BY <1>3, <1>7, <1>9
  <2> HIDE DEF m
  <2>2. QED
    BY <1>6, <1>9, <2>1 DEF Ahead
<1>15. Len(e) \in Nat \ {0} /\ e[1] \in T /\ ToSet(t) \cap T = {}
  <2>1. \A x \in Eols : Len(x) \in Nat \ {0} /\ x[1] \in T
    BY DEF Eols, Control
  <2>2. (Visible \cup Blank) \cap T = {}
    BY DEF Control, Visible, Blank
  <2>3. QED
    BY <1>7, <2>1, <2>2
<1>16. k = IF m < Size THEN m ELSE Size
  <2> HIDE DEF T
  <2>1. Scan(at, T) = IF at + Len(t) < Size THEN at + Len(t) ELSE Size
    BY <1>3, <1>7, <1>14, <1>15, ScanTo
  <2>2. QED
    BY <2>1 DEF ValueEnd, T
<1>17. m < Size => Eol(m) = (IF m + Len(e) <= Size THEN m + Len(e) ELSE -2) /\ Len(e) \in {1, 2}
  <2>1. SUFFICES ASSUME m < Size
                 PROVE  Eol(m) = (IF m + Len(e) <= Size THEN m + Len(e) ELSE -2) /\ Len(e) \in {1, 2}
    OBVIOUS
  <2>2. m \in 0..Size
    BY <1>3, <1>14, <2>1
  <2> HIDE DEF m
  <2>3. QED
    BY <1>7, <1>14, <2>1, <2>2, EolTo
<1>18. m <= Size => SubSeq(data, at + 1, m) = t
  BY <1>3, <1>7, <1>14, Cut
<1>19. first + m = EolAt(req, i)
  BY <1>3, <1>7, <1>8, <1>9
<1>20. req' = req /\ first' = first /\ Size' = Size
  BY <1>1, SameInput
<1>21. /\ headers = SubSeq(Headers(req), 1, j) /\ first <= VersionAt(req)
       /\ first = 0 => path = req.path
  BY <1>9 DEF FirstHeaders
<1> DEFINE y == Len(e)
<1> HIDE DEF y, m, k, h
<1>22. CASE m < Size /\ m + y <= Size
  <2>1. k = m /\ k # Size /\ y \in {1, 2} /\ n = m + y /\ ~(n < 0)
    BY <1>3, <1>14, <1>16, <1>17, <1>22 DEF y
  <2>2. at' = m + y /\ step' = "headers"
    BY <1>10, <2>1 DEF Reach
  <2>3. headers' = SubSeq(Headers(req), 1, i)
    <3>1. SubSeq(data, at + 1, k) = t
      BY <1>3, <1>14, <1>18, <1>22, <2>1
    <3>2. headers' = Append(headers, [name |-> name, value |-> t])
      BY <1>10, <2>1, <3>1
    <3>3. QED
      BY <1>9, <1>11, <1>12, <1>21, <3>2
  <2>4. first + at' = LineAt(req, i + 1)
    BY <1>3, <1>8, <1>14, <1>19, <2>1, <2>2 DEF y
  <2>5. InHeaders'
    BY <1>1, <1>13, <1>20, <1>21, <2>3, <2>4 DEF InHeaders, FirstHeaders
  <2>6. QED
    BY <2>2, <2>5 DEF Meant, Parsed
<1>23. CASE ~(m < Size /\ m + y <= Size)
  <2>1. n = -2 /\ (m >= Size \/ (y \in {1, 2} /\ m + y > Size))
    <3>1. CASE m < Size
      <4>1. k = m /\ k # Size /\ y \in {1, 2} /\ ~(m + y <= Size)
        BY <1>3, <1>14, <1>16, <1>17, <1>23, <3>1 DEF y
      <4>2. n = -2
        BY <1>17, <3>1, <4>1 DEF y
      <4>3. QED
        BY <1>3, <1>14, <4>1, <4>2
    <3>2. CASE ~(m < Size)
      BY <1>3, <1>14, <1>16, <3>2
    <3>3. QED
      BY <3>1, <3>2
  <2> HIDE DEF n
  <2>2. step' = "parsed" /\ ret' = -2 /\ headers' = headers
    BY <1>10, <2>1 DEF Reach
  <2>3. first = 0 => Size < h
    <3>1. y \in Nat
      BY <1>15 DEF y
    <3>2. LineAt(req, i + 1) = EolAt(req, i) + y
      BY <1>8 DEF y
    <3>3. QED
      BY <1>3, <1>8, <1>14, <1>19, <2>1, <3>1, <3>2
  <2>4. QED
    BY <1>1, <1>2, <1>13, <1>21, <2>2, <2>3, GivesUp DEF h
<1>24. QED
  BY <1>22, <1>23

\* What follows the parser changes nothing that it found.
LEMMA LaterMeant ==
  ASSUME TypeInv, IsPiece, Followed, Meant, Construct \/ TakePost \/ UNCHANGED vars
  PROVE  Meant'
<1>1. UNCHANGED <<req, first, data, at, path, headers, name, ret>>
  BY DEF Construct, TakePost, vars, input
<1>2. Size' = Size
  BY <1>1 DEF Size
<1>3. CASE UNCHANGED vars
  <2>1. step' = step
    BY <1>3 DEF vars
  <2>2. QED
    BY <1>1, <1>2, <2>1
      DEF Meant, BeforeHeaders, InHeaders, InValue, AtEnd, FirstHeaders, Parsed
<1>4. CASE Construct \/ TakePost
  <2>1. Parsed /\ step' \in {"crashed", "constructed", "done"}
    BY <1>4 DEF Construct, TakePost, Parsed
  <2>2. AtEnd
    BY <2>1 DEF Meant
  <2>3. AtEnd'
    BY <1>1, <1>2, <2>2 DEF AtEnd
  <2>4. QED
    BY <2>1, <2>3 DEF Meant
<1>5. QED
  BY <1>3, <1>4

\* Where a piece of a request starts.
LEMMA InitMeantInv == Init => MeantInv
<1> SUFFICES ASSUME Init PROVE MeantInv
  OBVIOUS
<1> DEFINE s == Stream(req)
<1>1. PICK p \in 0..Len(s) - 1 : \E j \in p + 1..Len(s) : first = p /\ data = SubSeq(s, p + 1, j)
  BY DEF Init, Stream
<1>2. PICK j \in p + 1..Len(s) : first = p /\ data = SubSeq(s, p + 1, j)
  BY <1>1
<1>3. s \in Seq(Letters) /\ Len(s) \in Nat
  <2>1. req.head \in Seq(Letters) /\ req.body \in Seq(Letters)
    BY RequestsAssumption DEF Init, RequestShape
  <2>2. QED
    BY <2>1, HoldsConcat, LenProperties DEF Stream
<1> HIDE DEF s
<1>4. Size = j - p /\ \A n \in 1..Size : data[n] = s[first + n]
  <2> DEFINE m == p + 1
  <2>1. ASSUME NEW k \in m..j PROVE s[k] \in Letters
    <3>1. k \in 1..Len(s)
      BY <1>3
    <3>2. QED
      BY <1>3, <3>1, ElementOfSeq
  <2>2. m \in Int /\ j \in Int /\ m <= j /\ j - m + 1 = j - p
    BY <1>3
  <2>3. \A n \in 1..j - p : m + n - 1 = p + n
    BY <1>3
  <2> HIDE DEF m
  <2>4. /\ Len(SubSeq(s, m, j)) = j - m + 1
        /\ \A n \in 1..j - m + 1 : SubSeq(s, m, j)[n] = s[m + n - 1]
    BY <2>1, <2>2, SubSeqProperties
  <2>5. data = SubSeq(s, m, j)
    BY <1>2 DEF m
  <2>6. Size = j - p
    BY <2>2, <2>4, <2>5 DEF Size
  <2>7. \A n \in 1..j - p : data[n] = s[p + n]
    BY <2>2, <2>3, <2>4, <2>5
  <2>8. QED
    BY <1>2, <2>6, <2>7
<1>5. IsPiece
  BY <1>2, <1>3, <1>4 DEF IsPiece, s
<1>6. step = "empty" /\ at = 0 /\ path = NoPath /\ headers = <<>>
  BY DEF Init
<1>7. Meant
  BY <1>6 DEF Meant, BeforeHeaders, Parsed
<1>8. PostMeant
  BY <1>6 DEF PostMeant
<1>9. QED
  BY <1>5, <1>7, <1>8 DEF MeantInv

\* Post data is what the headers tell and the head's length leaves.
LEMMA PostKept ==
  ASSUME TypeInv, PostMeant, [Next]_vars
  PROVE  PostMeant'
<1>1. CASE UNCHANGED vars
  BY <1>1 DEF vars, PostMeant, expectContinue, HasHeader, dataType, boundary, Telling, Size
<1>2. CASE EmptyLine \/ Method \/ Path \/ Version \/ HeadersFail \/ HeadEnd
           \/ Name \/ Fold \/ Value \/ Construct
  <2>1. step' # "done"
    BY <1>2 DEF EmptyLine, Method, Path, Version, HeadersFail, HeadEnd, Name, Fold, Value,
                Construct, Reach
  <2>2. QED
    BY <2>1 DEF PostMeant
<1>3. CASE TakePost
  <2>1. UNCHANGED <<data, headers, ret>> /\ Size \in Nat /\ ret \in Int
    BY <1>3, Typed DEF TakePost, input
  <2>2. /\ expectContinue' = expectContinue /\ dataType' = dataType /\ boundary' = boundary
        /\ Size' = Size /\ ret' = ret
    BY <2>1 DEF expectContinue, HasHeader, dataType, boundary, Telling, Size
  <2>3. ~expectContinue =>
          posted' = IF ret < Size /\ dataType # "none"
                    THEN [from |-> ret, kind |-> dataType,
                          boundary |-> IF dataType = "multipart" THEN boundary ELSE <<>>]
                    ELSE Nothing
    BY <1>3 DEF TakePost
  <2>4. ret < Size <=> ~(ret >= Size)
    BY <2>1
  <2>5. QED
    BY <2>2, <2>3, <2>4 DEF PostMeant
<1>4. QED
  BY <1>1, <1>2, <1>3 DEF Next

\* Every step keeps the meaning of what was found.
LEMMA NextMeantInv == TypeInv /\ MeantInv /\ [Next]_vars => MeantInv'
<1> SUFFICES ASSUME TypeInv, MeantInv, [Next]_vars PROVE MeantInv'
  OBVIOUS
<1>1. IsPiece /\ (Followed => Meant) /\ PostMeant
  BY DEF MeantInv
<1>2. UNCHANGED input
  BY DEF Next, EmptyLine, Method, Path, Version, HeadersFail, HeadEnd, Name, Fold, Value,
         Construct, TakePost, vars, input
<1>3. req' = req /\ first' = first /\ data' = data /\ Size' = Size
  BY <1>2, SameInput
<1>4. IsPiece' /\ (Followed' <=> Followed)
  BY <1>1, <1>3 DEF IsPiece, Followed
<1>5. ASSUME Followed PROVE Meant'
  <2>1. Meant
    BY <1>1, <1>5
  <2>2. CASE EmptyLine
    BY <1>1, <1>5, <2>1, <2>2, EmptyLineMeant
  <2>3. CASE Method
    BY <1>1, <1>5, <2>1, <2>3, MethodMeant
  <2>4. CASE Path
    BY <1>1, <1>5, <2>1, <2>4, PathMeant
  <2>5. CASE Version
    BY <1>1, <1>5, <2>1, <2>5, VersionMeant
  <2>6. CASE HeadersFail
    BY <1>1, <1>5, <2>1, <2>6, HeadersFailMeant
  <2>7. CASE HeadEnd
    BY <1>1, <1>5, <2>1, <2>7, HeadEndMeant
  <2>8. CASE Name
    BY <1>1, <1>5, <2>1, <2>8, NameMeant
  <2>9. CASE Fold
    BY <1>1, <1>5, <2>1, <2>9, FoldMeant
  <2>10. CASE Value
    BY <1>1, <1>5, <2>1, <2>10, ValueMeant
  <2>11. CASE Construct \/ TakePost \/ UNCHANGED vars
    BY <1>1, <1>5, <2>1, <2>11, LaterMeant
  <2>12. QED
    BY <2>2, <2>3, <2>4, <2>5, <2>6, <2>7, <2>8, <2>9, <2>10, <2>11 DEF Next
<1>6. QED
  BY <1>1, <1>4, <1>5, PostKept DEF MeantInv

-----------------------------------------------------------------------------
(***************************************************************************)
(* What the server makes of it.                                            *)
(***************************************************************************)
\* The headers that the parser leaves are the first of those that were meant.
LEMMA FirstOfMeant ==
  ASSUME TypeInv, req.sound, NEW k \in 0..Len(req.lines), headers = SubSeq(Headers(req), 1, k)
  PROVE  /\ IsPrefix(headers, Headers(req))
         /\ \A h \in Range(headers) : h \in ToSet(Headers(req))
<1> DEFINE s == Headers(req)
<1>1. s \in Seq(HeaderShape) /\ Len(s) = Len(req.lines) /\ Len(req.lines) \in Nat /\ DOMAIN s = 1..Len(s)
  BY SoundRequest, HeadersTyped, LenProperties
<1> HIDE DEF s
<1>2. \A i \in 1..k : i \in 1..Len(s) /\ s[i] \in HeaderShape
  <2>1. \A i \in 1..k : i \in 1..Len(s)
    BY <1>1
  <2>2. QED
    BY <1>1, <2>1, ElementOfSeq
<1>3. headers = SubSeq(s, 1, k)
  BY DEF s
<1>4. /\ headers \in Seq(HeaderShape) /\ Len(headers) = k
      /\ \A i \in 1..k : headers[i] = s[i]
  <2>1. k \in Int /\ (IF 1 <= k THEN k - 1 + 1 ELSE 0) = k /\ \A i \in 1..k : 1 + i - 1 = i
    BY <1>1
  <2>2. /\ SubSeq(s, 1, k) \in Seq(HeaderShape)
        /\ Len(SubSeq(s, 1, k)) = IF 1 <= k THEN k - 1 + 1 ELSE 0
        /\ \A i \in 1..k - 1 + 1 : SubSeq(s, 1, k)[i] = s[1 + i - 1]
    BY <1>2, <2>1, SubSeqProperties
  <2>3. k - 1 + 1 = k
    BY <2>1
  <2>4. QED
    BY <1>3, <2>1, <2>2, <2>3
<1>5. DOMAIN headers = 1..k
  BY <1>4, LenProperties
<1>6. SubSeq(headers, 1, k) = headers
  BY <1>4, SubSeqFull
<1>7. IsPrefix(headers, s)
  BY <1>1, <1>3, <1>4, <1>6 DEF IsPrefix
<1>8. \A h \in Range(headers) : h \in ToSet(s)
  BY <1>1, <1>2, <1>4, <1>5 DEF Range, ToSet
<1>9. QED
  BY <1>7, <1>8 DEF s

\* The kinds there are.
LEMMA Kinds == \A h : Kind(h) \in {"none", "multipart", "urlencoded", "raw"}
  BY DEF Kind

\* The last header that tells a kind tells the kind that was meant.
LEMMA KindFound ==
  ASSUME TypeInv, req.sound, headers = Headers(req)
  PROVE  /\ dataType = req.kind
         /\ (IF dataType = "multipart" THEN boundary ELSE <<>>) = req.boundary
<1> DEFINE s == Headers(req)
           w == "multipart/form-data; boundary="
           all == {"multipart", "urlencoded", "raw"}
<1>1. KindIsMeant(req) /\ req.boundary \in Seq(Letters)
  BY SoundRequest DEF IsSound, RequestShape
<1>2. DOMAIN s = 1..Len(req.lines) /\ DOMAIN req.lines = 1..Len(req.lines) /\ Len(req.lines) \in Nat
  BY SoundRequest, HeadersTyped, LenProperties
<1>3. CASE req.kind = "none"
  <2>1. \A h \in ToSet(s) : Kind(h) = "none"
    BY <1>1, <1>3 DEF KindIsMeant
  <2>2. \A j \in DOMAIN headers : Kind(headers[j]) = "none"
    BY <2>1 DEF ToSet
  <2>3. Telling(all) = {}
    BY <2>2 DEF Telling
  <2>4. dataType = "none"
    BY <2>3 DEF dataType
  <2>5. req.boundary = <<>>
    BY <1>1, <1>3 DEF KindIsMeant
  <2>6. QED
    BY <1>3, <2>4, <2>5
<1>4. CASE req.kind # "none"
  <2>1. PICK k \in DOMAIN req.lines :
          /\ Kind(s[k]) = req.kind
          /\ \A j \in DOMAIN req.lines : j > k => Kind(s[j]) = "none"
          /\ req.kind = "multipart" => s[k].value = <<w>> \o req.boundary
    BY <1>1, <1>4 DEF KindIsMeant
  <2>2. ASSUME NEW kinds \in SUBSET all, req.kind \in kinds
        PROVE  Telling(kinds) # {} /\ Max(Telling(kinds)) = k
    <3> DEFINE S == Telling(kinds)
    <3>1. \A j \in S : j \in 1..Len(req.lines) /\ Kind(s[j]) # "none"
      BY <1>2, <2>2 DEF Telling
    <3>2. k \in S
      BY <1>2, <2>1, <2>2 DEF Telling
    <3> HIDE DEF S
    <3>3. ASSUME NEW j \in S PROVE j \in Nat /\ k \in Nat /\ k >= j
      <4>1. j \in DOMAIN req.lines /\ Kind(s[j]) # "none"
        BY <1>2, <3>1
      <4>2. ~(j > k)
        BY <2>1, <4>1
      <4>3. j \in Nat /\ k \in Nat
        BY <1>2, <4>1
      <4>4. QED
        BY <4>2, <4>3
    <3>4. Max(S) \in S /\ \A y \in S : Max(S) >= y
      BY <3>2, <3>3 DEF Max
    <3>5. Max(S) = k
      BY <3>2, <3>3, <3>4
    <3>6. QED
      BY <3>2, <3>5 DEF S
  <2>3. req.kind \in all
    BY <1>4, <2>1, Kinds
  <2>4. dataType = req.kind
    <3>1. Telling(all) # {} /\ Max(Telling(all)) = k
      BY <2>2, <2>3
    <3>2. dataType = Kind(headers[k])
      BY <3>1 DEF dataType
    <3>3. QED
      BY <2>1, <3>2
  <2>5. CASE req.kind = "multipart"
    <3>1. boundary = Tail(<<w>> \o req.boundary)
      <4>1. Telling({"multipart"}) # {} /\ Max(Telling({"multipart"})) = k
        BY <2>2, <2>5
      <4>2. boundary = Tail(headers[k].value)
        BY <4>1 DEF boundary
      <4>3. headers[k].value = <<w>> \o req.boundary
        BY <2>1, <2>5
      <4>4. QED
        BY <4>2, <4>3
    <3>2. Tail(<<w>> \o req.boundary) = req.boundary
      <4> DEFINE b == req.boundary
                 u == <<w>>
                 c == u \o b
      <4>a. w \in Letters
        <5>1. w \in DOMAIN Words
          BY DEF Words
        <5>2. QED
          BY <5>1 DEF Letters
      <4>1. u \in Seq(Letters) /\ Len(u) = 1 /\ b \in Seq(Letters) /\ Len(b) \in Nat
        <5> HIDE DEF w
        <5>1. u \in Seq(Letters) /\ Len(u) = 1
          BY <4>a
        <5>2. QED
          BY <1>1, <5>1, LenProperties
      <4> HIDE DEF u, b
      <4>2. /\ c \in Seq(Letters) /\ Len(c) = 1 + Len(b)
            /\ \A i \in 1..1 + Len(b) : c[i] = IF i <= 1 THEN u[i] ELSE b[i - 1]
        BY <4>1, ConcatProperties
      <4> HIDE DEF c
      <4>3. c # <<>>
        BY <4>1, <4>2
      <4>4. /\ Tail(c) \in Seq(Letters) /\ Len(Tail(c)) = Len(c) - 1
            /\ \A i \in 1..Len(Tail(c)) : Tail(c)[i] = c[i + 1]
        BY <4>2, <4>3, HeadTailProperties
      <4>5. Len(Tail(c)) = Len(b) /\ \A i \in 1..Len(b) : Tail(c)[i] = b[i]
        <5>1. Len(Tail(c)) = Len(b)
          BY <4>1, <4>2, <4>4
        <5>2. ASSUME NEW i \in 1..Len(b) PROVE Tail(c)[i] = b[i]
          <6>1. i + 1 \in 1..1 + Len(b) /\ ~(i + 1 <= 1) /\ (i + 1) - 1 = i
            BY <4>1
          <6>2. c[i + 1] = b[i]
            BY <4>2, <6>1
          <6>3. QED
            BY <4>4, <5>1, <6>2
        <5>3. QED
          BY <5>1, <5>2
      <4>6. Tail(c) = b
        BY <4>1, <4>4, <4>5, SeqEqual
      <4>7. QED
        BY <4>6 DEF b, c, u
    <3>3. QED
      BY <2>4, <2>5, <3>1, <3>2
  <2>6. CASE req.kind # "multipart"
    BY <1>1, <2>4, <2>6 DEF KindIsMeant
  <2>7. QED
    BY <2>4, <2>5, <2>6
<1>5. QED
  BY <1>3, <1>4

\* A head that was found whole is served as its sender meant.
LEMMA MeantServed == TypeInv /\ MeantInv => ServedAsMeant
<1> SUFFICES ASSUME TypeInv, MeantInv PROVE ServedAsMeant
  OBVIOUS
<1>1. ASSUME Parsed, Whole
      PROVE  /\ ret = Len(req.head) /\ path = req.path /\ headers = Headers(req)
             /\ keepAlive = req.keep /\ expectContinue = req.expect
  <2>1. /\ req.sound /\ first = 0 /\ Size >= Len(req.head) /\ Len(req.lines) <= MaxHeaders
        /\ Size \in Nat /\ Len(req.head) \in Nat /\ IsSound(req)
    BY <1>1, SoundRequest, Typed DEF Whole, Layout
  <2>2. AtEnd
    BY <1>1, <2>1 DEF MeantInv, Meant, Followed
  <2>3. ~(Size < Len(req.head))
    <3> DEFINE h == Len(req.head)
    <3>1. Size >= h /\ h \in Nat /\ Size \in Nat
      BY <2>1
    <3> HIDE DEF h
    <3>2. ~(Size < h)
      BY <3>1
    <3>3. QED
      BY <3>2 DEF h
  <2>4. ret = Len(req.head) /\ path = req.path /\ headers = Headers(req)
    BY <2>1, <2>2, <2>3 DEF AtEnd
  <2>5. \A n, v : HasHeader(n, v) <=> Says(req, n, v)
    BY <2>4 DEF HasHeader, Says, Range, ToSet
  <2>6. keepAlive = req.keep /\ expectContinue = req.expect
    <3>1. /\ req.keep = Says(req, "Connection", "keep-alive")
          /\ req.expect = Says(req, "Expect", "100-Continue")
      BY <2>1 DEF IsSound
    <3>2. /\ HasHeader("Connection", "keep-alive") = Says(req, "Connection", "keep-alive")
          /\ HasHeader("Expect", "100-Continue") = Says(req, "Expect", "100-Continue")
      BY <2>4 DEF HasHeader, Says, Range, ToSet
    <3>3. QED
      BY <3>1, <3>2 DEF keepAlive, expectContinue
  <2>7. QED
    BY <2>4, <2>6
<1>2. ASSUME step = "done", Whole, ~req.expect
      PROVE  posted = IF req.kind = "none" \/ Size = Len(req.head) THEN Nothing
                      ELSE [from |-> Len(req.head), kind |-> req.kind, boundary |-> req.boundary]
  <2>1. Parsed
    BY <1>2 DEF Parsed
  <2>2. ret = Len(req.head) /\ headers = Headers(req) /\ ~expectContinue
    BY <1>1, <1>2, <2>1
  <2>3. req.sound /\ Size >= Len(req.head) /\ Size \in Nat /\ Len(req.head) \in Nat
    BY <1>2, SoundRequest, Typed DEF Whole, Layout
  <2>4. posted = IF dataType = "none" \/ ret >= Size THEN Nothing
                 ELSE [from |-> ret, kind |-> dataType,
                       boundary |-> IF dataType = "multipart" THEN boundary ELSE <<>>]
    BY <1>2, <2>2 DEF MeantInv, PostMeant
  <2>5. /\ dataType = req.kind
        /\ (IF dataType = "multipart" THEN boundary ELSE <<>>) = req.boundary
    BY <2>2, <2>3, KindFound
  <2>6. ret >= Size <=> Size = Len(req.head)
    <3> DEFINE h == Len(req.head)
    <3>1. Size >= h /\ h \in Nat /\ Size \in Nat /\ ret = h
      BY <2>2, <2>3
    <3> HIDE DEF h
    <3>2. ret >= Size <=> Size = h
      BY <3>1
    <3>3. QED
      BY <3>2 DEF h
  <2>7. QED
    BY <2>2, <2>4, <2>5, <2>6
<1>3. QED
  BY <1>1, <1>2 DEF ServedAsMeant

\* A head found in a piece of a request says nothing its sender did not mean.
LEMMA MeantPiece == TypeInv /\ MeantInv => PieceMeant
<1> SUFFICES ASSUME TypeInv, MeantInv, Parsed, req.sound PROVE PieceMeant
  BY DEF PieceMeant
<1>1. Layout(req) /\ IsSound(req) /\ first \in Nat
  BY SoundRequest DEF TypeInv
<1>2. ASSUME first = 0 \/ NamedOnce(req) PROVE AtEnd
  BY <1>2 DEF MeantInv, Meant, Followed
<1>3. ASSUME first = 0
      PROVE  /\ path \in {NoPath, req.path} /\ IsPrefix(headers, Headers(req))
             /\ Size < Len(req.head) /\ Len(req.lines) <= MaxHeaders => ret = -2
  <2>1. AtEnd
    BY <1>2, <1>3
  <2>2. IsPrefix(headers, Headers(req))
    BY <2>1, FirstOfMeant DEF AtEnd
  <2>3. QED
    BY <1>3, <2>1, <2>2 DEF AtEnd
<1>4. ASSUME first = 0 \/ NamedOnce(req)
      PROVE  /\ keepAlive => req.keep
             /\ expectContinue => req.expect
             /\ first >= Len(req.head) => headers = <<>>
  <2>1. AtEnd
    BY <1>2, <1>4
  <2>2. \A h \in Range(headers) : h \in ToSet(Headers(req))
    BY <2>1, FirstOfMeant DEF AtEnd
  <2>3. (keepAlive => req.keep) /\ (expectContinue => req.expect)
    BY <1>1, <2>2 DEF keepAlive, expectContinue, HasHeader, Says, IsSound
  <2>4. first >= Len(req.head) => headers = <<>>
    <3> DEFINE h == Len(req.head)
    <3>1. h \in Nat /\ VersionAt(req) \in Nat /\ VersionAt(req) + 3 < h
      BY <1>1, Order
    <3>2. headers # <<>> => first <= VersionAt(req)
      BY <2>1 DEF AtEnd
    <3> HIDE DEF h
    <3>3. first >= h => headers = <<>>
      BY <1>1, <3>1, <3>2
    <3>4. QED
      BY <3>3 DEF h
  <2>5. QED
    BY <2>3, <2>4
<1>5. QED
  BY <1>3, <1>4 DEF PieceMeant

\* A head that is in the buffer as a whole is found and served as its client
\* meant it, however it is spelled, wherever the buffer ends behind it.
THEOREM ServesAsMeant == Spec => []ServedAsMeant
<1>1. Init => TypeInv /\ MeantInv
  BY InitTypeInv, InitMeantInv
<1>2. TypeInv /\ MeantInv /\ [Next]_vars => (TypeInv /\ MeantInv)'
  BY NextTypeInv, NextMeantInv
<1>3. QED
  BY <1>1, <1>2, MeantServed, PTL DEF Spec

\* A head that is cut is incomplete, at any letter; and no piece of a request
\* keeps a connection or asks for a 100 Continue that its client did not.
THEOREM MeansPieces == Spec => []PieceMeant
<1>1. Init => TypeInv /\ MeantInv
  BY InitTypeInv, InitMeantInv
<1>2. TypeInv /\ MeantInv /\ [Next]_vars => (TypeInv /\ MeantInv)'
  BY NextTypeInv, NextMeantInv
<1>3. QED
  BY <1>1, <1>2, MeantPiece, PTL DEF Spec

=============================================================================
