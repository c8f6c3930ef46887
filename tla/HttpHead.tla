------------------------------ MODULE HttpHead ------------------------------
(***************************************************************************)
(* What parse_request (server.c) makes of the bytes that read_all got: the *)
(* head parser (picohttpparser) looks for the path and the headers, and    *)
(* the server for the three headers it knows and for the post data.        *)
(*                                                                         *)
(* The buffer holds letters.  A word that the code compares as a whole is  *)
(* one letter, with the word's length.  The buffer may be any piece of     *)
(* what a client sent, as Server has it.                                   *)
(***************************************************************************)
EXTENDS Integers, Sequences, FiniteSetsExt, SequencesExt

CONSTANTS
  Requests,    \* what clients send: see RequestShape
  MaxHeaders   \* room for headers: 15 in the code

VARIABLES
  req,      \* the request that the bytes are of
  first,    \* letters of it before the buffer
  data,     \* rawReq
  step,     \* how far the parser, then the server, is
  at,       \* buf: letters behind which the parser is
  path,     \* the path, or NoPath
  headers,  \* the headers that are counted in num_headers
  name,     \* the name of the header in hand
  ret,      \* pret: letters of the head, -1 or -2
  posted    \* the post data, as the parser of it is called

vars == <<req, first, data, step, at, path, headers, name, ret, posted>>
input == <<req, first, data>>

(***************************************************************************)
(* Letters.                                                                *)
(***************************************************************************)
Words ==
  [w \in {"HTTP/1.", "Content-Type", "Connection", "Expect", "keep-alive",
          "100-Continue", "multipart/form-data; boundary=",
          "application/x-www-form-urlencoded", "application/json"} |->
     CASE w = "HTTP/1." -> 7
       [] w = "Expect" -> 6
       [] w \in {"Content-Type", "100-Continue"} -> 12
       [] w \in {"Connection", "keep-alive"} -> 10
       [] w = "multipart/form-data; boundary=" -> 30
       [] w = "application/x-www-form-urlencoded" -> 33
       [] w = "application/json" -> 16]

Blank == {"SP", "HT"}
Control == {"CR", "LF", "HT", "CTL"}
\* token_char_map
TokenLetters ==
  {"t", "1", "Content-Type", "Connection", "Expect", "keep-alive", "100-Continue"}
Letters == Blank \cup Control \cup TokenLetters \cup {":", "/"} \cup DOMAIN Words

NoPath == <<"no path">>
NoName == <<>>

\* The kind of post data that a header tells.
Kind(h) ==
  CASE h.name # <<"Content-Type">> -> "none"
    [] h.name = <<"Content-Type">> /\ IsPrefix(<<"multipart/form-data; boundary=">>, h.value) ->
         "multipart"
    [] h = [name |-> <<"Content-Type">>, value |-> <<"application/x-www-form-urlencoded">>] ->
         "urlencoded"
    [] h = [name |-> <<"Content-Type">>, value |-> <<"application/json">>] -> "raw"
    [] OTHER -> "none"

\* As the client sends it: the letters of head and body; how it spells the head,
\* line by line; what it means by it; and whether all this is as it should be.
LineShape ==
  [name : Seq(Letters), blanks : Seq(Letters), value : Seq(Letters), eol : Seq(Letters)]

RequestShape(r) ==
  /\ \A f \in {"head", "body", "lead", "method", "path", "eol", "last", "boundary"} :
       r[f] \in Seq(Letters)
  /\ r.lines \in Seq(LineShape)
  /\ r.keep \in BOOLEAN /\ r.expect \in BOOLEAN
  /\ r.kind \in {"none", "multipart", "urlencoded", "raw"}
  /\ r.sound \in BOOLEAN

Headers(r) ==
  [k \in DOMAIN r.lines |-> [name |-> r.lines[k].name, value |-> r.lines[k].value]]

Eols == {<<"CR", "LF">>, <<"LF">>}
Visible == Letters \ (Control \cup {"SP"})

\* A header has a name, a colon and maybe blanks in front of its value; a line
\* that goes on with the one before it starts with a blank.
IsLine(l) ==
  /\ l.eol \in Eols /\ ToSet(l.value) \subseteq Visible \cup Blank
  /\ \/ /\ l.name # <<>> /\ ToSet(l.name) \subseteq TokenLetters
        /\ ToSet(l.blanks) \subseteq Blank
        /\ l.value # <<>> => Head(l.value) \notin Blank
     \/ /\ l.name = <<>> /\ l.blanks = <<>>
        /\ l.value # <<>> /\ Head(l.value) \in Blank

Spelled(l) == (IF l.name = <<>> THEN <<>> ELSE l.name \o <<":">> \o l.blanks) \o l.value \o l.eol

RequestLine(r) ==
  r.lead \o r.method \o <<"SP">> \o r.path \o <<"SP", "HTTP/1.", "1">> \o r.eol

SpelledHead(r) ==
  RequestLine(r) \o FlattenSeq([k \in DOMAIN r.lines |-> Spelled(r.lines[k])]) \o r.last

\* What the head says of the connection and of the post data: the last header
\* that tells a kind decides.
Says(r, n, v) == [name |-> <<n>>, value |-> <<v>>] \in ToSet(Headers(r))

KindIsMeant(r) ==
  /\ r.kind # "multipart" => r.boundary = <<>>
  /\ \/ r.kind = "none" /\ \A h \in ToSet(Headers(r)) : Kind(h) = "none"
     \/ \E k \in DOMAIN r.lines :
          LET h == Headers(r)[k] IN
          /\ Kind(h) = r.kind /\ r.kind # "none"
          /\ \A j \in DOMAIN r.lines : j > k => Kind(Headers(r)[j]) = "none"
          /\ r.kind = "multipart" =>
               h.value = <<"multipart/form-data; boundary=">> \o r.boundary

IsSound(r) ==
  /\ r.head = SpelledHead(r)
  /\ r.lead \in {<<>>} \cup Eols /\ r.eol \in Eols /\ r.last \in Eols
  /\ ToSet(r.method) \cup ToSet(r.path) \subseteq Visible
  /\ \A k \in DOMAIN r.lines : IsLine(r.lines[k])
  /\ r.lines # <<>> => r.lines[1].name # <<>>
  /\ r.keep = Says(r, "Connection", "keep-alive")
  /\ r.expect = Says(r, "Expect", "100-Continue")
  /\ KindIsMeant(r)

ASSUME RequestsAssumption ==
  /\ MaxHeaders \in Nat \ {0}
  /\ \A r \in Requests : RequestShape(r) /\ Len(r.head) > 0 /\ (r.sound => IsSound(r))

(***************************************************************************)
(* Looking at the buffer.                                                  *)
(***************************************************************************)
Size == Len(data)
Letter(n) == IF n < Size THEN data[n + 1] ELSE "beyond"

\* The first place from n on with a letter of S, or the end.
Scan(n, S) == Min({Size} \cup {k \in n..Size - 1 : data[k + 1] \in S})

Width(l) == IF l \in DOMAIN Words THEN Words[l] ELSE 1

\* Bytes in the first n letters, and from n to the end.
BytesTo[n \in 0..Size] == IF n = 0 THEN 0 ELSE BytesTo[n - 1] + Width(data[n])
Bytes(n) == BytesTo[Size] - BytesTo[n]

\* Behind the line end at n: -2 if it is cut, -1 if there is none.
Eol(n) ==
  CASE Letter(n) = "CR" /\ n + 1 = Size -> -2
    [] Letter(n) = "CR" /\ Letter(n + 1) = "LF" -> n + 2
    [] Letter(n) = "LF" -> n + 1
    [] OTHER -> -1

\* ADVANCE_TOKEN: the blank that ends the token at n, -2 or -1.
TokenEnd(n) ==
  LET k == Scan(n, Control \cup {"SP"}) IN
  IF k = Size THEN -2 ELSE IF Letter(k) = "SP" THEN k ELSE -1

\* get_token_to_eol: the control letter that ends the value at n, or the end.
ValueEnd(n) == Scan(n, Control \ {"HT"})

\* The parser gives up, or has come to n.
Reach(n, next) ==
  IF n < 0
  THEN ret' = n /\ step' = "parsed" /\ UNCHANGED at
  ELSE at' = n /\ step' = next /\ UNCHANGED ret
-----------------------------------------------------------------------------
(***************************************************************************)
(* phr_parse_request.                                                      *)
(***************************************************************************)
\* An empty line in front is skipped.
EmptyLine ==
  /\ step = "empty"
  /\ CASE Size = 0 -> Reach(-2, "method")
       [] Letter(0) \in {"CR", "LF"} -> Reach(Eol(0), "method")
       [] OTHER -> Reach(0, "method")
  /\ UNCHANGED <<input, path, headers, name, posted>>

Method ==
  /\ step = "method"
  /\ LET k == TokenEnd(at) IN Reach(IF k < 0 THEN k ELSE k + 1, "path")
  /\ UNCHANGED <<input, path, headers, name, posted>>

Path ==
  /\ step = "path"
  /\ LET k == TokenEnd(at) IN
     /\ Reach(IF k < 0 THEN k ELSE k + 1, "version")
     /\ path' = IF k < 0 THEN path ELSE SubSeq(data, at + 1, k)
  /\ UNCHANGED <<input, headers, name, posted>>

\* Mutant of Version: what is read behind the digit is not asked for.
MutVersionEight ==
  /\ step = "version"
  /\ IF Bytes(at) < 8 THEN Reach(-2, "headers")
     ELSE IF Letter(at) # "HTTP/1." \/ Letter(at + 1) # "1" THEN Reach(-1, "headers")
     ELSE IF Letter(at + 2) = "beyond" THEN step' = "over" /\ UNCHANGED <<at, ret>>
     ELSE Reach(Eol(at + 2), "headers")
  /\ UNCHANGED <<input, path, headers, name, posted>>

\* parse_http_version, and the end of the line.
Version ==
  /\ step = "version"
  /\ IF Bytes(at) < 9 THEN Reach(-2, "headers")
     ELSE IF Letter(at) # "HTTP/1." \/ Letter(at + 1) # "1" THEN Reach(-1, "headers")
     ELSE IF Letter(at + 2) = "beyond" THEN step' = "over" /\ UNCHANGED <<at, ret>>
     ELSE Reach(Eol(at + 2), "headers")
  /\ UNCHANGED <<input, path, headers, name, posted>>

\* parse_headers: the buffer or the room for headers ends here.
HeadersFail ==
  /\ step = "headers"
  /\ \/ at = Size /\ Reach(-2, "headers")
     \/ /\ at < Size /\ Letter(at) \notin {"CR", "LF"}
        /\ Len(headers) = MaxHeaders
        /\ Reach(-1, "headers")
  /\ UNCHANGED <<input, path, headers, name, posted>>

\* The empty line behind the headers.
HeadEnd ==
  /\ step = "headers"
  /\ Letter(at) \in {"CR", "LF"}
  /\ LET n == Eol(at) IN ret' = n /\ at' = IF n < 0 THEN at ELSE n
  /\ step' = "parsed"
  /\ UNCHANGED <<input, path, headers, name, posted>>

HeaderAhead ==
  /\ step = "headers" /\ at < Size
  /\ Letter(at) \notin {"CR", "LF"}
  /\ Len(headers) < MaxHeaders

Folded == Len(headers) # 0 /\ Letter(at) \in Blank

\* The name, the colon and the blanks behind it.
Name ==
  /\ HeaderAhead /\ ~Folded
  /\ LET k == Scan(at, Letters \ TokenLetters)
         v == Scan(k + 1, Letters \ Blank)
     IN  /\ Reach(CASE k = Size -> -2
                    [] k < Size /\ (Letter(k) # ":" \/ k = at) -> -1
                    [] k < Size /\ Letter(k) = ":" /\ k # at ->
                         IF v = Size THEN -2 ELSE v,
                  "value")
         /\ name' = SubSeq(data, at + 1, k)
  /\ UNCHANGED <<input, path, headers, posted>>

\* A line that goes on with the header before it is one without a name.
Fold ==
  /\ HeaderAhead /\ Folded
  /\ name' = NoName
  /\ Reach(at, "value")
  /\ UNCHANGED <<input, path, headers, posted>>

\* Mutant of Value: the header is counted before its line has ended.
MutValueCountsCut ==
  /\ step = "value"
  /\ LET k == ValueEnd(at) IN
     /\ Reach(IF k = Size THEN -2 ELSE Eol(k), "headers")
     /\ headers' = Append(headers, [name |-> name, value |-> SubSeq(data, at + 1, k)])
  /\ UNCHANGED <<input, path, name, posted>>

\* get_token_to_eol; then the header counts.
Value ==
  /\ step = "value"
  /\ LET k == ValueEnd(at)
         n == IF k = Size THEN -2 ELSE Eol(k)
     IN  /\ Reach(n, "headers")
         /\ headers' =
              IF n < 0 THEN headers
              ELSE Append(headers, [name |-> name, value |-> SubSeq(data, at + 1, k)])
  /\ UNCHANGED <<input, path, name, posted>>
-----------------------------------------------------------------------------
(***************************************************************************)
(* parse_request of server.c goes on with what was found, whatever ret is. *)
(***************************************************************************)
HasHeader(n, v) == [name |-> <<n>>, value |-> <<v>>] \in Range(headers)

keepAlive == HasHeader("Connection", "keep-alive")
expectContinue == HasHeader("Expect", "100-Continue")

Telling(kinds) == {k \in DOMAIN headers : Kind(headers[k]) \in kinds}

\* The last header that tells one decides.
dataType ==
  LET telling == Telling({"multipart", "urlencoded", "raw"}) IN
  IF telling = {} THEN "none" ELSE Kind(headers[Max(telling)])

boundary ==
  LET telling == Telling({"multipart"}) IN
  IF telling = {} THEN <<>> ELSE Tail(headers[Max(telling)].value)

Nothing == [from |-> 0, kind |-> "none", boundary |-> <<>>]

\* Paths of which request::request makes the process die: see Request.
Fatal == {NoPath, <<>>, <<"/">>}

Construct ==
  /\ step = "parsed"
  /\ step' = IF path \in Fatal THEN "crashed" ELSE "constructed"
  /\ UNCHANGED <<input, at, path, headers, name, ret, posted>>

\* Mutant of TakePost: the post data begins with the last letter of the head.
MutTakePostEarly ==
  /\ step = "constructed"
  /\ \E more \in BOOLEAN :
       posted' =
         IF (IF expectContinue THEN more ELSE ret < Size) /\ dataType # "none"
         THEN [from |-> ret - 1, kind |-> dataType,
               boundary |-> IF dataType = "multipart" THEN boundary ELSE <<>>]
         ELSE Nothing
  /\ step' = "done"
  /\ UNCHANGED <<input, at, path, headers, name, ret>>

\* There is post data if the second read_all gets some, or if the buffer goes
\* on behind ret; but in both cases it is taken from the buffer behind ret.
TakePost ==
  /\ step = "constructed"
  /\ \E more \in BOOLEAN :
       posted' =
         IF (IF expectContinue THEN more ELSE ret < Size) /\ dataType # "none"
         THEN [from |-> ret, kind |-> dataType,
               boundary |-> IF dataType = "multipart" THEN boundary ELSE <<>>]
         ELSE Nothing
  /\ step' = "done"
  /\ UNCHANGED <<input, at, path, headers, name, ret>>

Init ==
  /\ req \in Requests
  /\ LET stream == req.head \o req.body IN
     \E i \in 0..Len(stream) - 1 : \E j \in i + 1..Len(stream) :
       first = i /\ data = SubSeq(stream, i + 1, j)
  /\ step = "empty" /\ at = 0 /\ path = NoPath /\ headers = <<>> /\ name = NoName
  /\ ret = 0 /\ posted = Nothing

Next ==
  \/ EmptyLine \/ Method \/ Path \/ Version
  \/ HeadersFail \/ HeadEnd \/ Name \/ Fold \/ Value
  \/ Construct \/ TakePost

Spec == Init /\ [][Next]_vars

-----------------------------------------------------------------------------
(***************************************************************************)
(* Properties.                                                             *)
(***************************************************************************)
\* The head parser has returned.
Parsed == step \in {"parsed", "constructed", "crashed", "done"}

\* The head is in the buffer as a whole, and fits the array of headers.
Whole == req.sound /\ first = 0 /\ Size >= Len(req.head) /\ Len(req.lines) <= MaxHeaders

\* The type of the state; and no letter is read behind the buffer, of which the
\* version's last letter is the only place that does not look for the end
\* (picohttpparser.c:250-254).
HeadTypeOK ==
  /\ step \in {"empty", "method", "path", "version", "headers", "value", "parsed",
               "constructed", "crashed", "done"}
  /\ at \in 0..Size /\ ret \in -2..Size
  /\ path = NoPath \/ path \in Seq(Letters)
  /\ Len(headers) \in 0..MaxHeaders

\* A head that is in the buffer as a whole is found as it was meant, whatever
\* line ends it has and whatever follows it: its length, its path, its headers in
\* their order.  So the request is served as it was meant: with its keep-alive,
\* its 100 Continue, and what follows the head as its post data, of the kind
\* that its header tells (picohttpparser.c:269-333, server.c:216-290).
ServedAsMeant ==
  /\ Parsed /\ Whole =>
       /\ ret = Len(req.head) /\ path = req.path /\ headers = Headers(req)
       /\ keepAlive = req.keep /\ expectContinue = req.expect
  /\ step = "done" /\ Whole /\ ~req.expect =>
         posted = IF req.kind = "none" \/ Size = Len(req.head) THEN Nothing
                  ELSE [from |-> Len(req.head), kind |-> req.kind,
                        boundary |-> req.boundary]

\* The protocol is named in the request line and nowhere else: no request is sent
\* within another one.
NamedOnce(r) ==
  \A k \in DOMAIN (r.head \o r.body) :
    (r.head \o r.body)[k] = "HTTP/1." => k = Len(r.lead) + Len(r.method) + Len(r.path) + 3

\* Of a head that is cut, wherever, the parser says that it is incomplete, and
\* leaves only what was there in full: the path or none, and the first headers.
\* With too many headers it leaves those that fit (picohttpparser.c:282).  And
\* whatever other piece of a request is taken for one, it keeps no connection
\* and asks for no 100 Continue that its client did not, and has no headers if
\* it is of the body (server.c:207-249).  Server's ParseFragment relies on it, but
\* for a buffer that runs on into the next request, which no piece here does.
PieceMeant ==
  Parsed /\ req.sound =>
    /\ first = 0 =>
         /\ path \in {NoPath, req.path} /\ IsPrefix(headers, Headers(req))
         /\ Size < Len(req.head) /\ Len(req.lines) <= MaxHeaders => ret = -2
    /\ first = 0 \/ NamedOnce(req) =>
         /\ keepAlive => req.keep
         /\ expectContinue => req.expect
         /\ first >= Len(req.head) => headers = <<>>

\* The post data of a request that was read as a whole begins behind its head:
\* the parser returns the number of bytes consumed if it is successful, and is
\* not asked for the rest otherwise (picohttpparser.h:48-49, server.c:266-267).
PostBehindHead ==
  /\ first = 0 /\ Size = Len(req.head) + Len(req.body)
  /\ posted # Nothing
  => posted.from = Len(req.head)
=============================================================================
