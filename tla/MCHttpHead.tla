----------------------------- MODULE MCHttpHead -----------------------------
(***************************************************************************)
(* Instances of HttpHead for TLC: requests with each spelling of the       *)
(* request line and up to MaxHeaders headers of each kind, one with one    *)
(* header too many, each with and without a body and cut to every piece;   *)
(* and one garbled at every place.  There is room for three headers        *)
(* instead of 15.                                                          *)
(***************************************************************************)
EXTENDS HttpHead, TLC

Crlf == <<"CR", "LF">>

\* A line of a head, but for its end.
Line(n, b, v) == [name |-> n, blanks |-> b, value |-> v, eol |-> <<>>]
Plain(n, v) == Line(n, <<>>, v)
Spaced(n, v) == Line(n, <<"SP", "HT">>, v)

Keep == Spaced(<<"Connection">>, <<"keep-alive">>)
Closing == Plain(<<"Connection">>, <<"t">>)
Expecting == Spaced(<<"Expect">>, <<"100-Continue">>)
MultiPost == Spaced(<<"Content-Type">>, <<"multipart/form-data; boundary=", "t", "1">>)
UrlPost == Plain(<<"Content-Type">>, <<"application/x-www-form-urlencoded">>)
JsonPost == Plain(<<"Content-Type">>, <<"application/json">>)
Other == Spaced(<<"t", "t">>, <<"t", "SP", ":", "HT", "t">>)
EmptyValue == Plain(<<"t">>, <<>>)
FoldedLine == Line(<<>>, <<>>, <<"SP", "keep-alive">>)

KindOf(line) ==
  CASE line = MultiPost -> "multipart"
    [] line = UrlPost -> "urlencoded"
    [] line = JsonPost -> "raw"
    [] OTHER -> "none"

Request(lead, path0, eol, lines, body) ==
  LET telling == {k \in DOMAIN lines : KindOf(lines[k]) # "none"}
      kind0 == IF telling = {} THEN "none" ELSE KindOf(lines[Max(telling)])
      r == [lead |-> lead, method |-> <<"t">>, path |-> path0, eol |-> eol,
            lines |-> [k \in DOMAIN lines |-> [lines[k] EXCEPT !.eol = eol]],
            last |-> eol, body |-> body,
            keep |-> Keep \in Range(lines),
            expect |-> Expecting \in Range(lines),
            kind |-> kind0,
            boundary |-> IF kind0 = "multipart" THEN <<"t", "1">> ELSE <<>>,
            sound |-> TRUE]
  IN  [head |-> SpelledHead(r)] @@ r

Body == <<"t", "CR", "LF", "1">>
\* Another request.
Inner == <<"t", "SP", "/", "SP", "HTTP/1.", "1", "LF", "Connection", ":", "keep-alive", "LF", "LF">>
SomePath == <<"/", "t">>

RequestLines ==
  {Request(lead, path0, eol, lines, body) :
     lead \in {<<>>, Crlf, <<"LF">>}, path0 \in {SomePath, <<"/">>, <<>>},
     eol \in {Crlf, <<"LF">>}, lines \in {<<>>, <<UrlPost>>}, body \in {<<>>, Body, Inner}}

Lines ==
  {Keep, Closing, Expecting, MultiPost, UrlPost, JsonPost, Other, EmptyValue}

HeaderLines ==
  {Request(<<>>, SomePath, eol, lines, Body) :
     eol \in {Crlf, <<"LF">>},
     lines \in {<<k, l>> : k, l \in Lines}
               \cup {<<Other, FoldedLine, l>> : l \in Lines}
               \cup {<<Expecting, l, UrlPost>> : l \in Lines}}

Crowded ==
  Request(<<>>, SomePath, Crlf, <<UrlPost, Other, Keep, Closing>>, Body)

Sound == Request(<<>>, SomePath, Crlf, <<Keep, FoldedLine, MultiPost>>, Body)
Garbled ==
  {[Sound EXCEPT !.sound = FALSE, !.head = [Sound.head EXCEPT ![k] = l]] :
     k \in DOMAIN Sound.head, l \in {"t", "SP", "CR", "LF", ":", "CTL"}}

MCRequests == RequestLines \cup HeaderLines \cup Garbled \cup {Sound, Crowded}
MCCrowded == {Crowded}
=============================================================================
