------------------------------ MODULE MCRequest ------------------------------
(***************************************************************************)
(* Instances of Request for TLC.  Paths are all of up to five bytes over   *)
(* an alphabet that spells escapes of t (%74), and some longer ones.  The  *)
(* buffer of 5000 bytes is scaled down, so that some paths make it grow.   *)
(* Bodies are all short urlencoded ones, multipart bodies of one and two   *)
(* parts with all short data, some of these cut off at every place, one    *)
(* garbled at every place.  All paths come with one body, all bodies with  *)
(* one path: neither reads what the other left.                            *)
(***************************************************************************)
EXTENDS Request

t == 116
x == 120
apostrophe == 39
seven == 55
four == 52

MCByte == 0..255
MCAlphabet == {Slash, Percent, t, seven, four, apostrophe}
MCTails == UNION {[1..n -> MCAlphabet] : n \in 0..4}
MCLonger ==
  {<<t, Slash, x, x, t, x, x>>, <<t, x, Slash, t, x>>,
   <<Percent, seven, four, Slash, Percent, seven, four, x>>,
   <<t, apostrophe, apostrophe, apostrophe, apostrophe, x, x>>}
MCPaths == {<<Slash>> \o tail0 : tail0 \in MCTails \cup MCLonger} \ {<<Slash>>}
MCHeap == {0, Slash, x}
MCFolders == <<<<t>>, <<t, x>>>>
MCPreamble == <<<<x, x>>, <<x, x, x>>>>
MCClosing == <<apostrophe>>

MCBoundary == <<"-", "-", "B">>

UpTo(letters, n) == UNION {[1..k -> letters] : k \in 0..n}

\* Data may have a boundary in it, at the start of a line as well.
DataUpTo(n) == UpTo({"cr", "lf", "-", "B", "x"}, n)

Part(name, data, typed) ==
  [named |-> TRUE, typed |-> typed, name |-> name, data |-> data]
NoName(data) == [named |-> FALSE, typed |-> FALSE, name |-> <<>>, data |-> data]

Multipart(parts) ==
  [kind |-> "multipart", got |-> TRUE, body |-> Post!EncodeParts(parts), parts |-> parts]

OnePart == {<<Part(<<"x">>, d, FALSE)>> : d \in DataUpTo(5)}
TwoParts ==
  {<<Part(<<"x">>, d, TRUE), Part(<<>>, e, FALSE)>> : d \in DataUpTo(3), e \in DataUpTo(1)}
Nameless ==
  {<<Part(<<"x">>, <<"x">>, FALSE), NoName(<<"B">>)>>, <<NoName(<<"x">>)>>}

\* A body that ends at each of its places.
Cut(parts) ==
  LET p == Multipart(parts) IN
  {[p EXCEPT !.body = SubSeq(p.body, 1, n)] : n \in 0..Len(p.body) - 1}

MCCut ==
  UNION {Cut(<<Part(<<"x", "B">>, d, TRUE), Part(<<"x">>, <<"lf", "-", "x">>, FALSE)>>) :
           d \in DataUpTo(2)}

\* A body with one letter changed, of which nothing is known to be meant.
Garbled ==
  LET p == Multipart(<<Part(<<"x">>, <<"x">>, TRUE), Part(<<"B">>, <<>>, FALSE)>>) IN
  {[p EXCEPT !.body[n] = l, !.parts = <<NoName(<<>>)>>] :
     n \in 1..Len(p.body), l \in {"x", "=", "lf", "-", ":", "cr"}}

\* With an Expect header, an empty body may be parsed and one that is there
\* be ignored.
UrlBodies ==
  {[kind |-> "urlenc", got |-> g, body |-> b, parts |-> <<>>] :
     b \in UpTo({"=", "&", "x"}, 6), g \in BOOLEAN}

Unparsed ==
  {[kind |-> k, got |-> g, body |-> b, parts |-> <<>>] :
     k \in {"none", "raw"}, g \in BOOLEAN, b \in {<<>>, <<"x">>}}

MCPosts ==
  {Multipart(parts) : parts \in OnePart \cup TwoParts \cup Nameless}
    \cup MCCut \cup Garbled \cup UrlBodies \cup Unparsed

Requested(paths, posts) == {[path |-> p, post |-> b] : p \in paths, b \in posts}

NoPost == [kind |-> "none", got |-> FALSE, body |-> <<>>, parts |-> <<>>]

MCRequests ==
  Requested(MCPaths, {NoPost}) \cup Requested({<<Slash, x, apostrophe>>}, MCPosts)

MCAllRequests == Requested(MCPaths \cup {<<Slash>>}, {NoPost})
=============================================================================
