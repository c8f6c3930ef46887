------------------------------ MODULE MCReply ------------------------------
(***************************************************************************)
(* Replies for TLC: whole ones in every spelling the parser knows, some of *)
(* these cut off at every place, some with one letter changed.  What is    *)
(* spelled is a pair of a doc, or a part of one, and its letters.          *)
(***************************************************************************)
EXTENDS Reply

MCSextet == [l \in {"A", "D", "P", "w", "8", "/"} |->
  CASE l = "A" -> 0 [] l = "D" -> 3 [] l = "P" -> 15
    [] l = "w" -> 48 [] l = "8" -> 60 [] l = "/" -> 63]

Short(letters, n) == UNION {[1..k -> letters] : k \in 0..n}
Bare(x) == [d |-> <<>>, x |-> x]

\* Text, and what may stand around it.
Plain(text) == [d |-> text, x |-> text]
Cdata1(text) == [d |-> text, x |-> <<"<", "!", "[", "CDATA", "[">> \o text \o <<"]", "]", ">">>]
Noise ==
  {Bare(<<"<", "!", "-", "-", "a", "-", ">", "-", "-", ">">>),
   Bare(<<"<", "?", "a", ">", "?", "?", ">">>), Bare(<<"<", "!", "a", "-", ">">>)}
Texts(letters, n) == {Plain(t) : t \in Short(letters, n)}
NoText == Plain(<<>>)

\* Attributes: in quotes a backslash goes in front of the quote and of a
\* backslash, without them in front of a blank and >, but never first.
Escape(value, marked) ==
  FlattenSeq([k \in DOMAIN value |-> IF value[k] \in marked THEN <<"bs", value[k]>> ELSE <<value[k]>>])
AttIs(key, value, x) == [d |-> [key |-> <<key>>, value |-> value], x |-> x]
Quoted(key, value, eq, q) ==
  AttIs(key, value, <<key>> \o eq \o <<q>> \o Escape(value, {q, "bs"}) \o <<q>>)
Unquoted(key, value) ==
  AttIs(key, value, <<key, "=">> \o Escape(value, {" ", ">", "bs"}))
NameQuoted(key, value) ==
  AttIs(key, value, <<"sq", key, "sq", "=", "dq">> \o value \o <<"dq">>)
A(key, value) == Quoted(key, value, <<"=">>, "dq")

\* Elements.
Start(name, atts) ==
  <<"<", name>> \o FlattenSeq([k \in DOMAIN atts |-> <<" ">> \o atts[k].x])
Doc(name, atts, text, kids) ==
  [name |-> name, atts |-> [k \in DOMAIN atts |-> atts[k].d], text |-> text,
   kids |-> [k \in DOMAIN kids |-> kids[k].d]]
Joined(kids) == FlattenSeq([k \in DOMAIN kids |-> kids[k].x])
El(name, atts, text, kids) ==
  [d |-> Doc(<<name>>, atts, text.d, kids),
   x |-> Start(name, atts) \o <<">">> \o text.x \o Joined(kids) \o <<"<", "/", name, ">">>]
Closed(name, atts) ==
  [d |-> Doc(<<name>>, atts, <<>>, <<>>), x |-> Start(name, atts) \o <<"/", ">">>]
Leaf(name, text) == El(name, <<>>, Plain(text), <<>>)
With(el, noise) == [el EXCEPT !.x = noise.x \o @]

Number == Leaf("rn", <<"1", "2">>)
Whole(els) ==
  [kind |-> "whole", doc |-> Doc(<<>>, <<>>, <<>>, els), xml |-> Joined(els) \o <<"nul">>]
Page1(els) == Whole(<<Number>> \o els)

\* Numbers: the one that is waited for, earlier and later ones, none.
Numbered ==
  {Whole(<<Leaf("rn", n), Leaf("body", <<"a">>)>>) :
     n \in {<<"1">>, <<"1", "1">>, <<"1", "2">>, <<"2", "0">>, <<"lf", "1", "2", "a">>, <<"a">>, <<>>}}
  \cup {Whole(<<Leaf("body", <<"a">>)>>), Whole(<<>>), Whole(<<Closed("rn", <<>>)>>)}

\* Bodies, with or without noise in front of or behind them.
Bodies ==
  {Page1(<<El("body", <<>>, t, <<>>)>>) :
     t \in Texts({"a", "lf", "/"}, 2) \cup {Cdata1(t) : t \in Short({"<", "]", ">"}, 2)}}
  \cup {Page1(<<With(Leaf("body", t), n)>>) : t \in Short({"a"}, 1), n \in Noise}
  \cup {Page1(<<El("body", <<>>, [d |-> t, x |-> n.x \o t], <<>>)>>) : t \in {<<"a">>}, n \in Noise}
  \cup {Page1(<<Closed("body", <<>>)>>), Page1(<<Closed("body", <<A("k", <<"a">>)>>)>>),
        Page1(<<Leaf("binary", <<"1">>)>>)}

Optional(name, texts) == {<<>>} \cup {<<Leaf(name, t)>> : t \in texts}
Decoded ==
  {Page1(<<Leaf("binary", n), Leaf("body", t)>>) :
     n \in {<<"1">>, <<"2">>, <<"3">>},
     t \in {<<"D">>, <<"D", "w">>, <<"/", "A">>, <<"P", "/", "8">>, <<"/", "/", "lf", "A", "D">>,
            <<"A", " ", "A", "A">>, <<"D", "w", "=", "=">>, <<"w", "=", "A", "A">>,
            <<"D", "/", "A", "A", "P">>, <<"D", "/", "A", "A", "P", "w">>}}
Heads ==
  {Page1(r \o c \o b) : r \in Optional("redirect", {<<>>, <<"/", "a">>}),
     c \in Optional("content_type", {<<>>, <<"a">>, <<"a", "/", "b">>, <<"a", "/", "b", "c">>}),
     b \in Optional("body", {<<>>, <<"a">>})}

\* Cookies.
Cookie1(atts, kids) == El("cookie", atts, NoText, kids)
KeyAndVal ==
  {<<>>, <<A("key", <<"a">>)>>, <<A("val", <<"a">>)>>, <<A("val", <<"b">>), A("key", <<"a">>)>>,
   <<A("key", <<"a">>), A("val", <<>>)>>}
CookieKids == {p \o e : p \in Optional("path", {<<"b">>, <<>>}), e \in Optional("expires", {<<"3">>})}
Good == Cookie1(<<A("key", <<"b">>), A("val", <<"1">>)>>, <<>>)
CookiePages ==
  {Page1(<<Cookie1(kv, k)>>) : kv \in KeyAndVal, k \in CookieKids}
  \cup {Page1(<<Cookie1(kv, k), Good>>) : kv \in KeyAndVal, k \in Optional("path", {<<"b">>})}
  \cup {Page1(<<Good, Good, Good>>), Page1(<<Good, Closed("cookie", <<>>), Leaf("body", <<"a">>)>>)}

\* Every spelling of a value, and of the = in front of it.
Values == Short({"a", "dq", "bs", " ", "/", ">"}, 2)
AttSpellings ==
  {Quoted("key", v, <<"=">>, q) : v \in Values, q \in {"dq", "sq", "bq"}}
  \cup {Unquoted("key", v) : v \in {v \in Values : v # <<>> /\ v[1] = "a" /\ Last(v) # "/"}}
  \cup {NameQuoted("key", <<"a">>)}
Equals == {<<" ", "=">>, <<"=", " ">>, <<" ", " ", "=">>, <<" ", "lf", "=">>}
Spelled ==
  {Page1(<<Cookie1(<<s, A("val", <<"1">>)>>, <<>>)>>) : s \in AttSpellings}
  \cup {Page1(<<Closed("cookie", <<A("val", <<"1">>), s>>), Good>>) : s \in AttSpellings}
  \cup {Page1(<<Cookie1(<<Quoted("key", <<"a">>, eq, "sq"), A("val", <<"1">>)>>, <<>>)>>) : eq \in Equals}
  \cup {Page1(<<Cookie1(<<A("a", <<"a">>), A("a", <<"b">>), A("a", v)>>, <<>>)>>) : v \in {<<"a">>}}

WholeReplies == Numbered \cup Bodies \cup Decoded \cup Heads \cup CookiePages \cup Spelled

\* Whole pages with all there is to be cut or changed.
Samples ==
  {Page1(<<With(Cookie1(<<Quoted("key", <<"a", "sq">>, <<" ", "=">>, "sq"), Unquoted("val", <<"a", ">">>)>>,
                        <<Leaf("path", <<"b">>)>>), n),
           El("body", <<>>, Cdata1(<<"<", "]">>), <<>>)>>) : n \in Noise}
  \cup {Page1(<<Closed("cookie", <<NameQuoted("key", <<"a">>), Quoted("val", <<"bs">>, <<"=">>, "bq")>>),
                Closed("redirect", <<>>), Leaf("body", <<"a", "/">>)>>)}

Cut(page) ==
  {[page EXCEPT !.kind = "cut", !.xml = SubSeq(@, 1, n) \o <<"nul">>] : n \in 0..Len(page.xml) - 2}
Garbled(page) ==
  {[page EXCEPT !.kind = "garbled", !.xml = [@ EXCEPT ![k] = l]] :
     k \in 1..Len(page.xml) - 1, l \in {"<", "/", "bs", "sq"}}

MCReplies ==
  WholeReplies \cup (UNION {Cut(p) : p \in Samples})
    \cup UNION {Garbled(p) : p \in {p \in Samples : "-" \notin Range(p.xml)}}
=============================================================================
