------------------------------- MODULE Reply -------------------------------
(***************************************************************************)
(* What a worker makes of a reply it has received: it parses the XML,      *)
(* compares the number, fills a responsec (lumithc::process_results,       *)
(* cookies.c) and writes it to the client (response.c).                    *)
(***************************************************************************)
EXTENDS XmlParser, Base64

CONSTANTS
  Replies,     \* the replies the backend may send
  RequestNum,  \* the number of the request that waits
  TypeRoom     \* room for the content type in send's tmp: 81 in the code

(* xml is what arrives.  doc is what the backend means by it: elements     *)
(* [name, atts, text, kids], where text is what comes before the first tag *)
(* or comment.  The xml may be cut short, with the NUL somewhere inside;   *)
(* garbled xml means nothing.                                              *)
\* Neither a CDATA section nor the / or backslash in front of a letter is left
\* open by the end of xml.
EndsClosed(xml) ==
  /\ Len(xml) > 1 => xml[Len(xml) - 1] \notin {"/", "bs"}
  /\ \A k \in DOMAIN xml : xml[k] = "CDATA" =>
       \E m \in k + 2..Len(xml) - 3 : SubSeq(xml, m, m + 2) = <<"]", "]", ">">>

ASSUME RepliesAssumption ==
  \A r \in Replies :
    /\ DOMAIN r = {"xml", "doc", "kind"}
    /\ r.kind \in {"whole", "cut", "garbled"}
    /\ r.xml \in Seq(STRING) /\ r.xml # <<>> /\ Last(r.xml) = "nul"
    /\ r.kind = "whole" => EndsClosed(r.xml)
ASSUME RoomAssumption == TypeRoom \in Nat /\ RequestNum \in Nat

VARIABLES
  reply,     \* the reply
  stage,     \* "parse", "render", "send", "destroy", "served", "dropped", "crashed"
  response,  \* the responsec
  wire       \* what was written to the client

allvars == <<heap, parser, reply, stage, response, wire>>

Digits == <<"0", "1", "2", "3">>

\* atoi: blanks, digits, and what follows is not looked at.
Atoi(text) ==
  LET from(s, Skipped(_)) ==
        LET k == SelectInSeq(s, LAMBDA l : ~Skipped(l)) IN
        IF k = 0 THEN Len(s) + 1 ELSE k
      isBlank(l) == l \in Blank
      isDigit(l) == l \in Range(Digits)
      rest == SubSeq(text, from(text, isBlank), Len(text))
      digits == SubSeq(rest, 1, from(rest, isDigit) - 1)
  IN  FoldLeft(LAMBDA n, l : 10 * n + SelectInSeq(Digits, LAMBDA d : d = l) - 1, 0, digits)

\* getval: the text of a value, or whatever is read for one that was not set.
Value(entry, unset) == IF entry.value = Unset THEN unset ELSE Text(entry.value)

\* getnodes; getnode, which finds the first, or none.
FirstOf(s) == IF s = <<>> THEN <<>> ELSE <<s[1]>>
Subs(node, name) == Named([k \in DOMAIN node.kids |-> nodes[node.kids[k]]], <<name>>)
Sub(node, name) == FirstOf(Subs(node, name))
SubValue(node, name, unset, default) ==
  IF Sub(node, name) = <<>> THEN default ELSE Value(Sub(node, name)[1], unset)

\* getatt.
Att(node, name) == FirstOf(Named(node.atts, <<name>>))

Page == nodes[Root]
Cookies == Subs(Page, "cookie")

Default ==
  [cookies |-> <<>>, redirect |-> <<>>, contentType |-> <<"html">>, body |-> <<>>]
Error == <<"error">>
-----------------------------------------------------------------------------
(***************************************************************************)
(* handle_req, from nn_recv to its return.                                 *)
(***************************************************************************)
ParseLetter ==
  /\ stage = "parse"
  /\ Parse
  /\ UNCHANGED <<reply, stage, response, wire>>

\* request_num_verify, which may be anything if <rn> is empty.
Numbers ==
  CASE Sub(Page, "rn") = <<>> -> {-1}
    [] OTHER -> IF Sub(Page, "rn")[1].value = Unset
                THEN Unwritten(0, {RequestNum})
                ELSE {Atoi(Text(Sub(Page, "rn")[1].value))}

\* The tree is looked at whether or not the parse ended in an error.
Verify ==
  /\ stage = "parse"
  /\ label \in {"done", "error"}
  /\ \E n \in Numbers : stage' = IF n < RequestNum THEN "dropped" ELSE "render"
  /\ UNCHANGED <<heap, parser, reply, response, wire>>

\* Mutant of Cookie: a cookie needs a path.
MutCookieNeedsPath(node, unset) ==
  IF Sub(node, "path") = <<>> THEN <<>>
  ELSE << [name    |-> <<>>, value |-> <<>>, path |-> SubValue(node, "path", unset, <<>>),
           expires |-> <<>>] >>

\* addCookie makes none without a key and a val; cookieExpireSeconds.
Cookie(node, unset) ==
  IF Att(node, "key") = <<>> \/ Att(node, "val") = <<>> THEN <<>>
  ELSE << [name    |-> Value(Att(node, "key")[1], <<>>),
           value   |-> Value(Att(node, "val")[1], <<>>),
           path    |-> SubValue(node, "path", unset, <<"/">>),
           expires |-> IF Sub(node, "expires") = <<>> THEN <<>>
                       ELSE <<Atoi(SubValue(node, "expires", unset, <<>>))>>] >>

\* cookieExpireSeconds is called on the cookie that addCookie did not make.
NoCookieToExpire ==
  \E node \in Range(Cookies) : Cookie(node, <<>>) = <<>> /\ Sub(node, "expires") # <<>>

\* A node or an attribute whose value process_results reads was not given one.
ReadsUnset ==
  LET pageNodes == {"redirect", "content_type", "body"}
                     \cup IF Sub(Page, "body") # <<>> THEN {"binary"} ELSE {}
      readNodes == (UNION {Range(Sub(Page, n)) : n \in pageNodes})
                     \cup UNION {Range(Sub(c, n)) : c \in Range(Cookies), n \in {"path", "expires"}}
      readAtts == UNION {Range(Att(c, n)) : c \in Range(Cookies), n \in {"key", "val"}}
  IN  \/ \E e \in readNodes : e.value = Unset
      \/ \E e \in readAtts : e.value = Unset

\* The body, decoded if <binary> has the length it comes to.
Body(unset) ==
  LET text == SubValue(Page, "body", unset, <<>>)
      binlen == Atoi(SubValue(Page, "binary", unset, <<>>))
      made == Base64Decode(text, binlen)
  IN  CASE Sub(Page, "body") = <<>> \/ Sub(Page, "binary") = <<>> -> text
        [] OTHER -> IF made.ok /\ Len(made.out) = binlen THEN made.out ELSE Error

\* process_results.  What it reads of a node's value that was not set is a
\* rest of an earlier reply, if that has not gone.
ProcessResults ==
  /\ stage = "render"
  /\ ~NoCookieToExpire
  /\ \E unset \in Unwritten(<<>>, {<<"stale">>}) :
       response' =
         [cookies     |-> FlattenSeq([k \in DOMAIN Cookies |-> Cookie(Cookies[k], unset)]),
          redirect    |-> SubValue(Page, "redirect", unset, <<>>),
          contentType |-> SubValue(Page, "content_type", unset, <<"html">>),
          body        |-> Body(unset)]
  /\ stage' = "send"
  /\ UNCHANGED <<heap, parser, reply, wire>>

\* The process ends.
Crash ==
  /\ \/ stage = "parse" /\ label = "crashed"
     \/ stage = "render" /\ NoCookieToExpire
     \/ stage = "render" /\ heap = "used" /\ ReadsUnset
     \/ stage = "send" /\ Len(response.contentType) > TypeRoom
  /\ stage' = "crashed"
  /\ UNCHANGED <<heap, parser, reply, response, wire>>
-----------------------------------------------------------------------------
(***************************************************************************)
(* send and ~responsec.                                                    *)
(***************************************************************************)
\* bodyLen, which is never 0: even a redirect has a length and a type.
Announced == Len(response.body) + 1

\* Both buffers are written with the NUL behind them.
Send ==
  /\ stage = "send"
  /\ wire' = [head  |-> [redirect    |-> response.redirect,
                         cookies     |-> response.cookies,
                         length      |-> Announced,
                         contentType |-> response.contentType],
              bytes |-> <<"nul">> \o response.body \o <<"nul">>]
  /\ stage' = "destroy"
  /\ UNCHANGED <<heap, parser, reply, response>>

\* ~nodec follows pointers to children, attributes and siblings that were
\* not set.
Destroy ==
  /\ stage = "destroy"
  /\ stage' \in Unwritten("served", {"crashed"})
  /\ UNCHANGED <<heap, parser, reply, response, wire>>
-----------------------------------------------------------------------------
ReplyInit ==
  /\ heap \in {"fresh", "used"}
  /\ reply \in Replies /\ mem = reply.xml
  /\ ParseInit
  /\ stage = "parse" /\ response = Default /\ wire = <<>>

ReplyNext == ParseLetter \/ Verify \/ ProcessResults \/ Crash \/ Send \/ Destroy

\* A worker does nothing else meanwhile.
ReplySpec == ReplyInit /\ [][ReplyNext]_allvars /\ WF_allvars(ReplyNext)
-----------------------------------------------------------------------------
(***************************************************************************)
(* Properties.                                                             *)
(***************************************************************************)
Pieces ==
  LET ofNode(n) == {nodes[n].name, nodes[n].value}
      ofAtts(n) == UNION {{a.name, a.value} : a \in Range(nodes[n].atts)}
  IN  {tag, att, val} \cup UNION {ofNode(n) \cup ofAtts(n) : n \in DOMAIN nodes}

\* Types: every piece lies in the message, and so does the place behind it, where
\* escape_att puts a NUL (parser.c:673-692).  The parser is led out of the message
\* only by a NUL where it takes the next letter for granted (behind / and the
\* backslash) or does not look for one (CDATA), so never by a whole reply.
ReplyTypeOK ==
  /\ stage \in {"parse", "render", "send", "destroy", "served", "dropped", "crashed"}
  /\ \A n \in DOMAIN nodes : Range(nodes[n].kids) \subseteq DOMAIN nodes
  /\ cpos <= Len(mem) =>
       \A p \in Pieces : p.at = 0 \/ p.at + p.len <= Len(mem)
  /\ cpos > Len(mem) =>
       /\ reply.kind # "whole"
       /\ label = "cdata" \/ reply.xml[Len(mem) - 1] \in {"/", "bs"}

\* The tree below a node, as a doc.
Tree[n \in DOMAIN nodes] ==
  [name |-> Text(nodes[n].name),
   atts |-> [a \in DOMAIN nodes[n].atts |->
               [key   |-> Text(nodes[n].atts[a].name),
                value |-> Value(nodes[n].atts[a], <<>>)]],
   text |-> Value(nodes[n], <<>>),
   kids |-> [k \in DOMAIN nodes[n].kids |-> Tree[nodes[n].kids[k]]]]

\* What a doc comes to on the page, from the docs themselves.
Named1(kids, name) == SelectSeq(kids, LAMBDA d : d.name = <<name>>)
TextOf(kids, name, default) ==
  IF Named1(kids, name) = <<>> THEN default ELSE Named1(kids, name)[1].text

MeantCookie(d) ==
  LET of(key) == SelectSeq(d.atts, LAMBDA a : a.key = <<key>>)[1].value IN
  [name    |-> of("key"), value |-> of("val"), path |-> TextOf(d.kids, "path", <<"/">>),
   expires |-> IF Named1(d.kids, "expires") = <<>> THEN <<>>
               ELSE <<Atoi(TextOf(d.kids, "expires", <<>>))>>]

\* A cookie needs a key and a val.
Complete(d) == \A key \in {"key", "val"} : \E a \in Range(d.atts) : a.key = <<key>>

\* The bytes that the letters are six bits each of.
BytesOf(bits) ==
  LET bit(n) == (Sextet[bits[n \div 6 + 1]] \div 2^(5 - (n % 6))) % 2 IN
  [k \in 1..(6 * Len(bits)) \div 8 |->
     FoldLeft(LAMBDA v, i : 2 * v + bit(8 * (k - 1) + i), 0, <<0, 1, 2, 3, 4, 5, 6, 7>>)]

MeantBody(kids) ==
  LET text == TextOf(kids, "body", <<>>)
      data == SubSeq(text, 1, SelectInSeq(Append(text, "="), LAMBDA l : l = "=") - 1)
      bits == SelectSeq(data, LAMBDA l : l # "lf")
      valid == Range(bits) \subseteq DOMAIN Sextet
               /\ Len(BytesOf(bits)) = Atoi(TextOf(kids, "binary", <<>>))
  IN  CASE Named1(kids, "binary") = <<>> \/ Named1(kids, "body") = <<>> -> text
        [] OTHER -> IF valid THEN BytesOf(bits) ELSE Error

Meant(kids) ==
  LET cookies == SelectSeq(Named1(kids, "cookie"), Complete) IN
  [redirect    |-> TextOf(kids, "redirect", <<>>),
   cookies     |-> [k \in DOMAIN cookies |-> MeantCookie(cookies[k])],
   contentType |-> TextOf(kids, "content_type", <<"html">>),
   body        |-> MeantBody(kids)]

Awaited(kids) ==
  Named1(kids, "rn") # <<>> /\ Atoi(TextOf(kids, "rn", <<>>)) >= RequestNum

\* The client takes as many bytes behind the head as were announced.
Received ==
  [redirect    |-> wire.head.redirect,
   cookies     |-> wire.head.cookies,
   contentType |-> wire.head.contentType,
   body        |-> SubSeq(wire.bytes, 1, wire.head.length)]

\* No element of the page, and none within these, is empty, but for cookies,
\* which have no text; and no attribute of theirs has an empty value.
Filled(doc) ==
  LET kids == Range(doc.kids) IN
  \A d \in kids \cup UNION {Range(k.kids) : k \in kids} :
    /\ \A a \in Range(d.atts) : a.value # <<>>
    /\ d.text # <<>> \/ d.name = <<"cookie">>

\* At the end of a whole reply the tree is what the backend meant: element in
\* element, in order, each attribute with its value, however it was quoted
\* and escaped, and comments, declarations and blanks left no trace.
TreeMeant ==
  label = "done" /\ reply.kind = "whole" /\ stage = "parse" => Tree[Root].kids = reply.doc.kids

\* The element that a node was made of: the one at its place below its parent.
MeantBy[n \in DOMAIN nodes] ==
  IF n = Root THEN reply.doc
  ELSE LET siblings == nodes[nodes[n].parent].kids IN
       MeantBy[nodes[n].parent].kids[SelectInSeq(siblings, LAMBDA k : k = n)]

\* A cut reply never yields what was not in it: the tree is a start of the one
\* that was meant.
CutTreeBegins ==
  label = "done" /\ reply.kind = "cut" =>
    \A n \in DOMAIN nodes :
      LET t == Tree[n]
          d == MeantBy[n]
      IN  /\ IsPrefix(t.text, d.text)
          /\ Len(t.atts) <= Len(d.atts) /\ Len(t.kids) <= Len(d.kids)
          /\ \A a \in DOMAIN t.atts :
               /\ t.atts[a].key = d.atts[a].key
               /\ t.atts[a].value \in {d.atts[a].value, <<>>}
          /\ \A k \in DOMAIN t.kids :
               /\ t.kids[k].name = d.kids[k].name
               /\ k < Len(t.kids) => t.kids[k] = d.kids[k]

\* A whole reply is served if and only if its number is that of the request
\* or a later one, and then what the client reads is what the backend meant,
\* for all the length that is announced, but for the NUL of the head, which
\* takes the place of the body's: the body comes one byte late, one NUL stays
\* behind.  It holds of every reply in fresh memory, and of one without empty
\* values in memory that was used.
ReplyDelivered ==
  reply.kind = "whole" /\ (heap = "fresh" \/ Filled(reply.doc)) =>
    LET meant == Meant(reply.doc.kids) IN
    /\ stage = "dropped" => ~Awaited(reply.doc.kids)
    /\ wire # <<>> =>
         /\ Awaited(reply.doc.kids)
         /\ Received = [meant EXCEPT !.body = <<"nul">> \o @]
         /\ SubSeq(wire.bytes, wire.head.length + 1, Len(wire.bytes)) = <<"nul">>

\* In fresh memory a worker survives every reply but these: a cookie that
\* expires and has no key or no val, a content type too long for tmp, and an
\* attribute value that starts with a backslash and no quote.
ReplySurvived ==
  stage = "crashed" /\ heap = "fresh" =>
    \/ label = "crashed" /\ mem[cpos] \in {" ", ">", "/"} /\ escaped
    \/ \E d \in Range(Tree[Root].kids) :
         d.name = <<"cookie">> /\ ~Complete(d) /\ Named1(d.kids, "expires") # <<>>
    \/ Len(response.contentType) > TypeRoom

\* A parse hangs on the third element or attribute of one name in an element,
\* and behind a name in quotes without a value.
Hangs ==
  /\ label = "hung"
  /\ \/ \E n \in DOMAIN nodes :
          \/ \E k \in DOMAIN nodes[n].kids : Len(Named(Kids(n), nodes[nodes[n].kids[k]].key)) >= 3
          \/ \E a \in Range(nodes[n].atts) : Len(Named(nodes[n].atts, a.key)) >= 3
     \/ mem[cpos - 1] = "sq" /\ Letter # "="

\* Every parse ends, and the worker serves or drops the reply, but for one
\* that hangs, or that the parser follows out of the buffer.
ReplyEnds ==
  <>(Hangs \/ cpos > Len(mem) \/ stage \in {"served", "dropped", "crashed"})
=============================================================================
