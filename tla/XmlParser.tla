----------------------------- MODULE XmlParser -----------------------------
(***************************************************************************)
(* parserc::parse (parser.c): the XML of a reply, a letter at a time, into *)
(* nodes and attributes that point into the buffer the reply came in.      *)
(*                                                                         *)
(* The buffer is a sequence of letters that ends with a NUL: one that was  *)
(* sent, or the first that lies behind the message, whose length the       *)
(* parser is not told.  "CDATA" is one letter, "lf" any line end; "dq",    *)
(* "sq" and "bq" are the quotes, "bs" the backslash.                       *)
(*                                                                         *)
(* The constructors of nodec and attc leave most fields as they find them. *)
(* In memory that is "fresh" these are zero; in memory that was "used", by *)
(* an earlier reply say, they may be anything.                             *)
(***************************************************************************)
EXTENDS Integers, Sequences, SequencesExt

VARIABLES
  heap,     \* the memory new nodes get: "fresh" or "used"
  mem,      \* the buffer, which escape_att writes to
  label,    \* where in parse
  cpos,     \* the letter looked at, counted from 1
  nodes,    \* the nodes, by their pos; the root is the first
  curnode,  \* the node being filled
  curatt,   \* the attribute being filled: <<its node, its place>>
  tag,      \* tagname, tagname_len
  att,      \* attname, attname_len
  val,      \* attval, attval_len
  escaped   \* att_escaped

dom == <<nodes, curnode, curatt, mem>>
marks == <<tag, att, val, escaped>>
parser == <<label, cpos, dom, marks>>

Root == 1

\* A piece of the buffer; Unset stands for fields that were not written.
Piece(at, len) == [at |-> at, len |-> len]
Unset == Piece(0, 0)
Text(piece) == SubSeq(mem, piece.at, piece.at + piece.len - 1)
Longer(piece, n) == [piece EXCEPT !.len = @ + n]

NewNode(parent, name) ==
  [parent |-> parent, name |-> name, key |-> Text(name), value |-> Unset,
   numvals |-> 0, kids |-> <<>>, atts |-> <<>>]

\* The letter looked at, and whether l comes behind it.
Letter == mem[cpos]
Follows(l) == cpos < Len(mem) /\ mem[cpos + 1] = l

\* A label that looks for a NUL ends the parse there; one that does not may
\* go on behind the buffer.
At(l) == label = l /\ cpos <= Len(mem)

\* Mutant of Sees: the NUL is a letter like any other.
MutSeesNul(l) == At(l)

Sees(l) == At(l) /\ Letter # "nul"

Go(l, n) == label' = l /\ cpos' = cpos + n
Enter(l, n) == Go(l, n) /\ UNCHANGED curnode

\* The outcomes of a read of what was not written: the one for zero, and
\* for used memory those of other values as well.
Unwritten(zero, others) ==
  IF heap = "fresh" THEN {zero} ELSE {zero} \cup others

Blank == {" ", "lf"}
-----------------------------------------------------------------------------
(***************************************************************************)
(* What the labels do to the tree.                                         *)
(***************************************************************************)
\* string_tree_c::rawget: found by the hash of the key, and by the text that
\* the name points to.
Named(entries, text) ==
  SelectSeq(entries, LAMBDA e : e.key = text /\ Text(e.name) = text)

Kids(node) == [k \in DOMAIN nodes[node].kids |-> nodes[nodes[node].kids[k]]]

\* Storing the third of one name never ends (StringTree: StoreLen).
Stored(entries, text, go) ==
  IF text # <<>> /\ Len(Named(entries, text)) >= 2 THEN Enter("hung", 0) ELSE go

\* addchildr.
AddChild(go) ==
  /\ nodes' = Append([nodes EXCEPT ![curnode].kids = Append(@, Len(nodes) + 1)],
                     NewNode(curnode, tag))
  /\ Stored(Kids(curnode), Text(tag), go)

\* addattr, after which att is empty.
AddAttr(go) ==
  LET atts == nodes[curnode].atts IN
  /\ nodes' = [nodes EXCEPT ![curnode].atts =
                 Append(@, [name |-> att, key |-> Text(att), value |-> Unset])]
  /\ curatt' = <<curnode, Len(atts) + 1>>
  /\ att' = [att EXCEPT !.len = 0]
  /\ Stored(atts, Text(att), go)

\* The element ends: curnode becomes its parent.  The root's was never set.
Leave(l, n) ==
  IF curnode # Root
  THEN curnode' = nodes[curnode].parent /\ Go(l, n)
  ELSE /\ label' \in Unwritten("done", {"crashed"})
       /\ UNCHANGED <<curnode, cpos>>

\* Mutant of Unescaped: a backslash behind a backslash goes as well.
MutUnescapedTwice(piece) == SelectSeq(Text(piece), LAMBDA x : x # "bs")

\* escape_att: backslashes go, what is behind each stays.
Unescaped(piece) ==
  LET s == SubSeq(mem, piece.at, piece.at + piece.len)
      rest[k \in 1..piece.len + 2] ==
        IF k > piece.len THEN <<>>
        ELSE IF s[k] = "bs" THEN <<s[k + 1]>> \o rest[k + 2]
        ELSE <<s[k]>> \o rest[k + 1]
  IN  rest[1]

Overwritten(at, s) ==
  [k \in 1..Len(mem) |-> IF k \in at..at + Len(s) - 1 THEN s[k - at + 1] ELSE mem[k]]

\* curatt gets val, which is empty then.  escape_att rewrites it in the
\* buffer, with a NUL behind.  An unquoted value that starts with a backslash
\* is looked for where the value before it was, if there was one.
SetValue(go) ==
  IF escaped /\ val.at = 0
  THEN Enter("crashed", 0) /\ UNCHANGED <<mem, nodes, val>>
  ELSE LET new == Unescaped(val) IN
       /\ nodes' = [nodes EXCEPT ![curatt[1]].atts[curatt[2]].value =
                      IF escaped THEN Piece(val.at, Len(new)) ELSE val]
       /\ mem' = IF escaped THEN Overwritten(val.at, Append(new, "nul")) ELSE mem
       /\ val' = [val EXCEPT !.len = 0]
       /\ go

\* A letter of text or CDATA behind the first: only the first run counts.
RunLetter ==
  nodes' = IF nodes[curnode].numvals = 1
           THEN [nodes EXCEPT ![curnode].value = Longer(@, 1)] ELSE nodes

\* The first letter of a run: where the value starts, if it is the first run.
RunStart ==
  nodes' = [nodes EXCEPT
              ![curnode].value = IF nodes[curnode].numvals = 0 THEN Piece(cpos, 1) ELSE @,
              ![curnode].numvals = @ + 1]
-----------------------------------------------------------------------------
(***************************************************************************)
(* The labels of parse.                                                    *)
(***************************************************************************)
Looking == {"val_1", "val_x", "comment", "pi", "bang", "name_1", "name_x",
  "name_gap", "att_space", "att_name", "att_nameqs", "att_nameqsdone",
  "att_eq1", "att_eqx", "att_quot", "att_quots", "att_tick", "ename_1", "ename_x"}

\* Mutant of EndOfBuffer: a value that is cut off is stored.
MutEndOfBufferStores ==
  /\ \E l \in Looking : At(l) /\ Letter = "nul"
  /\ Go("done", 0)
  /\ nodes' = IF label \in {"att_quot", "att_quots", "att_tick"}
              THEN [nodes EXCEPT ![curatt[1]].atts[curatt[2]].value = val] ELSE nodes
  /\ UNCHANGED <<curnode, curatt, mem, marks>>

EndOfBuffer ==
  /\ \E l \in Looking : At(l) /\ Letter = "nul"
  /\ Go("done", 0)
  /\ UNCHANGED <<dom, marks>>

Val1 ==
  /\ Sees("val_1")
  /\ \/ Letter = "<" /\ Go("val_x", 0) /\ UNCHANGED nodes
     \/ Letter # "<" /\ RunStart /\ Go("val_x", 1)
  /\ UNCHANGED <<curnode, curatt, mem, marks>>

\* Behind <! may come CDATA, a comment or a declaration.
ValX ==
  LET behind == SubSeq(mem, cpos + 2, Min({cpos + 3, Len(mem)})) IN
  /\ Sees("val_x")
  /\ IF Letter # "<" THEN RunLetter ELSE UNCHANGED nodes
  /\ \/ Letter # "<" /\ Go("val_x", 1)
     \/ Letter = "<" /\ ~Follows("!") /\ ~Follows("?") /\ Go("name_1", 1)
     \/ Letter = "<" /\ Follows("?") /\ Go("pi", 2)
     \/ Letter = "<" /\ Follows("!") /\
          CASE behind = <<"[", "CDATA">> -> Go("cdata", 5)
            [] behind = <<"-", "-">> -> Go("comment", 4)
            [] behind[1] = "[" /\ behind # <<"[", "CDATA">> -> Go("val_x", 2)
            [] behind[1] # "[" /\ behind # <<"-", "-">> -> Go("bang", 1)
  /\ UNCHANGED <<curnode, curatt, mem, marks>>

\* Up to -->; of more than two hyphens the first two count.
Comment ==
  /\ \/ Sees("comment") /\ Go(IF Letter = "-" THEN "comment_1dash" ELSE "comment", 1)
     \/ At("comment_1dash") /\ Letter = "-" /\ Go("comment_2dash", 1)
     \/ At("comment_1dash") /\ Letter # "-" /\ Go("comment", 0)
     \/ At("comment_2dash") /\ Letter = ">" /\ Go("val_1", 1)
     \/ At("comment_2dash") /\ Letter # ">" /\ Go("comment", 0)
  /\ UNCHANGED <<dom, marks>>

Pi ==
  /\ Sees("pi")
  /\ IF Letter = "?" /\ Follows(">") THEN Go("val_1", 2) ELSE Go("pi", 1)
  /\ UNCHANGED <<dom, marks>>

Bang ==
  /\ Sees("bang")
  /\ Go(IF Letter = ">" THEN "val_1" ELSE "bang", 1)
  /\ UNCHANGED <<dom, marks>>

\* A NUL does not end this one.
Cdata ==
  /\ At("cdata")
  /\ IF SubSeq(mem, cpos, Min({cpos + 2, Len(mem)})) = <<"]", "]", ">">>
     THEN Go("val_1", 3) /\ UNCHANGED nodes
     ELSE /\ Go("cdata", 1)
          /\ IF nodes[curnode].numvals = 0 THEN RunStart ELSE RunLetter
  /\ UNCHANGED <<curnode, curatt, mem, marks>>

Name1 ==
  /\ Sees("name_1")
  /\ IF Letter \in Blank \cup {"/"}
     THEN Go(IF Letter = "/" THEN "ename_1" ELSE "name_1", 1) /\ UNCHANGED tag
     ELSE Go("name_x", 1) /\ tag' = Piece(cpos, 1)
  /\ UNCHANGED <<dom, att, val, escaped>>

\* Behind / the code takes > for granted.
NameX ==
  LET Descend(l) == Go(l, 1) /\ curnode' = Len(nodes) + 1 IN
  /\ Sees("name_x")
  /\ \/ /\ \/ Letter \in Blank /\ AddChild(Descend("name_gap"))
           \/ Letter = ">" /\ AddChild(Descend("val_1"))
           \/ Letter = "/" /\ AddChild(Enter("val_1", 2))
        /\ UNCHANGED tag
     \/ /\ Letter \notin Blank \cup {">", "/"}
        /\ tag' = Longer(tag, 1)
        /\ Enter("name_x", 1) /\ UNCHANGED nodes
  /\ UNCHANGED <<curatt, mem, att, val, escaped>>

NameGap ==
  /\ Sees("name_gap")
  /\ \/ /\ \/ Letter \in Blank \cup {"="} /\ Enter("name_gap", 1)
           \/ Letter = ">" /\ Enter("val_1", 1)
           \/ Letter = "/" /\ Leave("val_1", 2)
        /\ UNCHANGED att
     \/ Letter = "sq" /\ Enter("att_nameqs", 1) /\ att' = Piece(cpos + 1, 0)
     \/ /\ Letter \notin Blank \cup {"=", ">", "/", "sq"}
        /\ Enter("att_name", 1) /\ att' = Piece(cpos, 1)
  /\ UNCHANGED <<nodes, curatt, mem, tag, val, escaped>>

\* A line end is a letter of the name, a blank in front of = is none.
AttName ==
  /\ Sees("att_name")
  /\ \/ Letter = "/" /\ AddAttr(Leave("val_1", 2))
     \/ Letter = ">" /\ AddAttr(Enter("val_1", 1))
     \/ Letter = "=" /\ AddAttr(Enter("att_eq1", 1))
     \/ Letter = " " /\ ~Follows("=") /\ AddAttr(Enter("att_space", 1))
     \/ /\ Letter = " " /\ Follows("=")
        /\ Enter("att_name", 1) /\ UNCHANGED <<nodes, curatt, att>>
     \/ /\ Letter \notin {"/", ">", "=", " "}
        /\ att' = IF att.len = 0 THEN Piece(cpos, 1) ELSE Longer(att, 1)
        /\ Enter("att_name", 1) /\ UNCHANGED <<nodes, curatt>>
  /\ UNCHANGED <<mem, tag, val, escaped>>

\* Mutant of AttSpace: a blank is looked at again.
MutAttSpaceStays ==
  /\ Sees("att_space")
  /\ \/ Letter \in Blank /\ Go("att_space", 0)
     \/ Letter = "=" /\ Go("att_eq1", 1)
     \/ Letter \notin Blank \cup {"="} /\ Go("att_name", 0)
  /\ UNCHANGED <<dom, marks>>

AttSpace ==
  /\ Sees("att_space")
  /\ \/ Letter \in Blank /\ Go("att_space", 1)
     \/ Letter = "=" /\ Go("att_eq1", 1)
     \/ Letter \notin Blank \cup {"="} /\ Go("att_name", 0)
  /\ UNCHANGED <<dom, marks>>

AttNameQs ==
  /\ Sees("att_nameqs")
  /\ IF Letter = "sq" THEN Go("att_nameqsdone", 1) /\ UNCHANGED att
                     ELSE Go("att_nameqs", 1) /\ att' = Longer(att, 1)
  /\ UNCHANGED <<dom, tag, val, escaped>>

\* Anything but = is looked at for ever.
AttNameQsDone ==
  /\ Sees("att_nameqsdone")
  /\ \/ Letter = "=" /\ AddAttr(Enter("att_eq1", 1))
     \/ Letter # "=" /\ Enter("hung", 0) /\ UNCHANGED <<nodes, curatt, att>>
  /\ UNCHANGED <<mem, tag, val, escaped>>

\* The label for each quote, and back.
QuoteLabel == [q \in {"dq", "sq", "bq"} |->
  CASE q = "dq" -> "att_quot" [] q = "sq" -> "att_quots" [] q = "bq" -> "att_tick"]

AttEq1 ==
  LET Slashed == Letter = "/" /\ Follows(">") IN
  /\ Sees("att_eq1")
  /\ escaped' = (Letter = "bs")
  /\ \/ /\ \/ Slashed /\ Leave("att_eq1", 2)
           \/ Letter \in DOMAIN QuoteLabel /\ Enter(QuoteLabel[Letter], 1)
           \/ Letter = ">" /\ Enter("val_1", 1)
           \/ Letter = " " /\ Enter("att_eq1", 1)
        /\ UNCHANGED val
     \/ Letter = "bs" /\ Enter("att_eqx", 2) /\ val' = Longer(val, 2)
     \/ /\ ~Slashed /\ Letter \notin DOMAIN QuoteLabel \cup {">", " ", "bs"}
        /\ Enter("att_eqx", 1) /\ val' = Piece(cpos, 1)
  /\ UNCHANGED <<nodes, curatt, mem, tag, att>>

\* A value without quotes.  The root cannot be left with a value in hand.
AttEqx ==
  LET Slashed == Letter = "/" /\ Follows(">") IN
  /\ Sees("att_eqx")
  /\ \/ Slashed /\ curnode # Root /\ SetValue(Leave("val_1", 2)) /\ UNCHANGED escaped
     \/ Slashed /\ curnode = Root /\ Leave("val_1", 2) /\ UNCHANGED <<nodes, mem, val, escaped>>
     \/ Letter = ">" /\ SetValue(Enter("val_1", 1)) /\ UNCHANGED escaped
     \/ Letter = " " /\ SetValue(Enter("name_gap", 1)) /\ UNCHANGED escaped
     \/ /\ ~Slashed /\ Letter \notin {">", " "}
        /\ LET n == IF Letter = "bs" THEN 2 ELSE 1 IN
           Enter("att_eqx", n) /\ val' = Longer(val, n)
        /\ escaped' = (escaped \/ Letter = "bs")
        /\ UNCHANGED <<nodes, mem>>
  /\ UNCHANGED <<curatt, tag, att>>

\* A value in quotes: an empty one is not stored.
AttQuot(q) ==
  /\ Sees(QuoteLabel[q])
  /\ \/ Letter = q /\ val.len > 0 /\ SetValue(Enter("name_gap", 1)) /\ UNCHANGED escaped
     \/ /\ Letter = q /\ val.len = 0
        /\ Enter("name_gap", 1) /\ UNCHANGED <<nodes, mem, val, escaped>>
     \/ /\ Letter # q
        /\ LET n == IF Letter = "bs" THEN 2 ELSE 1 IN
           /\ Enter(label, n)
           /\ val' = IF val.len = 0 THEN Piece(cpos, n) ELSE Longer(val, n)
        /\ escaped' = (escaped \/ Letter = "bs")
        /\ UNCHANGED <<nodes, mem>>
  /\ UNCHANGED <<curatt, tag, att>>

\* An end without a name leaves the element and fails.
Ename1 ==
  /\ Sees("ename_1")
  /\ \/ Letter = ">" /\ Leave("error", 1) /\ UNCHANGED tag
     \/ Letter # ">" /\ Enter("ename_x", 1) /\ tag' = Piece(cpos, 1)
  /\ UNCHANGED <<nodes, curatt, mem, att, val, escaped>>

\* The root's name was never set.
EndsElement == Text(nodes[curnode].name) = Text(tag)

EnameX ==
  /\ Sees("ename_x")
  /\ \/ Letter # ">" /\ Enter("ename_x", 1) /\ tag' = Longer(tag, 1)
     \/ /\ Letter = ">" /\ UNCHANGED tag
        /\ \/ curnode # Root /\ EndsElement /\ Leave("val_1", 1)
           \/ curnode # Root /\ ~EndsElement /\ Enter("error", 0)
           \/ /\ curnode = Root /\ label' \in Unwritten("error", {"done", "crashed"})
              /\ UNCHANGED <<cpos, curnode>>
  /\ UNCHANGED <<nodes, curatt, mem, att, val, escaped>>

\* parse, up to its return; new nodec() makes the root.
ParseInit ==
  /\ label = "val_1" /\ cpos = 1
  /\ nodes = <<NewNode(Root, Unset)>>
  /\ curnode = Root /\ curatt = <<>>
  /\ tag = Unset /\ att = Unset /\ val = Unset /\ escaped = FALSE

Parse ==
  /\ \/ EndOfBuffer \/ Val1 \/ ValX \/ Comment \/ Pi \/ Bang \/ Cdata
     \/ Name1 \/ NameX \/ NameGap
     \/ AttName \/ AttSpace \/ AttNameQs \/ AttNameQsDone
     \/ AttEq1 \/ AttEqx \/ \E q \in DOMAIN QuoteLabel : AttQuot(q)
     \/ Ename1 \/ EnameX
  /\ UNCHANGED heap
=============================================================================
