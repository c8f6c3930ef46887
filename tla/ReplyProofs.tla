---------------------------- MODULE ReplyProofs ----------------------------
(***************************************************************************)
(* Theorems about what a worker makes of a reply, for every reply, whole,  *)
(* cut off or garbled, and any memory that its nodes are made in.          *)
(***************************************************************************)
EXTENDS Reply, Induction

\* The shapes of pieces, attributes and nodes.
PieceShape == [at : Nat, len : Nat]
AttShape == [name : PieceShape, key : Seq(STRING), value : PieceShape]
NodeShape ==
  [parent : Nat, name : PieceShape, key : Seq(STRING), value : PieceShape,
   numvals : Nat, kids : Seq(Nat), atts : Seq(AttShape)]

\* The labels, those at which the parse is over, and the worker's stages.
Ended == {"done", "error", "crashed", "hung"}
Labels ==
  Looking \cup Ended \cup {"comment_1dash", "comment_2dash", "cdata", "att_eqx"}
Stages == {"parse", "render", "send", "destroy", "served", "dropped", "crashed"}

\* Where the parser is, and that the message is as it came from there on.
Place ==
  /\ reply \in Replies /\ stage \in Stages
  /\ mem \in Seq(STRING) /\ Len(mem) = Len(reply.xml)
  /\ label \in Labels /\ cpos \in Nat /\ cpos > 0
  /\ label \notin Ended =>
       \A k \in Nat : k >= cpos /\ k <= Len(mem) => mem[k] = reply.xml[k]
  /\ cpos > Len(mem) =>
       label = "cdata" \/ (Len(mem) > 1 /\ reply.xml[Len(mem) - 1] \in {"/", "bs"})

\* CDATA of a whole reply is closed by what is still ahead.
Closing ==
  label = "cdata" /\ reply.kind = "whole" =>
    \E m \in Nat : /\ cpos <= m /\ m + 3 <= Len(mem)
                   /\ SubSeq(reply.xml, m, m + 2) = <<"]", "]", ">">>

\* A piece that lies in the first c - 1 letters.
Solid(p, c) ==
  p \in PieceShape /\ p.at + p.len <= c /\ (p.at = 0 => p.len = 0)

\* A tree whose pieces lie in the first c - 1 letters and whose places are its own.
\* A node with a run of text has a value.
Grown(ns, c) ==
  /\ ns \in Seq(NodeShape) /\ Len(ns) > 0
  /\ \A n \in 1..Len(ns) :
       /\ ns[n].parent \in 1..Len(ns)
       /\ Solid(ns[n].name, c) /\ Solid(ns[n].value, c)
       /\ ns[n].numvals # 0 => ns[n].value.at > 0
       /\ \A k \in 1..Len(ns[n].kids) : ns[n].kids[k] \in 1..Len(ns)
       /\ \A a \in 1..Len(ns[n].atts) :
            Solid(ns[n].atts[a].name, c) /\ Solid(ns[n].atts[a].value, c)

\* curatt is an attribute of the tree.
IsAtt(ca, ns) ==
  ca \in Nat \X Nat /\ ca[1] \in 1..Len(ns) /\ ca[2] \in 1..Len(ns[ca[1]].atts)

\* The labels in a value in quotes, and those at which curatt is in use.
Quotes == {"att_quot", "att_quots", "att_tick"}
WithAtt == {"att_space", "att_eq1", "att_eqx"} \cup Quotes

\* The tree, as far as the parser is.
Built ==
  /\ Grown(nodes, cpos) /\ curnode \in 1..Len(nodes)
  /\ label \in WithAtt => IsAtt(curatt, nodes)

\* The pieces in hand.  A value that starts with a backslash has no place if
\* there was none before it (escaped), but then it is not stored.
Marked ==
  /\ Solid(tag, cpos) /\ Solid(att, cpos)
  /\ val \in PieceShape /\ val.at + val.len <= cpos
  /\ val.at = 0 => val.len = 0 \/ label \in {"att_eqx"} \cup Ended
  /\ val.at = 0 /\ label = "att_eqx" => escaped
  /\ label \in {"name_x", "ename_x"} => tag.at > 0
  /\ label = "att_nameqs" => att.at > 0

ReplyInv == Place /\ Closing /\ Built /\ Marked

-----------------------------------------------------------------------------
(***************************************************************************)
(* Pieces and trees.                                                       *)
(***************************************************************************)
\* A piece that was found stays where it is.
LEMMA SolidLater ==
  ASSUME NEW c \in Nat, NEW d \in Nat, c <= d, NEW p, Solid(p, c)
  PROVE  Solid(p, d)
  BY DEF Solid, PieceShape

\* The text of a piece.
LEMMA TextTyped ==
  ASSUME mem \in Seq(STRING), NEW c \in Nat, c <= Len(mem), NEW p, Solid(p, c)
  PROVE  Text(p) \in Seq(STRING)
<1>1. p.at \in Nat /\ p.len \in Nat /\ p.at + p.len <= c /\ (p.at = 0 => p.len = 0)
  BY DEF Solid, PieceShape
<1>2. Len(mem) \in Nat
  BY LenProperties
<1>3. \A k \in p.at..p.at + p.len - 1 : k \in 1..Len(mem)
  BY <1>1, <1>2
<1>4. \A k \in p.at..p.at + p.len - 1 : mem[k] \in STRING
  BY <1>3, ElementOfSeq
<1>5. p.at \in Int /\ p.at + p.len - 1 \in Int
  BY <1>1
<1>6. SubSeq(mem, p.at, p.at + p.len - 1) \in Seq(STRING)
  BY <1>4, <1>5, SubSeqProperties
<1>7. QED
  BY <1>6 DEF Text

\* A piece that was not set.
LEMMA UnsetSolid == ASSUME NEW c \in Nat PROVE Solid(Unset, c) /\ Unset \in PieceShape
  BY DEF Unset, Piece, Solid, PieceShape

\* The nodes of a tree, their children and their attributes.
LEMMA NodeParts ==
  ASSUME NEW ns, NEW c \in Nat, Grown(ns, c)
  PROVE  /\ Len(ns) \in Nat /\ Len(ns) > 0
         /\ DOMAIN ns = 1..Len(ns)
         /\ \A n \in 1..Len(ns) :
              /\ ns[n] \in NodeShape /\ ns[n].kids \in Seq(Nat) /\ ns[n].atts \in Seq(AttShape)
              /\ Len(ns[n].kids) \in Nat /\ Len(ns[n].atts) \in Nat
<1>1. ns \in Seq(NodeShape) /\ Len(ns) > 0
  BY DEF Grown
<1>2. Len(ns) \in Nat /\ DOMAIN ns = 1..Len(ns)
  BY <1>1, LenProperties
<1>3. ASSUME NEW n \in 1..Len(ns)
      PROVE  /\ ns[n] \in NodeShape /\ ns[n].kids \in Seq(Nat) /\ ns[n].atts \in Seq(AttShape)
             /\ Len(ns[n].kids) \in Nat /\ Len(ns[n].atts) \in Nat
  <2>1. ns[n] \in NodeShape
    BY <1>1, ElementOfSeq
  <2>2. ns[n].kids \in Seq(Nat) /\ ns[n].atts \in Seq(AttShape)
    BY <2>1 DEF NodeShape
  <2>3. QED
    BY <2>1, <2>2, LenProperties
<1>4. QED
  BY <1>1, <1>2, <1>3

\* The tree stays as it is while the parser goes on.
LEMMA GrownLater ==
  ASSUME NEW c \in Nat, NEW d \in Nat, c <= d, NEW ns, Grown(ns, c)
  PROVE  Grown(ns, d)
<1>1. \A p : Solid(p, c) => Solid(p, d)
  BY SolidLater
<1>2. QED
  BY <1>1 DEF Grown

\* One node is replaced by another that fits in its place.
Fits(x, ns, c) ==
  /\ x \in NodeShape /\ x.parent \in 1..Len(ns)
  /\ Solid(x.name, c) /\ Solid(x.value, c)
  /\ x.numvals # 0 => x.value.at > 0
  /\ \A k \in 1..Len(x.kids) : x.kids[k] \in 1..Len(ns)
  /\ \A a \in 1..Len(x.atts) : Solid(x.atts[a].name, c) /\ Solid(x.atts[a].value, c)

\* How the parser changes its tree.
Replaced(new, ns, n, x) == new = [ns EXCEPT ![n] = x]
Valued(new, ns, n, p, v) == new = [ns EXCEPT ![n] = [ns[n] EXCEPT !.value = p, !.numvals = v]]
Attributed(new, ns, n, a) == new = [ns EXCEPT ![n].atts = Append(@, a)]
AttValued(new, ns, ca, p) == new = [ns EXCEPT ![ca[1]].atts[ca[2]].value = p]
Appended(new, ns, m, x) == new = Append([ns EXCEPT ![m].kids = Append(@, Len(ns) + 1)], x)

\* A node of a tree fits in its own place.
LEMMA GrownFits ==
  ASSUME NEW c \in Nat, NEW ns, Grown(ns, c), NEW n \in 1..Len(ns)
  PROVE  Fits(ns[n], ns, c)
  BY NodeParts DEF Grown, Fits

\* A tree with one node replaced.
LEMMA GrownExcept ==
  ASSUME NEW c \in Nat, NEW ns, Grown(ns, c), NEW n \in 1..Len(ns), NEW x, Fits(x, ns, c),
         NEW new, Replaced(new, ns, n, x)
  PROVE  /\ Grown(new, c) /\ Len(new) = Len(ns)
         /\ \A j \in 1..Len(ns) : new[j] = IF j = n THEN x ELSE ns[j]
<1>1. ns \in Seq(NodeShape) /\ x \in NodeShape
  BY DEF Grown, Fits
<1>2. /\ new \in Seq(NodeShape) /\ Len(new) = Len(ns)
      /\ \A j \in 1..Len(ns) : new[j] = IF j = n THEN x ELSE ns[j]
  BY <1>1, ExceptSeq DEF Replaced
<1>3. ASSUME NEW j \in 1..Len(new)
      PROVE  Fits(new[j], ns, c)
  BY <1>2, <1>3, GrownFits
<1>4. Grown(new, c)
  BY <1>2, <1>3 DEF Grown, Fits
<1>5. QED
  BY <1>2, <1>4

\* One node more.
LEMMA GrownAppend ==
  ASSUME NEW c \in Nat, NEW ns, Grown(ns, c), NEW m \in 1..Len(ns), NEW x,
         x \in NodeShape, x.parent = m, Solid(x.name, c), x.value = Unset, x.numvals = 0,
         x.kids = <<>>, x.atts = <<>>,
         NEW got, Appended(got, ns, m, x)
  PROVE  /\ Grown(got, c) /\ Len(got) = Len(ns) + 1
         /\ \A n \in 1..Len(ns) : got[n].atts = ns[n].atts
<1> DEFINE y == [ns[m] EXCEPT !.kids = Append(@, Len(ns) + 1)]
           mid == [ns EXCEPT ![m].kids = Append(@, Len(ns) + 1)]
           new == Append(mid, x)
<1>0. Len(ns) \in Nat /\ Len(ns) > 0
  BY NodeParts
<1>1. ns[m] \in NodeShape /\ ns[m].kids \in Seq(Nat) /\ Len(ns) + 1 \in Nat
  BY NodeParts
<1> DEFINE k2 == Append(ns[m].kids, Len(ns) + 1)
<1>2. /\ k2 \in Seq(Nat) /\ Len(k2) = Len(ns[m].kids) + 1
      /\ \A k \in 1..Len(ns[m].kids) : k2[k] = ns[m].kids[k]
      /\ k2[Len(ns[m].kids) + 1] = Len(ns) + 1
  BY <1>1, AppendProperties
<1>3. Len(ns[m].kids) \in Nat
  BY <1>1, LenProperties
<1>4. \A k \in 1..Len(k2) : k2[k] \in 1..Len(ns) + 1
  <2>1. \A k \in 1..Len(ns[m].kids) : ns[m].kids[k] \in 1..Len(ns)
    BY DEF Grown
  <2>2. QED
    BY <1>0, <1>2, <1>3, <2>1
<1> HIDE DEF k2
<1>5. y = [ns[m] EXCEPT !.kids = k2]
  BY <1>1 DEF k2
<1>6. /\ y \in NodeShape /\ y.kids = k2 /\ y.parent = ns[m].parent /\ y.name = ns[m].name
      /\ y.value = ns[m].value /\ y.numvals = ns[m].numvals /\ y.atts = ns[m].atts
  BY <1>1, <1>2, <1>5 DEF NodeShape
<1>7. mid = [ns EXCEPT ![m] = y]
  BY NodeParts
<1> HIDE DEF y
<1>8. ns \in Seq(NodeShape)
  BY DEF Grown
<1> HIDE DEF mid
<1>9. /\ mid \in Seq(NodeShape) /\ Len(mid) = Len(ns)
      /\ \A j \in 1..Len(ns) : mid[j] = IF j = m THEN y ELSE ns[j]
  <2>1. y \in NodeShape
    BY <1>6
  <2>2. /\ [ns EXCEPT ![m] = y] \in Seq(NodeShape) /\ Len([ns EXCEPT ![m] = y]) = Len(ns)
        /\ \A j \in 1..Len(ns) : [ns EXCEPT ![m] = y][j] = IF j = m THEN y ELSE ns[j]
    BY <1>8, <2>1, ExceptSeq
  <2>3. QED
    BY <1>7, <2>2
<1>10. /\ new \in Seq(NodeShape) /\ Len(new) = Len(ns) + 1
       /\ \A j \in 1..Len(ns) : new[j] = mid[j]
       /\ new[Len(ns) + 1] = x
  BY <1>9, AppendProperties
<1> HIDE DEF new
<1>11. \A j \in 1..Len(ns) : new[j] = IF j = m THEN y ELSE ns[j]
  BY <1>9, <1>10
<1>12. ASSUME NEW n \in 1..Len(new)
       PROVE  /\ new[n].parent \in 1..Len(new)
              /\ Solid(new[n].name, c) /\ Solid(new[n].value, c)
              /\ new[n].numvals # 0 => new[n].value.at > 0
              /\ \A k \in 1..Len(new[n].kids) : new[n].kids[k] \in 1..Len(new)
              /\ \A a \in 1..Len(new[n].atts) :
                   Solid(new[n].atts[a].name, c) /\ Solid(new[n].atts[a].value, c)
  <2>1. CASE n = Len(ns) + 1
    <3>1. new[n] = x
      BY <1>10, <2>1
    <3>2. Len(x.kids) = 0 /\ Len(x.atts) = 0
      BY EmptySeq
    <3>3. Solid(x.value, c)
      BY UnsetSolid
    <3>4. QED
      BY <1>0, <1>10, <3>1, <3>2, <3>3
  <2>2. CASE n \in 1..Len(ns) /\ n # m
    <3>1. new[n] = ns[n] /\ Fits(ns[n], ns, c)
      BY <1>11, <2>2, GrownFits
    <3>2. QED
      BY <1>0, <1>10, <3>1 DEF Fits
  <2>3. CASE n = m
    <3>1. new[n] = y /\ Fits(ns[m], ns, c)
      BY <1>11, <2>3, GrownFits
    <3>2. QED
      BY <1>0, <1>4, <1>6, <1>10, <3>1 DEF Fits
  <2>4. QED
    BY <1>0, <1>10, <2>1, <2>2, <2>3
<1>13. Grown(new, c)
  BY <1>0, <1>10, <1>12 DEF Grown
<1>14. \A n \in 1..Len(ns) : new[n].atts = ns[n].atts
  BY <1>6, <1>11
<1>15. QED
  BY <1>10, <1>13, <1>14 DEF new, mid, Appended

\* A node gets a value, or more of the one it has.
LEMMA GrownValue ==
  ASSUME NEW c \in Nat, NEW ns, Grown(ns, c), NEW n \in 1..Len(ns),
         NEW p, Solid(p, c), NEW v \in Nat, v # 0 => p.at > 0,
         NEW got, Valued(got, ns, n, p, v)
  PROVE  /\ Grown(got, c) /\ Len(got) = Len(ns)
         /\ \A j \in 1..Len(ns) : got[j].atts = ns[j].atts
<1> DEFINE x == [ns[n] EXCEPT !.value = p, !.numvals = v]
<1>1. Fits(ns[n], ns, c) /\ ns[n] \in NodeShape /\ p \in PieceShape
  BY GrownFits, NodeParts DEF Solid
<1>2. /\ x \in NodeShape /\ x.kids = ns[n].kids /\ x.parent = ns[n].parent
      /\ x.name = ns[n].name /\ x.value = p /\ x.numvals = v /\ x.atts = ns[n].atts
  BY <1>1 DEF NodeShape
<1>3. Replaced(got, ns, n, x)
  BY DEF Replaced, Valued
<1> HIDE DEF x
<1>4. Fits(x, ns, c)
  BY <1>1, <1>2 DEF Fits
<1>5. /\ Grown(got, c) /\ Len(got) = Len(ns)
      /\ \A j \in 1..Len(ns) : got[j] = IF j = n THEN x ELSE ns[j]
  BY <1>3, <1>4, GrownExcept
<1>6. QED
  BY <1>2, <1>5

\* A node gets an attribute.
LEMMA GrownAttr ==
  ASSUME NEW c \in Nat, NEW ns, Grown(ns, c), NEW n \in 1..Len(ns),
         NEW a \in AttShape, Solid(a.name, c), Solid(a.value, c),
         NEW got, Attributed(got, ns, n, a)
  PROVE  /\ Grown(got, c) /\ Len(got) = Len(ns)
         /\ IsAtt(<<n, Len(ns[n].atts) + 1>>, got)
<1>1. /\ Fits(ns[n], ns, c) /\ ns[n] \in NodeShape
      /\ ns[n].atts \in Seq(AttShape) /\ Len(ns[n].atts) \in Nat
      /\ Len(ns) \in Nat /\ DOMAIN ns = 1..Len(ns)
  BY GrownFits, NodeParts
<1> DEFINE more == Append(ns[n].atts, a)
           x == [ns[n] EXCEPT !.atts = more]
<1>2. /\ more \in Seq(AttShape) /\ Len(more) = Len(ns[n].atts) + 1
      /\ \A i \in 1..Len(ns[n].atts) : more[i] = ns[n].atts[i]
      /\ more[Len(ns[n].atts) + 1] = a
  BY <1>1, AppendProperties
<1>3. \A i \in 1..Len(more) : Solid(more[i].name, c) /\ Solid(more[i].value, c)
  <2>1. \A i \in 1..Len(ns[n].atts) :
          Solid(ns[n].atts[i].name, c) /\ Solid(ns[n].atts[i].value, c)
    BY <1>1 DEF Fits
  <2>2. QED
    BY <1>1, <1>2, <2>1
<1>4. Replaced(got, ns, n, x)
  BY <1>1 DEF Replaced, Attributed
<1> HIDE DEF more
<1>5. /\ x \in NodeShape /\ x.kids = ns[n].kids /\ x.parent = ns[n].parent
      /\ x.name = ns[n].name /\ x.value = ns[n].value /\ x.numvals = ns[n].numvals
      /\ x.atts = more
  BY <1>1, <1>2 DEF NodeShape
<1> HIDE DEF x
<1>6. Fits(x, ns, c)
  BY <1>1, <1>3, <1>5 DEF Fits
<1>7. /\ Grown(got, c) /\ Len(got) = Len(ns)
      /\ \A j \in 1..Len(ns) : got[j] = IF j = n THEN x ELSE ns[j]
  BY <1>4, <1>6, GrownExcept
<1>8. IsAtt(<<n, Len(ns[n].atts) + 1>>, got)
  BY <1>1, <1>2, <1>5, <1>7 DEF IsAtt
<1>9. QED
  BY <1>7, <1>8

\* An attribute gets a value.
LEMMA GrownAttValue ==
  ASSUME NEW c \in Nat, NEW ns, Grown(ns, c), NEW ca, IsAtt(ca, ns), NEW p, Solid(p, c),
         NEW got, AttValued(got, ns, ca, p)
  PROVE  /\ Grown(got, c) /\ Len(got) = Len(ns)
         /\ \A j \in 1..Len(ns) : Len(got[j].atts) = Len(ns[j].atts)
<1> DEFINE n == ca[1]
           i == ca[2]
<1>1. n \in 1..Len(ns) /\ i \in 1..Len(ns[n].atts)
  BY DEF IsAtt
<1>2. /\ Fits(ns[n], ns, c) /\ ns[n] \in NodeShape
      /\ ns[n].atts \in Seq(AttShape) /\ Len(ns[n].atts) \in Nat
      /\ Len(ns) \in Nat /\ DOMAIN ns = 1..Len(ns)
  BY <1>1, GrownFits, NodeParts
<1> HIDE DEF n, i
<1> DEFINE a == [ns[n].atts[i] EXCEPT !.value = p]
           more == [ns[n].atts EXCEPT ![i] = a]
           x == [ns[n] EXCEPT !.atts = more]
<1>3. ns[n].atts[i] \in AttShape /\ p \in PieceShape
  BY <1>1, <1>2, ElementOfSeq DEF Solid
<1>4. a \in AttShape /\ a.name = ns[n].atts[i].name /\ a.value = p
  BY <1>3 DEF AttShape
<1>5. Replaced(got, ns, n, x)
  BY <1>1, <1>2 DEF n, i, Replaced, AttValued
<1> HIDE DEF a
<1>6. /\ more \in Seq(AttShape) /\ Len(more) = Len(ns[n].atts)
      /\ \A j \in 1..Len(ns[n].atts) : more[j] = IF j = i THEN a ELSE ns[n].atts[j]
  BY <1>1, <1>2, <1>4, ExceptSeq
<1>7. \A j \in 1..Len(more) : Solid(more[j].name, c) /\ Solid(more[j].value, c)
  <2>1. \A j \in 1..Len(ns[n].atts) :
          Solid(ns[n].atts[j].name, c) /\ Solid(ns[n].atts[j].value, c)
    BY <1>2 DEF Fits
  <2>2. QED
    BY <1>1, <1>4, <1>6, <2>1
<1> HIDE DEF more
<1>8. /\ x \in NodeShape /\ x.kids = ns[n].kids /\ x.parent = ns[n].parent
      /\ x.name = ns[n].name /\ x.value = ns[n].value /\ x.numvals = ns[n].numvals
      /\ x.atts = more
  BY <1>2, <1>6 DEF NodeShape
<1> HIDE DEF x
<1>9. Fits(x, ns, c)
  BY <1>2, <1>7, <1>8 DEF Fits
<1>10. /\ Grown(got, c) /\ Len(got) = Len(ns)
       /\ \A j \in 1..Len(ns) : got[j] = IF j = n THEN x ELSE ns[j]
  BY <1>1, <1>5, <1>9, GrownExcept
<1>11. \A j \in 1..Len(ns) : Len(got[j].atts) = Len(ns[j].atts)
  BY <1>6, <1>8, <1>10
<1>12. QED
  BY <1>10, <1>11

\* An attribute of a tree is one of the tree with more values.
LEMMA StaysAtt ==
  ASSUME NEW ns, NEW c \in Nat, Grown(ns, c), NEW new, Len(new) >= Len(ns),
         Len(new) \in Nat,
         \A j \in 1..Len(ns) : Len(new[j].atts) = Len(ns[j].atts), NEW ca, IsAtt(ca, ns)
  PROVE  IsAtt(ca, new)
  BY NodeParts DEF IsAtt

-----------------------------------------------------------------------------
(***************************************************************************)
(* escape_att.                                                             *)
(***************************************************************************)
\* What is left of the value from its k-th letter on.
IsRest(f, s, n) ==
  f = [k \in 1..n + 2 |->
         IF k > n THEN <<>>
         ELSE IF s[k] = "bs" THEN <<s[k + 1]>> \o f[k + 2]
         ELSE <<s[k]>> \o f[k + 1]]

\* There is such a rest: it is made from the end of the value.
LEMMA RestExists ==
  ASSUME NEW n \in Nat, NEW s, \A k \in 1..n + 1 : s[k] \in STRING
  PROVE  \E f : IsRest(f, s, n)
<1> DEFINE V == Seq(STRING) \X Seq(STRING)
           More(x, j) == IF s[n + 1 - j] = "bs" THEN <<s[n + 2 - j]>> \o x[2]
                         ELSE <<s[n + 1 - j]>> \o x[1]
           step == [y \in V \X (1..n) |-> <<More(y[1], y[2]), y[1][1]>>]
           base == <<(<<>>), (<<>>)>>
<1>1. <<>> \in Seq(STRING)
  BY EmptySeq
<1>2. base \in V
  BY <1>1
<1>3. ASSUME NEW x \in V, NEW j \in 1..n
      PROVE  More(x, j) \in Seq(STRING)
  <2>1. s[n + 1 - j] \in STRING /\ s[n + 2 - j] \in STRING
    BY <1>3
  <2>2. <<s[n + 1 - j]>> \in Seq(STRING) /\ <<s[n + 2 - j]>> \in Seq(STRING)
    BY <2>1
  <2>3. QED
    BY <1>3, <2>2, ConcatProperties
<1>4. IsStep(step, n, V)
  BY <1>3 DEF IsStep
<1> HIDE DEF step
<1>5. PICK g : IsRun(g, base, step, n, V)
  BY <1>2, <1>4, RecursionExists
<1>6. g \in [0..n -> V] /\ g[0] = base /\ \A j \in 1..n : g[j] = step[<<g[j - 1], j>>]
  BY <1>5 DEF IsRun
<1>7. ASSUME NEW j \in 1..n
      PROVE  g[j] = <<More(g[j - 1], j), g[j - 1][1]>>
  <2>1. j - 1 \in 0..n
    OBVIOUS
  <2>2. g[j - 1] \in V /\ g[j] = step[<<g[j - 1], j>>]
    BY <1>6, <2>1
  <2>3. QED
    BY <2>2 DEF step
<1> DEFINE f == [k \in 1..n + 2 |-> IF k = n + 2 THEN <<>> ELSE g[n + 1 - k][1]]
<1>8. ASSUME NEW k \in 1..n + 2
      PROVE  f[k] = IF k > n THEN <<>>
                    ELSE IF s[k] = "bs" THEN <<s[k + 1]>> \o f[k + 2]
                    ELSE <<s[k]>> \o f[k + 1]
  <2>1. CASE k = n + 2
    BY <2>1
  <2>2. CASE k = n + 1
    BY <1>6, <2>2
  <2>3. CASE k \in 1..n
    <3>1. /\ n + 1 - k \in 1..n /\ (n + 1 - k) - 1 = n - k /\ n + 1 - (n + 1 - k) = k
          /\ n + 2 - (n + 1 - k) = k + 1
      BY <2>3
    <3>2. g[n + 1 - k] = <<More(g[n - k], n + 1 - k), g[n - k][1]>>
      BY <1>7, <3>1
    <3>3. f[k] = IF s[k] = "bs" THEN <<s[k + 1]>> \o g[n - k][2] ELSE <<s[k]>> \o g[n - k][1]
      <4>1. k \in 1..n + 2 /\ k # n + 2
        BY <2>3
      <4>2. f[k] = g[n + 1 - k][1]
        BY <4>1
      <4>3. g[n + 1 - k][1] = More(g[n - k], n + 1 - k)
        <5> HIDE DEF More
        <5>1. QED
          BY <3>2
      <4>4. More(g[n - k], n + 1 - k)
              = IF s[k] = "bs" THEN <<s[k + 1]>> \o g[n - k][2] ELSE <<s[k]>> \o g[n - k][1]
        BY <3>1
      <4> HIDE DEF More, f
      <4>5. QED
        BY <4>2, <4>3, <4>4
    <3>4. f[k + 1] = g[n - k][1]
      <4>1. k + 1 \in 1..n + 2 /\ k + 1 # n + 2 /\ n + 1 - (k + 1) = n - k
        BY <2>3
      <4>2. QED
        BY <4>1
    <3>5. f[k + 2] = g[n - k][2]
      <4>1. CASE k = n
        BY <1>6, <2>3, <4>1
      <4>2. CASE k < n
        <5>1. /\ n - k \in 1..n /\ k + 2 \in 1..n + 2 /\ k + 2 # n + 2
              /\ n + 1 - (k + 2) = (n - k) - 1
          BY <2>3, <4>2
        <5>2. g[n - k] = <<More(g[(n - k) - 1], n - k), g[(n - k) - 1][1]>>
          BY <1>7, <5>1
        <5>4. g[n - k][2] = g[(n - k) - 1][1]
          BY <5>2
        <5>3. QED
          BY <5>1, <5>4
      <4>3. QED
        BY <2>3, <4>1, <4>2
    <3>6. ~(k > n)
      BY <2>3
    <3> HIDE DEF f
    <3>7. QED
      BY <3>3, <3>4, <3>5, <3>6
  <2>4. QED
    BY <2>1, <2>2, <2>3
<1>9. f = [k \in 1..n + 2 |->
             IF k > n THEN <<>>
             ELSE IF s[k] = "bs" THEN <<s[k + 1]>> \o f[k + 2]
             ELSE <<s[k]>> \o f[k + 1]]
  BY <1>8
<1>10. QED
  BY <1>9 DEF IsRest

\* What is left is no longer than the value.
LEMMA RestShort ==
  ASSUME NEW n \in Nat, NEW s, \A k \in 1..n + 1 : s[k] \in STRING, NEW f, IsRest(f, s, n)
  PROVE  f[1] \in Seq(STRING) /\ Len(f[1]) <= n
<1>a. \A k \in 1..n + 2 :
        f[k] = IF k > n THEN <<>>
               ELSE IF s[k] = "bs" THEN <<s[k + 1]>> \o f[k + 2]
               ELSE <<s[k]>> \o f[k + 1]
  BY DEF IsRest
<1>b. /\ n + 1 \in 1..n + 2 /\ n + 1 > n /\ n + 2 \in 1..n + 2 /\ n + 2 > n
      /\ \A k \in 1..n : k \in 1..n + 2 /\ ~(k > n)
  OBVIOUS
<1>1. /\ f[n + 1] = <<>> /\ f[n + 2] = <<>>
      /\ \A k \in 1..n : f[k] = IF s[k] = "bs" THEN <<s[k + 1]>> \o f[k + 2]
                                ELSE <<s[k]>> \o f[k + 1]
  BY <1>a, <1>b, Zenon
<1> DEFINE Short(k, m) == f[k] \in Seq(STRING) /\ Len(f[k]) <= m
           T == {j \in Nat : j <= n => /\ Short(n + 1 - j, j)
                                       /\ Short(n + 2 - j, IF j = 0 THEN 0 ELSE j - 1)}
<1>2. 0 \in T
  <2>1. <<>> \in Seq(STRING) /\ Len(<<>>) = 0
    BY EmptySeq
  <2>2. Short(n + 1, 0) /\ Short(n + 2, 0)
    BY <1>1, <2>1
  <2>3. n + 1 - 0 = n + 1 /\ n + 2 - 0 = n + 2
    OBVIOUS
  <2>4. QED
    BY <2>2, <2>3
<1>3. ASSUME NEW j \in Nat, j \in T
      PROVE  j + 1 \in T
  <2>1. SUFFICES ASSUME j + 1 <= n
                 PROVE  Short(n - j, j + 1) /\ Short(n + 1 - j, j)
    <3>1. /\ n + 1 - (j + 1) = n - j /\ n + 2 - (j + 1) = n + 1 - j
          /\ j + 1 # 0 /\ (j + 1) - 1 = j
      OBVIOUS
    <3>2. QED
      BY <3>1
  <2>2. Short(n + 1 - j, j) /\ Short(n + 2 - j, IF j = 0 THEN 0 ELSE j - 1)
    BY <1>3, <2>1
  <2>3. n - j \in 1..n /\ n - j + 1 \in 1..n + 1 /\ n - j + 1 = n + 1 - j /\ n - j + 2 = n + 2 - j
    BY <2>1
  <2>4. <<s[n - j]>> \in Seq(STRING) /\ <<s[n - j + 1]>> \in Seq(STRING)
    BY <2>3
  <2>5. Len(<<s[n - j]>>) = 1 /\ Len(<<s[n - j + 1]>>) = 1
    OBVIOUS
  <2>6. CASE s[n - j] = "bs"
    <3>1. f[n - j] = <<s[n - j + 1]>> \o f[n + 2 - j]
      BY <1>1, <2>3, <2>6
    <3>2. f[n - j] \in Seq(STRING) /\ Len(f[n - j]) = 1 + Len(f[n + 2 - j])
      BY <2>2, <2>4, <2>5, <3>1, ConcatProperties
    <3>3. Len(f[n + 2 - j]) \in Nat
      BY <2>2, LenProperties
    <3>4. QED
      BY <2>2, <3>2, <3>3
  <2>7. CASE s[n - j] # "bs"
    <3>1. f[n - j] = <<s[n - j]>> \o f[n + 1 - j]
      BY <1>1, <2>3, <2>7
    <3>2. f[n - j] \in Seq(STRING) /\ Len(f[n - j]) = 1 + Len(f[n + 1 - j])
      BY <2>2, <2>4, <2>5, <3>1, ConcatProperties
    <3>3. Len(f[n + 1 - j]) \in Nat
      BY <2>2, LenProperties
    <3>4. QED
      BY <2>2, <3>2, <3>3
  <2>8. QED
    BY <2>6, <2>7
<1>4. n \in T
  <2> HIDE DEF T
  <2>1. QED
    BY <1>2, <1>3, SetInduction
<1>5. Short(n + 1 - n, n)
  BY <1>4
<1>6. n + 1 - n = 1
  OBVIOUS
<1>7. QED
  BY <1>5, <1>6

\* A value without its backslashes is no longer than it was.
LEMMA UnescapedShort ==
  ASSUME mem \in Seq(STRING), NEW p, Solid(p, Len(mem)), p.at > 0
  PROVE  Unescaped(p) \in Seq(STRING) /\ Len(Unescaped(p)) <= p.len
<1>1. p.at \in Nat /\ p.len \in Nat /\ p.at + p.len <= Len(mem) /\ Len(mem) \in Nat
  BY LenProperties DEF Solid, PieceShape
<1> DEFINE n == p.len
           s == SubSeq(mem, p.at, p.at + p.len)
<1>2. \A k \in p.at..p.at + p.len : k \in 1..Len(mem)
  BY <1>1
<1>3. \A k \in p.at..p.at + p.len : mem[k] \in STRING
  BY <1>2, ElementOfSeq
<1>4. s \in Seq(STRING) /\ Len(s) = n + 1
  BY <1>1, <1>3, SubSeqProperties
<1>5. \A k \in 1..n + 1 : s[k] \in STRING
  BY <1>4, ElementOfSeq
<1> DEFINE Is(f) == f = [k \in 1..n + 2 |->
                           IF k > n THEN <<>>
                           ELSE IF s[k] = "bs" THEN <<s[k + 1]>> \o f[k + 2]
                           ELSE <<s[k]>> \o f[k + 1]]
           rest == CHOOSE f : Is(f)
<1>6. Unescaped(p) = rest[1]
  BY DEF Unescaped
<1> HIDE DEF s, n
<1>7. n \in Nat
  BY <1>1 DEF n
<1>8. Is(rest)
  <2>a. PICK f : IsRest(f, s, n)
    BY <1>5, <1>7, RestExists
  <2>b. Is(f)
    BY <2>a DEF IsRest
  <2>1. \E g : Is(g)
    BY <2>b
  <2> HIDE DEF Is
  <2>2. QED
    BY <2>1
<1>9. IsRest(rest, s, n)
  <2> HIDE DEF rest
  <2>1. QED
    BY <1>8 DEF IsRest
<1> HIDE DEF rest
<1>10. rest[1] \in Seq(STRING) /\ Len(rest[1]) <= n
  BY <1>5, <1>7, <1>9, RestShort
<1>11. QED
  BY <1>6, <1>10 DEF n

-----------------------------------------------------------------------------
(***************************************************************************)
(* The parser's steps.                                                     *)
(***************************************************************************)
\* The NUL is still where the message ends, and what the parser looks at is
\* what was sent.
LEMMA NulAhead ==
  ASSUME Place, label \notin Ended, cpos <= Len(mem)
  PROVE  /\ Len(mem) \in Nat /\ cpos \in Nat /\ cpos > 0
         /\ mem[Len(mem)] = "nul"
         /\ \A k \in cpos..Len(mem) : mem[k] = reply.xml[k]
<1>1. reply.xml \in Seq(STRING) /\ reply.xml # <<>> /\ Last(reply.xml) = "nul"
  BY RepliesAssumption DEF Place
<1>2. reply.xml[Len(reply.xml)] = "nul"
  BY <1>1 DEF Last
<1>3. /\ Len(mem) \in Nat /\ Len(mem) = Len(reply.xml) /\ cpos \in Nat /\ cpos > 0
      /\ \A k \in Nat : k >= cpos /\ k <= Len(mem) => mem[k] = reply.xml[k]
  BY LenProperties DEF Place
<1>4. QED
  BY <1>2, <1>3

\* Behind a letter that is no NUL there is another.
LEMMA SeesMore ==
  ASSUME Place, NEW l, Sees(l), l \notin Ended
  PROVE  /\ label = l /\ label \notin Ended /\ cpos < Len(mem) /\ cpos <= Len(mem)
         /\ cpos \in Nat /\ cpos > 0 /\ Len(mem) \in Nat
<1>1. label = l /\ cpos <= Len(mem) /\ mem[cpos] # "nul"
  BY DEF Sees, At, Letter
<1>2. QED
  BY <1>1, NulAhead

\* And there is one behind each that was looked at ahead.
LEMMA FollowsMore ==
  ASSUME Place, label \notin Ended, NEW l, Follows(l), l # "nul"
  PROVE  cpos + 2 <= Len(mem)
<1>1. cpos < Len(mem) /\ mem[cpos + 1] = l
  BY DEF Follows
<1>2. Len(mem) \in Nat /\ cpos \in Nat
  BY LenProperties DEF Place
<1>3. mem[Len(mem)] = "nul"
  BY <1>1, <1>2, NulAhead
<1>4. cpos + 1 # Len(mem)
  BY <1>1, <1>3
<1>5. QED
  BY <1>1, <1>2, <1>4

\* The parser goes on by n letters: within the message, or out of it behind /,
\* behind a backslash and in CDATA; what it wrote lies behind it.
LEMMA PlaceStep ==
  ASSUME Place, label \notin Ended, cpos <= Len(mem), UNCHANGED <<reply, stage>>,
         label' \in Labels, NEW n \in Nat, cpos' = cpos + n,
         mem' \in Seq(STRING), Len(mem') = Len(mem),
         label' \notin Ended => \A k \in Nat : k >= cpos + n /\ k <= Len(mem) => mem'[k] = mem[k],
         \/ label' = "cdata"
         \/ cpos + n <= Len(mem)
         \/ cpos < Len(mem) /\ n = 2 /\ mem[cpos] \in {"/", "bs"}
  PROVE  Place'
<1>1. /\ Len(mem) \in Nat /\ cpos \in Nat /\ cpos > 0
      /\ \A k \in cpos..Len(mem) : mem[k] = reply.xml[k]
  BY NulAhead
<1>2. cpos' \in Nat /\ cpos' > 0 /\ cpos + n >= cpos
  BY <1>1
<1>3. label' \notin Ended => \A k \in Nat : k >= cpos + n /\ k <= Len(mem) => mem'[k] = reply.xml[k]
  <2>1. \A k \in Nat : k >= cpos + n /\ k <= Len(mem) => k \in cpos..Len(mem)
    BY <1>1
  <2>2. QED
    BY <1>1, <2>1
<1>4. cpos + n > Len(mem) =>
        label' = "cdata" \/ (Len(mem) > 1 /\ reply.xml[Len(mem) - 1] \in {"/", "bs"})
  <2>1. SUFFICES ASSUME cpos + n > Len(mem), label' # "cdata"
                 PROVE  Len(mem) > 1 /\ reply.xml[Len(mem) - 1] \in {"/", "bs"}
    OBVIOUS
  <2>2. cpos = Len(mem) - 1 /\ mem[cpos] \in {"/", "bs"} /\ Len(mem) > 1
    BY <1>1, <2>1
  <2>3. mem[cpos] = reply.xml[cpos]
    BY <1>1
  <2>4. QED
    BY <2>2, <2>3
<1>5. reply' \in Replies /\ stage' \in Stages /\ Len(mem') = Len(reply'.xml) /\ reply' = reply
  BY DEF Place
<1>6. QED
  BY <1>2, <1>3, <1>4, <1>5 DEF Place

\* A step that adds nothing to the tree.
LEMMA BuiltStep ==
  ASSUME Built, cpos \in Nat, cpos' \in Nat, cpos' >= cpos,
         UNCHANGED <<nodes, curatt>>, curnode' \in 1..Len(nodes),
         label' \in WithAtt => label \in WithAtt
  PROVE  Built'
  BY GrownLater DEF Built

\* A step that leaves the value in hand alone.
LEMMA MarkedStep ==
  ASSUME Marked, cpos \in Nat, cpos' \in Nat, cpos' >= cpos, UNCHANGED <<val, escaped>>,
         Solid(tag', cpos'), Solid(att', cpos'),
         label \notin Ended, label = "att_eqx" => label' \in Ended,
         label' # "att_eqx",
         label' \in {"name_x", "ename_x"} => tag'.at > 0,
         label' = "att_nameqs" => att'.at > 0
  PROVE  Marked'
<1>1. val.at \in Nat /\ val.len \in Nat
  BY DEF Marked, PieceShape
<1>2. val'.at + val'.len <= cpos'
  BY <1>1 DEF Marked
<1>3. val'.at = 0 => val'.len = 0 \/ label' \in {"att_eqx"} \cup Ended
  BY DEF Marked
<1>4. QED
  BY <1>2, <1>3 DEF Marked

Special == {"cdata", "att_eqx", "name_x", "ename_x", "att_nameqs"}

\* A step that changes nothing but the place.
LEMMA PlainStep ==
  ASSUME ReplyInv, label \notin Ended, cpos <= Len(mem), UNCHANGED <<reply, stage>>,
         UNCHANGED <<dom, marks>>, label' \in Labels \ Special,
         label' \in WithAtt => label \in WithAtt, label = "att_eqx" => label' \in Ended,
         NEW n \in Nat, cpos' = cpos + n, cpos + n <= Len(mem)
  PROVE  ReplyInv'
<1>1. Place /\ Closing /\ Built /\ Marked
  BY DEF ReplyInv
<1>2. cpos \in Nat /\ cpos' \in Nat /\ cpos' >= cpos /\ mem \in Seq(STRING)
  BY <1>1 DEF Place
<1>3. UNCHANGED <<nodes, curatt, mem, tag, att, val, escaped>> /\ curnode' = curnode
  BY DEF dom, marks
<1>4. Place'
  BY <1>1, <1>2, <1>3, PlaceStep
<1>5. Closing'
  BY DEF Closing, Special
<1>6. Built'
  <2>1. curnode' \in 1..Len(nodes)
    BY <1>1, <1>3 DEF Built
  <2>2. QED
    BY <1>1, <1>2, <1>3, <2>1, BuiltStep
<1>7. Marked'
  <2>1. Solid(tag', cpos') /\ Solid(att', cpos')
    BY <1>1, <1>2, <1>3, SolidLater DEF Marked
  <2>2. label' \notin {"att_eqx", "name_x", "ename_x", "att_nameqs"}
    BY DEF Special
  <2>3. QED
    BY <1>1, <1>2, <1>3, <2>1, <2>2, MarkedStep
<1>8. QED
  BY <1>4, <1>5, <1>6, <1>7 DEF ReplyInv

\* The labels that are left by an action are live ones.
LEMMA Live ==
  /\ Looking \cap Ended = {} /\ "cdata" \notin Ended /\ "att_eqx" \notin Ended
  /\ "comment_1dash" \notin Ended /\ "comment_2dash" \notin Ended
  BY DEF Looking, Ended

\* One lemma for each action of Parse, here those that only read: the NUL ends it.
LEMMA EndOfBufferKept ==
  ASSUME ReplyInv, UNCHANGED <<reply, stage>>, EndOfBuffer
  PROVE  ReplyInv'
<1>1. PICK l \in Looking : At(l) /\ Letter = "nul"
  BY DEF EndOfBuffer
<1>2. label \notin Ended /\ cpos <= Len(mem)
  BY <1>1, Live DEF At
<1>3. label' = "done" /\ cpos' = cpos + 0 /\ UNCHANGED <<dom, marks>>
  BY DEF EndOfBuffer, Go
<1>4. cpos \in Nat /\ cpos + 0 <= Len(mem)
  BY <1>2 DEF ReplyInv, Place
<1>5. QED
  BY <1>2, <1>3, <1>4, PlainStep DEF Labels, Ended, Special, WithAtt, Quotes

\* A letter of a comment.
LEMMA CommentKept ==
  ASSUME ReplyInv, UNCHANGED <<reply, stage>>, Comment
  PROVE  ReplyInv'
<1>1. UNCHANGED <<dom, marks>> /\ Place /\ Len(mem) \in Nat /\ cpos \in Nat
  BY LenProperties DEF Comment, ReplyInv, Place
<1>2. label \in {"comment", "comment_1dash", "comment_2dash"} /\ cpos <= Len(mem)
  BY DEF Comment, At, Sees
<1>3. label \notin Ended
  BY <1>2, Live DEF Ended
<1>4. mem[Len(mem)] = "nul"
  BY <1>1, <1>2, <1>3, NulAhead
<1>5. label' \in {"comment", "comment_1dash", "comment_2dash", "val_1"}
  BY DEF Comment, Go
<1>6. \/ cpos' = cpos + 0
      \/ cpos' = cpos + 1 /\ mem[cpos] # "nul"
  BY <1>1 DEF Comment, Sees, Letter, Go
<1>7. cpos' = cpos + 0 \/ (cpos' = cpos + 1 /\ cpos + 1 <= Len(mem))
  BY <1>1, <1>2, <1>4, <1>6
<1>8. label' \in Labels \ Special /\ label' \notin WithAtt /\ label # "att_eqx"
  BY <1>2, <1>5 DEF Labels, Looking, Special, WithAtt, Quotes
<1>9. CASE cpos' = cpos + 0
  BY <1>1, <1>2, <1>3, <1>8, <1>9, PlainStep
<1>10. CASE cpos' = cpos + 1 /\ cpos + 1 <= Len(mem)
  BY <1>1, <1>2, <1>3, <1>8, <1>10, PlainStep
<1>11. QED
  BY <1>7, <1>9, <1>10

\* A letter of a processing instruction.
LEMMA PiKept ==
  ASSUME ReplyInv, UNCHANGED <<reply, stage>>, Pi
  PROVE  ReplyInv'
<1>1. UNCHANGED <<dom, marks>> /\ Place /\ Sees("pi")
  BY DEF Pi, ReplyInv
<1>2. /\ label = "pi" /\ label \notin Ended /\ cpos < Len(mem) /\ cpos <= Len(mem)
      /\ cpos \in Nat /\ Len(mem) \in Nat
  BY <1>1, SeesMore DEF Ended
<1>3. \/ label' = "val_1" /\ cpos' = cpos + 2 /\ Follows(">")
      \/ label' = "pi" /\ cpos' = cpos + 1
  BY DEF Pi, Go
<1>4. label' \in Labels \ Special /\ label' \notin WithAtt /\ label # "att_eqx"
  BY <1>2, <1>3 DEF Labels, Looking, Special, WithAtt, Quotes
<1>5. CASE cpos' = cpos + 2 /\ Follows(">")
  <2>1. cpos + 2 <= Len(mem)
    BY <1>1, <1>2, <1>5, FollowsMore
  <2>2. QED
    BY <1>1, <1>2, <1>4, <1>5, <2>1, PlainStep
<1>6. CASE cpos' = cpos + 1
  <2>1. cpos + 1 <= Len(mem)
    BY <1>2
  <2>2. QED
    BY <1>1, <1>2, <1>4, <1>6, <2>1, PlainStep
<1>7. QED
  BY <1>3, <1>5, <1>6

\* A letter of a declaration.
LEMMA BangKept ==
  ASSUME ReplyInv, UNCHANGED <<reply, stage>>, Bang
  PROVE  ReplyInv'
<1>1. UNCHANGED <<dom, marks>> /\ Place /\ Sees("bang")
  BY DEF Bang, ReplyInv
<1>2. /\ label = "bang" /\ label \notin Ended /\ cpos < Len(mem) /\ cpos <= Len(mem)
      /\ cpos \in Nat /\ Len(mem) \in Nat
  BY <1>1, SeesMore DEF Ended
<1>3. label' \in {"val_1", "bang"} /\ cpos' = cpos + 1
  BY DEF Bang, Go
<1>4. label' \in Labels \ Special /\ label' \notin WithAtt /\ label # "att_eqx"
  BY <1>2, <1>3 DEF Labels, Looking, Special, WithAtt, Quotes
<1>5. cpos + 1 <= Len(mem)
  BY <1>2
<1>6. QED
  BY <1>1, <1>2, <1>3, <1>4, <1>5, PlainStep

\* A blank between an attribute's name and its =.
LEMMA AttSpaceKept ==
  ASSUME ReplyInv, UNCHANGED <<reply, stage>>, AttSpace
  PROVE  ReplyInv'
<1>1. UNCHANGED <<dom, marks>> /\ Place /\ Sees("att_space")
  BY DEF AttSpace, ReplyInv
<1>2. /\ label = "att_space" /\ label \notin Ended /\ cpos < Len(mem) /\ cpos <= Len(mem)
      /\ cpos \in Nat /\ Len(mem) \in Nat
  BY <1>1, SeesMore DEF Ended
<1>3. label' \in {"att_space", "att_eq1", "att_name"} /\ \E n \in {0, 1} : cpos' = cpos + n
  BY DEF AttSpace, Go
<1>4. label' \in Labels \ Special /\ label \in WithAtt /\ label # "att_eqx"
  BY <1>2, <1>3 DEF Labels, Looking, Special, WithAtt, Quotes
<1>5. PICK n \in {0, 1} : cpos' = cpos + n
  BY <1>3
<1>6. cpos + n <= Len(mem) /\ n \in Nat
  BY <1>2
<1>7. QED
  BY <1>1, <1>2, <1>4, <1>5, <1>6, PlainStep

\* The tree grows by letters of text.
LEMMA BuiltRun ==
  ASSUME Built, cpos \in Nat, cpos > 0, cpos' = cpos + 1, UNCHANGED <<curatt, curnode>>,
         RunStart \/ RunLetter \/ UNCHANGED nodes, label' \notin WithAtt
  PROVE  Built'
<1>1. Grown(nodes, cpos + 1) /\ curnode \in 1..Len(nodes) /\ Grown(nodes, cpos)
  BY GrownLater DEF Built
<1>2. nodes[curnode] \in NodeShape /\ DOMAIN nodes = 1..Len(nodes)
  BY <1>1, NodeParts
<1>3. /\ Solid(nodes[curnode].value, cpos) /\ nodes[curnode].value \in PieceShape
      /\ nodes[curnode].numvals \in Nat
      /\ nodes[curnode].numvals # 0 => nodes[curnode].value.at > 0
  BY <1>1, <1>2 DEF Grown, NodeShape
<1>4. CASE RunStart
  <2> DEFINE p == IF nodes[curnode].numvals = 0 THEN Piece(cpos, 1) ELSE nodes[curnode].value
             v == nodes[curnode].numvals + 1
  <2>1. Solid(p, cpos + 1) /\ p.at > 0 /\ v \in Nat
    <3>1. Solid(Piece(cpos, 1), cpos + 1) /\ Piece(cpos, 1).at > 0
      BY DEF Solid, PieceShape, Piece
    <3>2. Solid(nodes[curnode].value, cpos + 1)
      BY <1>3, SolidLater
    <3>3. QED
      BY <1>3, <3>1, <3>2
  <2>2. Valued(nodes', nodes, curnode, p, v)
    BY <1>1, <1>2, <1>4 DEF RunStart, Valued
  <2> HIDE DEF p, v
  <2>3. Grown(nodes', cpos + 1) /\ Len(nodes') = Len(nodes)
    <3>1. cpos + 1 \in Nat
      OBVIOUS
    <3>2. QED
      BY <1>1, <2>1, <2>2, <3>1, GrownValue
  <2>4. QED
    BY <1>1, <2>3 DEF Built
<1>5. CASE RunLetter /\ nodes[curnode].numvals = 1
  <2> DEFINE p == Longer(nodes[curnode].value, 1)
  <2>1. Solid(p, cpos + 1) /\ p.at > 0
    BY <1>3, <1>5 DEF Solid, PieceShape, Longer
  <2>2. Valued(nodes', nodes, curnode, p, 1)
    BY <1>1, <1>2, <1>5 DEF RunLetter, NodeShape, Valued
  <2> HIDE DEF p
  <2>3. Grown(nodes', cpos + 1) /\ Len(nodes') = Len(nodes)
    <3>1. cpos + 1 \in Nat /\ 1 \in Nat
      OBVIOUS
    <3>2. QED
      BY <1>1, <2>1, <2>2, <3>1, GrownValue
  <2>4. QED
    BY <1>1, <2>3 DEF Built
<1>6. CASE UNCHANGED nodes \/ (RunLetter /\ nodes[curnode].numvals # 1)
  <2>1. nodes' = nodes
    BY <1>6 DEF RunLetter
  <2>2. QED
    BY <1>1, <2>1 DEF Built
<1>7. QED
  BY <1>4, <1>5, <1>6

\* A step with which nothing but the place and the text of a node changes.
LEMMA RunStep ==
  ASSUME ReplyInv, label \notin Ended, label # "att_eqx", cpos <= Len(mem),
         UNCHANGED <<reply, stage>>, UNCHANGED <<curnode, curatt, mem, marks>>,
         RunStart \/ RunLetter \/ UNCHANGED nodes,
         cpos' = cpos + 1, label' \in (Labels \ Special) \cup {"cdata"}, label' \notin WithAtt,
         cpos + 1 <= Len(mem) \/ label' = "cdata"
  PROVE  Place' /\ Built' /\ Marked'
<1>1. Place /\ Closing /\ Built /\ Marked
  BY DEF ReplyInv
<1>2. cpos \in Nat /\ cpos > 0 /\ cpos' \in Nat /\ cpos' >= cpos /\ mem \in Seq(STRING)
  BY <1>1 DEF Place
<1>3. UNCHANGED <<curnode, curatt, mem, tag, att, val, escaped>>
  BY DEF marks
<1>4. Place'
  <2>1. label' \in Labels
    BY DEF Labels
  <2>2. QED
    BY <1>1, <1>2, <1>3, <2>1, PlaceStep
<1>5. Built'
  BY <1>1, <1>2, <1>3, BuiltRun
<1>6. Marked'
  <2>1. Solid(tag', cpos') /\ Solid(att', cpos')
    BY <1>1, <1>2, <1>3, SolidLater DEF Marked
  <2>2. label' \notin {"att_eqx", "name_x", "ename_x", "att_nameqs"}
    BY DEF Special
  <2>3. QED
    BY <1>1, <1>2, <1>3, <2>1, <2>2, MarkedStep
<1>7. QED
  BY <1>4, <1>5, <1>6

\* The first letter of a run of text.
LEMMA Val1Kept ==
  ASSUME ReplyInv, UNCHANGED <<reply, stage>>, Val1
  PROVE  ReplyInv'
<1>1. Place /\ Sees("val_1") /\ UNCHANGED <<curnode, curatt, mem, marks>>
  BY DEF Val1, ReplyInv
<1>2. /\ label = "val_1" /\ label \notin Ended /\ cpos < Len(mem) /\ cpos <= Len(mem)
      /\ cpos \in Nat /\ Len(mem) \in Nat
  BY <1>1, SeesMore DEF Ended
<1>3. label' = "val_x" /\ label' \in Labels \ Special /\ label' \notin WithAtt
  BY DEF Val1, Go, Labels, Looking, Special, WithAtt, Quotes
<1>4. CASE UNCHANGED nodes /\ cpos' = cpos + 0
  <2>1. UNCHANGED <<dom, marks>> /\ cpos + 0 <= Len(mem)
    BY <1>1, <1>2, <1>4 DEF dom
  <2>2. QED
    BY <1>2, <1>3, <1>4, <2>1, PlainStep
<1>5. CASE RunStart /\ cpos' = cpos + 1
  <2>1. cpos + 1 <= Len(mem)
    BY <1>2
  <2>2. Place' /\ Built' /\ Marked'
    BY <1>1, <1>2, <1>3, <1>5, <2>1, RunStep
  <2>3. Closing'
    BY <1>3 DEF Closing
  <2>4. QED
    BY <2>2, <2>3 DEF ReplyInv
<1>6. QED
  BY <1>4, <1>5 DEF Val1, Go

\* Behind each CDATA of a whole reply there is its end.
LEMMA CdataClosed ==
  ASSUME Place, reply.kind = "whole", NEW k \in 1..Len(mem), reply.xml[k] = "CDATA"
  PROVE  \E m \in Nat : /\ k + 2 <= m /\ m + 3 <= Len(mem)
                        /\ SubSeq(reply.xml, m, m + 2) = <<"]", "]", ">">>
<1>1. reply.xml \in Seq(STRING) /\ EndsClosed(reply.xml) /\ Len(mem) = Len(reply.xml)
  BY RepliesAssumption DEF Place
<1>2. DOMAIN reply.xml = 1..Len(mem) /\ Len(mem) \in Nat
  BY <1>1, LenProperties
<1>3. PICK m \in k + 2..Len(reply.xml) - 3 : SubSeq(reply.xml, m, m + 2) = <<"]", "]", ">">>
  BY <1>1, <1>2 DEF EndsClosed
<1>4. m \in Nat /\ k + 2 <= m /\ m + 3 <= Len(mem)
  BY <1>1, <1>2, <1>3
<1>5. QED
  BY <1>3, <1>4

\* The two letters behind <!, as far as they are there.
LEMMA Behind ==
  ASSUME mem \in Seq(STRING), cpos \in Nat, cpos > 0, cpos + 2 <= Len(mem), Len(mem) \in Nat,
         NEW a, NEW b, SubSeq(mem, cpos + 2, Min({cpos + 3, Len(mem)})) = <<a, b>>
  PROVE  cpos + 3 <= Len(mem) /\ mem[cpos + 2] = a /\ mem[cpos + 3] = b
<1> DEFINE m == Min({cpos + 3, Len(mem)})
<1>1. m \in {cpos + 3, Len(mem)} /\ \A y \in {cpos + 3, Len(mem)} : m <= y
  <2> DEFINE T == {cpos + 3, Len(mem)}
  <2>1. T \in SUBSET Nat /\ T # {}
    OBVIOUS
  <2>2. PICK x \in T : \A y \in T : x <= y
    BY <2>1, LeastNat
  <2> HIDE DEF T
  <2>3. Min(T) \in T /\ \A y \in T : Min(T) <= y
    BY <2>2 DEF Min
  <2>4. QED
    BY <2>3 DEF T
<1> HIDE DEF m
<1>2. m \in Int /\ cpos + 2 \in Int /\ m >= cpos + 2 /\ m <= Len(mem) /\ m <= cpos + 3
  BY <1>1
<1>3. \A k \in cpos + 2..m : mem[k] \in STRING
  <2>1. \A k \in cpos + 2..m : k \in 1..Len(mem)
    BY <1>2
  <2>2. QED
    BY <2>1, ElementOfSeq
<1>4. /\ Len(SubSeq(mem, cpos + 2, m)) = m - (cpos + 2) + 1
      /\ \A k \in 1..m - (cpos + 2) + 1 : SubSeq(mem, cpos + 2, m)[k] = mem[cpos + 2 + k - 1]
  BY <1>2, <1>3, SubSeqProperties
<1>5. SubSeq(mem, cpos + 2, m) = <<a, b>>
  BY DEF m
<1>6. m - (cpos + 2) + 1 = 2
  BY <1>4, <1>5
<1>7. m = cpos + 3 /\ 1 \in 1..m - (cpos + 2) + 1 /\ 2 \in 1..m - (cpos + 2) + 1
  BY <1>2, <1>6
<1>8. mem[cpos + 2 + 1 - 1] = a /\ mem[cpos + 2 + 2 - 1] = b
  <2>1. /\ SubSeq(mem, cpos + 2, m)[1] = mem[cpos + 2 + 1 - 1]
        /\ SubSeq(mem, cpos + 2, m)[2] = mem[cpos + 2 + 2 - 1]
    BY <1>4, <1>7
  <2>2. <<a, b>>[1] = a /\ <<a, b>>[2] = b
    OBVIOUS
  <2>3. QED
    BY <1>5, <2>1, <2>2
<1>9. cpos + 2 + 1 - 1 = cpos + 2 /\ cpos + 2 + 2 - 1 = cpos + 3
  OBVIOUS
<1>10. QED
  BY <1>2, <1>7, <1>8, <1>9

\* The next letters, as far as they are there.
LEMMA LesserOf ==
  ASSUME NEW a \in Nat, NEW b \in Nat
  PROVE  Min({a, b}) = IF a <= b THEN a ELSE b
<1> DEFINE T == {a, b}
<1>1. T \in SUBSET Nat /\ T # {}
  OBVIOUS
<1>2. PICK x \in T : \A y \in T : x <= y
  BY <1>1, LeastNat
<1> HIDE DEF T
<1>3. Min(T) \in T /\ \A y \in T : Min(T) <= y
  BY <1>2 DEF Min
<1>4. QED
  BY <1>3 DEF T

\* Three letters that are all there.
LEMMA AheadWhole ==
  ASSUME cpos \in Nat, Len(mem) \in Nat, cpos + 2 <= Len(mem)
  PROVE  SubSeq(mem, cpos, Min({cpos + 2, Len(mem)})) = SubSeq(mem, cpos, cpos + 2)
<1>1. Min({cpos + 2, Len(mem)}) = cpos + 2
  BY LesserOf
<1>2. QED
  BY <1>1

\* Three letters that were found are there.
LEMMA Ahead ==
  ASSUME mem \in Seq(STRING), cpos \in Nat, cpos > 0, cpos <= Len(mem), Len(mem) \in Nat,
         NEW a, NEW b, NEW c, SubSeq(mem, cpos, Min({cpos + 2, Len(mem)})) = <<a, b, c>>
  PROVE  cpos + 2 <= Len(mem) /\ mem[cpos + 2] = c
<1> DEFINE m == Min({cpos + 2, Len(mem)})
<1>1. m = IF cpos + 2 <= Len(mem) THEN cpos + 2 ELSE Len(mem)
  BY LesserOf
<1> HIDE DEF m
<1>2. m \in Int /\ cpos \in Int /\ m >= cpos /\ m <= Len(mem) /\ m <= cpos + 2
  BY <1>1
<1>3. \A k \in cpos..m : mem[k] \in STRING
  <2>1. \A k \in cpos..m : k \in 1..Len(mem)
    BY <1>2
  <2>2. QED
    BY <2>1, ElementOfSeq
<1>4. /\ Len(SubSeq(mem, cpos, m)) = m - cpos + 1
      /\ \A k \in 1..m - cpos + 1 : SubSeq(mem, cpos, m)[k] = mem[cpos + k - 1]
  BY <1>2, <1>3, SubSeqProperties
<1>5. SubSeq(mem, cpos, m) = <<a, b, c>>
  BY DEF m
<1>6. m - cpos + 1 = 3
  BY <1>4, <1>5
<1>7. m = cpos + 2 /\ 3 \in 1..m - cpos + 1 /\ cpos + 3 - 1 = cpos + 2
  BY <1>2, <1>6
<1>8. mem[cpos + 2] = c
  <2>1. SubSeq(mem, cpos, m)[3] = mem[cpos + 3 - 1]
    BY <1>4, <1>7
  <2>2. <<a, b, c>>[3] = c
    OBVIOUS
  <2>3. QED
    BY <1>5, <1>7, <2>1, <2>2
<1>9. QED
  BY <1>2, <1>7, <1>8

\* A letter of text, or the start of a tag.  CDATA is entered where the message
\* has it, so that EndsClosed tells of its end.
LEMMA ValXKept ==
  ASSUME ReplyInv, UNCHANGED <<reply, stage>>, ValX
  PROVE  ReplyInv'
<1> DEFINE behind == SubSeq(mem, cpos + 2, Min({cpos + 3, Len(mem)}))
<1>1. Place /\ Sees("val_x") /\ UNCHANGED <<curnode, curatt, mem, marks>>
  BY DEF ValX, ReplyInv
<1>2. /\ label = "val_x" /\ label \notin Ended /\ cpos < Len(mem) /\ cpos <= Len(mem)
      /\ cpos \in Nat /\ cpos > 0 /\ Len(mem) \in Nat /\ mem \in Seq(STRING)
      /\ Len(mem) = Len(reply.xml)
  BY <1>1, SeesMore DEF Ended, Place
<1>3. CASE Letter # "<"
  <2>1. label' = "val_x" /\ cpos' = cpos + 1 /\ RunLetter
    BY <1>3 DEF ValX, Go
  <2>2. label' \in Labels \ Special /\ label' \notin WithAtt /\ cpos + 1 <= Len(mem)
    BY <1>2, <2>1 DEF Labels, Looking, Special, WithAtt, Quotes
  <2>3. Place' /\ Built' /\ Marked'
    BY <1>1, <1>2, <2>1, <2>2, RunStep
  <2>4. Closing'
    BY <2>1 DEF Closing
  <2>5. QED
    BY <2>3, <2>4 DEF ReplyInv
<1>4. CASE Letter = "<" /\ ~(Follows("!") /\ behind = <<"[", "CDATA">>)
  <2>1. UNCHANGED <<dom, marks>>
    BY <1>1, <1>4 DEF ValX, dom
  <2>2. \/ label' = "name_1" /\ cpos' = cpos + 1
        \/ label' = "pi" /\ cpos' = cpos + 2 /\ Follows("?")
        \/ label' = "comment" /\ cpos' = cpos + 4 /\ Follows("!") /\ behind = <<"-", "-">>
        \/ label' = "val_x" /\ cpos' = cpos + 2 /\ Follows("!")
        \/ label' = "bang" /\ cpos' = cpos + 1
    <3>1. CASE ~Follows("!")
      BY <1>4, <3>1 DEF ValX, Go
    <3>2. CASE Follows("!")
      <4>1. CASE behind = <<"-", "-">>
        <5> HIDE DEF behind
        <5>0. <<"-", "-">>[1] = "-" /\ <<"-", "-">> # <<"[", "CDATA">>
          OBVIOUS
        <5>1. behind # <<"[", "CDATA">> /\ behind[1] # "["
          BY <4>1, <5>0
        <5>2. QED
          BY <1>4, <3>2, <4>1, <5>1 DEF ValX, Go, behind
      <4>2. CASE behind # <<"-", "-">>
        BY <1>4, <3>2, <4>2 DEF ValX, Go
      <4>3. QED
        BY <4>1, <4>2
    <3>3. QED
      BY <3>1, <3>2
  <2>3. PICK n \in {1, 2, 4} : cpos' = cpos + n /\ cpos + n <= Len(mem)
    <3>1. CASE cpos' = cpos + 1
      BY <1>2, <3>1
    <3>2. CASE cpos' = cpos + 2 /\ (Follows("?") \/ Follows("!"))
      BY <1>1, <1>2, <3>2, FollowsMore
    <3>3. CASE cpos' = cpos + 4 /\ Follows("!") /\ behind = <<"-", "-">>
      <4>1. cpos + 2 <= Len(mem)
        BY <1>1, <1>2, <3>3, FollowsMore
      <4>2. cpos + 3 <= Len(mem) /\ mem[cpos + 3] = "-"
        BY <1>2, <3>3, <4>1, Behind
      <4>3. mem[Len(mem)] = "nul"
        BY <1>1, <1>2, NulAhead
      <4>4. cpos + 3 # Len(mem)
        BY <4>2, <4>3
      <4>5. QED
        BY <1>2, <3>3, <4>2, <4>4
    <3>4. QED
      BY <2>2, <3>1, <3>2, <3>3
  <2>4. label' \in Labels \ Special /\ label' \notin WithAtt /\ n \in Nat
    BY <2>2, <2>3 DEF Labels, Looking, Special, WithAtt, Quotes
  <2>5. QED
    BY <1>2, <2>1, <2>3, <2>4, PlainStep
<1>5. CASE Letter = "<" /\ Follows("!") /\ behind = <<"[", "CDATA">>
  <2>1. label' = "cdata" /\ cpos' = cpos + 5 /\ UNCHANGED nodes
    <3>1. ~(~Follows("!")) /\ Follows("!") /\ behind # <<"-", "-">>
      BY <1>5
    <3> HIDE DEF behind
    <3>0. <<"[", "CDATA">>[1] = "["
      OBVIOUS
    <3>2. behind[1] = "["
      BY <1>5, <3>0
    <3>3. ~Follows("?")
      BY <1>5 DEF Follows
    <3>4. QED
      BY <1>5, <3>1, <3>2, <3>3 DEF ValX, Go, behind
  <2>2. cpos + 2 <= Len(mem)
    BY <1>1, <1>2, <1>5, FollowsMore
  <2>3. cpos + 3 <= Len(mem) /\ mem[cpos + 3] = "CDATA"
    BY <1>2, <1>5, <2>2, Behind
  <2>4. UNCHANGED <<nodes, curnode, curatt, mem, tag, att, val, escaped>>
    BY <1>1, <2>1 DEF marks
  <2>5. cpos' \in Nat /\ cpos' >= cpos /\ label' \in Labels
    BY <1>2, <2>1 DEF Labels
  <2>6. Place'
    <3>1. 5 \in Nat
      OBVIOUS
    <3>2. QED
      BY <1>1, <1>2, <2>1, <2>4, <2>5, <3>1, PlaceStep
  <2>7. Closing'
    <3>1. SUFFICES ASSUME reply.kind = "whole"
                   PROVE  \E m \in Nat : /\ cpos + 5 <= m /\ m + 3 <= Len(mem)
                                         /\ SubSeq(reply.xml, m, m + 2) = <<"]", "]", ">">>
      BY <2>1, <2>4 DEF Closing
    <3>2. cpos + 3 \in 1..Len(mem)
      BY <1>2, <2>3
    <3>3. reply.xml[cpos + 3] = "CDATA"
      <4>1. cpos + 3 \in cpos..Len(mem)
        BY <1>2, <2>3
      <4>2. QED
        BY <1>1, <1>2, <2>3, <4>1, NulAhead
    <3>4. (cpos + 3) + 2 = cpos + 5
      BY <1>2
    <3>5. QED
      BY <1>1, <3>1, <3>2, <3>3, <3>4, CdataClosed
  <2>8. Built'
    <3>1. Built /\ curnode' \in 1..Len(nodes) /\ label' \notin WithAtt
      BY <2>1, <2>4 DEF ReplyInv, Built, WithAtt, Quotes
    <3>2. QED
      BY <1>2, <2>4, <2>5, <3>1, BuiltStep
  <2>9. Marked'
    <3>1. Marked /\ Solid(tag', cpos') /\ Solid(att', cpos')
      BY <1>2, <2>4, <2>5, SolidLater DEF ReplyInv, Marked
    <3>2. label' \notin {"att_eqx", "name_x", "ename_x", "att_nameqs"} /\ label # "att_eqx"
      BY <1>2, <2>1
    <3>3. QED
      BY <1>2, <2>4, <2>5, <3>1, <3>2, MarkedStep
  <2>10. QED
    BY <2>6, <2>7, <2>8, <2>9 DEF ReplyInv
<1>6. QED
  BY <1>3, <1>4, <1>5

\* A letter of CDATA: its end stays ahead until it is met.
LEMMA CdataKept ==
  ASSUME ReplyInv, UNCHANGED <<reply, stage>>, Cdata
  PROVE  ReplyInv'
<1> DEFINE ahead == SubSeq(mem, cpos, Min({cpos + 2, Len(mem)}))
<1>1. /\ Place /\ label = "cdata" /\ cpos <= Len(mem) /\ label \notin Ended
      /\ UNCHANGED <<curnode, curatt, mem, marks>>
  BY DEF Cdata, ReplyInv, At, Ended
<1>2. /\ cpos \in Nat /\ cpos > 0 /\ Len(mem) \in Nat /\ mem \in Seq(STRING)
      /\ mem[Len(mem)] = "nul" /\ \A k \in cpos..Len(mem) : mem[k] = reply.xml[k]
  BY <1>1, NulAhead DEF Place
<1>3. CASE ahead = <<"]", "]", ">">>
  <2>1. label' = "val_1" /\ cpos' = cpos + 3 /\ UNCHANGED nodes
    BY <1>3 DEF Cdata, Go
  <2>2. cpos + 2 <= Len(mem) /\ mem[cpos + 2] = ">"
    BY <1>2, <1>3, <1>1, Ahead
  <2>3. cpos + 3 <= Len(mem)
    BY <1>2, <2>2
  <2>4. UNCHANGED <<dom, marks>>
    BY <1>1, <2>1 DEF dom
  <2>5. label' \in Labels \ Special /\ label' \notin WithAtt /\ label # "att_eqx" /\ 3 \in Nat
    BY <1>1, <2>1 DEF Labels, Looking, Special, WithAtt, Quotes
  <2>6. QED
    BY <1>1, <2>1, <2>3, <2>4, <2>5, PlainStep
<1>4. CASE ahead # <<"]", "]", ">">>
  <2>1. label' = "cdata" /\ cpos' = cpos + 1 /\ (RunStart \/ RunLetter)
    BY <1>4 DEF Cdata, Go
  <2>2. label' \notin WithAtt /\ label # "att_eqx"
    BY <1>1, <2>1 DEF WithAtt, Quotes
  <2>3. Place' /\ Built' /\ Marked'
    BY <1>1, <2>1, <2>2, RunStep
  <2>4. Closing'
    <3>1. SUFFICES ASSUME reply.kind = "whole"
                   PROVE  \E m \in Nat : /\ cpos + 1 <= m /\ m + 3 <= Len(mem)
                                         /\ SubSeq(reply.xml, m, m + 2) = <<"]", "]", ">">>
      BY <1>1, <2>1 DEF Closing
    <3>2. PICK m \in Nat : /\ cpos <= m /\ m + 3 <= Len(mem)
                           /\ SubSeq(reply.xml, m, m + 2) = <<"]", "]", ">">>
      BY <1>1, <3>1 DEF ReplyInv, Closing
    <3>3. m # cpos
      <4>1. SUFFICES ASSUME m = cpos PROVE FALSE
        OBVIOUS
      <4>a. cpos + 2 <= Len(mem)
        BY <1>2, <3>2, <4>1
      <4>2. ahead = SubSeq(mem, cpos, cpos + 2)
        BY <1>2, <4>a, AheadWhole
      <4>3. \A k \in cpos..cpos + 2 : mem[k] = reply.xml[k] /\ mem[k] \in STRING
        <5>1. \A k \in cpos..cpos + 2 : k \in cpos..Len(mem) /\ k \in 1..Len(mem)
          BY <1>2, <3>2, <4>1
        <5>2. QED
          BY <1>2, <5>1, ElementOfSeq
      <4>4. SubSeq(mem, cpos, cpos + 2) = SubSeq(reply.xml, cpos, cpos + 2)
        <5>1. cpos \in Int /\ cpos + 2 \in Int
          BY <1>2
        <5>2. /\ SubSeq(mem, cpos, cpos + 2) \in Seq(STRING)
              /\ Len(SubSeq(mem, cpos, cpos + 2)) = IF cpos <= cpos + 2 THEN (cpos + 2) - cpos + 1 ELSE 0
              /\ \A k \in 1..(cpos + 2) - cpos + 1 :
                   SubSeq(mem, cpos, cpos + 2)[k] = mem[cpos + k - 1]
          BY <4>3, <5>1, SubSeqProperties
        <5>3. \A k \in cpos..cpos + 2 : reply.xml[k] \in STRING
          BY <4>3
        <5>4. /\ SubSeq(reply.xml, cpos, cpos + 2) \in Seq(STRING)
              /\ Len(SubSeq(reply.xml, cpos, cpos + 2)) = IF cpos <= cpos + 2 THEN (cpos + 2) - cpos + 1 ELSE 0
              /\ \A k \in 1..(cpos + 2) - cpos + 1 :
                   SubSeq(reply.xml, cpos, cpos + 2)[k] = reply.xml[cpos + k - 1]
          BY <5>1, <5>3, SubSeqProperties
        <5>5. \A k \in 1..3 : cpos + k - 1 \in cpos..cpos + 2
          BY <1>2
        <5>6. (cpos + 2) - cpos + 1 = 3 /\ cpos <= cpos + 2
          BY <1>2
        <5>7. QED
          BY <4>3, <5>2, <5>4, <5>5, <5>6, SeqEqual
      <4>5. QED
        BY <1>4, <3>2, <4>1, <4>2, <4>4
    <3>4. cpos + 1 <= m
      BY <1>2, <3>2, <3>3
    <3>5. QED
      BY <3>2, <3>4
  <2>5. QED
    BY <2>3, <2>4 DEF ReplyInv
<1>5. QED
  BY <1>3, <1>4

-----------------------------------------------------------------------------
(***************************************************************************)
(* The steps that make elements and attributes.                            *)
(***************************************************************************)
\* A step that writes nothing to the message keeps the invariant if it keeps
\* the tree and the pieces in hand.
LEMMA LetterStep ==
  ASSUME ReplyInv, label \notin Ended, cpos <= Len(mem), UNCHANGED <<reply, stage, mem>>,
         label' \in Labels, label' # "cdata", NEW n \in Nat, cpos' = cpos + n,
         \/ cpos + n <= Len(mem)
         \/ cpos < Len(mem) /\ n = 2 /\ mem[cpos] \in {"/", "bs"},
         Built', Marked'
  PROVE  ReplyInv'
<1>1. Place /\ mem \in Seq(STRING)
  BY DEF ReplyInv, Place
<1>2. Place'
  BY <1>1, PlaceStep
<1>3. Closing'
  BY DEF Closing
<1>4. QED
  BY <1>2, <1>3 DEF ReplyInv

\* The element that is left is in the tree, and so is the one around it.
LEMMA LeaveKept ==
  ASSUME Built, NEW l, NEW n, Leave(l, n), cpos \in Nat
  PROVE  /\ curnode' \in 1..Len(nodes)
         /\ \/ label' = l /\ cpos' = cpos + n
            \/ label' \in {"done", "crashed"} /\ cpos' = cpos + 0
<1>1. curnode \in 1..Len(nodes) /\ Grown(nodes, cpos)
  BY DEF Built
<1>2. nodes[curnode].parent \in 1..Len(nodes)
  BY <1>1 DEF Grown
<1>3. CASE curnode # Root
  BY <1>2, <1>3 DEF Leave, Go
<1>4. CASE curnode = Root
  <2>1. label' \in Unwritten("done", {"crashed"}) /\ UNCHANGED <<curnode, cpos>>
    BY <1>4 DEF Leave
  <2>2. label' \in {"done", "crashed"}
    BY <2>1 DEF Unwritten
  <2>3. QED
    BY <1>1, <2>1, <2>2
<1>5. QED
  BY <1>3, <1>4

\* Where a label that sees a letter finds the invariant.
LEMMA SeenFrom ==
  ASSUME ReplyInv, NEW l \in Looking, Sees(l)
  PROVE  /\ Place /\ Built /\ Marked
         /\ label = l /\ label \notin Ended /\ cpos < Len(mem) /\ cpos <= Len(mem)
         /\ cpos \in Nat /\ cpos > 0 /\ Len(mem) \in Nat /\ mem \in Seq(STRING)
         /\ cpos + 1 <= Len(mem) /\ 1 \in Nat /\ 2 \in Nat /\ 0 \in Nat
         /\ Solid(tag, cpos) /\ Solid(att, cpos) /\ Solid(tag, cpos + 1) /\ Solid(att, cpos + 1)
         /\ Solid(tag, cpos + 2) /\ Solid(att, cpos + 2)
<1>1. Place /\ Built /\ Marked /\ l \notin Ended
  BY Live DEF ReplyInv
<1>2. /\ label = l /\ label \notin Ended /\ cpos < Len(mem) /\ cpos <= Len(mem)
      /\ cpos \in Nat /\ cpos > 0 /\ Len(mem) \in Nat
  BY <1>1, SeesMore
<1>3. Solid(tag, cpos) /\ Solid(att, cpos) /\ mem \in Seq(STRING)
  BY <1>1 DEF Marked, Place
<1>4. \A p : Solid(p, cpos) => Solid(p, cpos + 1) /\ Solid(p, cpos + 2)
  <2>1. cpos + 1 \in Nat /\ cpos + 2 \in Nat /\ cpos <= cpos + 1 /\ cpos <= cpos + 2
    BY <1>2
  <2>2. QED
    BY <1>2, <2>1, SolidLater
<1>5. cpos + 1 <= Len(mem)
  BY <1>2
<1>6. QED
  BY <1>1, <1>2, <1>3, <1>4, <1>5

\* A piece of one letter, and one with a letter more.
LEMMA SolidLetter ==
  ASSUME NEW c \in Nat, c > 0
  PROVE  /\ Solid(Piece(c, 1), c + 1) /\ Piece(c, 1).at > 0
         /\ Solid(Piece(c + 1, 0), c + 1) /\ Piece(c + 1, 0).at > 0
  BY DEF Solid, PieceShape, Piece

\* A piece that ends where the parser is takes the letter there.
LEMMA SolidLonger ==
  ASSUME NEW c \in Nat, NEW p, Solid(p, c), p.at > 0
  PROVE  Solid(Longer(p, 1), c + 1) /\ Longer(p, 1).at > 0
  BY DEF Solid, PieceShape, Longer

\* The first letter of an element's name.
LEMMA Name1Kept ==
  ASSUME ReplyInv, UNCHANGED <<reply, stage>>, Name1
  PROVE  ReplyInv'
<1>1. Sees("name_1") /\ UNCHANGED <<nodes, curnode, curatt, mem, att, val, escaped>>
  BY DEF Name1, dom
<1>2. /\ Place /\ Built /\ Marked /\ label = "name_1" /\ label \notin Ended
      /\ cpos <= Len(mem) /\ cpos + 1 <= Len(mem) /\ 1 \in Nat
      /\ cpos \in Nat /\ cpos > 0 /\ Solid(tag, cpos + 1) /\ Solid(att, cpos + 1)
  BY <1>1, SeenFrom DEF Looking
<1>3. /\ cpos' = cpos + 1
      /\ \/ label' \in {"name_1", "ename_1"} /\ tag' = tag
         \/ label' = "name_x" /\ tag' = Piece(cpos, 1)
  BY DEF Name1, Go
<1>4. /\ label' \in Labels /\ label' \notin WithAtt
      /\ label' \notin {"cdata", "att_eqx", "ename_x", "att_nameqs"}
  BY <1>3 DEF Labels, Looking, WithAtt, Quotes
<1>5. cpos' \in Nat /\ cpos' >= cpos
  BY <1>2, <1>3
<1>6. Built'
  <2>1. curnode' \in 1..Len(nodes)
    BY <1>1, <1>2 DEF Built
  <2>2. QED
    BY <1>1, <1>2, <1>4, <1>5, <2>1, BuiltStep
<1>7. Marked'
  <2>1. Solid(tag', cpos') /\ Solid(att', cpos') /\ (label' = "name_x" => tag'.at > 0)
    BY <1>1, <1>2, <1>3, SolidLetter
  <2>2. QED
    BY <1>1, <1>2, <1>4, <1>5, <2>1, MarkedStep
<1>8. QED
  BY <1>1, <1>2, <1>3, <1>4, <1>6, <1>7, LetterStep

\* An element that is added to the one being filled.
LEMMA ChildAdded ==
  ASSUME Place, Built, Marked, cpos <= Len(mem), tag.at > 0,
         Appended(nodes', nodes, curnode, NewNode(curnode, tag))
  PROVE  Grown(nodes', cpos) /\ Len(nodes') = Len(nodes) + 1
<1>1. /\ Grown(nodes, cpos) /\ curnode \in 1..Len(nodes) /\ Solid(tag, cpos)
      /\ mem \in Seq(STRING) /\ cpos \in Nat
  BY DEF Place, Built, Marked
<1>2. Text(tag) \in Seq(STRING)
  BY <1>1, TextTyped
<1>3. Unset \in PieceShape /\ tag \in PieceShape /\ curnode \in Nat
  BY <1>1, NodeParts, UnsetSolid DEF Solid
<1> DEFINE x == NewNode(curnode, tag)
<1>4. /\ x.parent = curnode /\ x.name = tag /\ x.value = Unset /\ x.numvals = 0
      /\ x.kids = <<>> /\ x.atts = <<>> /\ x.key = Text(tag)
  BY DEF NewNode
<1>5. x \in NodeShape
  <2>1. <<>> \in Seq(Nat) /\ <<>> \in Seq(AttShape)
    BY EmptySeq
  <2>2. QED
    BY <1>2, <1>3, <2>1 DEF NewNode, NodeShape
<1> HIDE DEF x
<1>6. Appended(nodes', nodes, curnode, x)
  BY DEF x
<1>7. Solid(x.name, cpos)
  BY <1>1, <1>4
<1>8. QED
  BY <1>1, <1>4, <1>5, <1>6, <1>7, GrownAppend

\* A letter of an element's name, or what ends it.
LEMMA NameXKept ==
  ASSUME ReplyInv, UNCHANGED <<reply, stage>>, NameX
  PROVE  ReplyInv'
<1>1. Sees("name_x") /\ UNCHANGED <<curatt, mem, att, val, escaped>>
  BY DEF NameX
<1>2. /\ Place /\ Built /\ Marked /\ label = "name_x" /\ label \notin Ended
      /\ cpos < Len(mem) /\ cpos <= Len(mem) /\ cpos + 1 <= Len(mem) /\ 1 \in Nat /\ 2 \in Nat
      /\ 0 \in Nat
      /\ cpos \in Nat /\ cpos > 0 /\ Solid(tag, cpos) /\ Solid(att, cpos)
      /\ Solid(tag, cpos + 1) /\ Solid(att, cpos + 1)
      /\ Solid(tag, cpos + 2) /\ Solid(att, cpos + 2)
  BY <1>1, SeenFrom DEF Looking
<1>3. tag.at > 0 /\ curnode \in 1..Len(nodes)
  BY <1>2 DEF Marked, Built
<1>4. CASE Letter \notin Blank \cup {">", "/"}
  <2>1. label' = "name_x" /\ cpos' = cpos + 1 /\ UNCHANGED <<nodes, curnode>> /\ tag' = Longer(tag, 1)
    BY <1>4 DEF NameX, Enter, Go
  <2>2. /\ label' \in Labels /\ label' \notin WithAtt
        /\ label' \notin {"cdata", "att_eqx", "ename_x", "att_nameqs"}
        /\ cpos' \in Nat /\ cpos' >= cpos
    BY <1>2, <2>1 DEF Labels, Looking, WithAtt, Quotes
  <2>3. Built'
    BY <1>1, <1>2, <1>3, <2>1, <2>2, BuiltStep
  <2>4. Solid(tag', cpos') /\ Solid(att', cpos') /\ tag'.at > 0
    BY <1>1, <1>2, <1>3, <2>1, SolidLonger
  <2>5. Marked'
    BY <1>1, <1>2, <2>2, <2>4, MarkedStep
  <2>6. QED
    BY <1>1, <1>2, <2>1, <2>2, <2>3, <2>5, LetterStep
<1>5. CASE Letter \in Blank \cup {">", "/"}
  <2>1. /\ Appended(nodes', nodes, curnode, NewNode(curnode, tag)) /\ UNCHANGED tag
        /\ \/ label' = "hung" /\ cpos' = cpos + 0 /\ curnode' = curnode
           \/ label' \in {"name_gap", "val_1"} /\ cpos' = cpos + 1 /\ curnode' = Len(nodes) + 1
           \/ label' = "val_1" /\ cpos' = cpos + 2 /\ curnode' = curnode /\ Letter = "/"
    BY <1>5 DEF NameX, AddChild, Stored, Enter, Go, Appended
  <2>2. Grown(nodes', cpos) /\ Len(nodes') = Len(nodes) + 1
    BY <1>2, <1>3, <2>1, ChildAdded
  <2>3. Len(nodes) \in Nat
    BY <1>2, NodeParts DEF Built
  <2>4. curnode' \in 1..Len(nodes')
    BY <1>3, <2>1, <2>2, <2>3
  <2>5. /\ label' \in Labels /\ label' \notin WithAtt
        /\ label' \notin {"cdata", "att_eqx", "name_x", "ename_x", "att_nameqs"}
    BY <2>1 DEF Labels, Looking, Ended, WithAtt, Quotes
  <2>6. ASSUME NEW n \in {0, 1, 2}, cpos' = cpos + n, cpos + n <= Len(mem) \/ (n = 2 /\ Letter = "/")
        PROVE  ReplyInv'
    <3>1. cpos' \in Nat /\ cpos' >= cpos /\ n \in Nat
      BY <1>2, <2>6
    <3>2. Built'
      <4>1. Grown(nodes', cpos')
        BY <1>2, <2>2, <3>1, GrownLater
      <4>2. QED
        BY <2>4, <2>5, <4>1 DEF Built
    <3>3. Marked'
      <4>1. Solid(tag', cpos') /\ Solid(att', cpos')
        BY <1>1, <1>2, <2>1, <3>1, SolidLater
      <4>2. QED
        BY <1>1, <1>2, <2>5, <3>1, <4>1, MarkedStep
    <3>4. QED
      BY <1>1, <1>2, <2>5, <2>6, <3>1, <3>2, <3>3, LetterStep DEF Letter
  <2>7. CASE cpos' = cpos + 0
    BY <1>2, <2>6, <2>7
  <2>8. CASE cpos' = cpos + 1
    BY <1>2, <2>6, <2>8
  <2>9. CASE cpos' = cpos + 2 /\ Letter = "/"
    BY <1>2, <2>6, <2>9
  <2>10. QED
    BY <2>1, <2>7, <2>8, <2>9
<1>6. QED
  BY <1>4, <1>5

\* A step that leaves the tree and the value in hand alone.
LEMMA SteadyStep ==
  ASSUME ReplyInv, label \notin Ended, label # "att_eqx", cpos <= Len(mem),
         UNCHANGED <<reply, stage, mem, nodes, curatt, val, escaped>>,
         curnode' \in 1..Len(nodes), NEW n \in Nat, cpos' = cpos + n,
         \/ cpos + n <= Len(mem)
         \/ cpos < Len(mem) /\ n = 2 /\ mem[cpos] \in {"/", "bs"},
         label' \in Labels, label' \notin {"cdata", "att_eqx"},
         label' \in WithAtt => label \in WithAtt,
         Solid(tag', cpos'), Solid(att', cpos'),
         label' \in {"name_x", "ename_x"} => tag'.at > 0,
         label' = "att_nameqs" => att'.at > 0
  PROVE  ReplyInv'
<1>1. Built /\ Marked /\ cpos \in Nat /\ cpos' \in Nat /\ cpos' >= cpos
  BY DEF ReplyInv, Place
<1>2. Built'
  BY <1>1, BuiltStep
<1>3. Marked'
  BY <1>1, MarkedStep
<1>4. QED
  BY <1>2, <1>3, LetterStep

\* What comes behind an element's name.
LEMMA NameGapKept ==
  ASSUME ReplyInv, UNCHANGED <<reply, stage>>, NameGap
  PROVE  ReplyInv'
<1>1. Sees("name_gap") /\ UNCHANGED <<nodes, curatt, mem, tag, val, escaped>>
  BY DEF NameGap
<1>2. /\ Place /\ Built /\ Marked /\ label = "name_gap" /\ label \notin Ended
      /\ cpos < Len(mem) /\ cpos <= Len(mem) /\ cpos + 1 <= Len(mem) /\ 1 \in Nat /\ 2 \in Nat
      /\ 0 \in Nat /\ label # "att_eqx"
      /\ cpos \in Nat /\ cpos > 0 /\ Solid(tag, cpos) /\ Solid(att, cpos)
      /\ Solid(tag, cpos + 1) /\ Solid(att, cpos + 1)
      /\ Solid(tag, cpos + 2) /\ Solid(att, cpos + 2) /\ curnode \in 1..Len(nodes)
  BY <1>1, SeenFrom DEF Looking, Built
<1>3. \/ /\ cpos' = cpos + 1 /\ curnode' = curnode
         /\ \/ label' \in {"name_gap", "val_1"} /\ att' = att
            \/ label' = "att_nameqs" /\ att' = Piece(cpos + 1, 0)
            \/ label' = "att_name" /\ att' = Piece(cpos, 1)
      \/ Letter = "/" /\ Leave("val_1", 2) /\ att' = att
  BY DEF NameGap, Enter, Go
<1>4. CASE cpos' = cpos + 1 /\ curnode' = curnode /\
           \/ label' \in {"name_gap", "val_1"} /\ att' = att
           \/ label' = "att_nameqs" /\ att' = Piece(cpos + 1, 0)
           \/ label' = "att_name" /\ att' = Piece(cpos, 1)
  <2>1. /\ label' \in Labels /\ label' \notin WithAtt
        /\ label' \notin {"cdata", "att_eqx", "name_x", "ename_x"}
    BY <1>4 DEF Labels, Looking, WithAtt, Quotes
  <2>2. Solid(tag', cpos') /\ Solid(att', cpos') /\ (label' = "att_nameqs" => att'.at > 0)
    BY <1>1, <1>2, <1>4, SolidLetter
  <2>3. QED
    BY <1>1, <1>2, <1>4, <2>1, <2>2, SteadyStep
<1>5. CASE Letter = "/" /\ Leave("val_1", 2) /\ att' = att
  <2>1. /\ curnode' \in 1..Len(nodes)
        /\ \/ label' = "val_1" /\ cpos' = cpos + 2
           \/ label' \in {"done", "crashed"} /\ cpos' = cpos + 0
    BY <1>2, <1>5, LeaveKept
  <2>2. /\ label' \in Labels /\ label' \notin WithAtt
        /\ label' \notin {"cdata", "att_eqx", "name_x", "ename_x", "att_nameqs"}
    BY <2>1 DEF Labels, Looking, Ended, WithAtt, Quotes
  <2>3. CASE cpos' = cpos + 2
    <3>1. Solid(tag', cpos') /\ Solid(att', cpos')
      BY <1>1, <1>2, <1>5, <2>3
    <3>2. QED
      BY <1>1, <1>2, <1>5, <2>1, <2>2, <2>3, <3>1, SteadyStep DEF Letter
  <2>4. CASE cpos' = cpos + 0
    <3>1. Solid(tag', cpos') /\ Solid(att', cpos') /\ cpos + 0 <= Len(mem)
      BY <1>1, <1>2, <1>5, <2>4
    <3>2. QED
      BY <1>1, <1>2, <1>5, <2>1, <2>2, <2>4, <3>1, SteadyStep
  <2>5. QED
    BY <2>1, <2>3, <2>4
<1>6. QED
  BY <1>3, <1>4, <1>5

\* An attribute that is added to the element being filled.
LEMMA AttAdded ==
  ASSUME Place, Built, Marked, cpos <= Len(mem), curatt' = <<curnode, Len(nodes[curnode].atts) + 1>>,
         Attributed(nodes', nodes, curnode, [name |-> att, key |-> Text(att), value |-> Unset])
  PROVE  /\ Grown(nodes', cpos) /\ Len(nodes') = Len(nodes)
         /\ IsAtt(curatt', nodes')
<1>1. /\ Grown(nodes, cpos) /\ curnode \in 1..Len(nodes) /\ Solid(att, cpos)
      /\ mem \in Seq(STRING) /\ cpos \in Nat
  BY DEF Place, Built, Marked
<1>2. Text(att) \in Seq(STRING)
  BY <1>1, TextTyped
<1>3. Unset \in PieceShape /\ att \in PieceShape /\ Solid(Unset, cpos)
  BY <1>1, UnsetSolid DEF Solid
<1> DEFINE a == [name |-> att, key |-> Text(att), value |-> Unset]
<1>4. a \in AttShape /\ a.name = att /\ a.value = Unset
  BY <1>2, <1>3 DEF AttShape
<1> HIDE DEF a
<1>5. Attributed(nodes', nodes, curnode, a)
  BY DEF a
<1>6. Solid(a.name, cpos) /\ Solid(a.value, cpos)
  BY <1>1, <1>3, <1>4
<1>7. /\ Grown(nodes', cpos) /\ Len(nodes') = Len(nodes)
      /\ IsAtt(<<curnode, Len(nodes[curnode].atts) + 1>>, nodes')
  BY <1>1, <1>4, <1>5, <1>6, GrownAttr
<1>8. QED
  BY <1>7

\* addattr, and where the parser goes with it.
AttTaken ==
  /\ Attributed(nodes', nodes, curnode, [name |-> att, key |-> Text(att), value |-> Unset])
  /\ curatt' = <<curnode, Len(nodes[curnode].atts) + 1>>
  /\ att' = [att EXCEPT !.len = 0]

\* A step that adds an attribute.
LEMMA AttTakenStep ==
  ASSUME ReplyInv, label \notin Ended, label # "att_eqx", cpos <= Len(mem),
         UNCHANGED <<reply, stage, mem, tag, val, escaped>>, AttTaken,
         curnode' \in 1..Len(nodes), NEW n \in Nat, cpos' = cpos + n,
         \/ cpos + n <= Len(mem)
         \/ cpos < Len(mem) /\ n = 2 /\ mem[cpos] \in {"/", "bs"},
         label' \in Labels,
         label' \notin {"cdata", "att_eqx", "name_x", "ename_x", "att_nameqs"}
  PROVE  ReplyInv'
<1>1. Place /\ Built /\ Marked /\ cpos \in Nat /\ cpos' \in Nat /\ cpos' >= cpos
  BY DEF ReplyInv, Place
<1>2. Grown(nodes', cpos) /\ Len(nodes') = Len(nodes) /\ IsAtt(curatt', nodes')
  BY <1>1, AttAdded DEF AttTaken
<1>3. Built'
  <2>1. Grown(nodes', cpos')
    BY <1>1, <1>2, GrownLater
  <2>2. QED
    BY <1>2, <2>1 DEF Built
<1>4. Marked'
  <2>0. Solid(att, cpos) /\ att' = [att EXCEPT !.len = 0]
    BY <1>1 DEF AttTaken, Marked
  <2>1. Solid(att', cpos)
    BY <1>1, <2>0 DEF Solid, PieceShape
  <2>2. Solid(tag', cpos') /\ Solid(att', cpos')
    BY <1>1, <2>1, SolidLater DEF Marked
  <2>3. QED
    BY <1>1, <2>2, MarkedStep
<1>5. QED
  BY <1>3, <1>4, LetterStep

\* A letter of an attribute's name, or what ends it.
LEMMA AttNameKept ==
  ASSUME ReplyInv, UNCHANGED <<reply, stage>>, AttName
  PROVE  ReplyInv'
<1>1. Sees("att_name") /\ UNCHANGED <<mem, tag, val, escaped>>
  BY DEF AttName
<1>2. /\ Place /\ Built /\ Marked /\ label = "att_name" /\ label \notin Ended
      /\ cpos < Len(mem) /\ cpos <= Len(mem) /\ cpos + 1 <= Len(mem) /\ 1 \in Nat /\ 2 \in Nat
      /\ 0 \in Nat /\ label # "att_eqx"
      /\ cpos \in Nat /\ cpos > 0 /\ Solid(tag, cpos) /\ Solid(att, cpos)
      /\ Solid(tag, cpos + 1) /\ Solid(att, cpos + 1)
      /\ curnode \in 1..Len(nodes) /\ cpos + 0 <= Len(mem)
  BY <1>1, SeenFrom DEF Looking, Built
<1>3. \/ /\ AttTaken
         /\ \/ label' = "hung" /\ cpos' = cpos + 0 /\ curnode' = curnode
            \/ label' \in {"val_1", "att_eq1", "att_space"} /\ cpos' = cpos + 1 /\ curnode' = curnode
            \/ Letter = "/" /\ Leave("val_1", 2)
      \/ /\ cpos' = cpos + 1 /\ label' = "att_name" /\ UNCHANGED <<nodes, curatt, curnode>>
         /\ att' \in {att, Piece(cpos, 1)} \/ (att.len # 0 /\ att' = Longer(att, 1))
  BY DEF AttName, AddAttr, AttTaken, Attributed, Stored, Enter, Go
<1>4. CASE /\ cpos' = cpos + 1 /\ label' = "att_name" /\ UNCHANGED <<nodes, curatt, curnode>>
           /\ att' \in {att, Piece(cpos, 1)} \/ (att.len # 0 /\ att' = Longer(att, 1))
  <2>1. /\ label' \in Labels /\ label' \notin WithAtt
        /\ label' \notin {"cdata", "att_eqx", "name_x", "ename_x", "att_nameqs"}
    BY <1>4 DEF Labels, Looking, WithAtt, Quotes
  <2>2. att.len # 0 => att.at > 0
    BY <1>2 DEF Solid, PieceShape
  <2>3. Solid(tag', cpos') /\ Solid(att', cpos')
    BY <1>1, <1>2, <1>4, <2>2, SolidLetter, SolidLonger
  <2>4. QED
    BY <1>1, <1>2, <1>4, <2>1, <2>3, SteadyStep
<1>5. CASE AttTaken /\ label' = "hung" /\ cpos' = cpos + 0 /\ curnode' = curnode
  <2>1. label' \in Labels /\ label' \notin {"cdata", "att_eqx", "name_x", "ename_x", "att_nameqs"}
    BY <1>5 DEF Labels, Ended
  <2>2. QED
    BY <1>1, <1>2, <1>5, <2>1, AttTakenStep
<1>6. CASE /\ AttTaken /\ label' \in {"val_1", "att_eq1", "att_space"}
           /\ cpos' = cpos + 1 /\ curnode' = curnode
  <2>1. label' \in Labels /\ label' \notin {"cdata", "att_eqx", "name_x", "ename_x", "att_nameqs"}
    BY <1>6 DEF Labels, Looking
  <2>2. QED
    BY <1>1, <1>2, <1>6, <2>1, AttTakenStep
<1>7. CASE AttTaken /\ Letter = "/" /\ Leave("val_1", 2)
  <2>1. /\ curnode' \in 1..Len(nodes)
        /\ \/ label' = "val_1" /\ cpos' = cpos + 2
           \/ label' \in {"done", "crashed"} /\ cpos' = cpos + 0
    BY <1>2, <1>7, LeaveKept
  <2>2. label' \in Labels /\ label' \notin {"cdata", "att_eqx", "name_x", "ename_x", "att_nameqs"}
    BY <2>1 DEF Labels, Looking, Ended
  <2>3. CASE cpos' = cpos + 2
    BY <1>1, <1>2, <1>7, <2>1, <2>2, <2>3, AttTakenStep DEF Letter
  <2>4. CASE cpos' = cpos + 0
    BY <1>1, <1>2, <1>7, <2>1, <2>2, <2>4, AttTakenStep
  <2>5. QED
    BY <2>1, <2>3, <2>4
<1>8. QED
  BY <1>3, <1>4, <1>5, <1>6, <1>7

\* A letter of a name in quotes.
LEMMA AttNameQsKept ==
  ASSUME ReplyInv, UNCHANGED <<reply, stage>>, AttNameQs
  PROVE  ReplyInv'
<1>1. Sees("att_nameqs") /\ UNCHANGED <<nodes, curnode, curatt, mem, tag, val, escaped>>
  BY DEF AttNameQs, dom
<1>2. /\ Marked /\ Built /\ label = "att_nameqs" /\ label \notin Ended /\ label # "att_eqx"
      /\ cpos <= Len(mem) /\ cpos + 1 <= Len(mem) /\ 1 \in Nat /\ cpos \in Nat
      /\ Solid(att, cpos) /\ Solid(att, cpos + 1) /\ Solid(tag, cpos + 1)
  BY <1>1, SeenFrom DEF Looking
<1>3. att.at > 0 /\ curnode' \in 1..Len(nodes)
  BY <1>1, <1>2 DEF Marked, Built
<1>4. /\ cpos' = cpos + 1 /\ label' \in {"att_nameqs", "att_nameqsdone"}
      /\ att' = att \/ att' = Longer(att, 1)
  BY DEF AttNameQs, Go
<1>5. /\ label' \in Labels /\ label' \notin WithAtt
      /\ label' \notin {"cdata", "att_eqx", "name_x", "ename_x"}
  BY <1>4 DEF Labels, Looking, WithAtt, Quotes
<1>6. Solid(att', cpos') /\ att'.at > 0 /\ Solid(tag', cpos')
  BY <1>1, <1>2, <1>3, <1>4, SolidLonger
<1>7. QED
  BY <1>1, <1>2, <1>3, <1>4, <1>5, <1>6, SteadyStep

\* What comes behind a name in quotes.
LEMMA AttNameQsDoneKept ==
  ASSUME ReplyInv, UNCHANGED <<reply, stage>>, AttNameQsDone
  PROVE  ReplyInv'
<1>1. Sees("att_nameqsdone") /\ UNCHANGED <<mem, tag, val, escaped>>
  BY DEF AttNameQsDone
<1>2. /\ Built /\ label = "att_nameqsdone" /\ label \notin Ended /\ label # "att_eqx"
      /\ cpos <= Len(mem) /\ cpos + 1 <= Len(mem) /\ cpos + 0 <= Len(mem)
      /\ 1 \in Nat /\ 0 \in Nat /\ cpos \in Nat
      /\ Solid(att, cpos) /\ Solid(tag, cpos)
  BY <1>1, SeenFrom DEF Looking
<1>3. /\ curnode' = curnode
      /\ \/ label' = "att_eq1" /\ cpos' = cpos + 1
         \/ label' = "hung" /\ cpos' = cpos + 0
      /\ AttTaken \/ (UNCHANGED <<nodes, curatt, att>> /\ label' = "hung" /\ cpos' = cpos + 0)
  BY DEF AttNameQsDone, AddAttr, AttTaken, Attributed, Stored, Enter, Go
<1>4. /\ label' \in Labels /\ curnode' \in 1..Len(nodes)
      /\ label' \notin {"cdata", "att_eqx", "name_x", "ename_x", "att_nameqs"}
  BY <1>2, <1>3 DEF Labels, Looking, Ended, Built
<1>5. CASE AttTaken
  BY <1>1, <1>2, <1>3, <1>4, <1>5, AttTakenStep
<1>6. CASE UNCHANGED <<nodes, curatt, att>> /\ label' = "hung" /\ cpos' = cpos + 0
  <2>1. label' \notin WithAtt /\ Solid(tag', cpos') /\ Solid(att', cpos')
    BY <1>1, <1>2, <1>6 DEF WithAtt, Quotes
  <2>2. QED
    BY <1>1, <1>2, <1>4, <1>6, <2>1, SteadyStep
<1>7. QED
  BY <1>3, <1>5, <1>6

\* The first letter of an end tag.
LEMMA Ename1Kept ==
  ASSUME ReplyInv, UNCHANGED <<reply, stage>>, Ename1
  PROVE  ReplyInv'
<1>1. Sees("ename_1") /\ UNCHANGED <<nodes, curatt, mem, att, val, escaped>>
  BY DEF Ename1
<1>2. /\ Built /\ label = "ename_1" /\ label \notin Ended /\ label # "att_eqx"
      /\ cpos <= Len(mem) /\ cpos + 1 <= Len(mem) /\ cpos + 0 <= Len(mem)
      /\ 1 \in Nat /\ 0 \in Nat /\ cpos \in Nat /\ cpos > 0
      /\ Solid(att, cpos) /\ Solid(tag, cpos) /\ Solid(att, cpos + 1) /\ Solid(tag, cpos + 1)
  BY <1>1, SeenFrom DEF Looking
<1>3. CASE Leave("error", 1) /\ tag' = tag
  <2>1. /\ curnode' \in 1..Len(nodes)
        /\ \/ label' = "error" /\ cpos' = cpos + 1
           \/ label' \in {"done", "crashed"} /\ cpos' = cpos + 0
    BY <1>2, <1>3, LeaveKept
  <2>2. /\ label' \in Labels /\ label' \notin WithAtt
        /\ label' \notin {"cdata", "att_eqx", "name_x", "ename_x", "att_nameqs"}
    BY <2>1 DEF Labels, Ended, WithAtt, Quotes
  <2>3. CASE cpos' = cpos + 1
    <3>1. Solid(tag', cpos') /\ Solid(att', cpos')
      BY <1>1, <1>2, <1>3, <2>3
    <3>2. QED
      BY <1>1, <1>2, <1>3, <2>1, <2>2, <2>3, <3>1, SteadyStep
  <2>4. CASE cpos' = cpos + 0
    <3>1. Solid(tag', cpos') /\ Solid(att', cpos')
      BY <1>1, <1>2, <1>3, <2>4
    <3>2. QED
      BY <1>1, <1>2, <1>3, <2>1, <2>2, <2>4, <3>1, SteadyStep
  <2>5. QED
    BY <2>1, <2>3, <2>4
<1>4. CASE label' = "ename_x" /\ cpos' = cpos + 1 /\ curnode' = curnode /\ tag' = Piece(cpos, 1)
  <2>1. /\ label' \in Labels /\ label' \notin WithAtt /\ curnode' \in 1..Len(nodes)
        /\ label' \notin {"cdata", "att_eqx", "name_x", "att_nameqs"}
    BY <1>2, <1>4 DEF Labels, Looking, WithAtt, Quotes, Built
  <2>2. Solid(tag', cpos') /\ Solid(att', cpos') /\ tag'.at > 0
    BY <1>1, <1>2, <1>4, SolidLetter
  <2>3. QED
    BY <1>1, <1>2, <1>4, <2>1, <2>2, SteadyStep
<1>5. QED
  BY <1>3, <1>4 DEF Ename1, Enter, Go

\* A letter of an end tag's name, or its end.
LEMMA EnameXKept ==
  ASSUME ReplyInv, UNCHANGED <<reply, stage>>, EnameX
  PROVE  ReplyInv'
<1>1. Sees("ename_x") /\ UNCHANGED <<nodes, curatt, mem, att, val, escaped>>
  BY DEF EnameX
<1>2. /\ Built /\ Marked /\ label = "ename_x" /\ label \notin Ended /\ label # "att_eqx"
      /\ cpos <= Len(mem) /\ cpos + 1 <= Len(mem) /\ cpos + 0 <= Len(mem)
      /\ 1 \in Nat /\ 0 \in Nat /\ cpos \in Nat
      /\ Solid(att, cpos) /\ Solid(tag, cpos) /\ Solid(att, cpos + 1) /\ Solid(tag, cpos + 1)
  BY <1>1, SeenFrom DEF Looking
<1>3. tag.at > 0 /\ curnode \in 1..Len(nodes)
  BY <1>2 DEF Marked, Built
<1>4. \/ label' = "ename_x" /\ cpos' = cpos + 1 /\ curnode' = curnode /\ tag' = Longer(tag, 1)
      \/ Leave("val_1", 1) /\ tag' = tag
      \/ /\ label' \in {"error", "done", "crashed"} /\ cpos' = cpos + 0
         /\ curnode' = curnode /\ tag' = tag
  BY <1>2 DEF EnameX, Enter, Go, Unwritten
<1>5. CASE label' = "ename_x" /\ cpos' = cpos + 1 /\ curnode' = curnode /\ tag' = Longer(tag, 1)
  <2>1. /\ label' \in Labels /\ label' \notin WithAtt /\ curnode' \in 1..Len(nodes)
        /\ label' \notin {"cdata", "att_eqx", "name_x", "att_nameqs"}
    BY <1>3, <1>5 DEF Labels, Looking, WithAtt, Quotes
  <2>2. Solid(tag', cpos') /\ Solid(att', cpos') /\ tag'.at > 0
    BY <1>1, <1>2, <1>3, <1>5, SolidLonger
  <2>3. QED
    BY <1>1, <1>2, <1>5, <2>1, <2>2, SteadyStep
<1>6. ASSUME curnode' \in 1..Len(nodes), label' \in {"val_1", "error", "done", "crashed"},
             tag' = tag, NEW n \in {0, 1}, cpos' = cpos + n
      PROVE  ReplyInv'
  <2>1. /\ label' \in Labels /\ label' \notin WithAtt
        /\ label' \notin {"cdata", "att_eqx", "name_x", "ename_x", "att_nameqs"}
    BY <1>6 DEF Labels, Looking, Ended, WithAtt, Quotes
  <2>2. Solid(tag', cpos') /\ Solid(att', cpos') /\ n \in Nat /\ cpos + n <= Len(mem)
    <3>1. CASE n = 0
      BY <1>1, <1>2, <1>6, <3>1
    <3>2. CASE n = 1
      BY <1>1, <1>2, <1>6, <3>2
    <3>3. QED
      BY <3>1, <3>2
  <2>3. QED
    BY <1>1, <1>2, <1>6, <2>1, <2>2, SteadyStep
<1>7. CASE Leave("val_1", 1) /\ tag' = tag
  <2>1. /\ curnode' \in 1..Len(nodes)
        /\ \/ label' = "val_1" /\ cpos' = cpos + 1
           \/ label' \in {"done", "crashed"} /\ cpos' = cpos + 0
    BY <1>2, <1>7, LeaveKept
  <2>2. QED
    BY <1>6, <1>7, <2>1
<1>8. CASE /\ label' \in {"error", "done", "crashed"} /\ cpos' = cpos + 0
           /\ curnode' = curnode /\ tag' = tag
  BY <1>3, <1>6, <1>8
<1>9. QED
  BY <1>4, <1>5, <1>7, <1>8

-----------------------------------------------------------------------------
(***************************************************************************)
(* The steps that make values.                                             *)
(***************************************************************************)
\* A step that leaves the tree alone and has a value in hand.
LEMMA HandStep ==
  ASSUME ReplyInv, label \notin Ended, cpos <= Len(mem),
         UNCHANGED <<reply, stage, mem, nodes, curatt, tag, att>>,
         curnode' \in 1..Len(nodes), NEW n \in Nat, cpos' = cpos + n,
         \/ cpos + n <= Len(mem)
         \/ cpos < Len(mem) /\ n = 2 /\ mem[cpos] \in {"/", "bs"},
         label' \in Labels, label' \notin {"cdata", "name_x", "ename_x", "att_nameqs"},
         label' \in WithAtt => label \in WithAtt,
         val' \in PieceShape, val'.at + val'.len <= cpos',
         val'.at = 0 => val'.len = 0 \/ label' \in {"att_eqx"} \cup Ended,
         val'.at = 0 /\ label' = "att_eqx" => escaped'
  PROVE  ReplyInv'
<1>1. Built /\ Marked /\ cpos \in Nat /\ cpos' \in Nat /\ cpos' >= cpos
  BY DEF ReplyInv, Place
<1>2. Built'
  BY <1>1, BuiltStep
<1>3. Marked'
  <2>1. Solid(tag', cpos') /\ Solid(att', cpos')
    BY <1>1, SolidLater DEF Marked
  <2>2. QED
    BY <2>1 DEF Marked
<1>4. QED
  BY <1>2, <1>3, LetterStep

\* The value in hand at a label that sees a letter.
LEMMA HandFrom ==
  ASSUME Marked, cpos \in Nat
  PROVE  /\ val \in PieceShape /\ val.at \in Nat /\ val.len \in Nat /\ val.at + val.len <= cpos
         /\ \A n \in {1, 2} :
              /\ Longer(val, n) \in PieceShape /\ Longer(val, n).at = val.at
              /\ Longer(val, n).len = val.len + n
              /\ Piece(cpos, n) \in PieceShape /\ Piece(cpos, n).at = cpos /\ Piece(cpos, n).len = n
  BY DEF Marked, PieceShape, Longer, Piece

\* The labels of the three quotes.
LEMMA QuoteLabels ==
  /\ QuoteLabel["dq"] = "att_quot" /\ QuoteLabel["sq"] = "att_quots" /\ QuoteLabel["bq"] = "att_tick"
  /\ DOMAIN QuoteLabel = {"dq", "sq", "bq"}
  BY DEF QuoteLabel

\* The first letter of a value.
LEMMA AttEq1Kept ==
  ASSUME ReplyInv, UNCHANGED <<reply, stage>>, AttEq1
  PROVE  ReplyInv'
<1>1. Sees("att_eq1") /\ UNCHANGED <<nodes, curatt, mem, tag, att>>
  BY DEF AttEq1
<1>2. /\ Place /\ Built /\ Marked /\ label = "att_eq1" /\ label \notin Ended
      /\ cpos < Len(mem) /\ cpos <= Len(mem) /\ cpos + 1 <= Len(mem) /\ cpos + 0 <= Len(mem)
      /\ 1 \in Nat /\ 2 \in Nat /\ 0 \in Nat /\ cpos \in Nat /\ cpos > 0
      /\ curnode \in 1..Len(nodes)
  BY <1>1, SeenFrom DEF Looking, Built
<1>3. /\ label \in WithAtt
      /\ val \in PieceShape /\ val.at \in Nat /\ val.len \in Nat /\ val.at + val.len <= cpos
      /\ val.at = 0 => val.len = 0
  BY <1>2, HandFrom DEF WithAtt, Marked, Ended
<1>4. \/ Letter = "/" /\ Leave("att_eq1", 2) /\ val' = val
      \/ /\ label' \in {"att_eq1", "val_1"} \cup Quotes /\ val' = val
         /\ cpos' = cpos + 1 /\ curnode' = curnode
      \/ /\ Letter = "bs" /\ label' = "att_eqx" /\ val' = Longer(val, 2) /\ escaped'
         /\ cpos' = cpos + 2 /\ curnode' = curnode
      \/ /\ label' = "att_eqx" /\ val' = Piece(cpos, 1) /\ cpos' = cpos + 1 /\ curnode' = curnode
  <2>1. \A q \in DOMAIN QuoteLabel : QuoteLabel[q] \in Quotes
    BY QuoteLabels DEF Quotes
  <2>2. QED
    BY <2>1 DEF AttEq1, Enter, Go
<1>5. CASE Letter = "/" /\ Leave("att_eq1", 2) /\ val' = val
  <2>1. /\ curnode' \in 1..Len(nodes)
        /\ \/ label' = "att_eq1" /\ cpos' = cpos + 2
           \/ label' \in {"done", "crashed"} /\ cpos' = cpos + 0
    BY <1>2, <1>5, LeaveKept
  <2>2. /\ label' \in Labels
        /\ label' \notin {"cdata", "att_eqx", "name_x", "ename_x", "att_nameqs"}
    BY <2>1 DEF Labels, Looking, Ended
  <2>3. CASE cpos' = cpos + 2
    <3>1. val'.at + val'.len <= cpos'
      BY <1>2, <1>3, <1>5, <2>3
    <3>2. QED
      BY <1>1, <1>2, <1>3, <1>5, <2>1, <2>2, <2>3, <3>1, HandStep DEF Letter
  <2>4. CASE cpos' = cpos + 0
    <3>1. val'.at + val'.len <= cpos'
      BY <1>2, <1>3, <1>5, <2>4
    <3>2. QED
      BY <1>1, <1>2, <1>3, <1>5, <2>1, <2>2, <2>4, <3>1, HandStep
  <2>5. QED
    BY <2>1, <2>3, <2>4
<1>6. CASE /\ label' \in {"att_eq1", "val_1"} \cup Quotes /\ val' = val
           /\ cpos' = cpos + 1 /\ curnode' = curnode
  <2>1. /\ label' \in Labels
        /\ label' \notin {"cdata", "att_eqx", "name_x", "ename_x", "att_nameqs"}
    BY <1>6 DEF Labels, Looking, Quotes
  <2>2. val'.at + val'.len <= cpos'
    BY <1>2, <1>3, <1>6
  <2>3. QED
    BY <1>1, <1>2, <1>3, <1>6, <2>1, <2>2, HandStep
<1>7. CASE /\ Letter = "bs" /\ label' = "att_eqx" /\ val' = Longer(val, 2) /\ escaped'
           /\ cpos' = cpos + 2 /\ curnode' = curnode
  <2>1. label' \in Labels /\ label' \notin {"cdata", "name_x", "ename_x", "att_nameqs"}
    BY <1>7 DEF Labels, Looking
  <2>2. val' \in PieceShape /\ val'.at + val'.len <= cpos'
    <3>1. val' \in PieceShape /\ val'.at = val.at /\ val'.len = val.len + 2
      BY <1>2, <1>7, HandFrom
    <3>2. QED
      BY <1>2, <1>3, <1>7, <3>1
  <2>3. QED
    BY <1>1, <1>2, <1>3, <1>7, <2>1, <2>2, HandStep DEF Letter
<1>8. CASE label' = "att_eqx" /\ val' = Piece(cpos, 1) /\ cpos' = cpos + 1 /\ curnode' = curnode
  <2>1. label' \in Labels /\ label' \notin {"cdata", "name_x", "ename_x", "att_nameqs"}
    BY <1>8 DEF Labels, Looking
  <2>2. val' \in PieceShape /\ val'.at + val'.len <= cpos' /\ val'.at # 0
    <3>1. val' \in PieceShape /\ val'.at = cpos /\ val'.len = 1
      BY <1>2, <1>8, HandFrom
    <3>2. QED
      BY <1>2, <1>3, <1>8, <3>1
  <2>3. QED
    BY <1>1, <1>2, <1>3, <1>8, <2>1, <2>2, HandStep
<1>9. QED
  BY <1>4, <1>5, <1>6, <1>7, <1>8

\* What is written over the message lies in front of what is looked at.
LEMMA OverwrittenKept ==
  ASSUME mem \in Seq(STRING), NEW at \in Nat, NEW s \in Seq(STRING), NEW c \in Nat,
         at + Len(s) - 1 <= c, at > 0
  PROVE  /\ Overwritten(at, s) \in Seq(STRING) /\ Len(Overwritten(at, s)) = Len(mem)
         /\ \A k \in 1..Len(mem) : k > c => Overwritten(at, s)[k] = mem[k]
<1>1. Len(mem) \in Nat /\ Len(s) \in Nat
  BY LenProperties
<1> DEFINE new == [k \in 1..Len(mem) |->
                     IF k \in at..at + Len(s) - 1 THEN s[k - at + 1] ELSE mem[k]]
<1>2. ASSUME NEW k \in 1..Len(mem) PROVE new[k] \in STRING
  <2>1. CASE k \in at..at + Len(s) - 1
    <3>1. k - at + 1 \in 1..Len(s)
      BY <1>1, <2>1
    <3>2. s[k - at + 1] \in STRING
      BY <3>1, ElementOfSeq
    <3>3. QED
      BY <2>1, <3>2
  <2>2. CASE k \notin at..at + Len(s) - 1
    <3>1. mem[k] \in STRING
      BY ElementOfSeq
    <3>2. QED
      BY <2>2, <3>1
  <2>3. QED
    BY <2>1, <2>2
<1>3. new \in [1..Len(mem) -> STRING]
  BY <1>2
<1>4. new \in Seq(STRING) /\ Len(new) = Len(mem)
  <2> HIDE DEF new
  <2>1. new \in Seq(STRING)
    BY <1>1, <1>3, SeqDef
  <2>2. Len(new) = Len(mem)
    BY <1>1, <1>3, <2>1, LenProperties
  <2>3. QED
    BY <2>1, <2>2
<1>5. \A k \in 1..Len(mem) : k > c => new[k] = mem[k]
  BY <1>1
<1>6. QED
  BY <1>4, <1>5 DEF Overwritten

\* The value in hand becomes that of curatt.
Taken == IF escaped THEN Piece(val.at, Len(Unescaped(val))) ELSE val

ValueTaken ==
  /\ AttValued(nodes', nodes, curatt, Taken)
  /\ mem' = IF escaped THEN Overwritten(val.at, Append(Unescaped(val), "nul")) ELSE mem
  /\ val' = [val EXCEPT !.len = 0]

\* What is stored, with its backslashes or without, lies where the value did, and
\* the NUL behind it no further than where the parser is.
LEMMA TakenSolid ==
  ASSUME Place, Marked, label \notin Ended, cpos <= Len(mem), ~(escaped /\ val.at = 0)
  PROVE  /\ Solid(Taken, cpos) /\ Solid(val, cpos)
         /\ escaped => /\ val.at > 0 /\ Unescaped(val) \in Seq(STRING)
                       /\ val.at + Len(Unescaped(val)) <= cpos
<1>1. /\ cpos \in Nat /\ Len(mem) \in Nat /\ mem \in Seq(STRING)
      /\ val \in PieceShape /\ val.at \in Nat /\ val.len \in Nat /\ val.at + val.len <= cpos
  BY HandFrom, LenProperties DEF Place
<1>2. val.at = 0 => val.len = 0
  BY DEF Marked
<1>3. Solid(val, cpos)
  BY <1>1, <1>2 DEF Solid
<1>4. CASE ~escaped
  BY <1>3, <1>4 DEF Taken
<1>5. CASE escaped
  <2>1. val.at > 0 /\ Solid(val, Len(mem))
    BY <1>1, <1>3, <1>5, SolidLater
  <2>2. Unescaped(val) \in Seq(STRING) /\ Len(Unescaped(val)) <= val.len
    BY <1>1, <2>1, UnescapedShort
  <2>3. Len(Unescaped(val)) \in Nat
    BY <2>2, LenProperties
  <2>4. Solid(Piece(val.at, Len(Unescaped(val))), cpos)
    BY <1>1, <2>1, <2>2, <2>3 DEF Solid, PieceShape, Piece
  <2>5. val.at + Len(Unescaped(val)) <= cpos
    BY <1>1, <2>2, <2>3
  <2>6. QED
    BY <1>3, <1>5, <2>1, <2>2, <2>4, <2>5 DEF Taken
<1>6. QED
  BY <1>4, <1>5

\* A step that stores the value in hand.
LEMMA ValueTakenStep ==
  ASSUME ReplyInv, label \in {"att_eqx"} \cup Quotes, cpos < Len(mem),
         UNCHANGED <<reply, stage, curatt, tag, att, escaped>>,
         ~(escaped /\ val.at = 0), ValueTaken, curnode' \in 1..Len(nodes),
         NEW n \in {1, 2}, cpos' = cpos + n, cpos + n <= Len(mem),
         label' \in {"val_1", "name_gap"}
  PROVE  ReplyInv'
<1>1. Place /\ Built /\ Marked /\ label \notin Ended /\ label \in WithAtt
  BY DEF ReplyInv, Quotes, Ended, WithAtt
<1>2. /\ cpos \in Nat /\ n \in Nat /\ cpos' \in Nat /\ cpos' >= cpos /\ Len(mem) \in Nat
      /\ mem \in Seq(STRING) /\ cpos <= Len(mem)
  BY <1>1, LenProperties DEF Place
<1>3. /\ Solid(Taken, cpos) /\ Solid(val, cpos)
      /\ escaped => /\ val.at > 0 /\ Unescaped(val) \in Seq(STRING)
                    /\ val.at + Len(Unescaped(val)) <= cpos
  BY <1>1, <1>2, TakenSolid
<1>4. /\ mem' \in Seq(STRING) /\ Len(mem') = Len(mem)
      /\ \A k \in Nat : k >= cpos + n /\ k <= Len(mem) => mem'[k] = mem[k]
  <2>1. CASE ~escaped
    BY <1>2, <2>1 DEF ValueTaken
  <2>2. CASE escaped
    <3> DEFINE s == Append(Unescaped(val), "nul")
    <3>1. s \in Seq(STRING) /\ Len(s) = Len(Unescaped(val)) + 1
      <4>1. Unescaped(val) \in Seq(STRING)
        BY <1>3, <2>2, Zenon
      <4>2. "nul" \in STRING
        <5>1. Len(mem) \in 1..Len(mem)
          BY <1>2
        <5>2. mem[Len(mem)] = "nul" /\ mem[Len(mem)] \in STRING
          BY <1>1, <1>2, <5>1, NulAhead, ElementOfSeq
        <5>3. QED
          BY <5>2
      <4>3. QED
        BY <4>1, <4>2, AppendProperties
    <3>2. val.at \in Nat /\ val.at > 0 /\ Len(Unescaped(val)) \in Nat
      BY <1>3, <2>2, LenProperties DEF Solid, PieceShape
    <3> HIDE DEF s
    <3>3. val.at + Len(s) - 1 <= cpos
      BY <1>2, <1>3, <2>2, <3>1, <3>2
    <3>4. /\ Overwritten(val.at, s) \in Seq(STRING) /\ Len(Overwritten(val.at, s)) = Len(mem)
          /\ \A k \in 1..Len(mem) : k > cpos => Overwritten(val.at, s)[k] = mem[k]
      BY <1>2, <3>1, <3>2, <3>3, OverwrittenKept
    <3>5. mem' = Overwritten(val.at, s)
      BY <2>2 DEF ValueTaken, s
    <3>6. \A k \in Nat : k >= cpos + n /\ k <= Len(mem) => k \in 1..Len(mem) /\ k > cpos
      BY <1>2
    <3>7. QED
      BY <3>4, <3>5, <3>6
  <2>3. QED
    BY <2>1, <2>2
<1>5. /\ label' \in Labels /\ label' \notin WithAtt
      /\ label' \notin {"cdata", "att_eqx", "name_x", "ename_x", "att_nameqs"}
  BY DEF Labels, Looking, WithAtt, Quotes
<1>6. Place'
  BY <1>1, <1>2, <1>4, <1>5, PlaceStep
<1>7. Closing'
  BY <1>5 DEF Closing
<1>8. Built'
  <2>1. Grown(nodes, cpos) /\ IsAtt(curatt, nodes)
    BY <1>1 DEF Built
  <2>2. AttValued(nodes', nodes, curatt, Taken)
    BY DEF ValueTaken
  <2>3. Grown(nodes', cpos) /\ Len(nodes') = Len(nodes)
    BY <1>2, <1>3, <2>1, <2>2, GrownAttValue
  <2>4. Grown(nodes', cpos')
    BY <1>2, <2>3, GrownLater
  <2>5. QED
    BY <1>5, <2>3, <2>4 DEF Built
<1>9. Marked'
  <2>1. Solid(tag', cpos') /\ Solid(att', cpos')
    BY <1>1, <1>2, SolidLater DEF Marked
  <2>2. val' = [val EXCEPT !.len = 0] /\ val \in PieceShape
    BY <1>3 DEF ValueTaken, Solid
  <2>3. val' \in PieceShape /\ val'.len = 0 /\ val'.at = val.at /\ val.at \in Nat /\ val.len \in Nat
    BY <2>2 DEF PieceShape
  <2>4. val'.at + val'.len <= cpos'
    BY <1>2, <1>3, <2>3 DEF Solid
  <2>5. QED
    BY <1>5, <2>1, <2>3, <2>4 DEF Marked
<1>10. QED
  BY <1>6, <1>7, <1>8, <1>9 DEF ReplyInv

\* A step in the midst of a value.
LEMMA ValueGoesOn ==
  ASSUME ReplyInv, label \in {"att_eqx"} \cup Quotes, cpos < Len(mem),
         UNCHANGED <<reply, stage, mem, nodes, curatt, curnode, tag, att>>,
         NEW n \in {1, 2}, n = 2 => Letter = "bs", cpos' = cpos + n, label' = label,
         \/ val' = Longer(val, n) /\ (label = "att_eqx" \/ val.len # 0)
         \/ val' = Piece(cpos, n),
         escaped => escaped'
  PROVE  ReplyInv'
<1>1. Place /\ Built /\ Marked /\ label \notin Ended
  BY DEF ReplyInv, Quotes, Ended
<1>2. /\ cpos \in Nat /\ cpos > 0 /\ n \in Nat /\ Len(mem) \in Nat /\ cpos <= Len(mem)
      /\ curnode' \in 1..Len(nodes)
  BY <1>1, LenProperties DEF Place, Built
<1>3. /\ label' \in Labels
      /\ label' \notin {"cdata", "name_x", "ename_x", "att_nameqs"}
  BY DEF Labels, Looking, Quotes
<1>4. /\ val \in PieceShape /\ val.at \in Nat /\ val.len \in Nat /\ val.at + val.len <= cpos
      /\ Longer(val, n) \in PieceShape /\ Longer(val, n).at = val.at
      /\ Longer(val, n).len = val.len + n
      /\ Piece(cpos, n) \in PieceShape /\ Piece(cpos, n).at = cpos /\ Piece(cpos, n).len = n
  BY <1>1, <1>2, HandFrom
<1>5. val' \in PieceShape /\ val'.at + val'.len <= cpos'
  BY <1>2, <1>4
<1>6. /\ val'.at = 0 => val'.len = 0 \/ label' \in {"att_eqx"} \cup Ended
      /\ val'.at = 0 /\ label' = "att_eqx" => escaped'
  <2>1. CASE val' = Piece(cpos, n)
    BY <1>2, <1>4, <2>1
  <2>2. CASE val' = Longer(val, n) /\ (label = "att_eqx" \/ val.len # 0)
    <3>1. val'.at = val.at /\ (val.at = 0 => label = "att_eqx")
      BY <1>1, <1>4, <2>2 DEF Marked
    <3>2. val.at = 0 => escaped
      BY <1>1, <3>1 DEF Marked
    <3>3. val'.at = 0 => label' = "att_eqx" /\ escaped'
      BY <3>1, <3>2, Zenon
    <3>4. QED
      BY <3>3
  <2>3. QED
    BY <2>1, <2>2
<1>7. cpos + n <= Len(mem) \/ (cpos < Len(mem) /\ n = 2 /\ mem[cpos] \in {"/", "bs"})
  BY <1>2 DEF Letter
<1>8. QED
  BY <1>1, <1>2, <1>3, <1>5, <1>6, <1>7, HandStep

\* A letter of a value without quotes, or what ends it.
LEMMA AttEqxKept ==
  ASSUME ReplyInv, UNCHANGED <<reply, stage>>, AttEqx
  PROVE  ReplyInv'
<1>1. Sees("att_eqx") /\ UNCHANGED <<curatt, tag, att>>
  BY DEF AttEqx
<1>2. /\ Place /\ Built /\ Marked /\ label = "att_eqx" /\ label \notin Ended
      /\ cpos < Len(mem) /\ cpos <= Len(mem) /\ cpos + 1 <= Len(mem) /\ cpos + 0 <= Len(mem)
      /\ 1 \in Nat /\ 2 \in Nat /\ 0 \in Nat /\ cpos \in Nat /\ cpos > 0
      /\ curnode \in 1..Len(nodes) /\ nodes[curnode].parent \in 1..Len(nodes)
      /\ Solid(tag, cpos) /\ Solid(att, cpos)
  BY <1>1, SeenFrom DEF Looking, Built, Grown
<1>3. \/ /\ UNCHANGED <<mem, nodes, curnode, val, escaped>>
         /\ label' \in {"done", "crashed"} /\ cpos' = cpos + 0
      \/ /\ ~(escaped /\ val.at = 0) /\ ValueTaken /\ UNCHANGED escaped
         /\ \/ label' = "val_1" /\ cpos' = cpos + 2 /\ curnode' = nodes[curnode].parent
               /\ Follows(">")
            \/ label' \in {"val_1", "name_gap"} /\ cpos' = cpos + 1 /\ curnode' = curnode
      \/ \E n \in {1, 2} :
           /\ n = 2 => Letter = "bs"
           /\ cpos' = cpos + n /\ label' = "att_eqx" /\ val' = Longer(val, n)
           /\ UNCHANGED <<curnode, nodes, mem>> /\ (escaped => escaped')
  <2>1. ASSUME Letter = "/", Follows(">"), curnode # Root, SetValue(Leave("val_1", 2)), UNCHANGED escaped
        PROVE  \/ /\ UNCHANGED <<mem, nodes, curnode, val, escaped>>
                  /\ label' \in {"done", "crashed"} /\ cpos' = cpos + 0
               \/ /\ ~(escaped /\ val.at = 0) /\ ValueTaken /\ UNCHANGED escaped
                  /\ label' = "val_1" /\ cpos' = cpos + 2 /\ curnode' = nodes[curnode].parent
                  /\ Follows(">")
    BY <2>1 DEF SetValue, Leave, ValueTaken, AttValued, Taken, Enter, Go
  <2>2. ASSUME NEW l \in {"val_1", "name_gap"}, SetValue(Enter(l, 1)), UNCHANGED escaped
        PROVE  \/ /\ UNCHANGED <<mem, nodes, curnode, val, escaped>>
                  /\ label' \in {"done", "crashed"} /\ cpos' = cpos + 0
               \/ /\ ~(escaped /\ val.at = 0) /\ ValueTaken /\ UNCHANGED escaped
                  /\ label' \in {"val_1", "name_gap"} /\ cpos' = cpos + 1 /\ curnode' = curnode
    BY <2>2 DEF SetValue, ValueTaken, AttValued, Taken, Enter, Go
  <2>3. ASSUME curnode = Root, Leave("val_1", 2), UNCHANGED <<nodes, mem, val, escaped>>
        PROVE  /\ UNCHANGED <<mem, nodes, curnode, val, escaped>>
               /\ label' \in {"done", "crashed"} /\ cpos' = cpos + 0
    BY <1>2, <2>3 DEF Leave, Unwritten
  <2>4. ASSUME NEW n, n = IF Letter = "bs" THEN 2 ELSE 1,
               Enter("att_eqx", n) /\ val' = Longer(val, n),
               escaped' = (escaped \/ Letter = "bs"), UNCHANGED <<nodes, mem>>
        PROVE  \E m \in {1, 2} :
                 /\ m = 2 => Letter = "bs"
                 /\ cpos' = cpos + m /\ label' = "att_eqx" /\ val' = Longer(val, m)
                 /\ UNCHANGED <<curnode, nodes, mem>> /\ (escaped => escaped')
    <3>1. escaped => escaped'
      BY <2>4, Zenon
    <3>2. n = 2 => Letter = "bs"
      BY <2>4
    <3>3. n \in {1, 2} /\ cpos' = cpos + n /\ label' = "att_eqx" /\ curnode' = curnode
      BY <2>4 DEF Enter, Go
    <3>4. QED
      BY <2>4, <3>1, <3>2, <3>3, Zenon
  <2>5. \/ Letter = "/" /\ Follows(">") /\ curnode # Root /\ SetValue(Leave("val_1", 2)) /\ UNCHANGED escaped
        \/ curnode = Root /\ Leave("val_1", 2) /\ UNCHANGED <<nodes, mem, val, escaped>>
        \/ SetValue(Enter("val_1", 1)) /\ UNCHANGED escaped
        \/ SetValue(Enter("name_gap", 1)) /\ UNCHANGED escaped
        \/ /\ LET n == IF Letter = "bs" THEN 2 ELSE 1 IN
              Enter("att_eqx", n) /\ val' = Longer(val, n)
           /\ escaped' = (escaped \/ Letter = "bs")
           /\ UNCHANGED <<nodes, mem>>
    BY DEF AttEqx
  <2>6. QED
    BY <2>1, <2>2, <2>3, <2>4, <2>5
<1>4. CASE /\ UNCHANGED <<mem, nodes, curnode, val, escaped>>
           /\ label' \in {"done", "crashed"} /\ cpos' = cpos + 0
  <2>1. /\ label' \in Labels /\ label' \notin WithAtt /\ label' \in Ended
        /\ label' \notin {"cdata", "att_eqx", "name_x", "ename_x", "att_nameqs"}
    BY <1>4 DEF Labels, Ended, WithAtt, Quotes
  <2>2. val \in PieceShape /\ val.at + val.len <= cpos' /\ curnode' \in 1..Len(nodes)
    BY <1>2, <1>4 DEF Marked
  <2>3. QED
    BY <1>1, <1>2, <1>4, <2>1, <2>2, HandStep
<1>5. CASE /\ ~(escaped /\ val.at = 0) /\ ValueTaken /\ UNCHANGED escaped
           /\ \/ label' = "val_1" /\ cpos' = cpos + 2 /\ curnode' = nodes[curnode].parent
                 /\ Follows(">")
              \/ label' \in {"val_1", "name_gap"} /\ cpos' = cpos + 1 /\ curnode' = curnode
  <2>1. Follows(">") => cpos + 2 <= Len(mem)
    BY <1>2, FollowsMore
  <2>2. PICK n \in {1, 2} : cpos' = cpos + n /\ cpos + n <= Len(mem)
    BY <1>2, <1>5, <2>1
  <2>3. curnode' \in 1..Len(nodes) /\ label' \in {"val_1", "name_gap"}
    BY <1>2, <1>5
  <2>4. QED
    BY <1>1, <1>2, <1>5, <2>2, <2>3, ValueTakenStep
<1>6. CASE \E n \in {1, 2} :
             /\ n = 2 => Letter = "bs"
             /\ cpos' = cpos + n /\ label' = "att_eqx" /\ val' = Longer(val, n)
             /\ UNCHANGED <<curnode, nodes, mem>> /\ (escaped => escaped')
  BY <1>1, <1>2, <1>6, ValueGoesOn
<1>7. QED
  BY <1>3, <1>4, <1>5, <1>6

\* A letter of a value in quotes, or its end.
LEMMA AttQuotKept ==
  ASSUME ReplyInv, UNCHANGED <<reply, stage>>, NEW q \in DOMAIN QuoteLabel, AttQuot(q)
  PROVE  ReplyInv'
<1>0. QuoteLabel[q] \in Quotes /\ QuoteLabel[q] \in Looking
  BY QuoteLabels DEF Quotes, Looking
<1>1. Sees(QuoteLabel[q]) /\ UNCHANGED <<curatt, tag, att>>
  BY DEF AttQuot
<1>2. /\ Place /\ Built /\ Marked /\ label \in Quotes /\ label \notin Ended
      /\ cpos < Len(mem) /\ cpos <= Len(mem) /\ cpos + 1 <= Len(mem) /\ cpos + 0 <= Len(mem)
      /\ 1 \in Nat /\ 2 \in Nat /\ 0 \in Nat /\ cpos \in Nat /\ cpos > 0
      /\ curnode \in 1..Len(nodes)
  BY <1>0, <1>1, SeenFrom DEF Built
<1>3. val.at = 0 => val.len = 0
  BY <1>2 DEF Marked, Quotes, Ended
<1>4. val \in PieceShape /\ val.at \in Nat /\ val.len \in Nat /\ val.at + val.len <= cpos
  BY <1>2, HandFrom
<1>5. CASE Letter = q /\ val.len > 0 /\ SetValue(Enter("name_gap", 1)) /\ UNCHANGED escaped
  <2>1. val.at # 0
    BY <1>3, <1>4, <1>5
  <2>2. /\ ValueTaken /\ label' = "name_gap" /\ cpos' = cpos + 1 /\ curnode' = curnode
    BY <1>5, <2>1 DEF SetValue, ValueTaken, AttValued, Taken, Enter, Go
  <2>3. UNCHANGED escaped /\ ~(escaped /\ val.at = 0)
    BY <1>5, <2>1, Zenon
  <2>4. 1 \in {1, 2}
    OBVIOUS
  <2>5. QED
    BY <1>1, <1>2, <2>2, <2>3, <2>4, ValueTakenStep
<1>6. CASE /\ Letter = q /\ val.len = 0
           /\ Enter("name_gap", 1) /\ UNCHANGED <<nodes, mem, val, escaped>>
  <2>1. label' = "name_gap" /\ cpos' = cpos + 1 /\ curnode' = curnode
    BY <1>6 DEF Enter, Go
  <2>2. /\ label' \in Labels /\ label' \notin WithAtt
        /\ label' \notin {"cdata", "att_eqx", "name_x", "ename_x", "att_nameqs"}
    BY <2>1 DEF Labels, Looking, WithAtt, Quotes
  <2>3. val' \in PieceShape /\ val'.at + val'.len <= cpos' /\ val'.len = 0
    BY <1>2, <1>4, <1>6, <2>1
  <2>4. QED
    BY <1>1, <1>2, <1>6, <2>1, <2>2, <2>3, HandStep
<1>7. ASSUME NEW n, n = IF Letter = "bs" THEN 2 ELSE 1, Enter(label, n),
             val' = IF val.len = 0 THEN Piece(cpos, n) ELSE Longer(val, n),
             escaped' = (escaped \/ Letter = "bs"), UNCHANGED <<nodes, mem>>
      PROVE  ReplyInv'
  <2>1. escaped => escaped'
    BY <1>7, Zenon
  <2>2. n \in {1, 2} /\ (n = 2 => Letter = "bs")
    BY <1>7
  <2>3. label' = label /\ cpos' = cpos + n /\ curnode' = curnode
    BY <1>7 DEF Enter, Go
  <2>4. CASE val.len = 0
    <3>1. val' = Piece(cpos, n)
      BY <1>7, <2>4
    <3>2. QED
      BY <1>1, <1>2, <1>7, <2>1, <2>2, <2>3, <3>1, ValueGoesOn
  <2>5. CASE val.len # 0
    <3>1. val' = Longer(val, n)
      BY <1>7, <2>5
    <3>2. QED
      BY <1>1, <1>2, <1>7, <2>1, <2>2, <2>3, <2>5, <3>1, ValueGoesOn
  <2>6. QED
    BY <2>4, <2>5
<1>8. QED
  BY <1>5, <1>6, <1>7 DEF AttQuot

-----------------------------------------------------------------------------
(***************************************************************************)
(* The worker.                                                             *)
(***************************************************************************)
\* Every turn of the parser.
LEMMA ParseKept ==
  ASSUME ReplyInv, UNCHANGED <<reply, stage>>, Parse
  PROVE  ReplyInv'
<1>1. CASE EndOfBuffer  BY <1>1, EndOfBufferKept
<1>2. CASE Val1  BY <1>2, Val1Kept
<1>3. CASE ValX  BY <1>3, ValXKept
<1>4. CASE Comment  BY <1>4, CommentKept
<1>5. CASE Pi  BY <1>5, PiKept
<1>6. CASE Bang  BY <1>6, BangKept
<1>7. CASE Cdata  BY <1>7, CdataKept
<1>8. CASE Name1  BY <1>8, Name1Kept
<1>9. CASE NameX  BY <1>9, NameXKept
<1>10. CASE NameGap  BY <1>10, NameGapKept
<1>11. CASE AttName  BY <1>11, AttNameKept
<1>12. CASE AttSpace  BY <1>12, AttSpaceKept
<1>13. CASE AttNameQs  BY <1>13, AttNameQsKept
<1>14. CASE AttNameQsDone  BY <1>14, AttNameQsDoneKept
<1>15. CASE AttEq1  BY <1>15, AttEq1Kept
<1>16. CASE AttEqx  BY <1>16, AttEqxKept
<1>17. CASE \E q \in DOMAIN QuoteLabel : AttQuot(q)  BY <1>17, AttQuotKept
<1>18. CASE Ename1  BY <1>18, Ename1Kept
<1>19. CASE EnameX  BY <1>19, EnameXKept
<1>20. QED
  BY <1>1, <1>2, <1>3, <1>4, <1>5, <1>6, <1>7, <1>8, <1>9, <1>10, <1>11, <1>12, <1>13,
     <1>14, <1>15, <1>16, <1>17, <1>18, <1>19 DEF Parse

\* A parser that does not move keeps its part.
LEMMA ParserStays ==
  ASSUME ReplyInv, UNCHANGED <<parser, reply>>, stage' \in Stages
  PROVE  ReplyInv'
<1>1. UNCHANGED <<label, cpos, nodes, curnode, curatt, mem, tag, att, val, escaped>>
  BY DEF parser, dom, marks
<1>2. Place'
  BY <1>1 DEF ReplyInv, Place
<1>3. Closing'
  BY <1>1 DEF ReplyInv, Closing
<1>4. Built'
  BY <1>1 DEF ReplyInv, Built
<1>5. Marked'
  BY <1>1 DEF ReplyInv, Marked
<1>6. QED
  BY <1>2, <1>3, <1>4, <1>5 DEF ReplyInv

\* A parse starts with the root, and nothing in hand.
LEMMA ReplyInitInv == ReplyInit => ReplyInv
<1> SUFFICES ASSUME ReplyInit PROVE ReplyInv
  OBVIOUS
<1>1. /\ reply \in Replies /\ mem = reply.xml /\ stage = "parse"
      /\ label = "val_1" /\ cpos = 1 /\ nodes = <<NewNode(Root, Unset)>> /\ curnode = 1
      /\ tag = Unset /\ att = Unset /\ val = Unset /\ escaped = FALSE
  BY DEF ReplyInit, ParseInit, Root
<1>2. mem \in Seq(STRING) /\ mem # <<>>
  BY <1>1, RepliesAssumption
<1>3. Len(mem) \in Nat /\ Len(mem) > 0
  BY <1>2, LenProperties, EmptySeq
<1>4. /\ Solid(Unset, 0) /\ Solid(Unset, 1) /\ Unset \in PieceShape
      /\ Unset.at = 0 /\ Unset.len = 0
  BY UnsetSolid DEF Unset, Piece
<1>5. Place
  BY <1>1, <1>2, <1>3 DEF Place, Stages, Labels, Looking
<1>6. Closing
  BY <1>1 DEF Closing
<1>7. Built
  <2> DEFINE x == NewNode(Root, Unset)
  <2>1. Text(Unset) \in Seq(STRING)
    BY <1>2, <1>3, <1>4, TextTyped
  <2>2. <<>> \in Seq(Nat) /\ <<>> \in Seq(AttShape) /\ Len(<<>>) = 0
    BY EmptySeq
  <2>3. /\ x \in NodeShape /\ x.parent = 1 /\ x.name = Unset /\ x.value = Unset
        /\ x.numvals = 0 /\ x.kids = <<>> /\ x.atts = <<>>
    BY <1>4, <2>1, <2>2 DEF NewNode, NodeShape, Root
  <2> HIDE DEF x
  <2>4. <<x>> \in Seq(NodeShape) /\ Len(<<x>>) = 1 /\ <<x>>[1] = x
    BY <2>3
  <2>5. nodes = <<x>>
    BY <1>1 DEF x
  <2>6. /\ nodes \in Seq(NodeShape) /\ Len(nodes) = 1
        /\ \A n \in 1..Len(nodes) : nodes[n] = x
    BY <2>4, <2>5
  <2>7. Grown(nodes, 1)
    BY <1>4, <2>2, <2>3, <2>6 DEF Grown
  <2>8. QED
    BY <1>1, <2>6, <2>7 DEF Built, WithAtt, Quotes
<1>8. Marked
  BY <1>1, <1>4 DEF Marked
<1>9. QED
  BY <1>5, <1>6, <1>7, <1>8 DEF ReplyInv

\* The invariant lasts.
LEMMA ReplyStepInv == ReplyInv /\ [ReplyNext]_allvars => ReplyInv'
<1> SUFFICES ASSUME ReplyInv, [ReplyNext]_allvars PROVE ReplyInv'
  OBVIOUS
<1>1. CASE ParseLetter
  BY <1>1, ParseKept DEF ParseLetter
<1>2. stage \in Stages
  BY DEF ReplyInv, Place
<1>3. CASE Verify
  BY <1>3, ParserStays DEF Verify, Stages
<1>4. CASE ProcessResults
  BY <1>4, ParserStays DEF ProcessResults, Stages
<1>5. CASE Crash
  BY <1>5, ParserStays DEF Crash, Stages
<1>6. CASE Send
  BY <1>6, ParserStays DEF Send, Stages
<1>7. CASE Destroy
  <2>1. stage' \in {"served", "crashed"}
    BY <1>7 DEF Destroy, Unwritten
  <2>2. QED
    BY <1>7, <2>1, ParserStays DEF Destroy, Stages
<1>8. CASE UNCHANGED allvars
  BY <1>2, <1>8, ParserStays DEF allvars
<1>9. QED
  BY <1>1, <1>3, <1>4, <1>5, <1>6, <1>7, <1>8 DEF ReplyNext

\* What it says of a whole reply is that neither way out of it is open.
LEMMA ReplyInvTyped == ReplyInv => ReplyTypeOK
<1> SUFFICES ASSUME ReplyInv PROVE ReplyTypeOK
  OBVIOUS
<1>1. Place /\ Closing /\ Built /\ Marked
  BY DEF ReplyInv
<1>2. Grown(nodes, cpos) /\ cpos \in Nat /\ Len(mem) \in Nat
  BY <1>1, LenProperties DEF Built, Place
<1>3. /\ DOMAIN nodes = 1..Len(nodes)
      /\ \A n \in 1..Len(nodes) :
           /\ DOMAIN nodes[n].kids = 1..Len(nodes[n].kids)
           /\ DOMAIN nodes[n].atts = 1..Len(nodes[n].atts)
  BY <1>2, NodeParts, LenProperties
<1>4. \A n \in DOMAIN nodes : Range(nodes[n].kids) \subseteq DOMAIN nodes
  BY <1>2, <1>3 DEF Grown, Range
<1>5. ASSUME cpos <= Len(mem), NEW p \in Pieces
      PROVE  p.at = 0 \/ p.at + p.len <= Len(mem)
  <2>1. Solid(p, cpos) \/ p = val
    <3>1. CASE p \in {tag, att, val}
      BY <1>1, <3>1 DEF Marked
    <3>2. CASE \E n \in DOMAIN nodes : p = nodes[n].name \/ p = nodes[n].value
      BY <1>2, <1>3, <3>2 DEF Grown
    <3>3. CASE \E n \in DOMAIN nodes : \E a \in Range(nodes[n].atts) : p = a.name \/ p = a.value
      BY <1>2, <1>3, <3>3 DEF Grown, Range
    <3>4. QED
      BY <1>5, <3>1, <3>2, <3>3 DEF Pieces
  <2>2. p.at \in Nat /\ p.len \in Nat /\ p.at + p.len <= cpos
    BY <1>1, <2>1 DEF Solid, Marked, PieceShape
  <2>3. QED
    BY <1>2, <1>5, <2>2
<1>6. ASSUME cpos > Len(mem)
      PROVE  /\ reply.kind # "whole"
             /\ label = "cdata" \/ reply.xml[Len(mem) - 1] \in {"/", "bs"}
  <2>1. label = "cdata" \/ (Len(mem) > 1 /\ reply.xml[Len(mem) - 1] \in {"/", "bs"})
    BY <1>1, <1>6 DEF Place
  <2>2. ASSUME reply.kind = "whole" PROVE FALSE
    <3>1. CASE label = "cdata"
      <4>1. PICK m \in Nat : cpos <= m /\ m + 3 <= Len(mem)
        BY <1>1, <2>2, <3>1 DEF Closing
      <4>2. QED
        BY <1>2, <1>6, <4>1
    <3>2. CASE Len(mem) > 1 /\ reply.xml[Len(mem) - 1] \in {"/", "bs"}
      <4>1. EndsClosed(reply.xml) /\ Len(mem) = Len(reply.xml)
        BY <1>1, <2>2, RepliesAssumption DEF Place
      <4>2. QED
        BY <3>2, <4>1 DEF EndsClosed
    <3>3. QED
      BY <2>1, <3>1, <3>2
  <2>3. QED
    BY <2>1, <2>2
<1>7. stage \in Stages
  BY <1>1 DEF Place
<1>8. QED
  BY <1>4, <1>5, <1>6, <1>7 DEF ReplyTypeOK, Stages

\* Whatever the backend sends and whatever memory the nodes get, every piece
\* that the parser marks lies in the message, with room for the NUL that
\* escape_att writes behind it, and the parser never leaves a whole reply
\* (parser.c:parse).
THEOREM ReplyTypeCorrect == ReplySpec => []ReplyTypeOK
<1>1. QED
  BY ReplyInitInv, ReplyStepInv, ReplyInvTyped, PTL DEF ReplySpec

=============================================================================
