---------------------------- MODULE RedBlackTree ----------------------------
(***************************************************************************)
(* xmlbare/red_black_tree.c: a red-black tree with two sentinels, as pure  *)
(* operators on the heap of its nodes.  The tree hangs on Root as its left *)
(* child; Nil stands for every missing child.  The parent of Nil is        *)
(* written and read while a node is deleted and is junk otherwise; here it *)
(* is put back to Nil.                                                     *)
(*                                                                         *)
(* The code writes each case twice, for the left and for the right.  Here  *)
(* it is written once, for a side.                                         *)
(*                                                                         *)
(* The gateway inserts (store) and looks up (RBExactQuery).  RBDelete and  *)
(* RBEnumerate are the library's: what would call them, nothing calls.     *)
(***************************************************************************)
EXTENDS Integers, Sequences

CONSTANTS
  Keys,         \* keys (32 bit hashes in string_tree.c)
  MaxCopies,    \* bound: nodes with one key at one time
  Root, Nil     \* the sentinels

ASSUME KeysAssumption == Keys \subseteq Nat

\* A node is known by its key, and a number among those with that key.
Nodes == Keys \X (1..MaxCopies)
Key(n) == n[1]

ASSUME SentinelAssumption == Root # Nil /\ {Root, Nil} \cap Nodes = {}

All == Nodes \cup {Root, Nil}
Sides == {"left", "right"}

Other(side) == IF side = "left" THEN "right" ELSE "left"

\* RBTreeCreate; a free node has the fields of Nil.
EmptyTree ==
  [child  |-> [side \in Sides |-> [n \in All |-> Nil]],
   parent |-> [n \in All |-> Nil],
   red    |-> [n \in All |-> FALSE]]

Left(t, n) == t.child["left"][n]
Right(t, n) == t.child["right"][n]

\* The side of p that n is on, as the code tests it.
SideOf(t, n, p) == IF n = Left(t, p) THEN "left" ELSE "right"

\* p's child on a side becomes n; the parent of n is not touched.
Link(t, p, side, n) == [t EXCEPT !.child[side][p] = n]

\* Node n takes the place that m has under p.
Replace(t, m, p, n) == Link(t, p, SideOf(t, m, p), n)

Paint(t, ns, colour) ==
  [t EXCEPT !.red = [n \in All |-> IF n \in ns THEN colour = "red" ELSE @[n]]]

\* LeftRotate and RightRotate: x goes down on the given side.  The parent of
\* Nil is left alone.
Rotate(t, x, side) ==
  LET y == t.child[Other(side)][x]
      p == t.parent[x]
      inner == t.child[side][y]
      moved == Link(t, x, Other(side), inner)
      adopted == IF inner = Nil THEN moved ELSE [moved EXCEPT !.parent[inner] = x]
      placed == Replace([adopted EXCEPT !.parent[y] = p], x, p, y)
  IN  [Link(placed, y, side, x) EXCEPT !.parent[x] = y]

-----------------------------------------------------------------------------
(***************************************************************************)
(* Insertion.                                                              *)
(***************************************************************************)
\* The node a new key goes under: equal keys go to the right.
RECURSIVE Place(_, _, _, _)
Place(t, x, y, key) ==
  CASE x = Nil -> y
    [] x # Nil /\ Key(x) > key -> Place(t, Left(t, x), x, key)
    [] x # Nil /\ Key(x) <= key -> Place(t, Right(t, x), x, key)

\* TreeInsertHelp, and the red colour RBTreeInsert gives.
InsertPlain(t, z) ==
  LET y == Place(t, Left(t, Root), Root, Key(z))
      side == IF y = Root \/ Key(y) > Key(z) THEN "left" ELSE "right"
  IN  [Link(t, y, side, z) EXCEPT !.parent[z] = y, !.red[z] = TRUE]

\* Mutant of InsertFix: with a red uncle the colours change and that is all,
\* the grandparent's own parent is not looked at.
MutInsertFixOnce(t, x) ==
  LET p == t.parent[x]
      g == t.parent[p]
      side == SideOf(t, p, g)
      uncle == t.child[Other(side)][g]
      inner == x = t.child[Other(side)][p]
      x1 == IF inner THEN p ELSE x
      t1 == IF inner THEN Rotate(t, p, side) ELSE t
      p1 == t1.parent[x1]
      g1 == t1.parent[p1]
  IN  CASE ~t.red[p] -> t
        [] t.red[p] /\ t.red[uncle] -> Paint(Paint(t, {p, uncle}, "black"), {g}, "red")
        [] t.red[p] /\ ~t.red[uncle] ->
             Rotate(Paint(Paint(t1, {p1}, "black"), {g1}, "red"), g1, Other(side))

\* The loop of RBTreeInsert.
RECURSIVE InsertFix(_, _)
InsertFix(t, x) ==
  LET p == t.parent[x]
      g == t.parent[p]
      side == SideOf(t, p, g)
      uncle == t.child[Other(side)][g]
      inner == x = t.child[Other(side)][p]
      x1 == IF inner THEN p ELSE x
      t1 == IF inner THEN Rotate(t, p, side) ELSE t
      p1 == t1.parent[x1]
      g1 == t1.parent[p1]
  IN  CASE ~t.red[p] -> t
        [] t.red[p] /\ t.red[uncle] ->
             InsertFix(Paint(Paint(t, {p, uncle}, "black"), {g}, "red"), g)
        [] t.red[p] /\ ~t.red[uncle] ->
             InsertFix(Rotate(Paint(Paint(t1, {p1}, "black"), {g1}, "red"),
                              g1, Other(side)), x1)

RBTreeInsert(t, z) ==
  LET fixed == InsertFix(InsertPlain(t, z), z)
  IN  Paint(fixed, {Left(fixed, Root)}, "black")

-----------------------------------------------------------------------------
(***************************************************************************)
(* Queries.                                                                *)
(***************************************************************************)
RECURSIVE Furthest(_, _, _)
Furthest(t, x, side) ==
  IF t.child[side][x] = Nil THEN x ELSE Furthest(t, t.child[side][x], side)

\* Up from x for as long as it is a child on the given side.
RECURSIVE Climb(_, _, _)
Climb(t, x, side) ==
  LET y == t.parent[x]
  IN  IF x = t.child[side][y] /\ y # Root THEN Climb(t, y, side) ELSE y

\* TreeSuccessor: Root is the parent of the last node's last ancestor.
TreeSuccessor(t, x) ==
  IF Right(t, x) # Nil THEN Furthest(t, Right(t, x), "left")
  ELSE LET y == Climb(t, x, "right") IN IF y = Root THEN Nil ELSE y

\* TreePredecessor.
TreePredecessor(t, x) ==
  IF Left(t, x) # Nil THEN Furthest(t, Left(t, x), "right")
  ELSE LET y == Climb(t, x, "left") IN IF y = Root THEN Nil ELSE y

\* Mutant of Search: any result of Compare but 0 is taken for "greater".
RECURSIVE MutSearchLeft(_, _, _)
MutSearchLeft(t, x, key) ==
  CASE x = Nil -> Nil
    [] x # Nil /\ Key(x) = key -> x
    [] x # Nil /\ Key(x) # key -> MutSearchLeft(t, Left(t, x), key)

RECURSIVE Search(_, _, _)
Search(t, x, key) ==
  CASE x = Nil -> Nil
    [] x # Nil /\ Key(x) = key -> x
    [] x # Nil /\ Key(x) > key -> Search(t, Left(t, x), key)
    [] x # Nil /\ Key(x) < key -> Search(t, Right(t, x), key)

\* RBExactQuery: of several nodes with the key, the one highest in the tree.
RBExactQuery(t, key) == Search(t, Left(t, Root), key)

RECURSIVE LastUpTo(_, _, _, _)
LastUpTo(t, x, best, high) ==
  CASE x = Nil -> best
    [] x # Nil /\ Key(x) > high -> LastUpTo(t, Left(t, x), best, high)
    [] x # Nil /\ Key(x) <= high -> LastUpTo(t, Right(t, x), x, high)

RECURSIVE DownTo(_, _, _)
DownTo(t, x, low) ==
  IF x = Nil \/ (x # Nil /\ low > Key(x)) THEN <<>>
  ELSE <<x>> \o DownTo(t, TreePredecessor(t, x), low)

\* RBEnumerate: the nodes in the order they are pushed.
RBEnumerate(t, low, high) ==
  DownTo(t, LastUpTo(t, Left(t, Root), Nil, high), low)

-----------------------------------------------------------------------------
(***************************************************************************)
(* Deletion.                                                               *)
(***************************************************************************)
\* RBDeleteFixUp, with root the top of the tree when it was called.
RECURSIVE DeleteFix(_, _, _)
DeleteFix(t, x, root) ==
  LET p == t.parent[x]
      side == SideOf(t, x, p)
      far == Other(side)
      \* a red sibling is rotated away
      sibling == t.child[far][p]
      t1 == IF t.red[sibling]
            THEN Rotate(Paint(Paint(t, {sibling}, "black"), {p}, "red"), p, side)
            ELSE t
      p1 == t1.parent[x]
      w == t1.child[far][p1]
      \* a black far nephew is made red by a rotation
      t2 == IF ~t1.red[t1.child[far][w]]
            THEN Rotate(Paint(Paint(t1, {t1.child[side][w]}, "black"), {w}, "red"),
                        w, far)
            ELSE t1
      p2 == t2.parent[x]
      w2 == t2.child[far][p2]
      t3 == Paint([t2 EXCEPT !.red[w2] = t2.red[p2]],
                  {p2, t2.child[far][w2]}, "black")
  IN  CASE t.red[x] \/ x = root -> Paint(t, {x}, "black")
        [] ~t.red[x] /\ x # root /\ ~t1.red[Left(t1, w)] /\ ~t1.red[Right(t1, w)] ->
             DeleteFix(Paint(t1, {w}, "red"), p1, root)
        [] OTHER -> DeleteFix(Rotate(t3, p2, side), root, root)

\* RBDelete: the fix-up is for a black node that was spliced out.
Rebalance(t, y, x) == IF t.red[y] THEN t ELSE DeleteFix(t, x, Left(t, Root))

\* RBDelete: y, spliced out, takes the place of z with its links and colour.
TakeOver(t, y, z) ==
  LET linked == [t EXCEPT
        !.child = [side \in Sides |-> [@[side] EXCEPT ![y] = t.child[side][z]]],
        !.parent = [@ EXCEPT ![y] = t.parent[z],
                             ![Left(t, z)] = y, ![Right(t, z)] = y],
        !.red[y] = t.red[z]]
  IN  Replace(linked, z, t.parent[z], y)

\* free(z), and the parent of Nil forgotten.
Free(t, z) ==
  [child  |-> [side \in Sides |-> [t.child[side] EXCEPT ![z] = Nil]],
   parent |-> [t.parent EXCEPT ![z] = Nil, ![Nil] = Nil],
   red    |-> [t.red EXCEPT ![z] = FALSE]]

RBDelete(t, z) ==
  LET y == IF Left(t, z) = Nil \/ Right(t, z) = Nil THEN z ELSE TreeSuccessor(t, z)
      x == IF Left(t, y) = Nil THEN Right(t, y) ELSE Left(t, y)
      spliced == Replace([t EXCEPT !.parent[x] = t.parent[y]], y, t.parent[y], x)
      balanced == Rebalance(spliced, y, x)
  IN  Free(IF y = z THEN balanced ELSE TakeOver(balanced, y, z), z)

-----------------------------------------------------------------------------
(***************************************************************************)
(* What a well-formed tree is.                                             *)
(***************************************************************************)
\* The nodes under x, in order.
RECURSIVE InOrder(_, _)
InOrder(t, x) ==
  IF x = Nil THEN <<>>
  ELSE InOrder(t, Left(t, x)) \o <<x>> \o InOrder(t, Right(t, x))

\* The black nodes from x down to a Nil; -1 if that depends on the way.
RECURSIVE BlackHeight(_, _)
BlackHeight(t, x) ==
  IF x = Nil THEN 0
  ELSE LET l == BlackHeight(t, Left(t, x))
           r == BlackHeight(t, Right(t, x))
       IN  IF l # r \/ l = -1 THEN -1 ELSE l + IF t.red[x] THEN 0 ELSE 1
=============================================================================
