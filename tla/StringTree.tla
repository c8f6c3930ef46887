----------------------------- MODULE StringTree -----------------------------
(***************************************************************************)
(* xmlbare/string_tree.c: names to data, by a red-black tree from the hash *)
(* of a name to a chain of snodecs.  Two names may have one hash.  A       *)
(* string_tree_c belongs to one nodec of one process, so each call is one  *)
(* step.                                                                   *)
(***************************************************************************)
EXTENDS RedBlackTree, SequencesExt

CONSTANTS
  Names,        \* names
  Hash,         \* Hash[name]: fnv1a of the name
  Data,         \* what is stored
  Calls,        \* the pairs of a name and data that are stored
  MaxChain      \* bound: MaxChain[name], entries of a name

ASSUME HashAssumption == Hash \in [Names -> Keys]
ASSUME CallsAssumption == Calls \subseteq Names \X Data

Entry == [name : Names, data : Data]

VARIABLES
  tree,     \* the red-black tree
  chain,    \* chain[node]: its info, the snodecs that hang on it
  hung      \* the call of store that does not return, if any

vars == <<tree, chain, hung>>

(***************************************************************************)
(* Queries.                                                                *)
(***************************************************************************)
NotFound == 0

\* The first entry with the name in a chain.
FirstOf(entries, name) ==
  LET found == {i \in 1..Len(entries) : entries[i].name = name}
  IN  IF found = {} THEN NotFound
      ELSE CHOOSE i \in found : \A j \in found : i <= j

\* RBExactQuery of the name's hash: its node, or Nil.
NodeOf(name) == RBExactQuery(tree, Hash[name])

\* rawget: the node and the place in its chain, both searches one after the
\* other.
Rawget(name) ==
  LET n == NodeOf(name)
  IN  IF n = Nil THEN NotFound ELSE FirstOf(chain[n], name)

\* getarr: the data of the first entry and of those behind it with the name.
Getarr(name) ==
  LET n == NodeOf(name)
      mine == SelectSeq(chain[n], LAMBDA e : e.name = name)
  IN  IF n = Nil THEN <<>> ELSE [i \in 1..Len(mine) |-> mine[i].data]

-----------------------------------------------------------------------------
(***************************************************************************)
(* The calls.                                                              *)
(***************************************************************************)
Used == {n \in Nodes : chain[n] # <<>>}

\* The node that RBTreeInsert allocates for a key.
FreeNode(key) ==
  CHOOSE n \in Nodes \ Used :
    n[1] = key /\ \A m \in Nodes \ Used : m[1] = key => n[2] <= m[2]

\* Mutant of StoreNew: a name whose hash is in the tree joins that chain.
MutStoreJoins(name, data) ==
  LET entry == [name |-> name, data |-> data]
      n == IF NodeOf(name) = Nil THEN FreeNode(Hash[name]) ELSE NodeOf(name)
  IN  /\ tree' = IF n \in Used THEN tree ELSE RBTreeInsert(tree, n)
      /\ chain' = [chain EXCEPT ![n] = Append(@, entry)]

\* store of a name that is not found: a node of its own, also if another
\* name with that hash has one.
StoreNew(name, data) ==
  LET n == FreeNode(Hash[name])
  IN  /\ \E m \in Nodes \ Used : Key(m) = Hash[name]
      /\ tree' = RBTreeInsert(tree, n)
      /\ chain' = [chain EXCEPT ![n] = <<[name |-> name, data |-> data]>>]

\* Mutant of StoreLast: the entry goes in front.
MutStoreFirst(name, data) ==
  /\ Len(chain[NodeOf(name)]) < MaxChain[name]
  /\ chain' = [chain EXCEPT ![NodeOf(name)] = <<[name |-> name, data |-> data]>> \o @]
  /\ UNCHANGED tree

\* store of a name that is found: behind the last entry of the chain.
StoreLast(name, data) ==
  /\ Len(chain[NodeOf(name)]) < MaxChain[name]
  /\ chain' = [chain EXCEPT ![NodeOf(name)] = Append(@, [name |-> name, data |-> data])]
  /\ UNCHANGED tree

\* store(key, node), which addmore and setmore call.
Store(name, data) ==
  /\ ~hung
  /\ IF Rawget(name) = NotFound THEN StoreNew(name, data) ELSE StoreLast(name, data)
  /\ UNCHANGED hung

\* store(key, keylen, node), which addchildr and addattr call.  It does not
\* walk to the end of the chain: behind an entry that has a next one it
\* never gets on.
StoreLen(name, data) ==
  /\ ~hung
  /\ LET i == Rawget(name) IN
     CASE i = NotFound ->
            StoreNew(name, data) /\ UNCHANGED hung
       [] i # NotFound /\ i = Len(chain[NodeOf(name)]) ->
            StoreLast(name, data) /\ UNCHANGED hung
       [] i # NotFound /\ i < Len(chain[NodeOf(name)]) ->
            hung' = TRUE /\ UNCHANGED <<tree, chain>>

\* delkey: the node of the hash goes with all of its chain.  Only setmore calls
\* it, which nothing calls.
DelKey(name) ==
  /\ ~hung
  /\ LET n == NodeOf(name) IN
     /\ n # Nil
     /\ tree' = RBDelete(tree, n)
     /\ chain' = [chain EXCEPT ![n] = <<>>]
  /\ UNCHANGED hung

-----------------------------------------------------------------------------
Init ==
  /\ tree = EmptyTree
  /\ chain = [n \in Nodes |-> <<>>]
  /\ hung = FALSE

Next ==
  \/ \E call \in Calls : Store(call[1], call[2]) \/ StoreLen(call[1], call[2])
  \/ \E name \in Names : DelKey(name)

Spec == Init /\ [][Next]_vars

-----------------------------------------------------------------------------
(***************************************************************************)
(* Properties.                                                             *)
(***************************************************************************)
\* The type of the state; all entries of a chain have one name.
TypeOK ==
  /\ tree.child \in [Sides -> [All -> Nodes \cup {Nil}]]
  /\ tree.parent \in [All -> All]
  /\ tree.red \in [All -> BOOLEAN]
  /\ chain \in [Nodes -> Seq(Entry)]
  /\ hung \in BOOLEAN
  /\ \A n \in Nodes : \A i \in 1..Len(chain[n]) :
       Hash[chain[n][i].name] = Key(n) /\ chain[n][i].name = chain[n][1].name

InTree == InOrder(tree, Left(tree, Root))

\* Each node that is in use, and no other, is in the tree once, in the order
\* of the keys, and every link down has its link up.
Linked ==
  /\ ToSet(InTree) = Used
  /\ \A i, j \in 1..Len(InTree) :
       i < j => InTree[i] # InTree[j] /\ Key(InTree[i]) <= Key(InTree[j])
  /\ \A n \in All \ {Nil}, side \in Sides :
       LET m == tree.child[side][n] IN m # Nil => tree.parent[m] = n

\* The tree is linked, and a red-black tree: no red node has a red child, and all ways
\* down have the same number of black nodes, so no way is longer than twice
\* another, in whatever order names were stored (red_black_tree.c:239-272), and
\* also if some were deleted in between (502-561).
RedBlack ==
  /\ Linked
  /\ ~tree.red[Nil] /\ ~tree.red[Root] /\ ~tree.red[Left(tree, Root)]
  /\ \A n \in Used : tree.red[n] =>
       ~tree.red[Left(tree, n)] /\ ~tree.red[Right(tree, n)]
  /\ BlackHeight(tree, Left(tree, Root)) # -1

\* A key is found exactly if a node has it, also where rotations have put
\* equal keys on both sides of one another.
KeysFound ==
  \A key \in Keys :
    (RBExactQuery(tree, key) # Nil) <=> (\E n \in Used : Key(n) = key)

\* RBEnumerate lists the nodes between two keys, the last first.
EnumerateComplete ==
  \A low, high \in Keys :
    RBEnumerate(tree, low, high) =
      Reverse(SelectSeq(InTree, LAMBDA n : low <= Key(n) /\ Key(n) <= high))

\* Both queries give what is in the tree, whatever rotations have put where
\* (red_black_tree.c:467-485, 644-671).
QueriesRight == KeysFound /\ EnumerateComplete

\* For names whose hash no other name has, the string tree is a table.
Alone == {name \in Names : \A other \in Names \ {name} : Hash[other] # Hash[name]}

Table == INSTANCE NameTable WITH
  Names    <- Alone,
  table    <- [name \in Alone |-> Getarr(name)],
  returned <- ~hung

\* What was stored is found, in the order it was stored, until it is
\* deleted, whatever else is stored and deleted around it.
TableSpec == Table!Spec
=============================================================================
