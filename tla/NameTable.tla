------------------------------ MODULE NameTable ------------------------------
(***************************************************************************)
(* What a string_tree_c promises: a table of names, each with the data     *)
(* stored under it in the order it was stored.  A call that does not       *)
(* return leaves the table as it was.                                      *)
(***************************************************************************)
EXTENDS Sequences

CONSTANTS Names, Data

VARIABLES table, returned

Store(name, data) ==
  /\ returned
  /\ table' = [table EXCEPT ![name] = Append(@, data)]
  /\ UNCHANGED returned

Delete(name) ==
  /\ returned
  /\ table' = [table EXCEPT ![name] = <<>>]
  /\ UNCHANGED returned

Stuck ==
  /\ returned' = FALSE
  /\ UNCHANGED table

Init ==
  /\ table = [name \in Names |-> <<>>]
  /\ returned = TRUE

\* Of all names, a call concerns the one whose data it changes.
Concerns(name) == table'[name] # table[name]

Next ==
  \/ \E name \in Names :
       Concerns(name) /\ ((\E data \in Data : Store(name, data)) \/ Delete(name))
  \/ Stuck

Spec == Init /\ [][Next]_<<table, returned>>
=============================================================================
