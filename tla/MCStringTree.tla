---------------------------- MODULE MCStringTree ----------------------------
(***************************************************************************)
(* An instance of StringTree for TLC: six names with a hash of their own,  *)
(* one of which is stored twice, and two names that share a hash.          *)
(***************************************************************************)
EXTENDS StringTree

MCHash ==
  [a |-> 1, b |-> 2, c |-> 3, d |-> 4, e |-> 5, f |-> 6, g |-> 7, h |-> 3]
MCNames == DOMAIN MCHash
MCKeys == 1..7
MCData == 1..2
MCCalls == (MCNames \X {1}) \cup {<<"d", 2>>}
MCMaxChain == [name \in MCNames |-> IF name = "d" THEN 2 ELSE 1]
=============================================================================
