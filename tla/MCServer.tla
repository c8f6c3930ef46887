------------------------------ MODULE MCServer ------------------------------
(***************************************************************************)
(* Instances of Server for TLC.  read_all's first buffer of 500 bytes is   *)
(* scaled to 4, so a request of 3 fits, one of 7 makes the buffer grow     *)
(* once, one of 4 or 8 fills it exactly.                                   *)
(***************************************************************************)
EXTENDS Server

MCOneWorker == {1}
MCTwoWorkers == {1, 2}

MCOneClient == {"a"}
MCTwoClients == {"a", "b"}
MCNobody == {}
MCPipeliner == {"b"}
MCSplitter == {"a"}

Get(keep) == [head |-> 3, body |-> 0, keep |-> keep, expect |-> FALSE]
Post(body, keep) == [head |-> 3, body |-> body, keep |-> keep, expect |-> FALSE]
Expecting(body) == [head |-> 3, body |-> body, keep |-> TRUE, expect |-> TRUE]

\* The splitter cuts an expecting request, the pipeliner sends three at once.
MCUnrulyScript ==
  [c \in Clients |->
     IF c = "a" THEN <<Expecting(2), Get(FALSE)>>
                ELSE <<Post(2, TRUE), Get(TRUE), Get(FALSE)>>]

\* A request that fills the first buffer to the last byte.
MCExactScript ==
  [c \in Clients |-> <<Post(1, FALSE)>>]
=============================================================================
