----------------------------- MODULE MCReqGate ------------------------------
(***************************************************************************)
(* Instances of ReqGate for TLC.  The buffer is scaled as in MCServer; a   *)
(* worker may ask the backend for every request of the two clients.        *)
(***************************************************************************)
EXTENDS ReqGate

MCWorkers == {1}
MCClients == {"a", "b"}
MCNobody == {}
\* b cuts its request in pieces and may not read its response.
MCUnruly == {"b"}

Short == [head |-> 2, body |-> 0, keep |-> FALSE, expect |-> FALSE]
Post(body, keep) == [head |-> 3, body |-> body, keep |-> keep, expect |-> FALSE]
Expecting(body) == [head |-> 3, body |-> body, keep |-> TRUE, expect |-> TRUE]

MCScript ==
  [c \in Clients |->
     IF c = "a" THEN <<Post(4, TRUE), Expecting(3)>> ELSE <<Short>>]

MCForms == {"numbered"}
=============================================================================
