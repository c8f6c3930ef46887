--------------------------- MODULE GatewayService ---------------------------
(***************************************************************************)
(* What ReqGate promises of one worker process, with the sockets and the   *)
(* numbering left out.                                                     *)
(*                                                                         *)
(* A worker takes one request at a time.  A request has an identity: the   *)
(* launch of the process it arrived in and its number in that launch.  The *)
(* worker finishes it without a page, with a file, or with a page; and the *)
(* page a request of a launch finishes with is the page of that very       *)
(* request or, after a restart, of a request of an earlier launch of the   *)
(* same worker: never of another worker, never of an earlier request of    *)
(* the same launch.                                                        *)
(***************************************************************************)
EXTENDS Naturals

CONSTANTS
  Workers,      \* the worker processes
  MaxRequests   \* the largest request number

VARIABLES
  phase,   \* phase[w]: what worker w is doing
  launch,  \* how many times the gateway has been started
  served,  \* served[w]: the number of the last request of this launch
  outcome  \* outcome[w]: how the current request was finished

vars == <<phase, launch, served, outcome>>

NoPage == [kind |-> "pageless"]
Page(id) == [kind |-> "page", id |-> id]

(* The requests whose page may finish request number n of launch l of      *)
(* worker w.                                                               *)
Acceptable(w, l, n) ==
  {id \in [from : {w}, launch : 1..l, rn : 1..MaxRequests] :
     id.launch = l => id.rn = n}

Init ==
  /\ phase = [w \in Workers |-> "ready"]
  /\ launch = 1
  /\ served = [w \in Workers |-> 0]
  /\ outcome = [w \in Workers |-> NoPage]

(* A request for the backend: it gets the next number of the launch.       *)
Take(w) ==
  /\ phase[w] = "ready"
  /\ phase' = [phase EXCEPT ![w] = "busy"]
  /\ served' = [served EXCEPT ![w] = @ + 1]
  /\ UNCHANGED <<launch, outcome>>

(* A request for a static file uses no number.                             *)
File(w) ==
  /\ phase[w] = "ready"
  /\ phase' = [phase EXCEPT ![w] = "done"]
  /\ UNCHANGED <<launch, served, outcome>>

Finish(w) ==
  /\ phase[w] = "busy"
  /\ phase' = [phase EXCEPT ![w] = "done"]
  /\ \/ UNCHANGED outcome
     \/ \E id \in Acceptable(w, launch, served[w]) :
          outcome' = [outcome EXCEPT ![w] = Page(id)]
  /\ UNCHANGED <<launch, served>>

Respond(w) ==
  /\ phase[w] = "done"
  /\ phase' = [phase EXCEPT ![w] = "ready"]
  /\ outcome' = [outcome EXCEPT ![w] = NoPage]
  /\ UNCHANGED <<launch, served>>

Fail(w) ==
  /\ phase[w] # "down"
  /\ phase' = [phase EXCEPT ![w] = "down"]
  /\ served' = [served EXCEPT ![w] = 0]
  /\ outcome' = [outcome EXCEPT ![w] = NoPage]
  /\ UNCHANGED launch

(* The whole gateway is started again, never a single worker.              *)
Restart ==
  /\ \A w \in Workers : phase[w] = "down"
  /\ phase' = [w \in Workers |-> "ready"]
  /\ launch' = launch + 1
  /\ UNCHANGED <<served, outcome>>

Step(w) == Take(w) \/ File(w) \/ Finish(w) \/ Respond(w) \/ Fail(w)

Next == Restart \/ \E w \in Workers : Step(w)

Spec == Init /\ [][Next]_vars

(* A worker that has taken a request finishes it and writes the response,  *)
(* unless it fails.                                                        *)
FairSpec == Spec /\ \A w \in Workers : WF_vars(Finish(w) \/ Respond(w))
=============================================================================
