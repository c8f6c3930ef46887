------------------------------- MODULE ReqGate -------------------------------
(***************************************************************************)
(* The gateway as one system: the workers of Server, each of which serves  *)
(* a request by the steps of Lumith, with its clients on one side and the  *)
(* backend on the other.  Where Server has serving as one step, here the   *)
(* response is written with the last of Lumith's, and a worker that dies   *)
(* dies in both.                                                           *)
(***************************************************************************)
EXTENDS Server

CONSTANTS
  ReplyForms,   \* the forms of XML the backend may answer with
  MaxRequests,  \* bound: backend requests of a worker
  NoMsg,        \* no message
  Pageless      \* a response without a page of the backend

VARIABLES
  at,               \* at[w]: where w is in lumithc::serve (Lumith's pc)
  launch, request_num, socket_in_done, socket_out_done, bound, cur, inbox,
  msg, held, answer, jobs,
  asked,            \* asked[w][n]: connection and place of w's request n
  pages             \* pages[c]: whose page each answer to c is

\* conf.xml gives each process an address of its own.
Gate == INSTANCE Lumith WITH
  pc <- at, Endpoints <- Workers, Address <- [w \in Workers |-> w],
  Foreign <- {}, MaxLaunches <- 1

ASSUME GateAssumption ==
  /\ ReplyForms \subseteq Gate!AllForms
  /\ MaxRequests \in Nat \ {0}
  /\ NoMsg \notin Gate!Message
\* What stands for no page is not taken for one.
ASSUME PagelessAssumption == Pageless \notin Clients \X Nat

gate == <<at, launch, request_num, socket_in_done, socket_out_done, bound, cur,
          inbox, msg, held, answer, jobs>>
story == <<asked, pages>>
allvars == <<vars, gate, story>>

\* The request w has in hand: the next to be answered on its connection.
InHand(w) == <<conn[w], Len(answers[conn[w]]) + 1>>

\* The request whose page w is about to write.
PageOf(w) ==
  IF answer[w] = "page" THEN asked[msg[w].job.from][msg[w].job.rn] ELSE Pageless

-----------------------------------------------------------------------------
\* process hands the request to lumithc::serve.
ServeBegins(w) ==
  /\ pc[w] = "serve"
  /\ \/ Gate!ServeStatic(w) /\ UNCHANGED asked
     \/ Gate!Start(w) /\ asked' = [asked EXCEPT ![w] = Append(@, InHand(w))]
  /\ UNCHANGED <<vars, pages>>

\* handle_req goes on.
ServeGoesOn(w) ==
  /\ at[w] # "reply"
  /\ Gate!Handle(w)
  /\ UNCHANGED <<vars, story>>

\* response.send, to the client on whose connection w is.
ServeEnds(w) ==
  /\ Gate!Respond(w)
  /\ Serve(w)
  /\ pages' = IF answers' = answers THEN pages
              ELSE [pages EXCEPT ![conn[w]] = Append(@, PageOf(w))]
  /\ UNCHANGED asked

ServeBlocks(w) ==
  /\ at[w] = "reply"
  /\ WriteBlocks(w)
  /\ UNCHANGED <<gate, story>>

\* The steps of server.c around it.
Connection(w) ==
  /\ \/ Accept(w)
     \/ ReadFull(w) \/ ReadShort(w) \/ ReadEnd(w) \/ ReadFails(w)
     \/ ParseNothing(w) \/ ParseHead(w) \/ ParseFragment(w)
  /\ UNCHANGED <<gate, story>>

\* A process dies with all it has: its connection and its sockets.
GateDies(w) ==
  /\ ParseNoPath(w) \/ Crash(w)
  /\ Gate!Crash(w)
  /\ UNCHANGED story

GateInit ==
  /\ Init
  /\ Gate!Init
  /\ asked = [w \in Workers |-> <<>>]
  /\ pages = [c \in Clients |-> <<>>]

GateWorker(w) ==
  \/ ServeBegins(w) \/ ServeGoesOn(w) \/ ServeEnds(w) \/ ServeBlocks(w)
  \/ Connection(w)

GateNext ==
  \/ \E w \in Workers : GateWorker(w) \/ GateDies(w)
  \/ (\E c \in Clients : Client(c)) /\ UNCHANGED <<gate, story>>
  \/ Gate!Backend /\ UNCHANGED <<vars, story>>

\* A process that can run is run.  Neither a client nor the backend has to do
\* anything, and no process has to die.
GateSpec ==
  /\ GateInit /\ [][GateNext]_allvars
  /\ \A w \in Workers : WF_allvars(GateWorker(w))

-----------------------------------------------------------------------------
(***************************************************************************)
(* Properties.                                                             *)
(***************************************************************************)
\* A page that comes back over a connection is the one the backend made for
\* the very request that the response answers: over kept-alive connections,
\* requests given up on, answers that come late, and the next client of the
\* same worker (lumith.c:205, server.c:331).
RightPage ==
  \A c \in Clients : \A n \in 1..Len(pages[c]) :
     pages[c][n] \in {Pageless, <<c, n>>}

\* To its clients the whole is a Server: what that takes for granted, that
\* serving a request is one step and ends, the steps of Lumith provide.
ServerFairSpec == FairSpec
=============================================================================
