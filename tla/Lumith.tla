------------------------------- MODULE Lumith -------------------------------
(***************************************************************************)
(* lumith.c and thread_data.c: how a worker process of ReqGate turns one   *)
(* HTTP request into a nanomsg message for the Lumith backend and waits    *)
(* for the reply that carries the request's number.                        *)
(*                                                                         *)
(* A worker is a process: it owns a thread_entry (the request counter and  *)
(* its two nanomsg sockets), an inbound PULL socket bound to an address    *)
(* made from its pid, and an outbound PUSH socket connected to the         *)
(* backend.  The backend is external: it answers requests in any order, at *)
(* any time, or never.  The data of a page is left out: a reply is the     *)
(* request it answers and the form its XML has.                            *)
(***************************************************************************)
EXTENDS Integers, Sequences

CONSTANTS
  Workers,      \* the worker processes, named by their pids
  Endpoints,    \* nanomsg addresses a worker may bind
  Address,      \* Address[w]: socket_in of conf.xml with w's pid put in
  Foreign,      \* endpoints that a process outside the gateway holds
  ReplyForms,   \* the forms of XML the backend may answer with
  MaxRequests,  \* bound: backend requests of a worker in one launch
  MaxLaunches,  \* bound: times the gateway is launched
  NoMsg         \* no message

(* A backend request is known by its sender, the launch it was sent in and *)
(* its <rn>.                                                               *)
Job == [from : Workers, launch : 1..MaxLaunches, rn : 1..MaxRequests]

(* "numbered" has the request's <rn>, "unnumbered" has no <rn>, "crowded"  *)
(* has three siblings of one name (three cookies, say).                    *)
AllForms == {"numbered", "unnumbered", "crowded"}
Message == [job : Job, form : AllForms]

ASSUME AddressAssumption == Address \in [Workers -> Endpoints]
ASSUME FormsAssumption == ReplyForms \subseteq AllForms
ASSUME BoundsAssumption ==
  /\ MaxRequests \in Nat \ {0}
  /\ MaxLaunches \in Nat \ {0}
ASSUME NoMsgAssumption == NoMsg \notin Message

VARIABLES
  pc,               \* pc[w]: where worker w is in lumithc::serve
  launch,           \* how many times the gateway has been started
  request_num,      \* thread_data.request_num; 0: no thread_entry yet
  socket_in_done,   \* thread_data.socket_in_done
  socket_out_done,  \* thread_data.socket_out_done
  bound,            \* bound[w]: w's socket_in holds its address
  cur,              \* the local request_num of handle_req
  inbox,            \* messages delivered to w's socket_in, not received
  msg,              \* the message handle_req has in hand (buf)
  held,             \* nanomsg buffers received and not freed
  answer,           \* how the responsec of the request was filled
  jobs              \* requests at the backend, not answered

vars == <<pc, launch, request_num, socket_in_done, socket_out_done, bound,
          cur, inbox, msg, held, answer, jobs>>

entry == <<request_num, socket_in_done, socket_out_done>>

(***************************************************************************)
(* Helpers.                                                                *)
(***************************************************************************)
\* Mutant of ThreadRequestNum: a new entry counts from 0.
MutCountFromZero(w) == request_num[w]

\* get_thread_data: a process without an entry gets one that counts from 1.
ThreadRequestNum(w) == IF request_num[w] = 0 THEN 1 ELSE request_num[w]

\* The number of the last request this launch took.
Taken(w) == IF request_num[w] = 0 THEN 0 ELSE request_num[w] - 1

\* The address of w is held by another process.
InUse(w) ==
  \/ Address[w] \in Foreign
  \/ \E v \in Workers \ {w} : Address[v] = Address[w] /\ bound[v]

\* Mutant of Verify: every reply counts as new.
MutVerifyNothing(m) == MaxRequests

\* request_num_verify: the <rn> of a reply, -1 when it has none.
Verify(m) == IF m.form = "unnumbered" THEN -1 ELSE m.job.rn

CurrentJob(w) == [from |-> w, launch |-> launch, rn |-> cur[w]]

Goto(w, l) == pc' = [pc EXCEPT ![w] = l]

\* handle_req returns; serve goes on to response.send.
Finish(w, kind) ==
  /\ Goto(w, "reply")
  /\ answer' = [answer EXCEPT ![w] = kind]

-----------------------------------------------------------------------------
(***************************************************************************)
(* Serving a request.                                                      *)
(***************************************************************************)
\* serve: the path is in a mapped folder, so the backend is not asked.
ServeStatic(w) ==
  /\ pc[w] = "idle"
  /\ \E kind \in {"file", "missing"} : Finish(w, kind)
  /\ UNCHANGED <<launch, entry, bound, cur, inbox, msg, held, jobs>>

\* Mutant of Start: the number is taken and not counted up.
MutStartUncounted(w) ==
  /\ pc[w] = "idle"
  /\ ThreadRequestNum(w) <= MaxRequests
  /\ cur' = [cur EXCEPT ![w] = ThreadRequestNum(w)]
  /\ request_num' = [request_num EXCEPT ![w] = ThreadRequestNum(w)]
  /\ Goto(w, "bind")
  /\ UNCHANGED <<launch, socket_in_done, socket_out_done, bound, inbox, msg,
                 held, answer, jobs>>

\* serve: any other path; handle_req takes a request number.
Start(w) ==
  /\ pc[w] = "idle"
  /\ ThreadRequestNum(w) <= MaxRequests
  /\ cur' = [cur EXCEPT ![w] = ThreadRequestNum(w)]
  /\ request_num' = [request_num EXCEPT ![w] = ThreadRequestNum(w) + 1]
  /\ Goto(w, "bind")
  /\ UNCHANGED <<launch, socket_in_done, socket_out_done, bound, inbox, msg,
                 held, answer, jobs>>

\* The inbound socket was set up by an earlier request of this launch.
BindKept(w) ==
  /\ pc[w] = "bind"
  /\ socket_in_done[w]
  /\ Goto(w, "connect")
  /\ UNCHANGED <<launch, entry, bound, cur, inbox, msg, held, answer, jobs>>

\* nn_bind succeeds, or fails with EADDRINUSE, which handle_req lets pass:
\* the socket counts as set up and nothing will ever arrive on it.
Bind(w) ==
  /\ pc[w] = "bind"
  /\ ~socket_in_done[w]
  /\ bound' = [bound EXCEPT ![w] = ~InUse(w)]
  /\ socket_in_done' = [socket_in_done EXCEPT ![w] = TRUE]
  /\ Goto(w, "connect")
  /\ UNCHANGED <<launch, request_num, socket_out_done, cur, inbox, msg, held,
                 answer, jobs>>

\* nn_bind fails in another way: an empty response, and the next request
\* tries again.
BindFails(w) ==
  /\ pc[w] = "bind"
  /\ ~socket_in_done[w]
  /\ Finish(w, "empty")
  /\ UNCHANGED <<launch, entry, bound, cur, inbox, msg, held, jobs>>

ConnectKept(w) ==
  /\ pc[w] = "connect"
  /\ socket_out_done[w]
  /\ Goto(w, "send")
  /\ UNCHANGED <<launch, entry, bound, cur, inbox, msg, held, answer, jobs>>

Connect(w) ==
  /\ pc[w] = "connect"
  /\ ~socket_out_done[w]
  /\ socket_out_done' = [socket_out_done EXCEPT ![w] = TRUE]
  /\ Goto(w, "send")
  /\ UNCHANGED <<launch, request_num, socket_in_done, bound, cur, inbox, msg,
                 held, answer, jobs>>

ConnectFails(w) ==
  /\ pc[w] = "connect"
  /\ ~socket_out_done[w]
  /\ Finish(w, "empty")
  /\ UNCHANGED <<launch, entry, bound, cur, inbox, msg, held, jobs>>

\* request_to_xml and nn_send.  A send that times out returns -1, which the
\* test for zero takes for success, so the worker waits all the same.
Send(w) ==
  /\ pc[w] = "send"
  /\ \/ jobs' = jobs \cup {CurrentJob(w)}
     \/ UNCHANGED jobs
  /\ Goto(w, "recv")
  /\ UNCHANGED <<launch, entry, bound, cur, inbox, msg, held, answer>>

-----------------------------------------------------------------------------
(***************************************************************************)
(* Waiting for the reply.                                                  *)
(***************************************************************************)
\* nn_recv and parserc.parse of a reply whose siblings the parser can store.
Receive(w) ==
  /\ pc[w] = "recv"
  /\ inbox[w] # <<>>
  /\ Head(inbox[w]).form # "crowded"
  /\ msg' = [msg EXCEPT ![w] = Head(inbox[w])]
  /\ held' = [held EXCEPT ![w] = @ \cup {Head(inbox[w])}]
  /\ inbox' = [inbox EXCEPT ![w] = Tail(@)]
  /\ Goto(w, "examine")
  /\ UNCHANGED <<launch, entry, bound, cur, answer, jobs>>

\* nn_recv and parserc.parse of a reply with a third sibling of one name:
\* string_tree_c.store never leaves its loop, whatever the reply's <rn>.
Hang(w) ==
  /\ pc[w] = "recv"
  /\ inbox[w] # <<>>
  /\ Head(inbox[w]).form = "crowded"
  /\ held' = [held EXCEPT ![w] = @ \cup {Head(inbox[w])}]
  /\ inbox' = [inbox EXCEPT ![w] = Tail(@)]
  /\ Goto(w, "hung")
  /\ UNCHANGED <<launch, entry, bound, cur, msg, answer, jobs>>

\* Mutant of Discard: the buffer of the dropped reply is not freed.
MutDiscardLeak(w) ==
  /\ pc[w] = "examine"
  /\ Verify(msg[w]) < cur[w]
  /\ msg' = [msg EXCEPT ![w] = NoMsg]
  /\ Goto(w, "recv")
  /\ UNCHANGED <<launch, entry, bound, cur, inbox, held, answer, jobs>>

\* The reply is older than the request, or has no number: freed, and the
\* wait starts again.
Discard(w) ==
  /\ pc[w] = "examine"
  /\ Verify(msg[w]) < cur[w]
  /\ held' = [held EXCEPT ![w] = @ \ {msg[w]}]
  /\ msg' = [msg EXCEPT ![w] = NoMsg]
  /\ Goto(w, "recv")
  /\ UNCHANGED <<launch, entry, bound, cur, inbox, answer, jobs>>

\* process_results fills the responsec, which keeps the buffer (responseRaw).
Accept(w) ==
  /\ pc[w] = "examine"
  /\ Verify(msg[w]) >= cur[w]
  /\ Finish(w, "page")
  /\ UNCHANGED <<launch, entry, bound, cur, inbox, msg, held, jobs>>

\* Mutant of RecvTimeout: the timeout runs from the first nn_recv, so that it
\* can strike behind a dropped reply with the next one already there.
MutTimeoutOverall(w) ==
  /\ pc[w] = "recv"
  /\ Finish(w, "failed")
  /\ UNCHANGED <<launch, entry, bound, cur, inbox, msg, held, jobs>>

\* Mutant of RecvTimeout: NN_RCVTIMEO is set only after a bind that worked.
MutTimeoutIfBound(w) ==
  /\ pc[w] = "recv"
  /\ bound[w]
  /\ inbox[w] = <<>>
  /\ Finish(w, "failed")
  /\ UNCHANGED <<launch, entry, bound, cur, inbox, msg, held, jobs>>

\* nn_recv fails: NN_RCVTIMEO passed with nothing to receive.
RecvTimeout(w) ==
  /\ pc[w] = "recv"
  /\ inbox[w] = <<>>
  /\ Finish(w, "failed")
  /\ UNCHANGED <<launch, entry, bound, cur, inbox, msg, held, jobs>>

\* Mutant of Respond: a request that got no reply gets no response either.
MutRespondWaits(w) ==
  /\ pc[w] = "reply"
  /\ answer[w] # "failed"
  /\ Goto(w, "idle")
  /\ answer' = [answer EXCEPT ![w] = "none"]
  /\ held' = [held EXCEPT ![w] = @ \ {msg[w]}]
  /\ msg' = [msg EXCEPT ![w] = NoMsg]
  /\ UNCHANGED <<launch, entry, bound, cur, inbox, jobs>>

\* response.send; ~responsec frees responseRaw as serve returns.
Respond(w) ==
  /\ pc[w] = "reply"
  /\ Goto(w, "idle")
  /\ answer' = [answer EXCEPT ![w] = "none"]
  /\ held' = [held EXCEPT ![w] = @ \ {msg[w]}]
  /\ msg' = [msg EXCEPT ![w] = NoMsg]
  /\ UNCHANGED <<launch, entry, bound, cur, inbox, jobs>>

-----------------------------------------------------------------------------
(***************************************************************************)
(* The environment: the backend, and processes that die.                   *)
(***************************************************************************)
\* The backend answers a request to the address of its sender.  The answer
\* waits at the backend while nobody has that address bound.
BackendReply(j) ==
  /\ \E w \in Workers, form \in ReplyForms :
       /\ Address[w] = Address[j.from]
       /\ bound[w]
       /\ inbox' = [inbox EXCEPT ![w] = Append(@, [job |-> j, form |-> form])]
  /\ jobs' = jobs \ {j}
  /\ UNCHANGED <<pc, launch, entry, bound, cur, msg, held, answer>>

\* The backend drops a request, or its answer is lost on the way.
BackendLose(j) ==
  /\ jobs' = jobs \ {j}
  /\ UNCHANGED <<pc, launch, entry, bound, cur, inbox, msg, held, answer>>

\* A worker dies: its memory, its sockets and what they had received go.
\* forkAccepts never replaces it.
Crash(w) ==
  /\ pc[w] # "dead"
  /\ Goto(w, "dead")
  /\ request_num' = [request_num EXCEPT ![w] = 0]
  /\ socket_in_done' = [socket_in_done EXCEPT ![w] = FALSE]
  /\ socket_out_done' = [socket_out_done EXCEPT ![w] = FALSE]
  /\ bound' = [bound EXCEPT ![w] = FALSE]
  /\ cur' = [cur EXCEPT ![w] = 0]
  /\ inbox' = [inbox EXCEPT ![w] = <<>>]
  /\ msg' = [msg EXCEPT ![w] = NoMsg]
  /\ held' = [held EXCEPT ![w] = {}]
  /\ answer' = [answer EXCEPT ![w] = "none"]
  /\ UNCHANGED <<launch, jobs>>

\* main: the gateway is started again and its processes have the pids of the
\* ones that died, as they do in a container; init_thread_data empties the
\* table.  The backend still has the old requests.
Relaunch ==
  /\ \A w \in Workers : pc[w] = "dead"
  /\ launch < MaxLaunches
  /\ launch' = launch + 1
  /\ pc' = [w \in Workers |-> "idle"]
  /\ UNCHANGED <<entry, bound, cur, inbox, msg, held, answer, jobs>>

-----------------------------------------------------------------------------
Init ==
  /\ pc = [w \in Workers |-> "idle"]
  /\ launch = 1
  /\ request_num = [w \in Workers |-> 0]
  /\ socket_in_done = [w \in Workers |-> FALSE]
  /\ socket_out_done = [w \in Workers |-> FALSE]
  /\ bound = [w \in Workers |-> FALSE]
  /\ cur = [w \in Workers |-> 0]
  /\ inbox = [w \in Workers |-> <<>>]
  /\ msg = [w \in Workers |-> NoMsg]
  /\ held = [w \in Workers |-> {}]
  /\ answer = [w \in Workers |-> "none"]
  /\ jobs = {}

\* What the code does with a request in hand.
Handle(w) ==
  \/ BindKept(w) \/ Bind(w) \/ BindFails(w)
  \/ ConnectKept(w) \/ Connect(w) \/ ConnectFails(w)
  \/ Send(w)
  \/ Receive(w) \/ Hang(w) \/ Discard(w) \/ Accept(w) \/ RecvTimeout(w)
  \/ Respond(w)

Worker(w) == ServeStatic(w) \/ Start(w) \/ Handle(w)

Backend == \E j \in jobs : BackendReply(j) \/ BackendLose(j)

Next ==
  \/ \E w \in Workers : Worker(w) \/ Crash(w)
  \/ Backend
  \/ Relaunch

Spec == Init /\ [][Next]_vars

(***************************************************************************)
(* A process that can run is run: NN_SNDTIMEO and NN_RCVTIMEO end each     *)
(* nanomsg call, and nothing else in handle_req waits.  No client has to   *)
(* ask, the backend has not to answer and no process has to die.           *)
(***************************************************************************)
FairSpec == Spec /\ \A w \in Workers : WF_vars(Handle(w))

-----------------------------------------------------------------------------
(***************************************************************************)
(* Properties.                                                             *)
(***************************************************************************)
\* conf.xml gives each process an address of its own by the %u in socket_in.
DistinctEndpoints ==
  \A v, w \in Workers : Address[v] = Address[w] => v = w

Locations == {"idle", "bind", "connect", "send", "recv", "examine", "reply",
              "hung", "dead"}

\* The type of the state.
TypeOK ==
  /\ pc \in [Workers -> Locations]
  /\ launch \in 1..MaxLaunches
  /\ request_num \in [Workers -> 0..MaxRequests + 1]
  /\ socket_in_done \in [Workers -> BOOLEAN]
  /\ socket_out_done \in [Workers -> BOOLEAN]
  /\ bound \in [Workers -> BOOLEAN]
  /\ cur \in [Workers -> 0..MaxRequests]
  /\ inbox \in [Workers -> Seq(Message)]
  /\ msg \in [Workers -> Message \cup {NoMsg}]
  /\ held \in [Workers -> SUBSET Message]
  /\ answer \in [Workers -> {"none", "empty", "failed", "file", "missing",
                            "page"}]
  /\ jobs \subseteq Job

\* A request that waits at the backend, or in an inbox as its reply.
Outstanding(j) ==
  \/ j \in jobs
  \/ \E v \in Workers : \E i \in 1..Len(inbox[v]) : inbox[v][i].job = j

\* The reply to the request w waits for is in w's inbox, with its number.
ReplyWaiting(w) ==
  \E i \in 1..Len(inbox[w]) :
     inbox[w][i].job = CurrentJob(w) /\ inbox[w][i].form # "unnumbered"

\* w answers with the page of the request it has in hand.
AnswersWithPage(w) ==
  /\ pc[w] = "reply"
  /\ answer[w] = "page"
  /\ msg[w].job = CurrentJob(w)

\* The page a worker answers with is never another worker's, and never that
\* of an earlier request of this launch whose reply came late: handle_req
\* drops a reply whose <rn> is below the request's (lumith.c:205).  A reply
\* to an earlier launch may pass that test, since the numbers start again.
AnswerMatchesRequest ==
  \A w \in Workers :
     pc[w] = "reply" /\ answer[w] = "page" =>
       /\ msg[w].job.from = w
       /\ msg[w].job.launch = launch => msg[w].job.rn = cur[w]

\* The number a worker is about to send is new: nothing it sent in this
\* launch and has not seen answered has that number or a larger one, so a
\* late reply can be told by comparing numbers (thread_data.c:28,
\* lumith.c:118).
FreshNumber ==
  \A w \in Workers :
     pc[w] \in {"bind", "connect", "send"} =>
       \A n \in cur[w]..MaxRequests :
          ~Outstanding([from |-> w, launch |-> launch, rn |-> n])

\* A worker has the nanomsg buffer it is looking at or answering from, and no
\* other: a discarded reply is freed on the spot (lumith.c:206), an accepted
\* one when the response has been sent (response.c:25) and not before.
BuffersReleased ==
  \A w \in Workers \ {v \in Workers : pc[v] = "hung"} :
     held[w] = IF pc[w] = "examine" \/ answer[w] = "page"
               THEN {msg[w]} ELSE {}

\* A reply that is there when the worker looks for it is rendered: stale
\* replies in front of it and the receive timeout do not lose it.
ReplyRendered ==
  \A w \in Workers :
     (pc[w] = "recv" /\ ReplyWaiting(w)) ~> (AnswersWithPage(w) \/ pc[w] = "dead")

(***************************************************************************)
(* What the worker promises: a request in hand is "busy" until its         *)
(* response is being written.                                              *)
(***************************************************************************)
Phase(w) ==
  CASE pc[w] = "idle"  -> "ready"
    [] pc[w] = "reply" -> "done"
    [] pc[w] = "dead"  -> "down"
    [] OTHER           -> "busy"

Outcome(w) ==
  IF pc[w] = "reply" /\ answer[w] = "page"
  THEN [kind |-> "page", id |-> msg[w].job]
  ELSE [kind |-> "pageless"]

Service == INSTANCE GatewayService WITH
  phase   <- [w \in Workers |-> Phase(w)],
  served  <- [w \in Workers |-> Taken(w)],
  outcome <- [w \in Workers |-> Outcome(w)]

\* Every step of the worker is a step of the service, or none of its concern.
ServiceSpec == Service!Spec

\* And the service's requests are finished.
ServiceFairSpec == Service!FairSpec
=============================================================================
