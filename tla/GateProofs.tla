----------------------------- MODULE GateProofs -----------------------------
(***************************************************************************)
(* Theorems of ReqGate for any number of workers, clients and requests,    *)
(* and their proofs.  What is proved of its parts is used: Server and its  *)
(* proofs are extended, LumithProofs is Pool.                              *)
(***************************************************************************)
EXTENDS ReqGate, ServerProofs

Pool == INSTANCE LumithProofs WITH
  pc <- at, Endpoints <- Workers, Address <- [w \in Workers |-> w],
  Foreign <- {}, MaxLaunches <- 1

(* Lumith's assumptions hold of the pool, and each worker has an address.  *)
LEMMA PoolAssumptions ==
  /\ Pool!DistinctEndpoints
  /\ Pool!AddressAssumption
  /\ Pool!FormsAssumption
  /\ Pool!BoundsAssumption
  /\ Pool!NoMsgAssumption
  BY GateAssumption
  DEF Pool!DistinctEndpoints, Pool!AddressAssumption, Pool!FormsAssumption,
      Pool!BoundsAssumption, Pool!NoMsgAssumption, Pool!Message, Gate!Message,
      Pool!AllForms, Gate!AllForms, Pool!Job, Gate!Job

-----------------------------------------------------------------------------
(***************************************************************************)
(* Each step of the gateway is a step of its parts.                        *)
(***************************************************************************)
(* The steps of Lumith that ReqGate takes are those of Pool.               *)
LEMMA PoolHandle ==
  ASSUME NEW w \in Workers, Gate!Handle(w)
  PROVE  Pool!Handle(w)
  BY DEF Gate!Handle, Pool!Handle, Gate!BindKept, Pool!BindKept, Gate!Bind, Pool!Bind,
      Gate!BindFails, Pool!BindFails, Gate!ConnectKept,
      Pool!ConnectKept, Gate!Connect, Pool!Connect, Gate!ConnectFails,
      Pool!ConnectFails, Gate!Send, Pool!Send, Gate!Receive,
      Pool!Receive, Gate!Hang, Pool!Hang, Gate!Discard, Pool!Discard,
      Gate!Accept, Pool!Accept, Gate!RecvTimeout, Pool!RecvTimeout,
      Gate!Respond, Pool!Respond, Gate!Goto, Pool!Goto, Gate!Finish,
      Pool!Finish, Gate!entry, Pool!entry, Gate!InUse, Pool!InUse,
      Gate!CurrentJob, Pool!CurrentJob, Gate!Verify, Pool!Verify

LEMMA PoolBegins ==
  ASSUME NEW w \in Workers
  PROVE  /\ Gate!ServeStatic(w) => Pool!ServeStatic(w)
         /\ Gate!Start(w) => Pool!Start(w)
         /\ Gate!Crash(w) => Pool!Crash(w)
         /\ Gate!Respond(w) => Pool!Respond(w)
  BY DEF Gate!ServeStatic, Pool!ServeStatic, Gate!Start, Pool!Start,
      Gate!Crash, Pool!Crash, Gate!Respond, Pool!Respond,
      Gate!ThreadRequestNum, Pool!ThreadRequestNum, Gate!Goto,
      Pool!Goto, Gate!Finish, Pool!Finish, Gate!entry, Pool!entry

LEMMA PoolBackend == Gate!Backend => Pool!Backend
  BY DEF Gate!Backend, Pool!Backend, Gate!BackendReply,
      Pool!BackendReply, Gate!BackendLose, Pool!BackendLose,
      Gate!entry, Pool!entry

(* Every step of the gateway is one of Server's or leaves that alone, and  *)
(* one of Lumith's or leaves that alone.                                   *)
LEMMA GateStep ==
  ASSUME [GateNext]_allvars
  PROVE  [Next]_vars /\ [Pool!Next]_(Pool!vars)
<1>a. UNCHANGED gate => UNCHANGED Pool!vars
  BY DEF gate, Pool!vars
<1>1. ASSUME NEW w \in Workers, ServeBegins(w)
      PROVE  UNCHANGED vars /\ Pool!Next
  BY <1>1, PoolBegins DEF ServeBegins, Pool!Next, Pool!Worker
<1>2. ASSUME NEW w \in Workers, ServeGoesOn(w)
      PROVE  UNCHANGED vars /\ Pool!Next
  BY <1>2, PoolHandle DEF ServeGoesOn, Pool!Next, Pool!Worker
<1>3. ASSUME NEW w \in Workers, ServeEnds(w)
      PROVE  Next /\ Pool!Next
  BY <1>3, PoolBegins DEF ServeEnds, Next, Worker, Pool!Next, Pool!Worker, Pool!Handle
<1>4. ASSUME NEW w \in Workers, ServeBlocks(w) \/ Connection(w)
      PROVE  Next /\ UNCHANGED Pool!vars
  BY <1>4, <1>a DEF ServeBlocks, Connection, Next, Worker
<1>5. ASSUME NEW w \in Workers, GateDies(w)
      PROVE  Next /\ Pool!Next
  BY <1>5, PoolBegins DEF GateDies, Next, Worker, Pool!Next
<1>6. ASSUME NEW c \in Clients, Client(c), UNCHANGED <<gate, story>>
      PROVE  Next /\ UNCHANGED Pool!vars
  BY <1>6, <1>a DEF Next
<1>7. CASE Gate!Backend /\ UNCHANGED <<vars, story>>
  BY <1>7, PoolBackend DEF Pool!Next
<1>8. CASE UNCHANGED allvars
  BY <1>8, <1>a DEF allvars
<1>9. QED
  BY <1>1, <1>2, <1>3, <1>4, <1>5, <1>6, <1>7, <1>8 DEF GateNext, GateWorker

(* To its clients the gateway is a Server: so what is proved of Server,    *)
(* the ownership of connections and the soundness of reading, holds of it. *)
THEOREM ImplementsServer == GateSpec => Spec
<1>1. GateInit => Init
  BY DEF GateInit
<1>2. [GateNext]_allvars => [Next]_vars
  BY GateStep
<1>3. QED
  BY <1>1, <1>2, PTL DEF GateSpec, Spec

-----------------------------------------------------------------------------
(***************************************************************************)
(* Each client gets its own pages.                                         *)
(***************************************************************************)
(* A worker is in serve only with a connection in hand.                    *)
InServe ==
  \A w \in Workers : at[w] \notin {"idle", "dead"} => pc[w] \in {"serve", "write"}

(* What is known of each number that a live worker has taken.              *)
AskedCounted ==
  /\ asked \in [Workers -> Seq(Clients \X Nat)]
  /\ \A w \in Workers : at[w] # "dead" => Len(asked[w]) = Pool!Taken(w)

(* The number in hand was taken for the request in hand.                   *)
Asking(w) ==
  at[w] \in {"bind", "connect", "send", "recv", "examine"} \/ answer[w] = "page"

AskedInHand ==
  \A w \in Workers : Asking(w) => asked[w][cur[w]] = InHand(w)

(* The pages are those of the answers, and the right ones.                 *)
PagesCounted ==
  /\ pages \in [Clients -> Seq({Pageless} \cup (Clients \X Nat))]
  /\ \A c \in Clients : Len(pages[c]) = Len(answers[c])

GateInv ==
  /\ TypeInv /\ Ownership /\ Pool!IInv
  /\ InServe /\ AskedCounted /\ AskedInHand /\ PagesCounted /\ RightPage

(* The type of what the proofs below look at.                              *)
LEMMA GateTypes ==
  ASSUME TypeInv, Pool!IInv
  PROVE  /\ pc \in [Workers -> Busy \cup {"accept", "dead"}]
         /\ conn \in [Workers -> Clients \cup {NoClient}]
         /\ answers \in [Clients -> Seq([k : Nat, body : Bodies])]
         /\ DOMAIN at = Workers /\ DOMAIN answer = Workers
         /\ DOMAIN cur = Workers /\ DOMAIN request_num = Workers
         /\ at = [w \in Workers |-> at[w]] /\ answer = [w \in Workers |-> answer[w]]
         /\ cur = [w \in Workers |-> cur[w]]
         /\ request_num \in [Workers -> Nat]
         /\ launch = 1
  BY GateAssumption
  DEF TypeInv, TypeOK, Bodies, Pool!IInv, Pool!TypeInv, Pool!TypeOK

(* A step of handle_req starts and ends in serve, and leaves alone the     *)
(* numbers and the other workers.                                          *)
LEMMA HandleFrame ==
  ASSUME TypeInv, Pool!IInv, NEW w \in Workers, ServeGoesOn(w)
  PROVE  /\ at[w] \notin {"idle", "dead"} /\ at'[w] \notin {"idle", "dead"}
         /\ request_num' = request_num /\ cur' = cur
         /\ Asking(w)' => Asking(w)
         /\ \A v \in Workers \ {w} : at'[v] = at[v] /\ answer'[v] = answer[v]
<1> USE DEF Gate!Goto, Gate!Finish, Gate!entry, Asking
<1>1. /\ at = [v \in Workers |-> at[v]]
      /\ answer = [v \in Workers |-> answer[v]]
  BY GateTypes
<1>2. CASE Gate!BindKept(w) \/ Gate!Bind(w) \/ Gate!BindFails(w)
  BY <1>1, <1>2 DEF Gate!BindKept, Gate!Bind, Gate!BindFails
<1>3. CASE Gate!ConnectKept(w) \/ Gate!Connect(w) \/ Gate!ConnectFails(w)
  BY <1>1, <1>3 DEF Gate!ConnectKept, Gate!Connect, Gate!ConnectFails
<1>4. CASE Gate!Send(w) \/ Gate!Receive(w) \/ Gate!Hang(w)
  BY <1>1, <1>4 DEF Gate!Send, Gate!Receive, Gate!Hang
<1>5. CASE Gate!Discard(w) \/ Gate!Accept(w) \/ Gate!RecvTimeout(w)
  BY <1>1, <1>5 DEF Gate!Discard, Gate!Accept, Gate!RecvTimeout
<1>6. CASE Gate!Respond(w)
  BY <1>6 DEF ServeGoesOn, Gate!Respond
<1>7. QED
  BY <1>2, <1>3, <1>4, <1>5, <1>6 DEF ServeGoesOn, Gate!Handle

(* A worker that is in serve is not in the hands of server.c.              *)
LEMMA NextInServe ==
  ASSUME TypeInv, Pool!IInv, InServe, [GateNext]_allvars
  PROVE  InServe'
<1>0. /\ pc = [v \in Workers |-> pc[v]]
      /\ at = [v \in Workers |-> at[v]]
  BY GateTypes
<1>1. ASSUME NEW w \in Workers, ServeBegins(w)
      PROVE  InServe'
  BY <1>0, <1>1
  DEF InServe, ServeBegins, vars, Gate!ServeStatic, Gate!Start, Gate!Goto, Gate!Finish
<1>2. ASSUME NEW w \in Workers, ServeGoesOn(w)
      PROVE  InServe'
  BY <1>2, HandleFrame DEF InServe, ServeGoesOn, vars
<1>3. ASSUME NEW w \in Workers, ServeEnds(w)
      PROVE  InServe'
  <2>1. \A v \in Workers \ {w} : pc'[v] = pc[v]
    BY <1>0, <1>3 DEF ServeEnds, Serve, NextRequest, Close, Goto
  <2>2. at' = [at EXCEPT ![w] = "idle"]
    BY <1>3 DEF ServeEnds, Gate!Respond, Gate!Goto
  <2>3. QED
    BY <1>0, <2>1, <2>2 DEF InServe
<1>4. ASSUME NEW w \in Workers, ServeBlocks(w)
      PROVE  InServe'
  BY <1>0, <1>4 DEF InServe, ServeBlocks, WriteBlocks, Goto, gate
<1>5. ASSUME NEW w \in Workers, Connection(w)
      PROVE  InServe'
  <2>1. /\ at' = at /\ pc[w] \notin {"serve", "write"}
        /\ \A v \in Workers \ {w} : pc'[v] = pc[v]
    BY <1>0, <1>5
    DEF Connection, gate, Accept, NextRequest, ReadFull, ReadShort, ReadEnd,
        ReadFails, ParseNothing, ParseHead, ParseFragment, Parsed, Close, Goto
  <2>2. QED
    BY <2>1 DEF InServe
<1>6. ASSUME NEW w \in Workers, GateDies(w)
      PROVE  InServe'
  BY <1>0, <1>6
  DEF InServe, GateDies, ParseNoPath, Crash, Die, Goto, Gate!Crash, Gate!Goto
<1>7. ASSUME NEW c \in Clients, Client(c), UNCHANGED <<gate, story>>
      PROVE  InServe'
  BY <1>7 DEF InServe, gate, Client, Connect, ClientSend, ClientEnd
<1>8. CASE Gate!Backend /\ UNCHANGED <<vars, story>>
  BY <1>8 DEF InServe, vars, Gate!Backend, Gate!BackendReply, Gate!BackendLose
<1>9. CASE UNCHANGED allvars
  BY <1>9 DEF InServe, allvars, vars, gate
<1>10. QED
  BY <1>1, <1>2, <1>3, <1>4, <1>5, <1>6, <1>7, <1>8, <1>9 DEF GateNext, GateWorker

(* For each number that is taken, it is remembered for which request.      *)
LEMMA NextAskedCounted ==
  ASSUME TypeInv, Pool!IInv, AskedCounted, [GateNext]_allvars
  PROVE  AskedCounted'
<1> USE DEF AskedCounted, Pool!Taken
<1>0. /\ at = [v \in Workers |-> at[v]]
      /\ request_num \in [Workers -> Nat]
  BY GateTypes
<1>1. ASSUME NEW w \in Workers, ServeBegins(w)
      PROVE  AskedCounted'
  <2>1. CASE Gate!ServeStatic(w) /\ UNCHANGED asked
    BY <1>0, <2>1 DEF Gate!ServeStatic, Gate!Goto, Gate!Finish, Gate!entry
  <2>2. CASE Gate!Start(w) /\ asked' = [asked EXCEPT ![w] = Append(@, InHand(w))]
    <3>1. InHand(w) \in Clients \X Nat
      <4>1. conn[w] \in Clients
        BY <1>1, BusyConn DEF ServeBegins, Busy
      <4>2. answers[conn[w]] \in Seq([k : Nat, body : Bodies])
        BY <4>1, GateTypes
      <4>3. QED
        BY <4>1, <4>2 DEF InHand
    <3>2. /\ at[w] = "idle"
          /\ at' = [at EXCEPT ![w] = "bind"]
          /\ request_num' = [request_num EXCEPT ![w] =
                               IF request_num[w] = 0 THEN 2 ELSE request_num[w] + 1]
      BY <1>0, <2>2 DEF Gate!Start, Gate!Goto, Gate!ThreadRequestNum
    <3>3. /\ asked' \in [Workers -> Seq(Clients \X Nat)]
          /\ Len(asked'[w]) = Len(asked[w]) + 1
          /\ \A v \in Workers \ {w} : asked'[v] = asked[v]
      BY <2>2, <3>1
    <3>4. Len(asked'[w]) = Pool!Taken(w)'
      <4>1. Len(asked[w]) = Pool!Taken(w)
        BY <3>2
      <4>2. request_num'[w] = IF request_num[w] = 0 THEN 2 ELSE request_num[w] + 1
        BY <1>0, <3>2
      <4>3. QED
        BY <1>0, <3>3, <4>1, <4>2
    <3>5. \A v \in Workers \ {w} :
            /\ at'[v] = at[v] /\ request_num'[v] = request_num[v]
      BY <1>0, <3>2
    <3>6. QED
      BY <3>3, <3>4, <3>5
  <2>3. QED
    BY <1>1, <2>1, <2>2 DEF ServeBegins
<1>2. ASSUME NEW w \in Workers, ServeGoesOn(w)
      PROVE  AskedCounted'
  BY <1>2, HandleFrame DEF ServeGoesOn, story
<1>3. ASSUME NEW w \in Workers, ServeEnds(w)
      PROVE  AskedCounted'
  BY <1>0, <1>3 DEF ServeEnds, Gate!Respond, Gate!Goto, Gate!entry
<1>4. ASSUME NEW w \in Workers, ServeBlocks(w) \/ Connection(w)
      PROVE  AskedCounted'
  BY <1>4 DEF ServeBlocks, Connection, gate, story
<1>5. ASSUME NEW w \in Workers, GateDies(w)
      PROVE  AskedCounted'
  BY <1>0, <1>5 DEF GateDies, Gate!Crash, Gate!Goto, story
<1>6. ASSUME NEW c \in Clients, Client(c), UNCHANGED <<gate, story>>
      PROVE  AskedCounted'
  BY <1>6 DEF gate, story
<1>7. CASE Gate!Backend /\ UNCHANGED <<vars, story>>
  BY <1>7 DEF story, Gate!Backend, Gate!BackendReply, Gate!BackendLose, Gate!entry
<1>8. CASE UNCHANGED allvars
  BY <1>8 DEF allvars, gate, story
<1>9. QED
  BY <1>1, <1>2, <1>3, <1>4, <1>5, <1>6, <1>7, <1>8 DEF GateNext, GateWorker

(* A worker keeps the request in hand as long as it works on it.           *)
LEMMA NextAskedInHand ==
  ASSUME TypeInv, Ownership, Pool!IInv, Pool!IInv', InServe, AskedCounted,
         AskedInHand, [GateNext]_allvars
  PROVE  AskedInHand'
<1>0. /\ conn = [v \in Workers |-> conn[v]]
      /\ at = [v \in Workers |-> at[v]]
      /\ answer = [v \in Workers |-> answer[v]]
      /\ cur = [v \in Workers |-> cur[v]]
      /\ answers = [c \in Clients |-> answers[c]]
  BY GateTypes
<1>a. \A w \in Workers : Asking(w) => pc[w] \in {"serve", "write"} /\ conn[w] \in Clients
  <2> SUFFICES ASSUME NEW w \in Workers, Asking(w)
               PROVE  pc[w] \in {"serve", "write"} /\ conn[w] \in Clients
    OBVIOUS
  <2>1. at[w] \notin {"idle", "dead"}
    BY DEF Asking, Pool!IInv, Pool!PageFresh
  <2>2. QED
    BY <2>1, BusyConn DEF InServe, Busy
<1>b. ASSUME NEW v \in Workers, Asking(v)' => Asking(v), asked'[v] = asked[v],
             cur'[v] = cur[v], conn'[v] = conn[v],
             answers'[conn[v]] = answers[conn[v]]
      PROVE  Asking(v)' => (asked[v][cur[v]] = InHand(v))'
  BY <1>b DEF AskedInHand, InHand
<1>1. ASSUME NEW w \in Workers, ServeBegins(w)
      PROVE  AskedInHand'
  <2>1. CASE Gate!ServeStatic(w) /\ UNCHANGED asked
    <3>1. \A v \in Workers : Asking(v)' => Asking(v)
      BY <1>0, <2>1 DEF Asking, Gate!ServeStatic, Gate!Goto, Gate!Finish
    <3>2. UNCHANGED <<asked, cur, conn, answers>>
      BY <1>1, <2>1 DEF ServeBegins, vars, Gate!ServeStatic
    <3>3. QED
      BY <1>b, <3>1, <3>2 DEF AskedInHand
  <2>2. CASE Gate!Start(w) /\ asked' = [asked EXCEPT ![w] = Append(@, InHand(w))]
    <3>1. UNCHANGED <<conn, answers>> /\ InHand(w)' = InHand(w)
      BY <1>1 DEF ServeBegins, vars, InHand
    <3>2. ASSUME NEW v \in Workers \ {w}
          PROVE  Asking(v)' => (asked[v][cur[v]] = InHand(v))'
      BY <1>0, <1>b, <2>2, <3>1, <3>2 DEF Asking, Gate!Start, Gate!Goto, AskedCounted
    <3>3. asked'[w][cur'[w]] = InHand(w)
      <4>1. at[w] = "idle" /\ cur'[w] = Gate!ThreadRequestNum(w)
        BY <1>0, <2>2 DEF Gate!Start
      <4>2. Len(asked[w]) + 1 = Gate!ThreadRequestNum(w)
        BY <4>1, GateTypes DEF AskedCounted, Pool!Taken, Gate!ThreadRequestNum
      <4>3. asked[w] \in Seq(Clients \X Nat) /\ asked'[w] = Append(asked[w], InHand(w))
        BY <2>2 DEF AskedCounted
      <4>4. QED
        BY <4>1, <4>2, <4>3
    <3>4. QED
      BY <3>1, <3>2, <3>3 DEF AskedInHand
  <2>3. QED
    BY <1>1, <2>1, <2>2 DEF ServeBegins
<1>2. ASSUME NEW w \in Workers, ServeGoesOn(w)
      PROVE  AskedInHand'
  <2>1. UNCHANGED <<asked, cur, conn, answers>>
    BY <1>2, HandleFrame DEF ServeGoesOn, vars, story
  <2>2. \A v \in Workers : Asking(v)' => Asking(v)
    BY <1>2, HandleFrame DEF Asking
  <2>3. QED
    BY <1>b, <2>1, <2>2 DEF AskedInHand
<1>3. ASSUME NEW w \in Workers, ServeEnds(w)
      PROVE  AskedInHand'
  <2>1. /\ at' = [at EXCEPT ![w] = "idle"] /\ answer' = [answer EXCEPT ![w] = "none"]
        /\ UNCHANGED <<asked, cur>>
    BY <1>3 DEF ServeEnds, Gate!Respond, Gate!Goto
  <2>2. \A v \in Workers : Asking(v)' => Asking(v) /\ v # w
    BY <1>0, <2>1 DEF Asking
  <2>3. ASSUME NEW v \in Workers \ {w}, Asking(v)
        PROVE  conn'[v] = conn[v] /\ answers'[conn[v]] = answers[conn[v]]
    <3>1. conn[v] \in Clients /\ conn[v] # conn[w]
      BY <1>a, <2>3, NoClientAssumption DEF Ownership, OneHolder
    <3>2. QED
      BY <1>0, <1>3, <3>1 DEF ServeEnds, Serve, Written, NextRequest, Close
  <2>4. QED
    BY <1>b, <2>1, <2>2, <2>3 DEF AskedInHand
<1>4. ASSUME NEW w \in Workers, ServeBlocks(w) \/ Connection(w)
      PROVE  AskedInHand'
  <2>1. UNCHANGED <<at, answer, asked, cur, answers>>
    <3>1. CASE ServeBlocks(w)
      BY <3>1 DEF ServeBlocks, WriteBlocks, gate, story
    <3>2. CASE Connection(w)
      BY <3>2
      DEF Connection, gate, story, Accept, ReadFull, ReadShort, ReadEnd,
          ReadFails, ParseNothing, ParseHead, ParseFragment
    <3>3. QED
      BY <1>4, <3>1, <3>2
  <2>2. \A v \in Workers : Asking(v) => conn'[v] = conn[v]
    <3>1. CASE ServeBlocks(w)
      BY <3>1 DEF ServeBlocks, WriteBlocks
    <3>2. CASE Connection(w)
      <4>1. pc[w] \notin {"serve", "write"} /\ \A v \in Workers \ {w} : conn'[v] = conn[v]
        BY <1>0, <3>2
        DEF Connection, Accept, ReadFull, ReadShort, ReadEnd, ReadFails,
            ParseNothing, ParseHead, ParseFragment, Close
      <4>2. QED
        BY <1>a, <4>1
    <3>3. QED
      BY <1>4, <3>1, <3>2
  <2>3. \A v \in Workers : Asking(v)' => Asking(v)
    BY <2>1 DEF Asking
  <2>4. QED
    BY <1>b, <2>1, <2>2, <2>3 DEF AskedInHand
<1>5. ASSUME NEW w \in Workers, GateDies(w)
      PROVE  AskedInHand'
  <2>1. /\ at' = [at EXCEPT ![w] = "dead"] /\ answer' = [answer EXCEPT ![w] = "none"]
        /\ cur' = [cur EXCEPT ![w] = 0] /\ asked' = asked
    BY <1>5 DEF GateDies, Gate!Crash, Gate!Goto, story
  <2>2. conn' = [conn EXCEPT ![w] = NoClient] /\ answers' = answers
    BY <1>5 DEF GateDies, ParseNoPath, Crash, Die
  <2>3. \A v \in Workers : Asking(v)' => Asking(v) /\ v # w
    BY <1>0, <2>1 DEF Asking
  <2>4. QED
    BY <1>0, <1>b, <2>1, <2>2, <2>3 DEF AskedInHand
<1>6. ASSUME NEW c \in Clients, Client(c), UNCHANGED <<gate, story>>
      PROVE  AskedInHand'
  BY <1>6
  DEF AskedInHand, InHand, Asking, gate, story, Client, Connect, ClientSend, ClientEnd
<1>7. CASE Gate!Backend /\ UNCHANGED <<vars, story>>
  BY <1>7
  DEF AskedInHand, InHand, Asking, vars, story, Gate!Backend, Gate!BackendReply,
      Gate!BackendLose
<1>8. CASE UNCHANGED allvars
  BY <1>8 DEF AskedInHand, InHand, Asking, allvars, vars, gate, story
<1>9. QED
  BY <1>1, <1>2, <1>3, <1>4, <1>5, <1>6, <1>7, <1>8 DEF GateNext, GateWorker

(* The page that a worker writes is that of the request it has in hand.    *)
LEMMA PageOfHand ==
  ASSUME TypeInv, Pool!IInv, AskedInHand, NEW w \in Workers, at[w] = "reply"
  PROVE  PageOf(w) \in {Pageless, InHand(w)}
<1>1. CASE answer[w] # "page"
  BY <1>1 DEF PageOf
<1>2. CASE answer[w] = "page"
  <2>1. Pool!InHand(w) /\ Pool!Verify(msg[w]) >= cur[w]
    BY <1>2 DEF Pool!InHand, Pool!IInv, Pool!PageFresh
  <2>2. /\ msg[w].job.from = w
        /\ msg[w].job.launch \in 1..launch
        /\ msg[w].job.launch = launch => msg[w].job.rn = cur[w]
    BY <2>1, PoolAssumptions, Pool!PageIsCurrent
  <2>3. msg[w].job.rn = cur[w]
    BY <2>2, GateTypes
  <2>4. PageOf(w) = asked[w][cur[w]]
    BY <1>2, <2>2, <2>3 DEF PageOf
  <2>5. QED
    BY <1>2, <2>4 DEF AskedInHand, Asking
<1>3. QED
  BY <1>1, <1>2

(* The pages are counted as the answers are, and right.                    *)
LEMMA NextPages ==
  ASSUME TypeInv, Pool!IInv, AskedInHand, PagesCounted, RightPage,
         [GateNext]_allvars
  PROVE  PagesCounted' /\ RightPage'
<1>a. ASSUME UNCHANGED <<pages, answers>>
      PROVE  PagesCounted' /\ RightPage'
  BY <1>a DEF PagesCounted, RightPage
<1>1. ASSUME NEW w \in Workers, ServeBegins(w) \/ ServeGoesOn(w)
      PROVE  PagesCounted' /\ RightPage'
  BY <1>a, <1>1 DEF ServeBegins, ServeGoesOn, vars, story
<1>2. ASSUME NEW w \in Workers, ServeEnds(w)
      PROVE  PagesCounted' /\ RightPage'
  <2> DEFINE c == conn[w]
  <2>1. c \in Clients /\ at[w] = "reply"
    BY <1>2, BusyConn DEF ServeEnds, Serve, Written, Busy, Gate!Respond
  <2>2. /\ answers[c] \in Seq([k : Nat, body : Bodies])
        /\ pages[c] \in Seq({Pageless} \cup (Clients \X Nat))
        /\ Len(pages[c]) = Len(answers[c])
    BY <2>1, GateTypes DEF PagesCounted
  <2>3. CASE answers' = answers
    BY <1>2, <1>a, <2>3 DEF ServeEnds
  <2>4. CASE answers' # answers
    <3>1. pages' = [pages EXCEPT ![c] = Append(@, PageOf(w))]
      BY <1>2, <2>4 DEF ServeEnds
    <3>2. PICK a \in [k : Nat, body : Bodies] :
            answers' = [answers EXCEPT ![c] = Append(@, a)]
      BY <1>2, <2>4, GateTypes DEF ServeEnds, Serve, Written, TypeInv, TypeOK, Bodies
    <3>3. PageOf(w) \in {Pageless, <<c, Len(pages[c]) + 1>>}
      BY <2>1, <2>2, PageOfHand DEF InHand
    <3>4. PagesCounted'
      BY <2>1, <2>2, <3>1, <3>2, <3>3, GateTypes DEF PagesCounted
    <3>5. ASSUME NEW d \in Clients, NEW n \in 1..Len(pages'[d])
          PROVE  pages'[d][n] \in {Pageless, <<d, n>>}
      <4>1. CASE d # c
        BY <3>1, <3>5, <4>1 DEF RightPage, PagesCounted
      <4>2. CASE d = c /\ n = Len(pages[c]) + 1
        BY <2>1, <2>2, <3>1, <3>3, <4>2 DEF PagesCounted
      <4>3. CASE d = c /\ n # Len(pages[c]) + 1
        <5>1. n \in 1..Len(pages[c]) /\ pages'[c][n] = pages[c][n]
          BY <2>1, <2>2, <3>1, <3>3, <3>5, <4>3 DEF PagesCounted
        <5>2. QED
          BY <2>1, <4>3, <5>1 DEF RightPage
      <4>4. QED
        BY <4>1, <4>2, <4>3
    <3>6. QED
      BY <3>4, <3>5 DEF RightPage
  <2>5. QED
    BY <2>3, <2>4
<1>3. ASSUME NEW w \in Workers, ServeBlocks(w) \/ Connection(w)
      PROVE  PagesCounted' /\ RightPage'
  <2>1. CASE ServeBlocks(w)
    BY <1>a, <2>1 DEF ServeBlocks, WriteBlocks, story
  <2>2. CASE Connection(w)
    BY <1>a, <2>2
    DEF Connection, story, Accept, ReadFull, ReadShort, ReadEnd, ReadFails,
        ParseNothing, ParseHead, ParseFragment
  <2>3. QED
    BY <1>3, <2>1, <2>2
<1>4. ASSUME NEW w \in Workers, GateDies(w)
      PROVE  PagesCounted' /\ RightPage'
  BY <1>a, <1>4 DEF GateDies, ParseNoPath, Crash, Die, story
<1>5. ASSUME NEW c \in Clients, Client(c), UNCHANGED <<gate, story>>
      PROVE  PagesCounted' /\ RightPage'
  BY <1>a, <1>5 DEF story, Client, Connect, ClientSend, ClientEnd
<1>6. CASE UNCHANGED <<vars, story>>
  BY <1>a, <1>6 DEF vars, story
<1>7. QED
  BY <1>1, <1>2, <1>3, <1>4, <1>5, <1>6 DEF GateNext, GateWorker, allvars

(* A page that comes back over a connection is the one the backend made    *)
(* for the very request that the response answers, for any number of       *)
(* clients, workers and requests, whatever is given up on, comes late or   *)
(* dies.                                                                   *)
THEOREM PagesRight == GateSpec => []RightPage
<1>1. GateInit => GateInv
  <2> SUFFICES ASSUME GateInit
               PROVE  GateInv
    OBVIOUS
  <2>1. TypeInv /\ Ownership
    BY InitTypeInv, NoClientAssumption
    DEF GateInit, Init, Ownership, OpenIsHeld, OneHolder
  <2>2. Pool!IInv
    <3>1. Pool!Init
      BY DEF GateInit, Gate!Init, Pool!Init
    <3>2. QED
      BY <3>1, PoolAssumptions, Pool!InitIInv
  <2>3. InServe /\ AskedCounted /\ AskedInHand
    BY DEF GateInit, Gate!Init, InServe, AskedCounted, Pool!Taken, AskedInHand, Asking
  <2>4. PagesCounted /\ RightPage
    BY DEF GateInit, Init, PagesCounted, RightPage
  <2>5. QED
    BY <2>1, <2>2, <2>3, <2>4 DEF GateInv
<1>2. GateInv /\ [GateNext]_allvars => GateInv'
  <2> SUFFICES ASSUME GateInv, [GateNext]_allvars
               PROVE  GateInv'
    OBVIOUS
  <2>1. [Next]_vars /\ [Pool!Next]_(Pool!vars)
    BY GateStep
  <2>2. TypeInv' /\ Ownership'
    BY <2>1, NextTypeInv, NextOwnership DEF GateInv
  <2>3. Pool!IInv'
    BY <2>1, PoolAssumptions, Pool!NextIInv DEF GateInv
  <2>4. InServe' /\ AskedCounted'
    BY NextInServe, NextAskedCounted DEF GateInv
  <2>5. AskedInHand'
    BY <2>3, NextAskedInHand DEF GateInv
  <2>6. PagesCounted' /\ RightPage'
    BY NextPages DEF GateInv
  <2>7. QED
    BY <2>2, <2>3, <2>4, <2>5, <2>6 DEF GateInv
<1>3. GateInv => RightPage
  BY DEF GateInv
<1>4. QED
  BY <1>1, <1>2, <1>3, PTL DEF GateSpec

(* With serving in its steps, and whatever the backend does, the clients   *)
(* that send in one piece and wait get their answers in order, none        *)
(* skipped, each to a request served with its body.                        *)
THEOREM GateAnsweredRight == GateSpec => []AnswersRight
  BY ImplementsServer, AnsweredRight, PTL

(* Nor is a connection of such a client closed while it asked to keep it.  *)
THEOREM GateKeepAliveKept == GateSpec => KeepAliveHonoured
  BY ImplementsServer, KeepAliveKept, PTL
=============================================================================
