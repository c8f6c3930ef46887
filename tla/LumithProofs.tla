---------------------------- MODULE LumithProofs ----------------------------
(***************************************************************************)
(* Theorems of Lumith for any number of workers, requests, launches and    *)
(* any choice of addresses, and their proofs.                              *)
(***************************************************************************)
EXTENDS Lumith, TLAPS

-----------------------------------------------------------------------------
(***************************************************************************)
(* Types.                                                                  *)
(***************************************************************************)
(* Removing the head of a nonempty queue of messages leaves such a queue,  *)
(* whose elements are those of the old one, moved down by one.             *)
LEMMA HeadTail ==
  ASSUME NEW S, NEW q \in Seq(S), q # <<>>
  PROVE  /\ Head(q) \in S
         /\ Head(q) = q[1]
         /\ 1 \in 1..Len(q)
         /\ Tail(q) \in Seq(S)
         /\ \A i \in 1..Len(Tail(q)) : i + 1 \in 1..Len(q) /\ Tail(q)[i] = q[i + 1]
  OBVIOUS

(* TypeOK is not inductive: what Send puts at the backend has the type of  *)
(* a request because a worker that asks the backend has taken a number.    *)
Numbered ==
  \A w \in Workers :
     pc[w] \in {"bind", "connect", "send", "recv", "examine", "hung"} =>
       cur[w] > 0

TypeInv == TypeOK /\ Numbered

(* The initial state has the right types.                                  *)
LEMMA InitTypeInv == Init => TypeInv
  BY BoundsAssumption DEF Init, TypeInv, Numbered, TypeOK, Locations

(* Every step keeps the types.                                             *)
LEMMA NextTypeInv == TypeInv /\ [Next]_vars => TypeInv'
<1> USE BoundsAssumption DEF Locations, entry, Goto, Finish
<1> SUFFICES ASSUME TypeOK, Numbered, [Next]_vars
             PROVE  TypeOK' /\ Numbered'
  BY DEF TypeInv
<1>1. ASSUME NEW w \in Workers, ServeStatic(w)
      PROVE  TypeOK' /\ Numbered'
  BY <1>1 DEF TypeOK, Numbered, ServeStatic
<1>2. ASSUME NEW w \in Workers, Start(w)
      PROVE  TypeOK' /\ Numbered'
  BY <1>2 DEF TypeOK, Numbered, Start, ThreadRequestNum, Taken
<1>3. ASSUME NEW w \in Workers, BindKept(w) \/ Bind(w) \/ BindFails(w)
      PROVE  TypeOK' /\ Numbered'
  BY <1>3 DEF TypeOK, Numbered, BindKept, Bind, BindFails
<1>4. ASSUME NEW w \in Workers, ConnectKept(w) \/ Connect(w) \/ ConnectFails(w)
      PROVE  TypeOK' /\ Numbered'
  BY <1>4 DEF TypeOK, Numbered, ConnectKept, Connect, ConnectFails
<1>5. ASSUME NEW w \in Workers, Send(w)
      PROVE  TypeOK' /\ Numbered'
  <2>1. CurrentJob(w) \in Job
    BY <1>5 DEF TypeOK, Numbered, Send, CurrentJob, Job
  <2>2. QED
    BY <1>5, <2>1 DEF TypeOK, Numbered, Send
<1>6. ASSUME NEW w \in Workers, Receive(w)
      PROVE  TypeOK' /\ Numbered'
  BY <1>6, HeadTail DEF TypeOK, Numbered, Receive
<1>7. ASSUME NEW w \in Workers, Hang(w)
      PROVE  TypeOK' /\ Numbered'
  BY <1>7, HeadTail DEF TypeOK, Numbered, Hang
<1>8. ASSUME NEW w \in Workers, Discard(w) \/ Accept(w) \/ RecvTimeout(w)
      PROVE  TypeOK' /\ Numbered'
  <2>1. CASE Discard(w)
    BY <2>1 DEF TypeOK, Numbered, Discard
  <2>2. CASE Accept(w)
    BY <2>2 DEF TypeOK, Numbered, Accept
  <2>3. CASE RecvTimeout(w)
    BY <2>3 DEF TypeOK, Numbered, RecvTimeout
  <2>4. QED
    BY <1>8, <2>1, <2>2, <2>3
<1>9. ASSUME NEW w \in Workers, Respond(w)
      PROVE  TypeOK' /\ Numbered'
  BY <1>9 DEF TypeOK, Numbered, Respond
<1>10. ASSUME NEW w \in Workers, Crash(w)
       PROVE  TypeOK' /\ Numbered'
  BY <1>10 DEF TypeOK, Numbered, Crash
<1>11. ASSUME NEW j \in jobs, BackendReply(j)
       PROVE  TypeOK' /\ Numbered'
  <2>1. \A form \in ReplyForms : [job |-> j, form |-> form] \in Message
    BY FormsAssumption DEF TypeOK, Message
  <2>2. inbox' \in [Workers -> Seq(Message)]
    BY <1>11, <2>1 DEF TypeOK, BackendReply
  <2>3. QED
    BY <1>11, <2>2 DEF TypeOK, Numbered, BackendReply
<1>12. ASSUME NEW j \in jobs, BackendLose(j)
       PROVE  TypeOK' /\ Numbered'
  BY <1>12 DEF TypeOK, Numbered, BackendLose
<1>13. CASE Relaunch
  BY <1>13 DEF TypeOK, Numbered, Relaunch
<1>14. CASE UNCHANGED vars
  BY <1>14 DEF TypeOK, Numbered, vars
<1>15. QED
  BY <1>1, <1>2, <1>3, <1>4, <1>5, <1>6, <1>7, <1>8, <1>9, <1>10, <1>11,
     <1>12, <1>13, <1>14 DEF Next, Worker, Handle, Backend

(* The state always has the types of TypeOK.                               *)
THEOREM TypeCorrect == Spec => []TypeOK
  BY InitTypeInv, NextTypeInv, PTL DEF Spec, TypeInv

-----------------------------------------------------------------------------
(***************************************************************************)
(* The inductive invariant.                                                *)
(***************************************************************************)
(* The number in hand is the last one taken, also after the response.      *)
CurIsLast == \A w \in Workers : cur[w] = Taken(w)

(* The largest number a live worker has sent in this launch.               *)
SentUpTo(w) ==
  IF pc[w] \in {"bind", "connect", "send"} THEN cur[w] - 1 ELSE cur[w]

(* A request that was sent: in this launch only if its number was reached. *)
Past(j) ==
  /\ j.launch <= launch
  /\ j.launch = launch /\ pc[j.from] # "dead" => j.rn <= SentUpTo(j.from)

JobsPast == \A j \in jobs : Past(j)

(* What a worker is given was sent, and sent by itself.                    *)
InboxJobs(w) == {inbox[w][i].job : i \in 1..Len(inbox[w])}

LEMMA InboxJobsType ==
  TypeOK => \A w \in Workers : InboxJobs(w) \subseteq Job
<1> SUFFICES ASSUME TypeOK, NEW w \in Workers, NEW i \in 1..Len(inbox[w])
             PROVE  inbox[w][i].job \in Job
  BY DEF InboxJobs
<1>1. inbox[w] \in Seq(Message)
  BY DEF TypeOK
<1>2. inbox[w][i] \in Message
  BY <1>1
<1>3. QED
  BY <1>2 DEF Message

InboxPast ==
  \A w \in Workers : \A j \in InboxJobs(w) : j.from = w /\ Past(j)

InHand(w) == pc[w] = "examine" \/ answer[w] = "page"

MsgPastAt(w) ==
  InHand(w) => /\ msg[w] \in Message
               /\ \A j \in {msg[w].job} : j.from = w /\ Past(j)

MsgPast == \A w \in Workers : MsgPastAt(w)

(* A page is an answer only while the response is being sent, and its      *)
(* number is not below the request's.                                      *)
PageFresh ==
  \A w \in Workers :
     answer[w] = "page" => pc[w] = "reply" /\ Verify(msg[w]) >= cur[w]

IInv ==
  /\ TypeInv
  /\ CurIsLast
  /\ JobsPast
  /\ InboxPast
  /\ MsgPast
  /\ PageFresh

LEMMA InitIInv == Init => IInv
<1> SUFFICES ASSUME Init
             PROVE  IInv
  OBVIOUS
<1>1. TypeInv
  BY InitTypeInv
<1>2. QED
  BY <1>1 DEF Init, IInv, CurIsLast, Taken, JobsPast, InboxPast, InboxJobs,
              MsgPast, MsgPastAt, InHand, PageFresh

(* A step that keeps the launch, revives nobody and takes back no number   *)
(* of a worker that stays alive.                                           *)
NoTakeBack ==
  /\ launch' = launch
  /\ \A w \in Workers :
       pc'[w] # "dead" => pc[w] # "dead" /\ SentUpTo(w) <= SentUpTo(w)'

(* Such a step keeps a sent request sent.                                  *)
LEMMA PastKept ==
  ASSUME TypeOK, TypeOK', NoTakeBack, NEW j \in Job, Past(j)
  PROVE  Past(j)'
<1>1. j.from \in Workers /\ j.rn \in Nat /\ j.launch \in Nat
  BY BoundsAssumption DEF Job
<1>2. SentUpTo(j.from) \in Int /\ SentUpTo(j.from)' \in Int
  BY <1>1, BoundsAssumption DEF TypeOK, SentUpTo
<1>3. QED
  BY <1>1, <1>2 DEF Past, NoTakeBack

(* So it keeps what is said of jobs, inboxes and messages in hand wherever *)
(* it leaves those alone.                                                  *)
LEMMA QuietStep ==
  ASSUME TypeOK, TypeOK', JobsPast, InboxPast, MsgPast, NoTakeBack
  PROVE  /\ jobs' \subseteq jobs => JobsPast'
         /\ inbox' = inbox => InboxPast'
         /\ \A w \in Workers :
              /\ msg'[w] = msg[w]
              /\ InHand(w)' => InHand(w)
              => MsgPastAt(w)'
<1>1. ASSUME jobs' \subseteq jobs
      PROVE  JobsPast'
  BY <1>1, PastKept DEF JobsPast, TypeOK
<1>2. ASSUME inbox' = inbox
      PROVE  InboxPast'
  <2>1. \A w \in Workers : InboxJobs(w)' = InboxJobs(w)
    BY <1>2 DEF InboxJobs
  <2>2. \A w \in Workers : InboxJobs(w) \subseteq Job
    BY InboxJobsType
  <2>3. QED
    BY <2>1, <2>2, PastKept DEF InboxPast
<1>3. ASSUME NEW w \in Workers, msg'[w] = msg[w], InHand(w)' => InHand(w)
      PROVE  MsgPastAt(w)'
  <2> SUFFICES ASSUME InHand(w)'
               PROVE  /\ msg[w] \in Message
                      /\ \A j \in {msg[w].job} : j.from = w /\ Past(j)'
    BY <1>3 DEF MsgPastAt
  <2>1. /\ msg[w] \in Message
        /\ \A j \in {msg[w].job} : j.from = w /\ Past(j)
    BY <1>3 DEF MsgPast, MsgPastAt
  <2>2. msg[w].job \in Job
    BY <2>1 DEF Message
  <2>3. QED
    BY <2>1, <2>2, PastKept
<1>4. QED
  BY <1>1, <1>2, <1>3

(* Taking the head of a worker's inbox keeps what is said of inboxes.      *)
LEMMA TailPast ==
  ASSUME TypeOK, TypeOK', InboxPast, NoTakeBack,
         NEW w \in Workers, inbox[w] # <<>>,
         inbox' = [inbox EXCEPT ![w] = Tail(@)]
  PROVE  InboxPast'
<1>1. \A v \in Workers : InboxJobs(v)' \subseteq InboxJobs(v)
  <2>1. inbox[w] \in Seq(Message)
    BY DEF TypeOK
  <2>2. \A i \in 1..Len(inbox'[w]) : \E k \in 1..Len(inbox[w]) : inbox'[w][i] = inbox[w][k]
    BY <2>1, HeadTail DEF TypeOK
  <2>3. QED
    BY <2>2 DEF TypeOK, InboxJobs
<1>2. QED
  BY <1>1, InboxJobsType, PastKept DEF InboxPast

(* Every step keeps the invariant when each worker has an address of its   *)
(* own.                                                                    *)
LEMMA NextIInv ==
  ASSUME DistinctEndpoints, IInv, [Next]_vars
  PROVE  IInv'
<1> USE DEF IInv, TypeInv, entry, Goto, Finish
<1>0. TypeOK /\ TypeOK' /\ Numbered /\ Numbered'
  BY NextTypeInv
<1> DEFINE Rest == CurIsLast' /\ PageFresh' /\ NoTakeBack
           Hands == \A v \in Workers :
                      msg'[v] = msg[v] /\ (InHand(v)' => InHand(v))
<1>a. ASSUME Rest, Hands, inbox' = inbox, jobs' \subseteq jobs
      PROVE  IInv'
  BY <1>0, <1>a, QuietStep DEF MsgPast
<1> HIDE DEF Rest, Hands
<1>1. ASSUME NEW w \in Workers, ServeStatic(w)
      PROVE  IInv'
  <2>1. CurIsLast'
    BY <1>0, <1>1 DEF TypeOK, CurIsLast, Taken, ServeStatic
  <2>2. PageFresh'
    BY <1>0, <1>1 DEF TypeOK, PageFresh, ServeStatic
  <2>3. NoTakeBack
    BY <1>0, <1>1 DEF TypeOK, NoTakeBack, SentUpTo, CurIsLast, Taken, ServeStatic
  <2>4. Hands
    BY <1>0, <1>1 DEF TypeOK, Hands, InHand, ServeStatic
  <2>5. inbox' = inbox /\ jobs' = jobs
    BY <1>1 DEF ServeStatic
  <2>6. QED
    BY <1>a, <2>1, <2>2, <2>3, <2>4, <2>5 DEF Rest
<1>2. ASSUME NEW w \in Workers, Start(w)
      PROVE  IInv'
  <2>1. CurIsLast'
    BY <1>0, <1>2, BoundsAssumption DEF TypeOK, CurIsLast, Taken, Start, ThreadRequestNum
  <2>2. PageFresh'
    BY <1>0, <1>2 DEF TypeOK, PageFresh, Start
  <2>3. NoTakeBack
    BY <1>0, <1>2, BoundsAssumption DEF TypeOK, NoTakeBack, SentUpTo, CurIsLast, Taken, Start, ThreadRequestNum
  <2>4. Hands
    BY <1>0, <1>2 DEF TypeOK, Hands, InHand, Start
  <2>5. inbox' = inbox /\ jobs' = jobs
    BY <1>2 DEF Start
  <2>6. QED
    BY <1>a, <2>1, <2>2, <2>3, <2>4, <2>5 DEF Rest
<1>3. ASSUME NEW w \in Workers, BindKept(w)
      PROVE  IInv'
  <2>1. CurIsLast'
    BY <1>0, <1>3 DEF TypeOK, CurIsLast, Taken, BindKept
  <2>2. PageFresh'
    BY <1>0, <1>3 DEF TypeOK, PageFresh, BindKept
  <2>3. NoTakeBack
    BY <1>0, <1>3 DEF TypeOK, NoTakeBack, SentUpTo, CurIsLast, Taken, BindKept
  <2>4. Hands
    BY <1>0, <1>3 DEF TypeOK, Hands, InHand, BindKept
  <2>5. inbox' = inbox /\ jobs' = jobs
    BY <1>3 DEF BindKept
  <2>6. QED
    BY <1>a, <2>1, <2>2, <2>3, <2>4, <2>5 DEF Rest
<1>4. ASSUME NEW w \in Workers, Bind(w)
      PROVE  IInv'
  <2>1. CurIsLast'
    BY <1>0, <1>4 DEF TypeOK, CurIsLast, Taken, Bind
  <2>2. PageFresh'
    BY <1>0, <1>4 DEF TypeOK, PageFresh, Bind
  <2>3. NoTakeBack
    BY <1>0, <1>4 DEF TypeOK, NoTakeBack, SentUpTo, CurIsLast, Taken, Bind
  <2>4. Hands
    BY <1>0, <1>4 DEF TypeOK, Hands, InHand, Bind
  <2>5. inbox' = inbox /\ jobs' = jobs
    BY <1>4 DEF Bind
  <2>6. QED
    BY <1>a, <2>1, <2>2, <2>3, <2>4, <2>5 DEF Rest
<1>5. ASSUME NEW w \in Workers, BindFails(w)
      PROVE  IInv'
  <2>1. CurIsLast'
    BY <1>0, <1>5 DEF TypeOK, CurIsLast, Taken, BindFails
  <2>2. PageFresh'
    BY <1>0, <1>5 DEF TypeOK, PageFresh, BindFails
  <2>3. NoTakeBack
    BY <1>0, <1>5 DEF TypeOK, NoTakeBack, SentUpTo, CurIsLast, Taken, BindFails
  <2>4. Hands
    BY <1>0, <1>5 DEF TypeOK, Hands, InHand, BindFails
  <2>5. inbox' = inbox /\ jobs' = jobs
    BY <1>5 DEF BindFails
  <2>6. QED
    BY <1>a, <2>1, <2>2, <2>3, <2>4, <2>5 DEF Rest
<1>6. ASSUME NEW w \in Workers, ConnectKept(w)
      PROVE  IInv'
  <2>1. CurIsLast'
    BY <1>0, <1>6 DEF TypeOK, CurIsLast, Taken, ConnectKept
  <2>2. PageFresh'
    BY <1>0, <1>6 DEF TypeOK, PageFresh, ConnectKept
  <2>3. NoTakeBack
    BY <1>0, <1>6 DEF TypeOK, NoTakeBack, SentUpTo, CurIsLast, Taken, ConnectKept
  <2>4. Hands
    BY <1>0, <1>6 DEF TypeOK, Hands, InHand, ConnectKept
  <2>5. inbox' = inbox /\ jobs' = jobs
    BY <1>6 DEF ConnectKept
  <2>6. QED
    BY <1>a, <2>1, <2>2, <2>3, <2>4, <2>5 DEF Rest
<1>7. ASSUME NEW w \in Workers, Connect(w)
      PROVE  IInv'
  <2>1. CurIsLast'
    BY <1>0, <1>7 DEF TypeOK, CurIsLast, Taken, Connect
  <2>2. PageFresh'
    BY <1>0, <1>7 DEF TypeOK, PageFresh, Connect
  <2>3. NoTakeBack
    BY <1>0, <1>7 DEF TypeOK, NoTakeBack, SentUpTo, CurIsLast, Taken, Connect
  <2>4. Hands
    BY <1>0, <1>7 DEF TypeOK, Hands, InHand, Connect
  <2>5. inbox' = inbox /\ jobs' = jobs
    BY <1>7 DEF Connect
  <2>6. QED
    BY <1>a, <2>1, <2>2, <2>3, <2>4, <2>5 DEF Rest
<1>8. ASSUME NEW w \in Workers, ConnectFails(w)
      PROVE  IInv'
  <2>1. CurIsLast'
    BY <1>0, <1>8 DEF TypeOK, CurIsLast, Taken, ConnectFails
  <2>2. PageFresh'
    BY <1>0, <1>8 DEF TypeOK, PageFresh, ConnectFails
  <2>3. NoTakeBack
    BY <1>0, <1>8 DEF TypeOK, NoTakeBack, SentUpTo, CurIsLast, Taken, ConnectFails
  <2>4. Hands
    BY <1>0, <1>8 DEF TypeOK, Hands, InHand, ConnectFails
  <2>5. inbox' = inbox /\ jobs' = jobs
    BY <1>8 DEF ConnectFails
  <2>6. QED
    BY <1>a, <2>1, <2>2, <2>3, <2>4, <2>5 DEF Rest
<1>9. ASSUME NEW w \in Workers, Accept(w)
      PROVE  IInv'
  <2>1. CurIsLast'
    BY <1>0, <1>9 DEF TypeOK, CurIsLast, Taken, Accept
  <2>2. PageFresh'
    BY <1>0, <1>9 DEF TypeOK, PageFresh, Accept
  <2>3. NoTakeBack
    BY <1>0, <1>9 DEF TypeOK, NoTakeBack, SentUpTo, CurIsLast, Taken, Accept
  <2>4. Hands
    BY <1>0, <1>9 DEF TypeOK, Hands, InHand, Accept
  <2>5. inbox' = inbox /\ jobs' = jobs
    BY <1>9 DEF Accept
  <2>6. QED
    BY <1>a, <2>1, <2>2, <2>3, <2>4, <2>5 DEF Rest
<1>10. ASSUME NEW w \in Workers, RecvTimeout(w)
      PROVE  IInv'
  <2>1. CurIsLast'
    BY <1>0, <1>10 DEF TypeOK, CurIsLast, Taken, RecvTimeout
  <2>2. PageFresh'
    BY <1>0, <1>10 DEF TypeOK, PageFresh, RecvTimeout
  <2>3. NoTakeBack
    BY <1>0, <1>10 DEF TypeOK, NoTakeBack, SentUpTo, CurIsLast, Taken, RecvTimeout
  <2>4. Hands
    BY <1>0, <1>10 DEF TypeOK, Hands, InHand, RecvTimeout
  <2>5. inbox' = inbox /\ jobs' = jobs
    BY <1>10 DEF RecvTimeout
  <2>6. QED
    BY <1>a, <2>1, <2>2, <2>3, <2>4, <2>5 DEF Rest
<1>11. ASSUME NEW w \in Workers, Send(w)
       PROVE  IInv'
  <2>1. CurIsLast'
    BY <1>0, <1>11 DEF TypeOK, CurIsLast, Taken, Send
  <2>2. PageFresh'
    BY <1>0, <1>11 DEF TypeOK, PageFresh, Send
  <2>3. NoTakeBack
    BY <1>0, <1>11 DEF TypeOK, NoTakeBack, SentUpTo, Send
  <2>4. Hands
    BY <1>0, <1>11 DEF TypeOK, Hands, InHand, Send
  <2>5. inbox' = inbox /\ jobs' \subseteq jobs \cup {CurrentJob(w)}
    BY <1>11 DEF Send
  <2>6. \A j \in {CurrentJob(w)} : j \in Job /\ Past(j)'
    BY <1>0, <1>11, BoundsAssumption
       DEF TypeOK, Numbered, Send, CurrentJob, Job, Past, SentUpTo
  <2>7. JobsPast'
    BY <1>0, <2>3, <2>5, <2>6, PastKept DEF JobsPast, TypeOK
  <2>8. QED
    BY <1>0, <2>1, <2>2, <2>3, <2>4, <2>5, <2>7, QuietStep DEF Hands, MsgPast
<1>12. ASSUME NEW w \in Workers, Receive(w)
       PROVE  IInv'
  <2>1. CurIsLast' /\ PageFresh' /\ NoTakeBack
    BY <1>0, <1>12
       DEF TypeOK, CurIsLast, Taken, PageFresh, NoTakeBack, SentUpTo, Receive
  <2>2. JobsPast'
    BY <1>0, <1>12, <2>1, QuietStep DEF Receive
  <2>3. InboxPast'
    BY <1>0, <1>12, <2>1, TailPast DEF Receive
  <2>4. ASSUME NEW v \in Workers \ {w}
        PROVE  MsgPastAt(v)'
    BY <1>0, <1>12, <2>1, QuietStep DEF TypeOK, Receive, InHand
  <2>5. MsgPastAt(w)'
    <3>1. msg'[w] = Head(inbox[w]) /\ inbox[w] \in Seq(Message) /\ inbox[w] # <<>>
      BY <1>0, <1>12 DEF TypeOK, Receive
    <3>2. msg'[w] \in Message /\ msg'[w].job \in Job /\ msg'[w].job \in InboxJobs(w)
      <4>1. msg'[w] \in Message /\ msg'[w] = inbox[w][1] /\ 1 \in 1..Len(inbox[w])
        BY <3>1, HeadTail
      <4>2. QED
        BY <4>1 DEF InboxJobs, Message
    <3>3. \A j \in {msg'[w].job} : j.from = w /\ Past(j)'
      BY <1>0, <2>1, <3>2, PastKept DEF InboxPast
    <3>4. QED
      BY <3>2, <3>3 DEF MsgPastAt
  <2>6. QED
    BY <1>0, <2>1, <2>2, <2>3, <2>4, <2>5 DEF MsgPast
<1>13. ASSUME NEW w \in Workers, Hang(w)
       PROVE  IInv'
  <2>1. CurIsLast' /\ PageFresh' /\ NoTakeBack
    BY <1>0, <1>13
       DEF TypeOK, CurIsLast, Taken, PageFresh, NoTakeBack, SentUpTo, Hang
  <2>2. Hands
    BY <1>0, <1>13 DEF TypeOK, Hands, InHand, Hang
  <2>3. InboxPast'
    BY <1>0, <1>13, <2>1, TailPast DEF Hang
  <2>4. QED
    BY <1>0, <1>13, <2>1, <2>2, <2>3, QuietStep DEF Hands, MsgPast, Hang
<1>14. ASSUME NEW w \in Workers, Discard(w)
       PROVE  IInv'
  <2>1. CurIsLast' /\ PageFresh' /\ NoTakeBack
    BY <1>0, <1>14
       DEF TypeOK, CurIsLast, Taken, PageFresh, NoTakeBack, SentUpTo, Discard
  <2>2. MsgPastAt(w)'
    BY <1>0, <1>14 DEF TypeOK, PageFresh, Discard, MsgPastAt, InHand
  <2>3. ASSUME NEW v \in Workers \ {w}
        PROVE  MsgPastAt(v)'
    BY <1>0, <1>14, <2>1, QuietStep DEF TypeOK, Discard, InHand
  <2>4. QED
    BY <1>0, <1>14, <2>1, <2>2, <2>3, QuietStep DEF MsgPast, Discard
<1>15. ASSUME NEW w \in Workers, Respond(w)
       PROVE  IInv'
  <2>1. CurIsLast' /\ PageFresh' /\ NoTakeBack
    BY <1>0, <1>15
       DEF TypeOK, CurIsLast, Taken, PageFresh, NoTakeBack, SentUpTo, Respond
  <2>2. MsgPastAt(w)'
    BY <1>0, <1>15 DEF TypeOK, Respond, MsgPastAt, InHand
  <2>3. ASSUME NEW v \in Workers \ {w}
        PROVE  MsgPastAt(v)'
    BY <1>0, <1>15, <2>1, QuietStep DEF TypeOK, Respond, InHand
  <2>4. QED
    BY <1>0, <1>15, <2>1, <2>2, <2>3, QuietStep DEF MsgPast, Respond
<1>16. ASSUME NEW w \in Workers, Crash(w)
       PROVE  IInv'
  <2>1. CurIsLast' /\ PageFresh'
    BY <1>0, <1>16 DEF TypeOK, CurIsLast, Taken, PageFresh, Crash
  <2>2. NoTakeBack
    BY <1>0, <1>16 DEF TypeOK, NoTakeBack, SentUpTo, Crash
  <2>3. InboxPast'
    <3>1. \A v \in Workers : InboxJobs(v)' \subseteq InboxJobs(v)
      BY <1>0, <1>16 DEF TypeOK, InboxJobs, Crash
    <3>2. QED
      BY <1>0, <2>2, <3>1, InboxJobsType, PastKept DEF InboxPast
  <2>4. MsgPastAt(w)'
    BY <1>0, <1>16 DEF TypeOK, Crash, MsgPastAt, InHand
  <2>5. ASSUME NEW v \in Workers \ {w}
        PROVE  MsgPastAt(v)'
    BY <1>0, <1>16, <2>2, QuietStep DEF TypeOK, Crash, InHand
  <2>6. QED
    BY <1>0, <1>16, <2>1, <2>2, <2>3, <2>4, <2>5, QuietStep DEF MsgPast, Crash
<1>17. ASSUME NEW j \in jobs, BackendReply(j)
       PROVE  IInv'
  <2>1. Rest
    BY <1>0, <1>17 DEF Rest, TypeOK, CurIsLast, Taken, PageFresh, NoTakeBack,
                       SentUpTo, BackendReply
  <2>2. Hands
    BY <1>17 DEF Hands, InHand, BackendReply
  <2>3. PICK v \in Workers, form \in ReplyForms :
          /\ Address[v] = Address[j.from]
          /\ inbox' = [inbox EXCEPT ![v] = Append(@, [job |-> j, form |-> form])]
    BY <1>17 DEF BackendReply
  <2>4. j \in Job /\ j.from = v
    BY <1>0, <2>3 DEF TypeOK, DistinctEndpoints, Job
  <2>5. \A u \in Workers :
          InboxJobs(u)' \subseteq InboxJobs(u) \cup (IF u = v THEN {j} ELSE {})
    <3>1. inbox[v] \in Seq(Message) /\ [job |-> j, form |-> form] \in Message
      BY <1>0, <2>4, FormsAssumption DEF TypeOK, Message
    <3>2. \A i \in 1..Len(inbox'[v]) :
            inbox'[v][i].job = j \/ \E k \in 1..Len(inbox[v]) : inbox'[v][i] = inbox[v][k]
      BY <1>0, <2>3, <3>1 DEF TypeOK
    <3>3. QED
      BY <1>0, <2>3, <3>2 DEF TypeOK, InboxJobs
  <2>6. Past(j)
    BY DEF JobsPast
  <2>7. InboxPast'
    BY <1>0, <2>1, <2>4, <2>5, <2>6, InboxJobsType, PastKept DEF InboxPast, Rest
  <2>8. jobs' \subseteq jobs
    BY <1>17 DEF BackendReply
  <2>9. QED
    BY <1>0, <2>1, <2>2, <2>7, <2>8, QuietStep DEF Rest, Hands, MsgPast
<1>18. ASSUME NEW j \in jobs, BackendLose(j)
       PROVE  IInv'
  <2>1. Rest
    BY <1>0, <1>18 DEF Rest, TypeOK, CurIsLast, Taken, PageFresh, NoTakeBack,
                       SentUpTo, BackendLose
  <2>2. QED
    BY <1>a, <1>18, <2>1 DEF Hands, InHand, BackendLose
<1>19. CASE Relaunch
  <2>1. CurIsLast' /\ PageFresh'
    BY <1>0, <1>19 DEF TypeOK, CurIsLast, Taken, PageFresh, Relaunch
  <2>2. \A j \in Job : Past(j) => Past(j)'
    BY <1>0, <1>19, BoundsAssumption DEF TypeOK, Job, Past, Relaunch
  <2>3. JobsPast'
    BY <1>0, <1>19, <2>2 DEF TypeOK, JobsPast, Relaunch
  <2>4. InboxPast'
    <3>1. \A v \in Workers : InboxJobs(v)' = InboxJobs(v)
      BY <1>19 DEF InboxJobs, Relaunch
    <3>2. QED
      BY <1>0, <2>2, <3>1, InboxJobsType DEF InboxPast
  <2>5. MsgPast'
    BY <1>0, <1>19 DEF TypeOK, PageFresh, MsgPast, MsgPastAt, InHand, Relaunch
  <2>6. QED
    BY <1>0, <2>1, <2>3, <2>4, <2>5
<1>20. CASE UNCHANGED vars
  <2>1. Rest
    BY <1>0, <1>20 DEF Rest, TypeOK, CurIsLast, Taken, PageFresh, NoTakeBack,
                       SentUpTo, vars
  <2>2. QED
    BY <1>a, <1>20, <2>1 DEF Hands, InHand, vars
<1>21. QED
  BY <1>1, <1>2, <1>3, <1>4, <1>5, <1>6, <1>7, <1>8, <1>9, <1>10, <1>11, <1>12,
     <1>13, <1>14, <1>15, <1>16, <1>17, <1>18, <1>19, <1>20
  DEF Next, Worker, Handle, Backend

-----------------------------------------------------------------------------
(***************************************************************************)
(* What follows from the invariant.                                        *)
(***************************************************************************)
(* A reply in hand that passes the test of handle_req is the worker's own, *)
(* and in this launch its number is at most and at least the request's.    *)
LEMMA PageIsCurrent ==
  ASSUME IInv, NEW w \in Workers, InHand(w), pc[w] \in {"examine", "reply"},
         Verify(msg[w]) >= cur[w]
  PROVE  /\ msg[w] \in Message
         /\ msg[w].job.from = w
         /\ msg[w].job.launch \in 1..launch
         /\ msg[w].job.rn \in 1..MaxRequests
         /\ msg[w].job.launch = launch => msg[w].job.rn = cur[w]
<1> DEFINE j == msg[w].job
<1>1. msg[w] \in Message /\ j.from = w /\ Past(j)
  BY DEF IInv, MsgPast, MsgPastAt
<1>2. j \in Job
  BY <1>1 DEF Message
<1>3. cur[w] \in Nat /\ launch \in Nat
  BY BoundsAssumption DEF IInv, TypeInv, TypeOK
<1>4. Verify(msg[w]) = IF msg[w].form = "unnumbered" THEN -1 ELSE j.rn
  BY DEF Verify
<1>5. Verify(msg[w]) = j.rn
  BY <1>3, <1>4
<1>6. QED
  BY <1>1, <1>2, <1>3, <1>5, BoundsAssumption DEF Past, SentUpTo, Job

(* With an address for each process, a worker never answers with the page  *)
(* of another worker or of another request of this launch: whatever the    *)
(* number of workers and requests, and however late the backend answers.   *)
THEOREM AnswersMatch ==
  ASSUME DistinctEndpoints
  PROVE  Spec => []AnswerMatchesRequest
<1>1. Init => IInv
  BY InitIInv
<1>2. IInv /\ [Next]_vars => IInv'
  BY NextIInv
<1>3. IInv => AnswerMatchesRequest
  BY PageIsCurrent DEF AnswerMatchesRequest, IInv, PageFresh, InHand
<1>4. QED
  BY <1>1, <1>2, <1>3, PTL DEF Spec

(* With an address for each process, the number a worker is about to send  *)
(* is larger than any it sent in this launch that is still on its way.     *)
THEOREM NumbersFresh ==
  ASSUME DistinctEndpoints
  PROVE  Spec => []FreshNumber
<1>1. Init => IInv
  BY InitIInv
<1>2. IInv /\ [Next]_vars => IInv'
  BY NextIInv
<1>3. IInv => FreshNumber
  <2> SUFFICES ASSUME IInv, NEW w \in Workers,
                      pc[w] \in {"bind", "connect", "send"},
                      NEW n \in cur[w]..MaxRequests,
                      NEW j, j = [from |-> w, launch |-> launch, rn |-> n],
                      Outstanding(j)
               PROVE  FALSE
    BY DEF FreshNumber
  <2>1. Past(j)
    <3>1. CASE j \in jobs
      BY <3>1 DEF IInv, JobsPast
    <3>2. CASE \E v \in Workers : j \in InboxJobs(v)
      BY <3>2 DEF IInv, InboxPast
    <3>3. QED
      BY <3>1, <3>2 DEF Outstanding, InboxJobs
  <2>2. cur[w] \in Nat
    BY BoundsAssumption DEF IInv, TypeInv, TypeOK
  <2>3. QED
    BY <2>1, <2>2, BoundsAssumption DEF Past, SentUpTo
<1>4. QED
  BY <1>1, <1>2, <1>3, PTL DEF Spec

-----------------------------------------------------------------------------
(***************************************************************************)
(* nanomsg buffers.                                                        *)
(***************************************************************************)
(* BuffersReleased, and that a page is an answer only in "reply".          *)
HeldInv ==
  \A w \in Workers :
     /\ answer[w] = "page" => pc[w] = "reply"
     /\ pc[w] # "hung" =>
          held[w] = IF pc[w] = "examine" \/ answer[w] = "page"
                    THEN {msg[w]} ELSE {}

LEMMA NextHeldInv ==
  ASSUME TypeOK, HeldInv, [Next]_vars
  PROVE  HeldInv'
<1> USE DEF TypeOK, HeldInv, entry, Goto, Finish
<1>1. ASSUME NEW w \in Workers, ServeStatic(w)
     PROVE  HeldInv'
  BY <1>1 DEF ServeStatic
<1>2. ASSUME NEW w \in Workers, Start(w)
     PROVE  HeldInv'
  BY <1>2 DEF Start
<1>3. ASSUME NEW w \in Workers, BindKept(w)
     PROVE  HeldInv'
  BY <1>3 DEF BindKept
<1>4. ASSUME NEW w \in Workers, Bind(w)
     PROVE  HeldInv'
  BY <1>4 DEF Bind
<1>5. ASSUME NEW w \in Workers, BindFails(w)
     PROVE  HeldInv'
  BY <1>5 DEF BindFails
<1>6. ASSUME NEW w \in Workers, ConnectKept(w)
     PROVE  HeldInv'
  BY <1>6 DEF ConnectKept
<1>7. ASSUME NEW w \in Workers, Connect(w)
     PROVE  HeldInv'
  BY <1>7 DEF Connect
<1>8. ASSUME NEW w \in Workers, ConnectFails(w)
     PROVE  HeldInv'
  BY <1>8 DEF ConnectFails
<1>9. ASSUME NEW w \in Workers, Send(w)
     PROVE  HeldInv'
  BY <1>9 DEF Send
<1>10. ASSUME NEW w \in Workers, Receive(w)
      PROVE  HeldInv'
  BY <1>10 DEF Receive
<1>11. ASSUME NEW w \in Workers, Hang(w)
      PROVE  HeldInv'
  BY <1>11 DEF Hang
<1>12. ASSUME NEW w \in Workers, Discard(w)
      PROVE  HeldInv'
  BY <1>12 DEF Discard
<1>13. ASSUME NEW w \in Workers, Accept(w)
      PROVE  HeldInv'
  BY <1>13 DEF Accept
<1>14. ASSUME NEW w \in Workers, RecvTimeout(w)
      PROVE  HeldInv'
  BY <1>14 DEF RecvTimeout
<1>15. ASSUME NEW w \in Workers, Respond(w)
      PROVE  HeldInv'
  BY <1>15 DEF Respond
<1>16. ASSUME NEW w \in Workers, Crash(w)
      PROVE  HeldInv'
  BY <1>16 DEF Crash
<1>17. ASSUME NEW j \in jobs, BackendReply(j) \/ BackendLose(j)
       PROVE  HeldInv'
  BY <1>17 DEF BackendReply, BackendLose
<1>18. CASE Relaunch
  BY <1>18 DEF Relaunch
<1>19. CASE UNCHANGED vars
  BY <1>19 DEF vars
<1>20. QED
  BY <1>1, <1>2, <1>3, <1>4, <1>5, <1>6, <1>7, <1>8, <1>9, <1>10, <1>11, <1>12,
     <1>13, <1>14, <1>15, <1>16, <1>17, <1>18, <1>19
  DEF Next, Worker, Handle, Backend

(* A worker has the nanomsg buffer it works on and no other, unless it     *)
(* hangs; this needs nothing of the addresses.                             *)
THEOREM BuffersFreed == Spec => []BuffersReleased
<1>1. Init => HeldInv
  BY DEF Init, HeldInv
<1>2. TypeOK /\ HeldInv /\ [Next]_vars => HeldInv'
  BY NextHeldInv
<1>3. HeldInv => BuffersReleased
  BY DEF HeldInv, BuffersReleased
<1>4. QED
  BY <1>1, <1>2, <1>3, TypeCorrect, PTL DEF Spec

-----------------------------------------------------------------------------
(***************************************************************************)
(* The worker implements the service.                                      *)
(***************************************************************************)
(* The state of the service as a function of the state of the worker.      *)
LEMMA InitService == Init => Service!Init
  BY DEF Init, Service!Init, Phase, Taken, Outcome, Service!NoPage

(* A step of worker w that leaves the other workers alone is a step of the *)
(* service when it is one for w.                                           *)
OnlyWorker(w) ==
  /\ launch' = launch
  /\ \A v \in Workers \ {w} :
       /\ pc'[v] = pc[v]
       /\ request_num'[v] = request_num[v]
       /\ answer'[v] = answer[v]
       /\ msg'[v] = msg[v]

LEMMA OnlyWorkerService ==
  ASSUME NEW w \in Workers, OnlyWorker(w)
  PROVE  /\ [v \in Workers |-> Phase(v)]'
              = [[v \in Workers |-> Phase(v)] EXCEPT ![w] = Phase(w)']
         /\ [v \in Workers |-> Taken(v)]'
              = [[v \in Workers |-> Taken(v)] EXCEPT ![w] = Taken(w)']
         /\ [v \in Workers |-> Outcome(v)]'
              = [[v \in Workers |-> Outcome(v)] EXCEPT ![w] = Outcome(w)']
<1>1. \A v \in Workers \ {w} : /\ Phase(v)' = Phase(v)
                                /\ Taken(v)' = Taken(v)
                                /\ Outcome(v)' = Outcome(v)
  BY DEF OnlyWorker, Phase, Taken, Outcome
<1>2. QED
  BY <1>1

(* Every step of the worker is a step of the service or leaves it alone.   *)
LEMMA NextService ==
  ASSUME IInv, IInv', [Next]_vars
  PROVE  [Service!Next]_(Service!vars)
<1> USE DEF entry, Goto, Finish
<1> DEFINE phase == [v \in Workers |-> Phase(v)]
           served == [v \in Workers |-> Taken(v)]
           outcome == [v \in Workers |-> Outcome(v)]
<1>0. TypeOK /\ TypeOK'
  BY DEF IInv, TypeInv
<1>a. ASSUME NEW w \in Workers, OnlyWorker(w), Phase(w)' = Phase(w),
             Taken(w)' = Taken(w), Outcome(w)' = Outcome(w)
      PROVE  UNCHANGED Service!vars
  BY <1>a, OnlyWorkerService DEF Service!vars, OnlyWorker
<1>b. ASSUME NEW w \in Workers, OnlyWorker(w), Phase(w) = "busy",
             Phase(w)' = "done", Taken(w)' = Taken(w), Outcome(w)' = Outcome(w)
      PROVE  Service!Finish(w)
  BY <1>b, OnlyWorkerService DEF Service!Finish, OnlyWorker
<1>1. ASSUME NEW w \in Workers, ServeStatic(w)
      PROVE  Service!File(w)
  <2>1. OnlyWorker(w)
    BY <1>0, <1>1 DEF TypeOK, ServeStatic, OnlyWorker
  <2>2. /\ Phase(w) = "ready" /\ Phase(w)' = "done"
        /\ Taken(w)' = Taken(w) /\ Outcome(w)' = Outcome(w)
    BY <1>0, <1>1 DEF TypeOK, ServeStatic, Phase, Taken, Outcome
  <2>3. QED
    BY <2>1, <2>2, OnlyWorkerService DEF Service!File, OnlyWorker
<1>2. ASSUME NEW w \in Workers, Start(w)
      PROVE  Service!Take(w)
  <2>1. OnlyWorker(w)
    BY <1>0, <1>2 DEF TypeOK, Start, OnlyWorker
  <2>2. /\ Phase(w) = "ready" /\ Phase(w)' = "busy" /\ Outcome(w)' = Outcome(w)
    BY <1>0, <1>2 DEF TypeOK, Start, Phase, Outcome
  <2>3. Taken(w)' = Taken(w) + 1
    <3>1. request_num[w] \in Nat /\ request_num'[w] = ThreadRequestNum(w) + 1
      BY <1>0, <1>2, BoundsAssumption DEF TypeOK, Start
    <3>2. QED
      BY <3>1 DEF Taken, ThreadRequestNum
  <2>4. QED
    BY <2>1, <2>2, <2>3, OnlyWorkerService DEF Service!Take, OnlyWorker
<1>3. ASSUME NEW w \in Workers, BindKept(w)
      PROVE  UNCHANGED Service!vars
  <2>1. OnlyWorker(w)
    BY <1>0, <1>3 DEF TypeOK, BindKept, OnlyWorker
  <2>2. /\ Phase(w)' = Phase(w) /\ Taken(w)' = Taken(w) /\ Outcome(w)' = Outcome(w)
    BY <1>0, <1>3 DEF TypeOK, BindKept, Phase, Taken, Outcome
  <2>3. QED
    BY <1>a, <2>1, <2>2
<1>4. ASSUME NEW w \in Workers, Bind(w)
      PROVE  UNCHANGED Service!vars
  <2>1. OnlyWorker(w)
    BY <1>0, <1>4 DEF TypeOK, Bind, OnlyWorker
  <2>2. /\ Phase(w)' = Phase(w) /\ Taken(w)' = Taken(w) /\ Outcome(w)' = Outcome(w)
    BY <1>0, <1>4 DEF TypeOK, Bind, Phase, Taken, Outcome
  <2>3. QED
    BY <1>a, <2>1, <2>2
<1>5. ASSUME NEW w \in Workers, ConnectKept(w)
      PROVE  UNCHANGED Service!vars
  <2>1. OnlyWorker(w)
    BY <1>0, <1>5 DEF TypeOK, ConnectKept, OnlyWorker
  <2>2. /\ Phase(w)' = Phase(w) /\ Taken(w)' = Taken(w) /\ Outcome(w)' = Outcome(w)
    BY <1>0, <1>5 DEF TypeOK, ConnectKept, Phase, Taken, Outcome
  <2>3. QED
    BY <1>a, <2>1, <2>2
<1>6. ASSUME NEW w \in Workers, Connect(w)
      PROVE  UNCHANGED Service!vars
  <2>1. OnlyWorker(w)
    BY <1>0, <1>6 DEF TypeOK, Connect, OnlyWorker
  <2>2. /\ Phase(w)' = Phase(w) /\ Taken(w)' = Taken(w) /\ Outcome(w)' = Outcome(w)
    BY <1>0, <1>6 DEF TypeOK, Connect, Phase, Taken, Outcome
  <2>3. QED
    BY <1>a, <2>1, <2>2
<1>7. ASSUME NEW w \in Workers, Send(w)
      PROVE  UNCHANGED Service!vars
  <2>1. OnlyWorker(w)
    BY <1>0, <1>7 DEF TypeOK, Send, OnlyWorker
  <2>2. /\ Phase(w)' = Phase(w) /\ Taken(w)' = Taken(w) /\ Outcome(w)' = Outcome(w)
    BY <1>0, <1>7 DEF TypeOK, Send, Phase, Taken, Outcome
  <2>3. QED
    BY <1>a, <2>1, <2>2
<1>8. ASSUME NEW w \in Workers, Receive(w)
      PROVE  UNCHANGED Service!vars
  <2>1. OnlyWorker(w)
    BY <1>0, <1>8 DEF TypeOK, Receive, OnlyWorker
  <2>2. /\ Phase(w)' = Phase(w) /\ Taken(w)' = Taken(w) /\ Outcome(w)' = Outcome(w)
    BY <1>0, <1>8 DEF TypeOK, Receive, Phase, Taken, Outcome
  <2>3. QED
    BY <1>a, <2>1, <2>2
<1>9. ASSUME NEW w \in Workers, Hang(w)
      PROVE  UNCHANGED Service!vars
  <2>1. OnlyWorker(w)
    BY <1>0, <1>9 DEF TypeOK, Hang, OnlyWorker
  <2>2. /\ Phase(w)' = Phase(w) /\ Taken(w)' = Taken(w) /\ Outcome(w)' = Outcome(w)
    BY <1>0, <1>9 DEF TypeOK, Hang, Phase, Taken, Outcome
  <2>3. QED
    BY <1>a, <2>1, <2>2
<1>10. ASSUME NEW w \in Workers, Discard(w)
      PROVE  UNCHANGED Service!vars
  <2>1. OnlyWorker(w)
    BY <1>0, <1>10 DEF TypeOK, Discard, OnlyWorker
  <2>2. /\ Phase(w)' = Phase(w) /\ Taken(w)' = Taken(w) /\ Outcome(w)' = Outcome(w)
    BY <1>0, <1>10 DEF TypeOK, Discard, Phase, Taken, Outcome
  <2>3. QED
    BY <1>a, <2>1, <2>2
<1>11. ASSUME NEW w \in Workers, BindFails(w)
      PROVE  Service!Finish(w)
  <2>1. OnlyWorker(w)
    BY <1>0, <1>11 DEF TypeOK, BindFails, OnlyWorker
  <2>2. /\ Phase(w) = "busy" /\ Phase(w)' = "done"
        /\ Taken(w)' = Taken(w) /\ Outcome(w)' = Outcome(w)
    BY <1>0, <1>11 DEF TypeOK, BindFails, Phase, Taken, Outcome
  <2>3. QED
    BY <1>b, <2>1, <2>2
<1>12. ASSUME NEW w \in Workers, ConnectFails(w)
      PROVE  Service!Finish(w)
  <2>1. OnlyWorker(w)
    BY <1>0, <1>12 DEF TypeOK, ConnectFails, OnlyWorker
  <2>2. /\ Phase(w) = "busy" /\ Phase(w)' = "done"
        /\ Taken(w)' = Taken(w) /\ Outcome(w)' = Outcome(w)
    BY <1>0, <1>12 DEF TypeOK, ConnectFails, Phase, Taken, Outcome
  <2>3. QED
    BY <1>b, <2>1, <2>2
<1>13. ASSUME NEW w \in Workers, RecvTimeout(w)
      PROVE  Service!Finish(w)
  <2>1. OnlyWorker(w)
    BY <1>0, <1>13 DEF TypeOK, RecvTimeout, OnlyWorker
  <2>2. /\ Phase(w) = "busy" /\ Phase(w)' = "done"
        /\ Taken(w)' = Taken(w) /\ Outcome(w)' = Outcome(w)
    BY <1>0, <1>13 DEF TypeOK, RecvTimeout, Phase, Taken, Outcome
  <2>3. QED
    BY <1>b, <2>1, <2>2
<1>14. ASSUME NEW w \in Workers, Accept(w)
       PROVE  Service!Finish(w)
  <2>1. OnlyWorker(w) /\ answer'[w] = "page" /\ pc'[w] = "reply"
    BY <1>0, <1>14 DEF TypeOK, Accept, OnlyWorker
  <2>2. /\ Phase(w) = "busy" /\ Phase(w)' = "done" /\ Taken(w)' = Taken(w)
    BY <1>0, <1>14 DEF TypeOK, Accept, Phase, Taken
  <2>3. Outcome(w)' = Service!Page(msg'[w].job)
    BY <2>1 DEF Outcome, Service!Page
  <2>4. msg'[w].job \in Service!Acceptable(w, launch, Taken(w))
    <3>1. /\ msg[w] \in Message /\ msg[w].job.from = w
          /\ msg[w].job.launch \in 1..launch /\ msg[w].job.rn \in 1..MaxRequests
          /\ msg[w].job.launch = launch => msg[w].job.rn = cur[w]
      BY <1>14, PageIsCurrent DEF Accept, InHand
    <3>2. cur[w] = Taken(w) /\ msg' = msg
      BY <1>14 DEF IInv, CurIsLast, Accept
    <3>3. msg[w].job \in Job
      BY <3>1 DEF Message
    <3>4. QED
      BY <3>1, <3>2, <3>3 DEF Service!Acceptable, Job
  <2>5. QED
    BY <2>1, <2>2, <2>3, <2>4, OnlyWorkerService DEF Service!Finish, OnlyWorker
<1>15. ASSUME NEW w \in Workers, Respond(w)
       PROVE  Service!Respond(w)
  <2>1. OnlyWorker(w)
    BY <1>0, <1>15 DEF TypeOK, Respond, OnlyWorker
  <2>2. /\ Phase(w) = "done" /\ Phase(w)' = "ready"
        /\ Taken(w)' = Taken(w) /\ Outcome(w)' = Service!NoPage
    BY <1>0, <1>15 DEF TypeOK, Respond, Phase, Taken, Outcome, Service!NoPage
  <2>3. QED
    BY <2>1, <2>2, OnlyWorkerService DEF Service!Respond, OnlyWorker
<1>16. ASSUME NEW w \in Workers, Crash(w)
       PROVE  Service!Fail(w)
  <2>1. OnlyWorker(w)
    BY <1>0, <1>16 DEF TypeOK, Crash, OnlyWorker
  <2>2. /\ Phase(w) # "down" /\ Phase(w)' = "down"
        /\ Taken(w)' = 0 /\ Outcome(w)' = Service!NoPage
    BY <1>0, <1>16 DEF TypeOK, Crash, Phase, Taken, Outcome, Service!NoPage
  <2>3. QED
    BY <2>1, <2>2, OnlyWorkerService DEF Service!Fail, OnlyWorker
<1>17. ASSUME NEW j \in jobs, BackendReply(j) \/ BackendLose(j)
       PROVE  UNCHANGED Service!vars
  BY <1>17 DEF BackendReply, BackendLose, Service!vars, Phase, Taken, Outcome
<1>18. CASE Relaunch
  <2>1. \A v \in Workers : /\ Phase(v) = "down" /\ Phase(v)' = "ready"
                           /\ Taken(v)' = Taken(v) /\ Outcome(v)' = Outcome(v)
    BY <1>0, <1>18 DEF TypeOK, Relaunch, Phase, Taken, Outcome
  <2>2. launch' = launch + 1
    BY <1>18 DEF Relaunch
  <2>3. Service!Restart
    BY <2>1, <2>2 DEF Service!Restart
  <2>4. QED
    BY <2>3 DEF Service!Next
<1>19. CASE UNCHANGED vars
  BY <1>19 DEF vars, Service!vars, Phase, Taken, Outcome
<1>20. ASSUME NEW w \in Workers,
              \/ Service!File(w) \/ Service!Take(w) \/ Service!Finish(w)
              \/ Service!Respond(w) \/ Service!Fail(w)
       PROVE  Service!Next
  BY <1>20 DEF Service!Next, Service!Step
<1>21. QED
  BY <1>1, <1>2, <1>3, <1>4, <1>5, <1>6, <1>7, <1>8, <1>9, <1>10, <1>11, <1>12,
     <1>13, <1>14, <1>15, <1>16, <1>17, <1>18, <1>19, <1>20
  DEF Next, Worker, Handle, Backend

(* With an address for each process, the gateway does for each worker what *)
(* GatewayService promises, whatever the backend and the crashes do.       *)
THEOREM ImplementsService ==
  ASSUME DistinctEndpoints
  PROVE  Spec => ServiceSpec
<1>1. Init => IInv /\ Service!Init
  BY InitIInv, InitService
<1>2. IInv /\ [Next]_vars => IInv'
  BY NextIInv
<1>3. IInv /\ IInv' /\ [Next]_vars => [Service!Next]_(Service!vars)
  BY NextService
<1>4. QED
  BY <1>1, <1>2, <1>3, PTL DEF Spec, ServiceSpec, Service!Spec
=============================================================================
