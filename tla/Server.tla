------------------------------- MODULE Server -------------------------------
(***************************************************************************)
(* server.c: the worker processes that accept connections on the one       *)
(* listening socket, read requests off them and answer.                    *)
(*                                                                         *)
(* A connection is a stream of bytes, known by their offsets: the client   *)
(* has a script of requests, each with a length of head and of body, and   *)
(* sends the stream in pieces; read_all takes from it what is there.       *)
(* Nothing in server.c tells where a request ends except that a read came  *)
(* short, so what a worker takes for a request depends on how the pieces   *)
(* and the sizes of its buffer fall.                                       *)
(*                                                                         *)
(* serving a request (lumith.c) is one step here; the module Lumith has    *)
(* its steps.  The clients and the kernel's sockets are external.          *)
(***************************************************************************)
EXTENDS Integers, Sequences

CONSTANTS
  Workers,      \* the processes of forkAccepts
  Clients,      \* the connections
  Script,       \* Script[c]: the requests of c, in the order they are sent
  Splitters,    \* clients that may cut a request in pieces anywhere
  Pipeliners,   \* clients that do not wait for an answer before they go on
  Stallers,     \* clients that may leave a response in the socket unread
  InitialSize,  \* size of read_all's first buffer: 500 in the code
  NoClient      \* no connection

\* A request: lengths, and what its headers ask for.
RequestShape == [head : Nat \ {0}, body : Nat, keep : BOOLEAN, expect : BOOLEAN]

ASSUME ScriptAssumption == Script \in [Clients -> Seq(RequestShape)]
ASSUME ClientsAssumption == Splitters \cup Pipeliners \cup Stallers \subseteq Clients
ASSUME SizeAssumption == InitialSize \in Nat \ {0}
ASSUME NoClientAssumption == NoClient \notin Clients

VARIABLES
  pc,         \* pc[w]: where worker w is in loopAccepts
  conn,       \* conn[w]: the connection it has (fd)
  from,       \* offset of the first byte of rawReq
  cursize,    \* read_all: size of the buffer
  curpos,     \* read_all: where the next read starts in the buffer
  totsize,    \* read_all: bytes read
  req,        \* the request parse_request returned
  cstate,     \* cstate[c]: "new", "queued" (listen), "open", "closed"
  sent,       \* bytes the client has sent
  taken,      \* bytes the server has read
  ended,      \* how the client ended its side: "no", "fin", "reset"
  continued,  \* the last request that "100 Continue" was written for
  answers     \* the responses the client got

vars == <<pc, conn, from, cursize, curpos, totsize, req, cstate, sent, taken,
          ended, continued, answers>>

buffer == <<cursize, curpos, totsize>>
client == <<sent, ended>>

(***************************************************************************)
(* The stream of a client.                                                 *)
(***************************************************************************)
Indices(c) == 1..Len(Script[c])

\* End(c)[k]: the offset behind request k.
End(c) ==
  LET end[k \in 0..Len(Script[c])] ==
        IF k = 0 THEN 0 ELSE end[k - 1] + Script[c][k].head + Script[c][k].body
  IN  end

Begin(c, k) == End(c)[k - 1]
HeadEnd(c, k) == Begin(c, k) + Script[c][k].head

\* The offsets of request k.
Offsets(c, k) == Begin(c, k)..End(c)[k] - 1

\* The offsets a client may send up to in its next piece.
Stops(c) ==
  {o \in sent[c] + 1 .. End(c)[Len(Script[c])] :
     \* HTTP: the body of an expecting request waits for 100 Continue
     /\ \A k \in Indices(c) :
          Script[c][k].expect /\ continued[c] < k => o <= HeadEnd(c, k)
     \* only a pipeliner runs ahead of the answers
     /\ c \notin Pipeliners =>
          \A k \in Indices(c) : k > Len(answers[c]) => o <= End(c)[k]
     \* only a splitter stops inside a head or a body
     /\ c \notin Splitters =>
          \E k \in Indices(c) :
             o = End(c)[k] \/ (Script[c][k].expect /\ o = HeadEnd(c, k))}

(***************************************************************************)
(* Helpers of the workers.                                                 *)
(***************************************************************************)
Goto(w, l) == pc' = [pc EXCEPT ![w] = l]

Available(c) == sent[c] - taken[c]

\* read_all starts over with a buffer of its own.
FreshBuffer(w) ==
  /\ cursize' = [cursize EXCEPT ![w] = InitialSize]
  /\ curpos' = [curpos EXCEPT ![w] = 0]
  /\ totsize' = [totsize EXCEPT ![w] = 0]

\* Mutant of NextRequest: the buffer is taken for the start of the stream.
MutNextFromStart(w, c) ==
  /\ Goto(w, "read")
  /\ from' = [from EXCEPT ![w] = 0]
  /\ FreshBuffer(w)

\* process: the top of the loop, which reads the next request of c.
NextRequest(w, c) ==
  /\ Goto(w, "read")
  /\ from' = [from EXCEPT ![w] = taken[c]]
  /\ FreshBuffer(w)

\* Mutant of Close: the worker goes on without closing the connection.
MutCloseLeak(w) ==
  /\ Goto(w, "accept")
  /\ conn' = [conn EXCEPT ![w] = NoClient]
  /\ UNCHANGED cstate

\* process returns, loopAccepts closes the connection.
Close(w) ==
  /\ Goto(w, "accept")
  /\ conn' = [conn EXCEPT ![w] = NoClient]
  /\ cstate' = [cstate EXCEPT ![conn[w]] = "closed"]

\* What comes after read_all: the parser, or for the second one the serving.
AfterRead(w) == IF pc[w] = "read" THEN "parse" ELSE "serve"

\* How much of its body a request is served with: what was in the buffer
\* behind the head, be it less than the body or the next request as well.
BodyServed(leftover, body) ==
  CASE leftover = body -> "exact"
    [] leftover < body -> "short"
    [] leftover > body -> "extra"

NoRequest == [k |-> 0, body |-> "short", keep |-> FALSE]
-----------------------------------------------------------------------------
(***************************************************************************)
(* The workers.                                                            *)
(***************************************************************************)
\* loopAccepts: any idle process gets the next connection.
Accept(w) ==
  /\ pc[w] = "accept"
  /\ \E c \in Clients :
       /\ cstate[c] = "queued"
       /\ cstate' = [cstate EXCEPT ![c] = "open"]
       /\ conn' = [conn EXCEPT ![w] = c]
       /\ NextRequest(w, c)
  /\ UNCHANGED <<req, client, taken, continued, answers>>

\* Mutant of ReadFull: the first full buffer is taken for the request.
MutReadOnce(w) ==
  LET c == conn[w]
      n == cursize[w] - curpos[w]
  IN
  /\ pc[w] \in {"read", "more"}
  /\ Available(c) >= n
  /\ taken' = [taken EXCEPT ![c] = @ + n]
  /\ totsize' = [totsize EXCEPT ![w] = @ + n]
  /\ Goto(w, AfterRead(w))
  /\ UNCHANGED <<conn, from, cursize, curpos, req, cstate, client, continued,
                 answers>>

\* Mutant of ReadFull: the buffer is not doubled.
MutReadNoGrowth(w) ==
  LET c == conn[w]
      n == cursize[w] - curpos[w]
  IN
  /\ pc[w] \in {"read", "more"}
  /\ Available(c) >= n
  /\ taken' = [taken EXCEPT ![c] = @ + n]
  /\ totsize' = [totsize EXCEPT ![w] = @ + n]
  /\ curpos' = [curpos EXCEPT ![w] = totsize[w] + n]
  /\ UNCHANGED <<pc, conn, from, cursize, req, cstate, client, continued,
                 answers>>

\* read_all: a read that fills the buffer.  The buffer is doubled and read
\* again, whether or not the request is complete.
ReadFull(w) ==
  LET c == conn[w]
      n == cursize[w] - curpos[w]
  IN
  /\ pc[w] \in {"read", "more"}
  /\ Available(c) >= n
  /\ taken' = [taken EXCEPT ![c] = @ + n]
  /\ totsize' = [totsize EXCEPT ![w] = @ + n]
  /\ curpos' = [curpos EXCEPT ![w] = totsize[w] + n]
  /\ cursize' = [cursize EXCEPT ![w] = 2 * @]
  /\ UNCHANGED <<pc, conn, from, req, cstate, client, continued, answers>>

\* Mutant of ReadShort: only the end of the stream ends the request.
MutReadUntilEnd(w) ==
  LET c == conn[w]
      n == Available(c)
  IN
  /\ pc[w] \in {"read", "more"}
  /\ n > 0
  /\ n < cursize[w] - curpos[w]
  /\ taken' = [taken EXCEPT ![c] = @ + n]
  /\ totsize' = [totsize EXCEPT ![w] = @ + n]
  /\ curpos' = [curpos EXCEPT ![w] = @ + n]
  /\ UNCHANGED <<pc, conn, from, cursize, req, cstate, client, continued,
                 answers>>

\* read_all: a read that comes short ends the request.
ReadShort(w) ==
  LET c == conn[w]
      n == Available(c)
  IN
  /\ pc[w] \in {"read", "more"}
  /\ n > 0
  /\ n < cursize[w] - curpos[w]
  /\ taken' = [taken EXCEPT ![c] = @ + n]
  /\ totsize' = [totsize EXCEPT ![w] = @ + n]
  /\ Goto(w, AfterRead(w))
  /\ UNCHANGED <<conn, from, cursize, curpos, req, cstate, client, continued,
                 answers>>

\* Mutant of ReadEnd: a read of 0 bytes is tried again.
MutReadEndRetries(w) ==
  LET c == conn[w] IN
  /\ pc[w] \in {"read", "more"}
  /\ ended[c] = "fin"
  /\ Available(c) = 0
  /\ UNCHANGED vars

\* read_all: the client has closed its side, read returns 0.
ReadEnd(w) ==
  LET c == conn[w] IN
  /\ pc[w] \in {"read", "more"}
  /\ ended[c] = "fin"
  /\ Available(c) = 0
  /\ Goto(w, AfterRead(w))
  /\ UNCHANGED <<conn, from, buffer, req, cstate, client, taken, continued,
                 answers>>

\* Mutant of ReadFails: the -1 of the read is added to what was read.
MutReadFailCounted(w) ==
  LET c == conn[w] IN
  /\ pc[w] \in {"read", "more"}
  /\ ended[c] = "reset"
  /\ totsize' = [totsize EXCEPT ![w] = @ - 1]
  /\ Goto(w, AfterRead(w))
  /\ UNCHANGED <<conn, from, cursize, curpos, req, cstate, client, taken,
                 continued, answers>>

\* read_all: the client has cancelled, read fails and what was read is lost.
\* (What the kernel still holds may be read before the error is seen.)
\* The first read_all ends the connection, the second is as if no body came.
\* EINTR, which the code lets pass, is none: no signal has a handler here.
ReadFails(w) ==
  LET c == conn[w] IN
  /\ pc[w] \in {"read", "more"}
  /\ ended[c] = "reset"
  /\ IF pc[w] = "read"
     THEN Close(w)
     ELSE Goto(w, "serve") /\ UNCHANGED <<conn, cstate>>
  /\ UNCHANGED <<from, buffer, req, client, taken, continued, answers>>

\* parse_request: nothing was read, so the connection is closed.
ParseNothing(w) ==
  /\ pc[w] = "parse"
  /\ totsize[w] = 0
  /\ Close(w)
  /\ UNCHANGED <<from, buffer, req, client, taken, continued, answers>>

\* parse_request goes on: with an Expect header it writes 100 Continue and
\* reads again, else the request is served.
Parsed(w, k, expect) ==
  LET c == conn[w] IN
  IF expect
  THEN /\ Goto(w, "more")
       /\ continued' = [continued EXCEPT ![c] = k]
       /\ FreshBuffer(w)
  ELSE /\ Goto(w, "serve")
       /\ UNCHANGED <<continued, buffer>>

\* phr_parse_request finds the head of request k as a whole: the buffer starts
\* with it, or with a rest of the request before that passes for the empty line
\* which is skipped there, or for the beginning of the method, which nobody
\* looks at.
HeadFound(w, k) ==
  LET c == conn[w] IN
  /\ \/ from[w] = Begin(c, k)
     \/ k > 1 /\ from[w] \in Begin(c, k - 1) + 1 .. Begin(c, k) - 1
  /\ HeadEnd(c, k) <= from[w] + totsize[w]

\* parse_request: a head was found.  All that follows it in the buffer is post
\* data, and what the second read_all gets is not.
ParseHead(w) ==
  LET c == conn[w] IN
  /\ pc[w] = "parse"
  /\ \E k \in Indices(c) :
       /\ HeadFound(w, k)
       /\ req' = [req EXCEPT ![w] =
                    [k    |-> k,
                     body |-> BodyServed(from[w] + totsize[w] - HeadEnd(c, k),
                                         Script[c][k].body),
                     keep |-> Script[c][k].keep]]
       /\ Parsed(w, k, Script[c][k].expect)
  /\ UNCHANGED <<conn, from, cstate, client, taken, answers>>

\* What was read starts in request k, and is part of its head or starts inside.
\* phr_parse_request says so with a negative number, and the code does not
\* look: it goes on with what the parser had set before it failed.
Fragment(w, k) ==
  LET c == conn[w] IN
  /\ totsize[w] > 0
  /\ from[w] \in Offsets(c, k)
  /\ Begin(c, k) = from[w] => totsize[w] < Script[c][k].head

\* parse_request: the fragment reached as far as a path, or has one by chance.
\* Of the headers in it any may have been found, in a rest of a body there are
\* none.  Where the fragment runs on into the next request they may be that
\* one's (and no later one's: the parser stops behind a head).
\* The answer is to no request that was sent: its number is 0.
ParseFragment(w) ==
  LET c == conn[w] IN
  /\ pc[w] = "parse"
  /\ \E k \in Indices(c) : \E j \in {k, k + 1} \cap Indices(c) :
       LET Reached == Begin(c, j) < from[w] + totsize[w] /\ from[w] < HeadEnd(c, j) IN
       /\ Fragment(w, k)
       /\ \E keep \in {FALSE, Reached /\ Script[c][j].keep},
             expect \in {FALSE, Reached /\ Script[c][j].expect} :
            /\ req' = [req EXCEPT ![w] = [NoRequest EXCEPT !.keep = keep]]
            /\ Parsed(w, j, expect)
  /\ UNCHANGED <<conn, from, cstate, client, taken, answers>>

\* A worker dies, the kernel closes its connection; forkAccepts starts no
\* other in its place.
Die(w) ==
  /\ Goto(w, "dead")
  /\ conn' = [conn EXCEPT ![w] = NoClient]
  /\ cstate' = [c \in Clients |-> IF c = conn[w] THEN "closed" ELSE cstate[c]]
  /\ req' = [req EXCEPT ![w] = NoRequest]
  /\ UNCHANGED <<from, buffer, client, taken, continued, answers>>

\* parse_request: the fragment has no path.  The request is made of an empty
\* one, on which urlpathc::decode reads until it faults (see Request).
ParseNoPath(w) ==
  /\ pc[w] = "parse"
  /\ \E k \in Indices(conn[w]) : Fragment(w, k)
  /\ Die(w)

\* writen: the response is more than the kernel takes and the client does not
\* read it.  write returns only when the client cancels.
WriteBlocks(w) ==
  /\ pc[w] = "serve"
  /\ conn[w] \in Stallers
  /\ ended[conn[w]] # "reset"
  /\ Goto(w, "write")
  /\ UNCHANGED <<conn, from, buffer, req, cstate, client, taken, continued, answers>>

\* The response is out, or cannot be written: SIGPIPE is ignored, and nobody
\* looks at what writen returns.
Written(w) ==
  LET c == conn[w] IN
  /\ pc[w] = "serve" \/ (pc[w] = "write" /\ ended[c] = "reset")
  /\ answers' = IF ended[c] = "reset" THEN answers
                ELSE [answers EXCEPT ![c] =
                        Append(@, [k |-> req[w].k, body |-> req[w].body])]
  /\ req' = [req EXCEPT ![w] = NoRequest]
  /\ UNCHANGED <<client, taken, continued>>

\* Mutant of Serve: every connection is closed after the response.
MutServeCloses(w) ==
  Written(w) /\ Close(w) /\ UNCHANGED <<from, buffer>>

\* lumithc::serve and the end of process.
Serve(w) ==
  /\ Written(w)
  /\ \/ req[w].keep /\ NextRequest(w, conn[w]) /\ UNCHANGED <<conn, cstate>>
     \/ ~req[w].keep /\ Close(w) /\ UNCHANGED <<from, buffer>>

\* A worker dies for a reason that server.c does not show: out of memory, a
\* signal, a fault while it serves (a request for "/" is one: see Request).
Crash(w) == pc[w] # "dead" /\ Die(w)
-----------------------------------------------------------------------------
(***************************************************************************)
(* The clients.                                                            *)
(***************************************************************************)
Connect(c) ==
  /\ cstate[c] = "new"
  /\ cstate' = [cstate EXCEPT ![c] = "queued"]
  /\ UNCHANGED <<pc, conn, from, buffer, req, client, taken, continued, answers>>

\* The client sends the next piece of its stream.
ClientSend(c) ==
  /\ cstate[c] \in {"queued", "open"}
  /\ ended[c] = "no"
  /\ \E o \in Stops(c) : sent' = [sent EXCEPT ![c] = o]
  /\ UNCHANGED <<pc, conn, from, buffer, req, cstate, taken, ended, continued,
                 answers>>

\* The client closes its side, or cancels.
ClientEnd(c) ==
  /\ cstate[c] \in {"queued", "open"}
  /\ \/ ended[c] = "no" /\ ended' = [ended EXCEPT ![c] = "fin"]
     \/ ended[c] # "reset" /\ ended' = [ended EXCEPT ![c] = "reset"]
  /\ UNCHANGED <<pc, conn, from, buffer, req, cstate, sent, taken, continued,
                 answers>>
-----------------------------------------------------------------------------
Init ==
  /\ pc = [w \in Workers |-> "accept"]
  /\ conn = [w \in Workers |-> NoClient]
  /\ from = [w \in Workers |-> 0]
  /\ cursize = [w \in Workers |-> InitialSize]
  /\ curpos = [w \in Workers |-> 0]
  /\ totsize = [w \in Workers |-> 0]
  /\ req = [w \in Workers |-> NoRequest]
  /\ cstate = [c \in Clients |-> "new"]
  /\ sent = [c \in Clients |-> 0]
  /\ taken = [c \in Clients |-> 0]
  /\ ended = [c \in Clients |-> "no"]
  /\ continued = [c \in Clients |-> 0]
  /\ answers = [c \in Clients |-> <<>>]

\* The steps of a worker that need nobody else: accept and read wait.
Worker(w) ==
  \/ Accept(w)
  \/ ReadFull(w) \/ ReadShort(w) \/ ReadEnd(w) \/ ReadFails(w)
  \/ ParseNothing(w) \/ ParseHead(w) \/ ParseFragment(w) \/ ParseNoPath(w)
  \/ WriteBlocks(w) \/ Serve(w)

Client(c) == Connect(c) \/ ClientSend(c) \/ ClientEnd(c)

Next ==
  \/ \E w \in Workers : Worker(w) \/ Crash(w)
  \/ \E c \in Clients : Client(c)

Spec == Init /\ [][Next]_vars

(***************************************************************************)
(* A process that can run is run, and serving a request ends (Lumith:      *)
(* ServiceFairSpec).  No client has to send or to leave.                   *)
(***************************************************************************)
FairSpec == Spec /\ \A w \in Workers : WF_vars(Worker(w))

-----------------------------------------------------------------------------
(***************************************************************************)
(* Properties.                                                             *)
(***************************************************************************)
Reading == {"read", "more"}
Busy == {"read", "parse", "more", "serve", "write"}

\* Clients that send a request in one piece, and then wait for the answer.
Disciplined == Clients \ (Splitters \cup Pipeliners)

\* The type of the state.
TypeOK ==
  /\ pc \in [Workers -> Busy \cup {"accept", "dead"}]
  /\ conn \in [Workers -> Clients \cup {NoClient}]
  /\ from \in [Workers -> Nat]
  /\ cursize \in [Workers -> Nat]
  /\ curpos \in [Workers -> Nat]
  /\ totsize \in [Workers -> Nat]
  /\ req \in [Workers -> [k : Nat, body : {"exact", "short", "extra"},
                          keep : BOOLEAN]]
  /\ cstate \in [Clients -> {"new", "queued", "open", "closed"}]
  /\ sent \in [Clients -> Nat]
  /\ taken \in [Clients -> Nat]
  /\ ended \in [Clients -> {"no", "fin", "reset"}]
  /\ continued \in [Clients -> Nat]
  /\ answers \in [Clients -> Seq([k : Nat, body : {"exact", "short", "extra"}])]

\* A connection is in the hands of exactly one worker from accept to close,
\* and a worker that is not busy holds none: no descriptor is leaked or used
\* after its close, on whichever path process returns (server.c:50-59,
\* 316-339).
OwnedOnce ==
  /\ \A c \in Clients :
       cstate[c] = "open" <=> \E w \in Workers : conn[w] = c
  /\ \A v, w \in Workers : conn[v] = conn[w] /\ conn[v] # NoClient => v = w
  /\ \A w \in Workers : conn[w] # NoClient <=> pc[w] \in Busy

\* A read always has room left in the buffer, so that a 0 from read means
\* that the client is done, and never reaches past the buffer's end; and what
\* is in the first buffer is the stream from where the last request's bytes
\* ended: growing the buffer loses and repeats nothing (server.c:107-124).
ReadSound ==
  /\ \A w \in Workers :
       /\ pc[w] \in Reading => curpos[w] < cursize[w] /\ curpos[w] = totsize[w]
       /\ totsize[w] <= cursize[w]
       /\ pc[w] \in {"read", "parse"} => from[w] + totsize[w] = taken[conn[w]]
  /\ \A c \in Clients : taken[c] <= sent[c]

\* However the stream is cut and however far the client runs ahead, no
\* request is answered twice or after a later one.
AnswersAdvance ==
  \A c \in Clients : \A i, j \in 1..Len(answers[c]) :
     i < j /\ answers[c][i].k # 0 /\ answers[c][j].k # 0 =>
       answers[c][i].k < answers[c][j].k

\* A client that sends each request in one piece and waits for the answer
\* gets the answer to its first request first, and so on, none skipped, even
\* over buffers that had to grow; and each request is served with its body, no
\* more, no less, unless it asked for 100 Continue: then the body is read and
\* not used (server.c:264, 282-290).
AnswersRight ==
  \A c \in Disciplined : \A i \in 1..Len(answers[c]) :
     /\ answers[c][i].k = i
     /\ ~Script[c][i].expect => answers[c][i].body = "exact"

\* keep-alive is kept: as long as such a client is there and the worker
\* lives, the connection is closed only after the answer to a request that
\* did not ask for keep-alive (server.c:331-337).
KeepAliveHonoured ==
  [][\A c \in Disciplined :
       cstate[c] = "open" /\ cstate'[c] = "closed" =>
         \/ ended[c] # "no"
         \/ \E w \in Workers : conn[w] = c /\ pc'[w] = "dead"
         \/ ~Script[c][Len(answers'[c])].keep]_vars

\* A worker has died.
SomeDead == \E w \in Workers : pc[w] = "dead"

\* Once a worker has accepted the connection, a request that is there as a
\* whole is answered, without the client having to send or to close anything.
SentIsAnswered ==
  \A c \in Disciplined \ Stallers : \A k \in Indices(c) :
     (cstate[c] = "open" /\ sent[c] >= End(c)[k])
       ~> (Len(answers[c]) >= k \/ ended[c] = "reset" \/ SomeDead)

\* A connection whose client has left is closed, so its worker is free: it is
\* enough that the client closes its side, or that it cancels if it does not
\* read its responses (server.c:89, 109-110).
LeaversReleased ==
  \A c \in Clients :
     (/\ cstate[c] = "open"
      /\ ended[c] = "reset" \/ (ended[c] = "fin" /\ c \notin Stallers))
       ~> cstate[c] = "closed"
=============================================================================
