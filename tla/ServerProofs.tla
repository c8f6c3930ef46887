---------------------------- MODULE ServerProofs ----------------------------
(***************************************************************************)
(* Theorems of Server for any number of workers and clients, any scripts,  *)
(* any size of the first buffer and any choice of unruly clients, and      *)
(* their proofs.                                                           *)
(***************************************************************************)
EXTENDS Server, Induction

-----------------------------------------------------------------------------
(***************************************************************************)
(* The stream: facts about End, by induction over the script.              *)
(***************************************************************************)
(* The requests of a script have lengths and flags.                        *)
LEMMA ScriptType ==
  ASSUME NEW c \in Clients, NEW k \in Indices(c)
  PROVE  /\ k \in Nat \ {0}
         /\ Script[c][k].head \in Nat \ {0}
         /\ Script[c][k].body \in Nat
         /\ Script[c][k].keep \in BOOLEAN
         /\ Script[c][k].expect \in BOOLEAN
<1>1. Script[c] \in Seq(RequestShape)
  BY ScriptAssumption
<1>2. Script[c][k] \in RequestShape /\ k \in Nat \ {0}
  BY <1>1 DEF Indices
<1>3. QED
  BY <1>2 DEF RequestShape

(* Requests follow one another in the stream.                              *)
LEMMA EndDef ==
  ASSUME NEW c \in Clients
  PROVE  /\ Len(Script[c]) \in Nat
         /\ End(c) \in [0..Len(Script[c]) -> Nat]
         /\ End(c)[0] = 0
         /\ \A k \in Indices(c) :
              End(c)[k] = End(c)[k - 1] + Script[c][k].head + Script[c][k].body
<1> DEFINE N == Len(Script[c])
           size == [k \in 1..N |-> Script[c][k].head + Script[c][k].body]
           step == [x \in Nat \X (1..N) |-> x[1] + size[x[2]]]
           Sum(f) == f[0] = 0 /\ \A k \in 1..N : f[k] = step[<<f[k - 1], k>>]
           Ends(f) == f = [k \in 0..N |-> IF k = 0 THEN 0
                             ELSE f[k - 1] + Script[c][k].head + Script[c][k].body]
<1>1. N \in Nat
  BY ScriptAssumption
<1>2. \A k \in 1..N : Script[c][k].head \in Nat /\ Script[c][k].body \in Nat
  BY ScriptType DEF Indices
<1>3. \A x \in Nat \X (1..N) :
        /\ x[1] \in Nat /\ x[2] \in 1..N
        /\ step[x] = x[1] + Script[c][x[2]].head + Script[c][x[2]].body
  BY <1>2
<1>4. step \in [Nat \X (1..N) -> Nat]
  BY <1>2, <1>3
<1> HIDE DEF step
<1>5. PICK f : f \in [0..N -> Nat] /\ Sum(f)
  <2>1. 0 \in Nat /\ IsStep(step, N, Nat)
    BY <1>4 DEF IsStep
  <2>2. \E f : IsRun(f, 0, step, N, Nat)
    BY <1>1, <2>1, RecursionExists
  <2>3. QED
    BY <2>2 DEF IsRun
<1>6. Ends(f)
  <2>1. ASSUME NEW k \in 0..N
        PROVE  f[k] = IF k = 0 THEN 0
                      ELSE f[k - 1] + Script[c][k].head + Script[c][k].body
    <3>1. CASE k = 0
      BY <1>5, <3>1
    <3>2. CASE k # 0
      <4>1. k \in 1..N /\ k - 1 \in 0..N
        BY <1>1, <3>2
      <4>2. <<f[k - 1], k>> \in Nat \X (1..N) /\ f[k] = step[<<f[k - 1], k>>]
        BY <1>5, <3>2, <4>1
      <4>3. QED
        BY <1>3, <3>2, <4>2
    <3>3. QED
      BY <3>1, <3>2
  <2>2. QED
    BY <1>5, <2>1
<1>7. Ends(End(c))
  <2>1. End(c) = CHOOSE g : Ends(g)
    BY DEF End
  <2> HIDE DEF Ends
  <2>2. QED
    BY <1>6, <2>1
<1>8. \A k \in 0..N : End(c)[k] \in Nat
  <2> DEFINE S == {k \in Nat : k <= N => End(c)[k] \in Nat}
  <2>1. 0 \in S
    BY <1>1, <1>7
  <2>2. ASSUME NEW k \in Nat, k \in S
        PROVE  k + 1 \in S
    <3>1. SUFFICES ASSUME k + 1 <= N
                   PROVE  End(c)[k + 1] \in Nat
      OBVIOUS
    <3>2. k + 1 \in 1..N /\ (k + 1) - 1 = k /\ End(c)[k] \in Nat
      BY <1>1, <2>2, <3>1
    <3>3. End(c)[k + 1] = End(c)[k] + Script[c][k + 1].head + Script[c][k + 1].body
      BY <1>7, <3>2
    <3>4. QED
      BY <1>2, <3>2, <3>3
  <2> HIDE DEF S
  <2>3. Nat \subseteq S
    BY <2>1, <2>2, SetInduction
  <2>4. QED
    BY <1>1, <2>3 DEF S
<1>9. End(c) \in [0..N -> Nat] /\ End(c)[0] = 0
  <2>1. End(c) = [k \in 0..N |-> End(c)[k]]
    BY <1>7
  <2>2. End(c) \in [0..N -> Nat]
    <3> HIDE DEF Ends
    <3>1. QED
      BY <1>8, <2>1
  <2>3. QED
    BY <1>1, <1>7, <2>2
<1>10. ASSUME NEW k \in Indices(c)
       PROVE  End(c)[k] = End(c)[k - 1] + Script[c][k].head + Script[c][k].body
  BY <1>1, <1>7, <1>10 DEF Indices
<1>11. QED
  BY <1>1, <1>9, <1>10

(* A later request ends behind an earlier one.                             *)
LEMMA EndIncreases ==
  ASSUME NEW c \in Clients
  PROVE  \A j, k \in 0..Len(Script[c]) : j < k => End(c)[j] < End(c)[k]
<1> DEFINE N == Len(Script[c])
           S == {k \in Nat : k <= N => \A j \in 0..N : j < k => End(c)[j] < End(c)[k]}
<1>1. N \in Nat /\ \A k \in 0..N : End(c)[k] \in Nat
  BY EndDef
<1>2. 0 \in S
  BY <1>1
<1>3. ASSUME NEW k \in Nat, k \in S
      PROVE  k + 1 \in S
  <2>1. SUFFICES ASSUME k + 1 <= N, NEW j \in 0..N, j < k + 1
                 PROVE  End(c)[j] < End(c)[k + 1]
    OBVIOUS
  <2>2. k + 1 \in Indices(c) /\ (k + 1) - 1 = k
    BY <1>1, <2>1 DEF Indices
  <2>3. End(c)[k + 1] = End(c)[k] + Script[c][k + 1].head + Script[c][k + 1].body
    BY <2>2, EndDef
  <2>4. Script[c][k + 1].head \in Nat \ {0} /\ Script[c][k + 1].body \in Nat
    BY <2>2, ScriptType
  <2>5. k \in 0..N /\ (j = k \/ End(c)[j] < End(c)[k])
    BY <1>1, <1>3, <2>1
  <2>6. QED
    BY <1>1, <2>3, <2>4, <2>5
<1> HIDE DEF S
<1>4. Nat \subseteq S
  BY <1>2, <1>3, SetInduction
<1>5. QED
  BY <1>1, <1>4 DEF S

(* A request begins where the one before it ends, and lies in front of its *)
(* own end.                                                                *)
LEMMA Places ==
  ASSUME NEW c \in Clients, NEW k \in Indices(c)
  PROVE  /\ k \in 1..Len(Script[c]) /\ k - 1 \in 0..Len(Script[c])
         /\ Begin(c, k) \in Nat /\ HeadEnd(c, k) \in Nat /\ End(c)[k] \in Nat
         /\ Begin(c, k) = End(c)[k - 1]
         /\ HeadEnd(c, k) = Begin(c, k) + Script[c][k].head
         /\ End(c)[k] = HeadEnd(c, k) + Script[c][k].body
         /\ Begin(c, k) < HeadEnd(c, k) /\ HeadEnd(c, k) <= End(c)[k]
<1>1. /\ k \in 1..Len(Script[c]) /\ k - 1 \in 0..Len(Script[c]) /\ k \in 0..Len(Script[c])
  BY EndDef DEF Indices
<1>2. /\ End(c)[k - 1] \in Nat /\ End(c)[k] \in Nat
      /\ End(c)[k] = End(c)[k - 1] + Script[c][k].head + Script[c][k].body
  BY <1>1, EndDef
<1>3. Script[c][k].head \in Nat \ {0} /\ Script[c][k].body \in Nat
  BY ScriptType
<1>4. QED
  BY <1>1, <1>2, <1>3 DEF Begin, HeadEnd

(* Requests that begin earlier are earlier ones.                           *)
LEMMA BeginOrder ==
  ASSUME NEW c \in Clients, NEW j \in Indices(c), NEW k \in Indices(c)
  PROVE  /\ Begin(c, j) < Begin(c, k) => j < k
         /\ Begin(c, j) = Begin(c, k) => j = k
<1>1. /\ j \in Nat /\ k \in Nat
      /\ j - 1 \in 0..Len(Script[c]) /\ k - 1 \in 0..Len(Script[c])
      /\ Begin(c, j) \in Nat /\ Begin(c, k) \in Nat
  BY Places DEF Indices
<1>2. (k < j => Begin(c, k) < Begin(c, j)) /\ (j < k => Begin(c, j) < Begin(c, k))
  BY <1>1, EndIncreases DEF Begin
<1>3. QED
  BY <1>1, <1>2

-----------------------------------------------------------------------------
(***************************************************************************)
(* Types.                                                                  *)
(***************************************************************************)
Bodies == {"exact", "short", "extra"}

(* What is served with a request is one of three.                          *)
LEMMA BodyServedType ==
  \A leftover \in Int, body \in Int : BodyServed(leftover, body) \in Bodies
  BY DEF BodyServed, Bodies

(* TypeOK is not inductive: what a read takes is typed because there is    *)
(* room for it, and because a worker that reads has a connection.          *)
HasConn == \A w \in Workers : conn[w] # NoClient <=> pc[w] \in Busy

Room ==
  \A w \in Workers :
     /\ pc[w] \in Reading => curpos[w] < cursize[w] /\ curpos[w] = totsize[w]
     /\ totsize[w] <= cursize[w]

TypeInv == TypeOK /\ HasConn /\ Room

LEMMA InitTypeInv == Init => TypeInv
  BY SizeAssumption
  DEF Init, TypeInv, TypeOK, HasConn, Room, Busy, Reading, NoRequest

(* A worker that is busy has a client's connection.                        *)
LEMMA BusyConn ==
  ASSUME TypeInv, NEW w \in Workers, pc[w] \in Busy
  PROVE  conn[w] \in Clients
  BY DEF TypeInv, TypeOK, HasConn

(* parse_request keeps the types, as far as the request does that it goes  *)
(* on with.                                                                *)
LEMMA ParsedTypeInv ==
  ASSUME TypeInv, NEW w \in Workers, pc[w] = "parse",
         NEW k \in Nat, NEW expect \in BOOLEAN, Parsed(w, k, expect),
         req' \in [Workers -> [k : Nat, body : Bodies, keep : BOOLEAN]],
         UNCHANGED <<conn, from, cstate, client, taken, answers>>
  PROVE  TypeInv'
<1> USE SizeAssumption DEF Goto, buffer, client
<1>1. CASE expect
  <2>1. /\ pc' = [pc EXCEPT ![w] = "more"]
        /\ continued' = [continued EXCEPT ![conn[w]] = k]
        /\ FreshBuffer(w)
    BY <1>1 DEF Parsed
  <2>2. conn[w] \in Clients
    BY BusyConn DEF Busy
  <2>3. TypeOK'
    BY <2>1, <2>2 DEF TypeInv, TypeOK, Busy, Bodies, FreshBuffer
  <2>4. HasConn'
    BY <2>1 DEF TypeInv, TypeOK, HasConn, Busy
  <2>5. Room'
    BY <2>1 DEF TypeInv, TypeOK, Room, Reading, FreshBuffer
  <2>6. QED
    BY <2>3, <2>4, <2>5 DEF TypeInv
<1>2. CASE ~expect
  <2>1. TypeOK'
    BY <1>2 DEF TypeInv, TypeOK, Busy, Bodies, Parsed
  <2>2. HasConn'
    BY <1>2 DEF TypeInv, TypeOK, HasConn, Busy, Parsed
  <2>3. Room'
    BY <1>2 DEF TypeInv, TypeOK, Room, Reading, Parsed
  <2>4. QED
    BY <2>1, <2>2, <2>3 DEF TypeInv
<1>3. QED
  BY <1>1, <1>2

(* Every step keeps the types.                                             *)
LEMMA NextTypeInv == TypeInv /\ [Next]_vars => TypeInv'
<1> USE SizeAssumption DEF Goto, buffer, client
<1> SUFFICES ASSUME TypeInv, [Next]_vars
             PROVE  TypeInv'
  OBVIOUS
<1>a. NoRequest \in [k : Nat, body : Bodies, keep : BOOLEAN]
  BY DEF NoRequest, Bodies
<1>b. NoClient \notin Clients
  BY NoClientAssumption
<1>1. ASSUME NEW w \in Workers, Accept(w)
      PROVE  TypeInv'
  <2>1. TypeOK'
    <3>1. PICK c \in Clients :
            /\ pc' = [pc EXCEPT ![w] = "read"]
            /\ conn' = [conn EXCEPT ![w] = c]
            /\ from' = [from EXCEPT ![w] = taken[c]]
            /\ cstate' = [cstate EXCEPT ![c] = "open"]
      BY <1>1 DEF Accept, NextRequest
    <3>2. /\ cursize' = [cursize EXCEPT ![w] = InitialSize]
          /\ curpos' = [curpos EXCEPT ![w] = 0]
          /\ totsize' = [totsize EXCEPT ![w] = 0]
          /\ UNCHANGED <<req, sent, ended, taken, continued, answers>>
      BY <1>1 DEF Accept, NextRequest, FreshBuffer
    <3>3. QED
      BY <3>1, <3>2 DEF TypeInv, TypeOK, Busy
  <2>2. HasConn'
    BY <1>1, <1>b, <2>1 DEF TypeInv, TypeOK, HasConn, Busy, Accept, NextRequest, FreshBuffer
  <2>3. Room'
    BY <1>1, <1>b, <2>1 DEF TypeInv, TypeOK, Room, Reading, Accept, NextRequest, FreshBuffer
  <2>4. QED
    BY <2>1, <2>2, <2>3 DEF TypeInv
<1>2. ASSUME NEW w \in Workers, ReadFull(w)
      PROVE  TypeInv'
  <2>1. conn[w] \in Clients
    BY <1>2, BusyConn DEF ReadFull, Busy
  <2>2. cursize[w] - curpos[w] \in Nat /\ curpos[w] = totsize[w]
    BY <1>2 DEF TypeInv, TypeOK, Room, Reading, ReadFull
  <2>3. /\ taken' \in [Clients -> Nat]
        /\ totsize' \in [Workers -> Nat]
        /\ curpos' \in [Workers -> Nat]
        /\ cursize' \in [Workers -> Nat]
    <3> DEFINE n == cursize[w] - curpos[w]
    <3>1. /\ taken \in [Clients -> Nat] /\ totsize \in [Workers -> Nat]
          /\ curpos \in [Workers -> Nat] /\ cursize \in [Workers -> Nat]
          /\ n \in Nat
      BY <2>2 DEF TypeInv, TypeOK
    <3>2. /\ taken' = [taken EXCEPT ![conn[w]] = @ + n]
          /\ totsize' = [totsize EXCEPT ![w] = @ + n]
          /\ curpos' = [curpos EXCEPT ![w] = totsize[w] + n]
          /\ cursize' = [cursize EXCEPT ![w] = 2 * @]
      BY <1>2 DEF ReadFull
    <3> HIDE DEF n
    <3>3. QED
      BY <2>1, <3>1, <3>2
  <2>4. TypeOK'
    BY <1>2, <2>3 DEF TypeInv, TypeOK, ReadFull
  <2>5. HasConn'
    BY <1>2 DEF TypeInv, TypeOK, HasConn, ReadFull
  <2>6. Room'
    <3>1. curpos'[w] = cursize[w] /\ totsize'[w] = cursize[w] /\ cursize'[w] = 2 * cursize[w]
      BY <1>2, <2>2 DEF TypeInv, TypeOK, ReadFull
    <3>2. cursize[w] \in Nat /\ curpos[w] < cursize[w] /\ curpos[w] \in Nat
      BY <1>2 DEF TypeInv, TypeOK, Room, Reading, ReadFull
    <3>3. \A v \in Workers \ {w} :
            /\ pc'[v] = pc[v] /\ curpos'[v] = curpos[v]
            /\ totsize'[v] = totsize[v] /\ cursize'[v] = cursize[v]
      BY <1>2 DEF TypeInv, TypeOK, ReadFull
    <3>4. QED
      BY <3>1, <3>2, <3>3 DEF TypeInv, Room
  <2>7. QED
    BY <2>4, <2>5, <2>6 DEF TypeInv
<1>3. ASSUME NEW w \in Workers, ReadShort(w)
      PROVE  TypeInv'
  <2>1. conn[w] \in Clients
    BY <1>3, BusyConn DEF ReadShort, Busy
  <2>2. Available(conn[w]) \in Nat
    BY <1>3, <2>1 DEF TypeInv, TypeOK, Available, ReadShort
  <2>3. taken' \in [Clients -> Nat] /\ totsize' \in [Workers -> Nat]
    BY <1>3, <2>1, <2>2 DEF TypeInv, TypeOK, ReadShort
  <2>4. TypeOK'
    BY <1>3, <2>3 DEF TypeInv, TypeOK, Busy, ReadShort, AfterRead
  <2>5. HasConn'
    BY <1>3 DEF TypeInv, TypeOK, HasConn, Busy, ReadShort, AfterRead
  <2>6. Room'
    BY <1>3, <2>2, <2>4 DEF TypeInv, TypeOK, Room, Reading, ReadShort, AfterRead
  <2>7. QED
    BY <2>4, <2>5, <2>6 DEF TypeInv
<1>4. ASSUME NEW w \in Workers, ReadEnd(w)
      PROVE  TypeInv'
  <2>1. conn[w] \in Clients
    BY <1>4, BusyConn DEF ReadEnd, Busy
  <2>2. TypeOK'
    BY <1>4, <2>1 DEF TypeInv, TypeOK, Room, Reading, Busy, Bodies, ReadEnd, AfterRead
  <2>3. HasConn'
    BY <1>4, <2>1, <2>2 DEF TypeInv, TypeOK, HasConn, Busy, ReadEnd, AfterRead
  <2>4. Room'
    BY <1>4, <2>1, <2>2 DEF TypeInv, TypeOK, Room, Reading, ReadEnd, AfterRead
  <2>5. QED
    BY <2>2, <2>3, <2>4 DEF TypeInv
<1>5. ASSUME NEW w \in Workers, ReadFails(w)
      PROVE  TypeInv'
  <2>1. conn[w] \in Clients
    BY <1>5, BusyConn DEF ReadFails, Busy
  <2>2. TypeOK'
    BY <1>5, <2>1 DEF TypeInv, TypeOK, Busy, ReadFails, Close
  <2>3. CASE pc[w] = "read"
    <3>1. Close(w)
      BY <1>5, <2>3 DEF ReadFails
    <3>2. HasConn'
      BY <3>1 DEF TypeInv, TypeOK, HasConn, Busy, Close
    <3>3. Room'
      BY <1>5, <3>1 DEF TypeInv, TypeOK, Room, Reading, ReadFails, Close
    <3>4. QED
      BY <2>2, <3>2, <3>3 DEF TypeInv
  <2>4. CASE pc[w] # "read"
    <3>1. Goto(w, "serve") /\ UNCHANGED conn /\ pc[w] \in Busy
      BY <1>5, <2>4 DEF ReadFails, Busy
    <3>2. HasConn'
      BY <3>1 DEF TypeInv, TypeOK, HasConn, Busy
    <3>3. Room'
      BY <1>5, <3>1 DEF TypeInv, TypeOK, Room, Reading, ReadFails
    <3>4. QED
      BY <2>2, <3>2, <3>3 DEF TypeInv
  <2>5. QED
    BY <2>3, <2>4
<1>6. ASSUME NEW w \in Workers, ParseNothing(w)
      PROVE  TypeInv'
  <2>1. conn[w] \in Clients
    BY <1>6, BusyConn DEF ParseNothing, Busy
  <2>2. TypeOK'
    BY <1>6, <2>1 DEF TypeInv, TypeOK, Room, Reading, Busy, Bodies, ParseNothing, Close
  <2>3. HasConn'
    BY <1>6, <2>1, <2>2 DEF TypeInv, TypeOK, HasConn, Busy, ParseNothing, Close
  <2>4. Room'
    BY <1>6, <2>1, <2>2 DEF TypeInv, TypeOK, Room, Reading, ParseNothing, Close
  <2>5. QED
    BY <2>2, <2>3, <2>4 DEF TypeInv
<1>7. ASSUME NEW w \in Workers, ParseHead(w)
      PROVE  TypeInv'
  <2>1. conn[w] \in Clients
    BY <1>7, BusyConn DEF ParseHead, Busy
  <2>2. PICK k \in Indices(conn[w]) :
          LET script == Script[conn[w]][k] IN
          /\ req' = [req EXCEPT ![w] =
                       [k    |-> k,
                        body |-> BodyServed(from[w] + totsize[w] - HeadEnd(conn[w], k),
                                            script.body),
                        keep |-> script.keep]]
          /\ Parsed(w, k, script.expect)
    BY <1>7 DEF ParseHead
  <2>3. req' \in [Workers -> [k : Nat, body : Bodies, keep : BOOLEAN]]
    <3>1. /\ k \in Nat
          /\ HeadEnd(conn[w], k) \in Int /\ Script[conn[w]][k].body \in Int
          /\ Script[conn[w]][k].keep \in BOOLEAN
      BY <2>1, ScriptType, Places
    <3>2. from[w] + totsize[w] - HeadEnd(conn[w], k) \in Int
      BY <3>1 DEF TypeInv, TypeOK
    <3>3. BodyServed(from[w] + totsize[w] - HeadEnd(conn[w], k),
                     Script[conn[w]][k].body) \in Bodies
      BY <3>1, <3>2, BodyServedType
    <3>4. QED
      BY <2>2, <3>1, <3>3 DEF TypeInv, TypeOK, Bodies
  <2>4. QED
    BY <1>7, <2>1, <2>2, <2>3, ScriptType, ParsedTypeInv DEF ParseHead
<1>8. ASSUME NEW w \in Workers, ParseFragment(w)
      PROVE  TypeInv'
  <2>1. conn[w] \in Clients /\ pc[w] = "parse"
    BY <1>8, BusyConn DEF ParseFragment, Busy
  <2>2. PICK j \in Indices(conn[w]), keep \in BOOLEAN, expect \in BOOLEAN :
          /\ req' = [req EXCEPT ![w] = [NoRequest EXCEPT !.keep = keep]]
          /\ Parsed(w, j, expect)
    BY <1>8 DEF ParseFragment
  <2>3. req' \in [Workers -> [k : Nat, body : Bodies, keep : BOOLEAN]]
    BY <2>2 DEF TypeInv, TypeOK, Bodies, NoRequest
  <2>4. QED
    BY <1>8, <2>1, <2>2, <2>3, ScriptType, ParsedTypeInv DEF ParseFragment
<1>9. ASSUME NEW w \in Workers, ParseNoPath(w)
      PROVE  TypeInv'
  <2>1. TypeOK'
    BY <1>9, <1>a DEF TypeInv, TypeOK, Room, Reading, Busy, Bodies, ParseNoPath, Die
  <2>2. HasConn'
    BY <1>9, <1>a, <2>1 DEF TypeInv, TypeOK, HasConn, Busy, ParseNoPath, Die
  <2>3. Room'
    BY <1>9, <1>a, <2>1 DEF TypeInv, TypeOK, Room, Reading, ParseNoPath, Die
  <2>4. QED
    BY <2>1, <2>2, <2>3 DEF TypeInv
<1>10. ASSUME NEW w \in Workers, Crash(w)
      PROVE  TypeInv'
  <2>1. TypeOK'
    BY <1>10, <1>a DEF TypeInv, TypeOK, Room, Reading, Busy, Bodies, Crash, Die
  <2>2. HasConn'
    BY <1>10, <1>a, <2>1 DEF TypeInv, TypeOK, HasConn, Busy, Crash, Die
  <2>3. Room'
    BY <1>10, <1>a, <2>1 DEF TypeInv, TypeOK, Room, Reading, Crash, Die
  <2>4. QED
    BY <2>1, <2>2, <2>3 DEF TypeInv
<1>11. ASSUME NEW w \in Workers, WriteBlocks(w)
      PROVE  TypeInv'
  <2>1. conn[w] \in Clients
    BY <1>11, BusyConn DEF WriteBlocks, Busy
  <2>2. TypeOK'
    BY <1>11, <2>1 DEF TypeInv, TypeOK, Room, Reading, Busy, Bodies, WriteBlocks
  <2>3. HasConn'
    BY <1>11, <2>1, <2>2 DEF TypeInv, TypeOK, HasConn, Busy, WriteBlocks
  <2>4. Room'
    BY <1>11, <2>1, <2>2 DEF TypeInv, TypeOK, Room, Reading, WriteBlocks
  <2>5. QED
    BY <2>2, <2>3, <2>4 DEF TypeInv
<1>12. ASSUME NEW w \in Workers, Serve(w)
       PROVE  TypeInv'
  <2>1. conn[w] \in Clients /\ pc[w] \in Busy
    BY <1>12, BusyConn DEF Serve, Written, Busy
  <2>2. req[w].k \in Nat /\ req[w].body \in Bodies
    BY DEF TypeInv, TypeOK, Bodies
  <2>3. answers' \in [Clients -> Seq([k : Nat, body : Bodies])]
    BY <1>12, <2>1, <2>2 DEF TypeInv, TypeOK, Bodies, Serve, Written
  <2>4. req' \in [Workers -> [k : Nat, body : Bodies, keep : BOOLEAN]]
    BY <1>12, <1>a DEF TypeInv, TypeOK, Bodies, Serve, Written
  <2>5. CASE NextRequest(w, conn[w]) /\ UNCHANGED <<conn, cstate>>
    <3>1. TypeOK'
      BY <1>12, <2>1, <2>3, <2>4, <2>5
      DEF TypeInv, TypeOK, Bodies, Busy, Serve, Written, NextRequest, FreshBuffer
    <3>2. HasConn'
      BY <2>1, <2>5 DEF TypeInv, TypeOK, HasConn, Busy, NextRequest
    <3>3. Room'
      BY <2>5 DEF TypeInv, TypeOK, Room, Reading, NextRequest, FreshBuffer
    <3>4. QED
      BY <3>1, <3>2, <3>3 DEF TypeInv
  <2>6. CASE Close(w) /\ UNCHANGED <<from, buffer>>
    <3>1. TypeOK'
      BY <1>12, <2>1, <2>3, <2>4, <2>6
      DEF TypeInv, TypeOK, Bodies, Busy, Serve, Written, Close
    <3>2. HasConn'
      BY <2>6 DEF TypeInv, TypeOK, HasConn, Busy, Close
    <3>3. Room'
      BY <2>6 DEF TypeInv, TypeOK, Room, Reading, Close
    <3>4. QED
      BY <3>1, <3>2, <3>3 DEF TypeInv
  <2>7. QED
    BY <1>12, <2>5, <2>6 DEF Serve
<1>13. ASSUME NEW c \in Clients, Connect(c)
      PROVE  TypeInv'
  <2>1. TypeOK'
    BY <1>13 DEF TypeInv, TypeOK, Room, Reading, Busy, Bodies, Connect
  <2>2. HasConn'
    BY <1>13, <2>1 DEF TypeInv, TypeOK, HasConn, Busy, Connect
  <2>3. Room'
    BY <1>13, <2>1 DEF TypeInv, TypeOK, Room, Reading, Connect
  <2>4. QED
    BY <2>1, <2>2, <2>3 DEF TypeInv
<1>14. ASSUME NEW c \in Clients, ClientSend(c)
      PROVE  TypeInv'
  <2>1. TypeOK'
    BY <1>14 DEF TypeInv, TypeOK, Room, Reading, Busy, Bodies, ClientSend, Stops
  <2>2. HasConn'
    BY <1>14, <2>1 DEF TypeInv, TypeOK, HasConn, Busy, ClientSend, Stops
  <2>3. Room'
    BY <1>14, <2>1 DEF TypeInv, TypeOK, Room, Reading, ClientSend, Stops
  <2>4. QED
    BY <2>1, <2>2, <2>3 DEF TypeInv
<1>15. ASSUME NEW c \in Clients, ClientEnd(c)
      PROVE  TypeInv'
  <2>1. TypeOK'
    BY <1>15 DEF TypeInv, TypeOK, Room, Reading, Busy, Bodies, ClientEnd
  <2>2. HasConn'
    BY <1>15, <2>1 DEF TypeInv, TypeOK, HasConn, Busy, ClientEnd
  <2>3. Room'
    BY <1>15, <2>1 DEF TypeInv, TypeOK, Room, Reading, ClientEnd
  <2>4. QED
    BY <2>1, <2>2, <2>3 DEF TypeInv
<1>16. CASE UNCHANGED vars
  BY <1>16 DEF TypeInv, TypeOK, HasConn, Room, vars
<1>17. QED
  BY <1>1, <1>2, <1>3, <1>4, <1>5, <1>6, <1>7, <1>8, <1>9, <1>10, <1>11, <1>12,
     <1>13, <1>14, <1>15, <1>16
  DEF Next, Worker, Client

(* The state always has the types of TypeOK.                               *)
THEOREM TypeCorrect == Spec => []TypeOK
  BY InitTypeInv, NextTypeInv, PTL DEF Spec, TypeInv

-----------------------------------------------------------------------------
(***************************************************************************)
(* Ownership.                                                              *)
(***************************************************************************)
(* A connection is open as long as one worker has it.                      *)
OpenIsHeld ==
  \A c \in Clients : cstate[c] = "open" <=> \E w \in Workers : conn[w] = c

OneHolder ==
  \A v, w \in Workers : conn[v] = conn[w] /\ conn[v] # NoClient => v = w

Ownership == OpenIsHeld /\ OneHolder

(* A worker that lets go of its connection closes it, and no other.        *)
LEMMA ReleaseOwnership ==
  ASSUME TypeInv, Ownership, NEW w \in Workers,
         conn' = [conn EXCEPT ![w] = NoClient],
         cstate' = [c \in Clients |-> IF c = conn[w] THEN "closed" ELSE cstate[c]]
  PROVE  Ownership'
<1>1. conn'[w] = NoClient /\ \A v \in Workers \ {w} : conn'[v] = conn[v]
  BY DEF TypeInv, TypeOK
<1>2. OneHolder'
  BY <1>1 DEF Ownership, OneHolder
<1>3. ASSUME NEW c \in Clients
      PROVE  (cstate'[c] = "open") <=> \E v \in Workers : conn'[v] = c
  <2>1. CASE c = conn[w]
    <3>1. cstate'[c] = "closed"
      BY <2>1
    <3>2. \A v \in Workers : conn'[v] # c
      BY <1>1, <2>1, NoClientAssumption DEF Ownership, OneHolder
    <3>3. QED
      BY <3>1, <3>2
  <2>2. CASE c # conn[w]
    <3>1. cstate'[c] = cstate[c]
      BY <2>2
    <3>2. (\E v \in Workers : conn'[v] = c) <=> \E v \in Workers : conn[v] = c
      BY <1>1, <2>2, NoClientAssumption
    <3>3. QED
      BY <3>1, <3>2 DEF Ownership, OpenIsHeld
  <2>3. QED
    BY <2>1, <2>2
<1>4. OpenIsHeld'
  BY <1>3 DEF OpenIsHeld
<1>5. QED
  BY <1>2, <1>4 DEF Ownership

LEMMA CloseOwnership ==
  ASSUME TypeInv, Ownership, NEW w \in Workers, conn[w] \in Clients, Close(w)
  PROVE  Ownership'
<1>1. cstate' = [c \in Clients |-> IF c = conn[w] THEN "closed" ELSE cstate[c]]
  BY DEF TypeInv, TypeOK, Close
<1>2. QED
  BY <1>1, ReleaseOwnership DEF Close

(* Every step keeps the ownership.                                         *)
LEMMA NextOwnership ==
  ASSUME TypeInv, Ownership, [Next]_vars
  PROVE  Ownership'
<1> USE DEF Goto, buffer, client
<1>a. ASSUME UNCHANGED <<conn, cstate>>
      PROVE  Ownership'
  BY <1>a DEF Ownership, OpenIsHeld, OneHolder
<1>1. ASSUME NEW w \in Workers, Accept(w)
      PROVE  Ownership'
  <2>1. PICK c \in Clients :
          /\ cstate[c] = "queued"
          /\ cstate' = [cstate EXCEPT ![c] = "open"]
          /\ conn' = [conn EXCEPT ![w] = c]
    BY <1>1 DEF Accept
  <2>2. conn[w] = NoClient /\ \A v \in Workers : conn[v] # c
    BY <1>1, <2>1 DEF Accept, TypeInv, HasConn, Busy, Ownership, OpenIsHeld
  <2>3. /\ conn'[w] = c /\ cstate'[c] = "open"
        /\ \A v \in Workers \ {w} : conn'[v] = conn[v]
        /\ \A d \in Clients \ {c} : cstate'[d] = cstate[d]
    BY <2>1 DEF TypeInv, TypeOK
  <2>4. OneHolder'
    BY <2>2, <2>3 DEF Ownership, OneHolder
  <2>5. OpenIsHeld'
    <3>1. ASSUME NEW d \in Clients \ {c}
          PROVE  (\E v \in Workers : conn'[v] = d) <=> \E v \in Workers : conn[v] = d
      BY <2>2, <2>3, NoClientAssumption
    <3>2. QED
      BY <2>3, <3>1 DEF Ownership, OpenIsHeld
  <2>6. QED
    BY <2>4, <2>5 DEF Ownership
<1>2. ASSUME NEW w \in Workers, ReadFull(w) \/ ReadShort(w) \/ ReadEnd(w)
      PROVE  Ownership'
  BY <1>2, <1>a DEF ReadFull, ReadShort, ReadEnd
<1>3. ASSUME NEW w \in Workers, ReadFails(w)
      PROVE  Ownership'
  <2>1. conn[w] \in Clients
    BY <1>3, BusyConn DEF ReadFails, Busy
  <2>2. QED
    BY <1>3, <1>a, <2>1, CloseOwnership DEF ReadFails
<1>4. ASSUME NEW w \in Workers, ParseNothing(w)
      PROVE  Ownership'
  <2>1. conn[w] \in Clients
    BY <1>4, BusyConn DEF ParseNothing, Busy
  <2>2. QED
    BY <1>4, <2>1, CloseOwnership DEF ParseNothing
<1>5. ASSUME NEW w \in Workers, ParseHead(w) \/ ParseFragment(w) \/ WriteBlocks(w)
      PROVE  Ownership'
  BY <1>5, <1>a DEF ParseHead, ParseFragment, WriteBlocks
<1>6. ASSUME NEW w \in Workers, ParseNoPath(w) \/ Crash(w)
      PROVE  Ownership'
  BY <1>6, ReleaseOwnership DEF ParseNoPath, Crash, Die
<1>7. ASSUME NEW w \in Workers, Serve(w)
      PROVE  Ownership'
  <2>1. conn[w] \in Clients
    BY <1>7, BusyConn DEF Serve, Written, Busy
  <2>2. QED
    BY <1>7, <1>a, <2>1, CloseOwnership DEF Serve
<1>8. ASSUME NEW c \in Clients, Connect(c)
      PROVE  Ownership'
  <2>1. conn' = conn /\ \A d \in Clients : cstate'[d] = "open" <=> cstate[d] = "open"
    BY <1>8 DEF TypeInv, TypeOK, Connect
  <2>2. QED
    BY <2>1 DEF Ownership, OpenIsHeld, OneHolder
<1>9. ASSUME NEW c \in Clients, ClientSend(c) \/ ClientEnd(c)
      PROVE  Ownership'
  BY <1>9, <1>a DEF ClientSend, ClientEnd
<1>10. CASE UNCHANGED vars
  BY <1>10, <1>a DEF vars
<1>11. QED
  BY <1>1, <1>2, <1>3, <1>4, <1>5, <1>6, <1>7, <1>8, <1>9, <1>10
  DEF Next, Worker, Client

(* No descriptor is leaked, used after its close or shared: a connection   *)
(* is open exactly while one worker, and no other, has it in hand.         *)
THEOREM Owned == Spec => []OwnedOnce
<1>1. Init => TypeInv /\ Ownership
  BY InitTypeInv, NoClientAssumption DEF Init, Ownership, OpenIsHeld, OneHolder
<1>2. TypeInv /\ Ownership /\ [Next]_vars => TypeInv' /\ Ownership'
  BY NextTypeInv, NextOwnership
<1>3. TypeInv /\ Ownership => OwnedOnce
  BY DEF TypeInv, HasConn, Ownership, OpenIsHeld, OneHolder, OwnedOnce
<1>4. QED
  BY <1>1, <1>2, <1>3, PTL DEF Spec

-----------------------------------------------------------------------------
(***************************************************************************)
(* The stream.                                                             *)
(***************************************************************************)
(* The first buffer of a request holds the stream from where the request   *)
(* begins to where the server has read.                                    *)
BufferIsStream ==
  \A w \in Workers :
     pc[w] \in {"read", "parse"} => from[w] + totsize[w] = taken[conn[w]]

NothingInvented == \A c \in Clients : taken[c] <= sent[c]

Stream == BufferIsStream /\ NothingInvented

(* What parse_request goes on with is not the first read, and other        *)
(* workers' buffers are left alone.                                        *)
LEMMA ParsedFrame ==
  ASSUME TypeOK, NEW w \in Workers, NEW k, NEW expect, Parsed(w, k, expect)
  PROVE  /\ pc'[w] \notin {"read", "parse"}
         /\ \A v \in Workers \ {w} : pc'[v] = pc[v] /\ totsize'[v] = totsize[v]
<1>1. CASE expect
  BY <1>1 DEF TypeOK, Parsed, FreshBuffer, Goto
<1>2. CASE ~expect
  BY <1>2 DEF TypeOK, Parsed, buffer, Goto
<1>3. QED
  BY <1>1, <1>2

(* A step of worker w that takes nothing from other connections leaves     *)
(* what the other workers have in their buffers as it was.                 *)
LEMMA OtherBuffers ==
  ASSUME TypeInv, Ownership, BufferIsStream, NEW w \in Workers,
         \A v \in Workers \ {w} :
            /\ pc'[v] = pc[v] /\ conn'[v] = conn[v]
            /\ from'[v] = from[v] /\ totsize'[v] = totsize[v],
         \A c \in Clients \ {conn[w]} : taken'[c] = taken[c],
         pc'[w] \in {"read", "parse"} => from'[w] + totsize'[w] = taken'[conn'[w]]
  PROVE  BufferIsStream'
<1>1. ASSUME NEW v \in Workers \ {w}, pc[v] \in {"read", "parse"}
      PROVE  from'[v] + totsize'[v] = taken'[conn'[v]]
  <2>1. conn[v] \in Clients /\ conn[v] # conn[w]
    BY <1>1, BusyConn, NoClientAssumption DEF Busy, Ownership, OneHolder
  <2>2. QED
    BY <1>1, <2>1 DEF BufferIsStream
<1>2. QED
  BY <1>1 DEF BufferIsStream

(* Every step keeps the stream.                                            *)
LEMMA NextStream ==
  ASSUME TypeInv, TypeInv', Ownership, Stream, [Next]_vars
  PROVE  Stream'
<1> USE DEF Goto, buffer, client
<1> USE DEF Stream
<1>a. TypeOK /\ TypeOK'
  BY DEF TypeInv
<1>b. ASSUME UNCHANGED <<taken, sent>>
      PROVE  NothingInvented'
  BY <1>b DEF NothingInvented
<1>1. ASSUME NEW w \in Workers, Accept(w)
      PROVE  Stream'
  <2>1. PICK c \in Clients : conn' = [conn EXCEPT ![w] = c] /\ NextRequest(w, c)
    BY <1>1 DEF Accept
  <2>2. taken[c] \in Nat
    BY <1>a DEF TypeOK
  <2>3. BufferIsStream'
    BY <1>a, <1>1, <2>1, <2>2, OtherBuffers DEF TypeOK, Accept, NextRequest, FreshBuffer
  <2>4. QED
    BY <1>b, <1>1, <2>3 DEF Accept
<1>2. ASSUME NEW w \in Workers, ReadFull(w)
      PROVE  Stream'
  <2> DEFINE n == cursize[w] - curpos[w]
  <2>1. conn[w] \in Clients
    BY <1>2, BusyConn DEF ReadFull, Busy
  <2>2. n \in Int /\ n <= Available(conn[w])
    BY <1>a, <1>2, <2>1 DEF TypeOK, ReadFull, Available
  <2>3. /\ taken' = [taken EXCEPT ![conn[w]] = @ + n]
        /\ totsize' = [totsize EXCEPT ![w] = @ + n]
        /\ UNCHANGED <<conn, from, sent>>
    BY <1>2 DEF ReadFull
  <2> HIDE DEF n
  <2>4. BufferIsStream'
    <3>1. pc[w] = "read" => from[w] + totsize[w] = taken[conn[w]]
      BY DEF BufferIsStream
    <3>2. pc'[w] \in {"read", "parse"} => pc[w] = "read"
      BY <1>a, <1>2 DEF TypeOK, ReadFull, AfterRead
    <3>a. /\ from[w] \in Nat /\ totsize[w] \in Nat /\ taken[conn[w]] \in Nat
          /\ totsize'[w] = totsize[w] + n /\ taken'[conn[w]] = taken[conn[w]] + n
      BY <1>a, <2>1, <2>3 DEF TypeOK
    <3>3. pc'[w] \in {"read", "parse"} => from'[w] + totsize'[w] = taken'[conn'[w]]
      BY <2>2, <2>3, <3>1, <3>2, <3>a
    <3>4. \A v \in Workers \ {w} : pc'[v] = pc[v]
      BY <1>a, <1>2 DEF TypeOK, ReadFull
    <3>5. QED
      BY <1>a, <2>1, <2>3, <3>3, <3>4, OtherBuffers DEF TypeOK
  <2>5. NothingInvented'
    <3>1. /\ \A c \in Clients : taken[c] \in Nat /\ sent[c] \in Nat /\ taken[c] <= sent[c]
          /\ n <= sent[conn[w]] - taken[conn[w]]
      BY <1>a, <2>2 DEF TypeOK, NothingInvented, Available
    <3>2. /\ taken'[conn[w]] = taken[conn[w]] + n
          /\ \A c \in Clients \ {conn[w]} : taken'[c] = taken[c]
      BY <1>a, <2>1, <2>3 DEF TypeOK
    <3>3. QED
      BY <2>1, <2>2, <2>3, <3>1, <3>2 DEF NothingInvented
  <2>6. QED
    BY <2>4, <2>5
<1>3. ASSUME NEW w \in Workers, ReadShort(w)
      PROVE  Stream'
  <2> DEFINE n == Available(conn[w])
  <2>1. conn[w] \in Clients
    BY <1>3, BusyConn DEF ReadShort, Busy
  <2>2. n \in Int /\ n <= Available(conn[w])
    BY <1>a, <1>3, <2>1 DEF TypeOK, ReadShort, Available
  <2>3. /\ taken' = [taken EXCEPT ![conn[w]] = @ + n]
        /\ totsize' = [totsize EXCEPT ![w] = @ + n]
        /\ UNCHANGED <<conn, from, sent>>
    BY <1>3 DEF ReadShort
  <2> HIDE DEF n
  <2>4. BufferIsStream'
    <3>1. pc[w] = "read" => from[w] + totsize[w] = taken[conn[w]]
      BY DEF BufferIsStream
    <3>2. pc'[w] \in {"read", "parse"} => pc[w] = "read"
      BY <1>a, <1>3 DEF TypeOK, ReadShort, AfterRead
    <3>a. /\ from[w] \in Nat /\ totsize[w] \in Nat /\ taken[conn[w]] \in Nat
          /\ totsize'[w] = totsize[w] + n /\ taken'[conn[w]] = taken[conn[w]] + n
      BY <1>a, <2>1, <2>3 DEF TypeOK
    <3>3. pc'[w] \in {"read", "parse"} => from'[w] + totsize'[w] = taken'[conn'[w]]
      BY <2>2, <2>3, <3>1, <3>2, <3>a
    <3>4. \A v \in Workers \ {w} : pc'[v] = pc[v]
      BY <1>a, <1>3 DEF TypeOK, ReadShort
    <3>5. QED
      BY <1>a, <2>1, <2>3, <3>3, <3>4, OtherBuffers DEF TypeOK
  <2>5. NothingInvented'
    <3>1. /\ \A c \in Clients : taken[c] \in Nat /\ sent[c] \in Nat /\ taken[c] <= sent[c]
          /\ n <= sent[conn[w]] - taken[conn[w]]
      BY <1>a, <2>2 DEF TypeOK, NothingInvented, Available
    <3>2. /\ taken'[conn[w]] = taken[conn[w]] + n
          /\ \A c \in Clients \ {conn[w]} : taken'[c] = taken[c]
      BY <1>a, <2>1, <2>3 DEF TypeOK
    <3>3. QED
      BY <2>1, <2>2, <2>3, <3>1, <3>2 DEF NothingInvented
  <2>6. QED
    BY <2>4, <2>5
<1>4. ASSUME NEW w \in Workers, ReadEnd(w)
      PROVE  Stream'
  <2>1. pc'[w] \in {"read", "parse"} => pc[w] = "read"
    BY <1>a, <1>4 DEF TypeOK, ReadEnd, AfterRead
  <2>2. BufferIsStream'
    BY <1>a, <1>4, <2>1, OtherBuffers DEF TypeOK, ReadEnd, BufferIsStream
  <2>3. QED
    BY <1>b, <1>4, <2>2 DEF ReadEnd
<1>5. ASSUME NEW w \in Workers, ReadFails(w)
      PROVE  Stream'
  <2>1. pc'[w] \notin {"read", "parse"} /\ UNCHANGED <<taken, sent>>
    BY <1>a, <1>5 DEF TypeOK, ReadFails, Close
  <2>2. \A v \in Workers \ {w} :
          /\ pc'[v] = pc[v] /\ conn'[v] = conn[v]
          /\ from'[v] = from[v] /\ totsize'[v] = totsize[v]
    BY <1>a, <1>5 DEF TypeOK, ReadFails, Close
  <2>3. BufferIsStream'
    BY <2>1, <2>2, OtherBuffers
  <2>4. QED
    BY <1>b, <2>1, <2>3
<1>6. ASSUME NEW w \in Workers, ParseNothing(w)
      PROVE  Stream'
  <2>1. BufferIsStream'
    BY <1>a, <1>6, OtherBuffers DEF TypeOK, ParseNothing, Close
  <2>2. QED
    BY <1>b, <1>6, <2>1 DEF ParseNothing, Close
<1>7. ASSUME NEW w \in Workers, ParseHead(w)
      PROVE  Stream'
  <2>a. PICK k, expect : Parsed(w, k, expect)
    BY <1>7 DEF ParseHead
  <2>b. UNCHANGED <<conn, from, taken, sent>>
    BY <1>7 DEF ParseHead
  <2>1. pc'[w] \notin {"read", "parse"} /\ UNCHANGED <<taken, sent>>
    BY <1>a, <2>a, <2>b, ParsedFrame
  <2>2. \A v \in Workers \ {w} :
          /\ pc'[v] = pc[v] /\ conn'[v] = conn[v]
          /\ from'[v] = from[v] /\ totsize'[v] = totsize[v]
    BY <1>a, <2>a, <2>b, ParsedFrame
  <2>3. BufferIsStream'
    BY <2>1, <2>2, OtherBuffers
  <2>4. QED
    BY <1>b, <2>1, <2>3
<1>8. ASSUME NEW w \in Workers, ParseFragment(w)
      PROVE  Stream'
  <2>a. PICK k, expect : Parsed(w, k, expect)
    BY <1>8 DEF ParseFragment
  <2>b. UNCHANGED <<conn, from, taken, sent>>
    BY <1>8 DEF ParseFragment
  <2>1. pc'[w] \notin {"read", "parse"} /\ UNCHANGED <<taken, sent>>
    BY <1>a, <2>a, <2>b, ParsedFrame
  <2>2. \A v \in Workers \ {w} :
          /\ pc'[v] = pc[v] /\ conn'[v] = conn[v]
          /\ from'[v] = from[v] /\ totsize'[v] = totsize[v]
    BY <1>a, <2>a, <2>b, ParsedFrame
  <2>3. BufferIsStream'
    BY <2>1, <2>2, OtherBuffers
  <2>4. QED
    BY <1>b, <2>1, <2>3
<1>9. ASSUME NEW w \in Workers, ParseNoPath(w)
      PROVE  Stream'
  <2>1. BufferIsStream'
    BY <1>a, <1>9, OtherBuffers DEF TypeOK, ParseNoPath, Die
  <2>2. QED
    BY <1>b, <1>9, <2>1 DEF ParseNoPath, Die
<1>10. ASSUME NEW w \in Workers, Crash(w)
       PROVE  Stream'
  <2>1. BufferIsStream'
    BY <1>a, <1>10, OtherBuffers DEF TypeOK, Crash, Die
  <2>2. QED
    BY <1>b, <1>10, <2>1 DEF Crash, Die
<1>11. ASSUME NEW w \in Workers, WriteBlocks(w)
       PROVE  Stream'
  <2>1. BufferIsStream'
    BY <1>a, <1>11, OtherBuffers DEF TypeOK, WriteBlocks
  <2>2. QED
    BY <1>b, <1>11, <2>1 DEF WriteBlocks
<1>12. ASSUME NEW w \in Workers, Serve(w)
       PROVE  Stream'
  <2>1. conn[w] \in Clients
    BY <1>12, BusyConn DEF Serve, Written, Busy
  <2>2. ASSUME NextRequest(w, conn[w]), UNCHANGED <<conn, cstate>>
        PROVE  BufferIsStream'
    BY <1>a, <1>12, <2>1, <2>2, OtherBuffers
    DEF TypeOK, Serve, Written, NextRequest, FreshBuffer
  <2>3. ASSUME Close(w), UNCHANGED <<from, buffer>>
        PROVE  BufferIsStream'
    BY <1>a, <1>12, <2>3, OtherBuffers DEF TypeOK, Serve, Written, Close
  <2>4. QED
    BY <1>b, <1>12, <2>2, <2>3 DEF Serve, Written
<1>13. ASSUME NEW c \in Clients, Connect(c) \/ ClientSend(c) \/ ClientEnd(c)
       PROVE  Stream'
  <2>1. UNCHANGED <<pc, conn, from, totsize, taken>>
    BY <1>13 DEF Connect, ClientSend, ClientEnd
  <2>2. BufferIsStream'
    BY <2>1 DEF BufferIsStream
  <2>3. \A d \in Clients : sent[d] <= sent'[d]
    <3>1. CASE ClientSend(c)
      <4>1. PICK o \in Stops(c) : sent' = [sent EXCEPT ![c] = o]
        BY <3>1 DEF ClientSend
      <4>2. o \in Int /\ sent[c] < o
        BY <1>a DEF TypeOK, Stops
      <4>3. QED
        BY <1>a, <4>1, <4>2 DEF TypeOK
    <3>2. CASE sent' = sent
      BY <1>a, <3>2 DEF TypeOK
    <3>3. QED
      BY <1>13, <3>1, <3>2 DEF Connect, ClientEnd
  <2>4. NothingInvented'
    BY <1>a, <2>1, <2>3 DEF TypeOK, NothingInvented
  <2>5. QED
    BY <2>2, <2>4
<1>14. CASE UNCHANGED vars
  BY <1>14 DEF vars, BufferIsStream, NothingInvented
<1>15. QED
  BY <1>1, <1>2, <1>3, <1>4, <1>5, <1>6, <1>7, <1>8, <1>9, <1>10, <1>11, <1>12,
     <1>13, <1>14
  DEF Next, Worker, Client

(* Whatever the clients send, however it is cut: a read has room in the    *)
(* buffer and stays in it, and growing the buffer loses and repeats        *)
(* nothing of the stream.                                                  *)
THEOREM ReadingSound == Spec => []ReadSound
<1> DEFINE IInv == TypeInv /\ Ownership /\ Stream
<1>1. Init => IInv
  BY InitTypeInv, NoClientAssumption
  DEF Init, Ownership, OpenIsHeld, OneHolder, Stream, BufferIsStream, NothingInvented
<1>2. IInv /\ [Next]_vars => IInv'
  BY NextTypeInv, NextOwnership, NextStream
<1>3. IInv => ReadSound
  BY DEF TypeInv, Room, Stream, BufferIsStream, NothingInvented, ReadSound
<1>4. QED
  BY <1>1, <1>2, <1>3, PTL DEF Spec

-----------------------------------------------------------------------------
(***************************************************************************)
(* Order.                                                                  *)
(***************************************************************************)
(* The requests that c has answers to begin in front of the offset o.      *)
Before(c, o) ==
  \A i \in 1..Len(answers[c]) :
     LET k == answers[c][i].k IN k # 0 => k \in Indices(c) /\ Begin(c, k) < o

(* What a worker reads, or has in hand, is behind what was answered.       *)
Ahead(w) ==
  LET c == conn[w]
      k == req[w].k
  IN  /\ pc[w] \in {"read", "parse"} => Before(c, from[w])
      /\ pc[w] \in {"more", "serve", "write"} =>
           IF k = 0 THEN Before(c, taken[c])
           ELSE k \in Indices(c) /\ Before(c, Begin(c, k)) /\ Begin(c, k) < taken[c]

Unanswered == \A c \in Clients : cstate[c] \in {"new", "queued"} => answers[c] = <<>>

Order == Unanswered /\ AnswersAdvance /\ \A w \in Workers : Ahead(w)

(* The same with one answer more.                                          *)
LEMMA BeforeAppend ==
  ASSUME TypeOK, NEW c \in Clients, NEW a, NEW o \in Int, NEW p \in Int,
         a \in [k : Nat, body : Bodies],
         answers'[c] = Append(answers[c], a),
         Before(c, o), o <= p,
         a.k # 0 => a.k \in Indices(c) /\ Begin(c, a.k) < p
  PROVE  \A i \in 1..Len(answers'[c]) : answers'[c][i].k # 0 =>
            answers'[c][i].k \in Indices(c) /\ Begin(c, answers'[c][i].k) < p
<1>1. answers[c] \in Seq([k : Nat, body : Bodies])
  BY DEF TypeOK, Bodies
<1>2. /\ Len(answers'[c]) = Len(answers[c]) + 1 /\ Len(answers[c]) \in Nat
      /\ answers'[c][Len(answers[c]) + 1] = a
      /\ \A i \in 1..Len(answers[c]) : answers'[c][i] = answers[c][i]
  BY <1>1
<1>3. ASSUME NEW i \in 1..Len(answers'[c]), answers'[c][i].k # 0
      PROVE  answers'[c][i].k \in Indices(c) /\ Begin(c, answers'[c][i].k) < p
  <2>1. CASE i = Len(answers[c]) + 1
    BY <1>2, <1>3, <2>1
  <2>2. CASE i # Len(answers[c]) + 1
    <3>1. i \in 1..Len(answers[c]) /\ answers'[c][i] = answers[c][i]
      BY <1>2, <1>3, <2>2
    <3>2. answers[c][i].k \in Indices(c) /\ Begin(c, answers[c][i].k) < o
      BY <1>3, <3>1 DEF Before
    <3>3. Begin(c, answers[c][i].k) \in Nat
      BY <3>2, Places
    <3>4. QED
      BY <3>1, <3>2, <3>3
  <2>3. QED
    BY <2>1, <2>2
<1>4. QED
  BY <1>3

(* A step of worker w that does nothing to other connections leaves the    *)
(* other workers where they were.                                          *)
LEMMA OtherAhead ==
  ASSUME TypeInv, Ownership, \A v \in Workers : Ahead(v), NEW w \in Workers,
         \A v \in Workers \ {w} :
            /\ pc'[v] = pc[v] /\ conn'[v] = conn[v]
            /\ from'[v] = from[v] /\ req'[v] = req[v],
         \A c \in Clients \ {conn[w]} : taken'[c] = taken[c] /\ answers'[c] = answers[c],
         Ahead(w)'
  PROVE  (\A v \in Workers : Ahead(v))'
<1>1. ASSUME NEW v \in Workers \ {w}
      PROVE  Ahead(v)'
  <2>1. CASE pc[v] \notin Busy
    <3>1. pc'[v] \notin Busy
      BY <2>1
    <3>2. QED
      BY <3>1 DEF Ahead, Busy
  <2>2. CASE pc[v] \in Busy
    <3>1. conn[v] \in Clients /\ conn[v] # conn[w]
      BY <2>2, BusyConn, NoClientAssumption DEF Busy, Ownership, OneHolder
    <3>2. /\ taken'[conn[v]] = taken[conn[v]] /\ answers'[conn[v]] = answers[conn[v]]
          /\ conn'[v] = conn[v] /\ pc'[v] = pc[v] /\ from'[v] = from[v] /\ req'[v] = req[v]
          /\ Ahead(v)
      BY <3>1
    <3>3. CASE pc[v] \in {"read", "parse"}
      <4>1. Before(conn[v], from[v])
        BY <3>2, <3>3 DEF Ahead
      <4>2. Before(conn[v], from[v])'
        BY <3>2, <4>1 DEF Before, Begin, Indices
      <4>3. QED
        BY <3>2, <3>3, <4>2 DEF Ahead
    <3>4. CASE pc[v] \notin {"read", "parse"}
      <4>1. IF req[v].k = 0 THEN Before(conn[v], taken[conn[v]])
            ELSE /\ req[v].k \in Indices(conn[v])
                 /\ Before(conn[v], Begin(conn[v], req[v].k))
                 /\ Begin(conn[v], req[v].k) < taken[conn[v]]
        BY <2>2, <3>2, <3>4 DEF Ahead, Busy
      <4>2. QED
        BY <3>2, <3>4, <4>1 DEF Ahead, Before, Begin, Indices
    <3>5. QED
      BY <3>3, <3>4
  <2>3. QED
    BY <2>1, <2>2
<1>2. QED
  BY <1>1

(* Nor does a step that answers nothing disturb what was answered.         *)
LEMMA SameAnswers ==
  ASSUME Order, UNCHANGED answers,
         \A c \in Clients : cstate'[c] \in {"new", "queued"} => cstate[c] \in {"new", "queued"}
  PROVE  Unanswered' /\ AnswersAdvance'
  BY DEF Order, Unanswered, AnswersAdvance

(* A worker that goes on reading, or with the request it has.              *)
LEMMA SameRequest ==
  ASSUME TypeInv, NEW w \in Workers, conn[w] \in Clients, Ahead(w),
         UNCHANGED <<conn, from, req, answers>>,
         taken[conn[w]] \in Int, taken'[conn[w]] \in Int, taken[conn[w]] <= taken'[conn[w]],
         \/ pc[w] \in {"read", "parse"} /\ pc'[w] \in {"read", "parse"}
         \/ pc[w] \in {"more", "serve", "write"} /\ pc'[w] \in {"more", "serve", "write"}
         \/ pc'[w] \notin Busy
  PROVE  Ahead(w)'
<1> DEFINE c == conn[w]
           k == req[w].k
<1>1. CASE pc[w] \in {"read", "parse"} /\ pc'[w] \in {"read", "parse"}
  BY <1>1 DEF Ahead, Before, Begin, Indices
<1>2. CASE pc[w] \in {"more", "serve", "write"} /\ pc'[w] \in {"more", "serve", "write"}
  <2>1. CASE k = 0
    <3>1. Before(c, taken[c])
      BY <1>2, <2>1 DEF Ahead
    <3>2. ASSUME NEW i \in 1..Len(answers[c]), answers[c][i].k # 0
          PROVE  /\ answers[c][i].k \in Indices(c)
                 /\ Begin(c, answers[c][i].k) < taken'[c]
      <4>1. answers[c][i].k \in Indices(c) /\ Begin(c, answers[c][i].k) < taken[c]
        BY <3>1, <3>2 DEF Before
      <4>2. QED
        BY <4>1, Places
    <3>3. Before(c, taken[c])'
      BY <3>2 DEF Before, Begin, Indices
    <3>4. QED
      BY <1>2, <2>1, <3>3 DEF Ahead
  <2>2. CASE k # 0
    <3>1. k \in Indices(c) /\ Before(c, Begin(c, k)) /\ Begin(c, k) < taken[c]
      BY <1>2, <2>2 DEF Ahead
    <3>2. Begin(c, k) \in Nat
      BY <3>1, Places
    <3>3. Begin(c, k) < taken'[c]
      BY <3>1, <3>2
    <3>4. QED
      BY <1>2, <2>2, <3>1, <3>3 DEF Ahead, Before, Begin, Indices
  <2>3. QED
    BY <2>1, <2>2
<1>3. CASE pc'[w] \notin Busy
  BY <1>3 DEF Ahead, Busy
<1>4. QED
  BY <1>1, <1>2, <1>3

(* A read that fills the buffer has room to fill.                          *)
LEMMA RoomLeft ==
  ASSUME TypeInv, NEW w \in Workers, pc[w] \in Reading
  PROVE  cursize[w] - curpos[w] \in Nat
<1>1. cursize[w] \in Nat /\ curpos[w] \in Nat
  BY DEF TypeInv, TypeOK
<1>2. curpos[w] < cursize[w]
  BY DEF TypeInv, Room
<1>3. QED
  BY <1>1, <1>2

(* Every step keeps the order.                                             *)
LEMMA NextOrder ==
  ASSUME TypeInv, TypeInv', Ownership, Stream, Order, [Next]_vars
  PROVE  Order'
<1> USE DEF Goto, buffer, client
<1>a. TypeOK /\ TypeOK' /\ \A w \in Workers : Ahead(w)
  BY DEF TypeInv, Order
<1>b. ASSUME NEW w \in Workers, conn[w] \in Clients,
             UNCHANGED <<conn, from, req, cstate, answers>>,
             \A v \in Workers \ {w} : pc'[v] = pc[v],
             \A c \in Clients \ {conn[w]} : taken'[c] = taken[c],
             taken[conn[w]] <= taken'[conn[w]],
             \/ pc[w] \in {"read", "parse"} /\ pc'[w] \in {"read", "parse"}
             \/ pc[w] \in {"more", "serve", "write"} /\ pc'[w] \in {"more", "serve", "write"}
      PROVE  Order'
  <2>1. taken[conn[w]] \in Int /\ taken'[conn[w]] \in Int
    BY <1>a, <1>b DEF TypeOK
  <2>2. Ahead(w)'
    BY <1>a, <1>b, <2>1, SameRequest
  <2>3. (\A v \in Workers : Ahead(v))'
    BY <1>a, <1>b, <2>2, OtherAhead
  <2>4. QED
    BY <1>b, <2>3, SameAnswers DEF Order
<1>c. ASSUME NEW w \in Workers, conn[w] \in Clients, Close(w),
             UNCHANGED <<from, req, taken, answers>>
      PROVE  Order'
  <2>1. pc'[w] \notin Busy
    BY <1>a, <1>c DEF TypeOK, Close, Busy
  <2>2. Ahead(w)'
    BY <2>1 DEF Ahead, Busy
  <2>3. \A v \in Workers \ {w} : pc'[v] = pc[v] /\ conn'[v] = conn[v]
    BY <1>a, <1>c DEF TypeOK, Close
  <2>4. (\A v \in Workers : Ahead(v))'
    BY <1>a, <1>c, <2>2, <2>3, OtherAhead
  <2>5. \A c \in Clients : cstate'[c] \in {"new", "queued"} => cstate[c] \in {"new", "queued"}
    BY <1>a, <1>c DEF TypeOK, Close
  <2>6. QED
    BY <1>c, <2>4, <2>5, SameAnswers DEF Order
<1>d. ASSUME NEW w \in Workers, Die(w)
      PROVE  Order'
  <2>1. pc'[w] \notin Busy
    BY <1>a, <1>d DEF TypeOK, Die, Busy
  <2>2. Ahead(w)'
    BY <2>1 DEF Ahead, Busy
  <2>3. \A v \in Workers \ {w} :
          pc'[v] = pc[v] /\ conn'[v] = conn[v] /\ from'[v] = from[v] /\ req'[v] = req[v]
    BY <1>a, <1>d DEF TypeOK, Die
  <2>4. UNCHANGED <<taken, answers>>
    BY <1>d DEF Die
  <2>5. (\A v \in Workers : Ahead(v))'
    BY <1>a, <2>2, <2>3, <2>4, OtherAhead
  <2>6. \A c \in Clients : cstate'[c] \in {"new", "queued"} => cstate[c] \in {"new", "queued"}
    BY <1>a, <1>d DEF TypeOK, Die
  <2>7. QED
    BY <2>4, <2>5, <2>6, SameAnswers DEF Order
<1>1. ASSUME NEW w \in Workers, Accept(w)
      PROVE  Order'
  <2>1. PICK c \in Clients :
          /\ cstate[c] = "queued" /\ cstate' = [cstate EXCEPT ![c] = "open"]
          /\ conn' = [conn EXCEPT ![w] = c] /\ NextRequest(w, c)
    BY <1>1 DEF Accept
  <2>2. UNCHANGED <<req, taken, answers>>
    BY <1>1 DEF Accept
  <2>3. /\ pc'[w] = "read" /\ conn'[w] = c
        /\ \A v \in Workers \ {w} :
             pc'[v] = pc[v] /\ conn'[v] = conn[v] /\ from'[v] = from[v]
    BY <1>a, <2>1 DEF TypeOK, NextRequest
  <2>4. answers'[c] = <<>>
    BY <2>1, <2>2 DEF Order, Unanswered
  <2>5. Ahead(w)'
    BY <2>3, <2>4 DEF Ahead, Before
  <2>6. (\A v \in Workers : Ahead(v))'
    BY <1>a, <2>2, <2>3, <2>5, OtherAhead
  <2>7. \A d \in Clients : cstate'[d] \in {"new", "queued"} => cstate[d] \in {"new", "queued"}
    BY <1>a, <2>1 DEF TypeOK
  <2>8. QED
    BY <2>2, <2>6, <2>7, SameAnswers DEF Order
<1>2. ASSUME NEW w \in Workers, ReadFull(w)
      PROVE  Order'
  <2>1. conn[w] \in Clients
    BY <1>2, BusyConn DEF ReadFull, Busy
  <2>2. cursize[w] - curpos[w] \in Nat
    BY <1>2, RoomLeft DEF ReadFull, Reading
  <2>3. /\ \A c \in Clients \ {conn[w]} : taken'[c] = taken[c]
        /\ taken[conn[w]] <= taken'[conn[w]]
    <3>1. taken' = [taken EXCEPT ![conn[w]] = @ + (cursize[w] - curpos[w])]
      BY <1>2 DEF ReadFull
    <3>2. taken[conn[w]] \in Nat /\ taken \in [Clients -> Nat]
      BY <1>a, <2>1 DEF TypeOK
    <3>3. QED
      BY <2>1, <2>2, <3>1, <3>2
  <2>4. UNCHANGED <<pc, conn, from, req, cstate, answers>> /\ pc[w] \in {"read", "more"}
    BY <1>2 DEF ReadFull
  <2>5. QED
    BY <1>b, <2>1, <2>3, <2>4
<1>3. ASSUME NEW w \in Workers, ReadShort(w)
      PROVE  Order'
  <2>1. conn[w] \in Clients
    BY <1>3, BusyConn DEF ReadShort, Busy
  <2>2. Available(conn[w]) \in Nat
    BY <1>3, <2>1 DEF TypeInv, TypeOK, Available, ReadShort
  <2>3. /\ \A c \in Clients \ {conn[w]} : taken'[c] = taken[c]
        /\ taken[conn[w]] <= taken'[conn[w]]
    <3>1. taken' = [taken EXCEPT ![conn[w]] = @ + Available(conn[w])]
      BY <1>3 DEF ReadShort
    <3>2. taken[conn[w]] \in Nat /\ taken \in [Clients -> Nat]
      BY <1>a, <2>1 DEF TypeOK
    <3>3. QED
      BY <2>1, <2>2, <3>1, <3>2
  <2>4. /\ UNCHANGED <<conn, from, req, cstate, answers>> /\ pc[w] \in {"read", "more"}
        /\ pc'[w] = AfterRead(w) /\ \A v \in Workers \ {w} : pc'[v] = pc[v]
    BY <1>a, <1>3 DEF TypeOK, ReadShort
  <2>5. QED
    BY <1>b, <2>1, <2>3, <2>4 DEF AfterRead
<1>4. ASSUME NEW w \in Workers, ReadEnd(w)
      PROVE  Order'
  <2>1. conn[w] \in Clients
    BY <1>4, BusyConn DEF ReadEnd, Busy
  <2>2. /\ UNCHANGED <<conn, from, req, cstate, taken, answers>> /\ pc[w] \in {"read", "more"}
        /\ pc'[w] = AfterRead(w) /\ \A v \in Workers \ {w} : pc'[v] = pc[v]
    BY <1>a, <1>4 DEF TypeOK, ReadEnd
  <2>3. taken[conn[w]] \in Nat
    BY <1>a, <2>1 DEF TypeOK
  <2>4. QED
    BY <1>b, <2>1, <2>2, <2>3 DEF AfterRead
<1>5. ASSUME NEW w \in Workers, ReadFails(w)
      PROVE  Order'
  <2>1. conn[w] \in Clients
    BY <1>5, BusyConn DEF ReadFails, Busy
  <2>2. CASE pc[w] = "read"
    BY <1>5, <1>c, <2>1, <2>2 DEF ReadFails
  <2>3. CASE pc[w] # "read"
    <3>1. /\ UNCHANGED <<conn, from, req, cstate, taken, answers>> /\ pc[w] = "more"
          /\ pc'[w] = "serve" /\ \A v \in Workers \ {w} : pc'[v] = pc[v]
      BY <1>a, <1>5, <2>3 DEF TypeOK, ReadFails
    <3>2. taken[conn[w]] \in Nat
      BY <1>a, <2>1 DEF TypeOK
    <3>3. QED
      BY <1>b, <2>1, <3>1, <3>2
  <2>4. QED
    BY <2>2, <2>3
<1>6. ASSUME NEW w \in Workers, ParseNothing(w)
      PROVE  Order'
  <2>1. conn[w] \in Clients
    BY <1>6, BusyConn DEF ParseNothing, Busy
  <2>2. QED
    BY <1>6, <1>c, <2>1 DEF ParseNothing
<1>e. ASSUME NEW w \in Workers, pc[w] = "parse", NEW k, NEW expect, Parsed(w, k, expect),
             UNCHANGED <<conn, from, cstate, client, taken, answers>>,
             \A v \in Workers \ {w} : req'[v] = req[v],
             IF req'[w].k = 0 THEN Before(conn[w], taken[conn[w]])
             ELSE /\ req'[w].k \in Indices(conn[w])
                  /\ from[w] <= Begin(conn[w], req'[w].k)
                  /\ Begin(conn[w], req'[w].k) < taken[conn[w]]
      PROVE  Order'
  <2>1. \A v \in Workers \ {w} : pc'[v] = pc[v]
    BY <1>a, <1>e, ParsedFrame
  <2>2. pc'[w] \notin {"read", "parse"}
    BY <1>a, <1>e, ParsedFrame
  <2>3. Before(conn[w], from[w])
    BY <1>a, <1>e DEF Ahead
  <2>4. Ahead(w)'
    <3>1. CASE req'[w].k = 0
      BY <1>e, <2>2, <3>1 DEF Ahead, Before, Begin, Indices
    <3>2. CASE req'[w].k # 0
      <4>1. Before(conn[w], Begin(conn[w], req'[w].k))
        <5>1. ASSUME NEW i \in 1..Len(answers[conn[w]]), answers[conn[w]][i].k # 0
              PROVE  /\ answers[conn[w]][i].k \in Indices(conn[w])
                     /\ Begin(conn[w], answers[conn[w]][i].k) < Begin(conn[w], req'[w].k)
          <6>1. /\ answers[conn[w]][i].k \in Indices(conn[w])
                /\ Begin(conn[w], answers[conn[w]][i].k) < from[w]
            BY <2>3, <5>1 DEF Before
          <6>2. conn[w] \in Clients /\ from[w] \in Nat
            BY <1>a, <1>e, BusyConn DEF TypeOK, Busy
          <6>3. /\ Begin(conn[w], answers[conn[w]][i].k) \in Nat
                /\ Begin(conn[w], req'[w].k) \in Nat
            BY <1>e, <3>2, <6>1, <6>2, Places
          <6>4. QED
            BY <1>e, <3>2, <6>1, <6>2, <6>3
        <5>2. QED
          BY <5>1 DEF Before
      <4>2. QED
        BY <1>e, <2>2, <3>2, <4>1 DEF Ahead, Before, Begin, Indices
    <3>3. QED
      BY <3>1, <3>2
  <2>5. (\A v \in Workers : Ahead(v))'
    BY <1>a, <1>e, <2>1, <2>4, OtherAhead
  <2>6. QED
    BY <1>e, <2>5, SameAnswers DEF Order
<1>7. ASSUME NEW w \in Workers, ParseHead(w)
      PROVE  Order'
  <2>1. conn[w] \in Clients /\ pc[w] = "parse"
    BY <1>7, BusyConn DEF ParseHead, Busy
  <2>2. PICK k \in Indices(conn[w]) :
          LET script == Script[conn[w]][k] IN
          /\ HeadFound(w, k)
          /\ req' = [req EXCEPT ![w] =
                       [k    |-> k,
                        body |-> BodyServed(from[w] + totsize[w] - HeadEnd(conn[w], k),
                                            script.body),
                        keep |-> script.keep]]
          /\ Parsed(w, k, script.expect)
    BY <1>7 DEF ParseHead
  <2>3. UNCHANGED <<conn, from, cstate, client, taken, answers>>
    BY <1>7 DEF ParseHead
  <2>4. from[w] <= Begin(conn[w], k) /\ Begin(conn[w], k) < taken[conn[w]]
    <3>1. from[w] + totsize[w] = taken[conn[w]]
      BY <2>1 DEF Stream, BufferIsStream
    <3>2. /\ Begin(conn[w], k) \in Nat /\ HeadEnd(conn[w], k) \in Nat
          /\ Begin(conn[w], k) < HeadEnd(conn[w], k)
      BY <2>1, Places
    <3>3. from[w] \in Nat /\ totsize[w] \in Nat
      BY <1>a DEF TypeOK
    <3>4. from[w] <= Begin(conn[w], k)
      BY <2>2, <3>2, <3>3 DEF HeadFound
    <3>5. HeadEnd(conn[w], k) <= from[w] + totsize[w]
      BY <2>2 DEF HeadFound
    <3>6. QED
      BY <3>1, <3>2, <3>3, <3>4, <3>5
  <2>5. req'[w].k = k /\ k # 0 /\ \A v \in Workers \ {w} : req'[v] = req[v]
    BY <1>a, <2>1, <2>2, ScriptType DEF TypeOK
  <2>6. QED
    BY <1>e, <2>1, <2>2, <2>3, <2>4, <2>5
<1>8. ASSUME NEW w \in Workers, ParseFragment(w)
      PROVE  Order'
  <2>1. conn[w] \in Clients /\ pc[w] = "parse"
    BY <1>8, BusyConn DEF ParseFragment, Busy
  <2>2. PICK j \in Indices(conn[w]), keep \in BOOLEAN, expect \in BOOLEAN :
          /\ req' = [req EXCEPT ![w] = [NoRequest EXCEPT !.keep = keep]]
          /\ Parsed(w, j, expect)
    BY <1>8 DEF ParseFragment
  <2>3. UNCHANGED <<conn, from, cstate, client, taken, answers>>
    BY <1>8 DEF ParseFragment
  <2>4. req'[w].k = 0 /\ \A v \in Workers \ {w} : req'[v] = req[v]
    BY <1>a, <2>2 DEF TypeOK, NoRequest
  <2>5. from[w] \in Nat /\ totsize[w] \in Nat /\ from[w] + totsize[w] = taken[conn[w]]
    BY <1>a, <2>1 DEF TypeOK, Stream, BufferIsStream
  <2>6. Before(conn[w], taken[conn[w]])
    <3>1. ASSUME NEW i \in 1..Len(answers[conn[w]]), answers[conn[w]][i].k # 0
          PROVE  /\ answers[conn[w]][i].k \in Indices(conn[w])
                 /\ Begin(conn[w], answers[conn[w]][i].k) < taken[conn[w]]
      <4>1. /\ answers[conn[w]][i].k \in Indices(conn[w])
            /\ Begin(conn[w], answers[conn[w]][i].k) < from[w]
        BY <1>a, <2>1, <3>1 DEF Ahead, Before
      <4>2. Begin(conn[w], answers[conn[w]][i].k) \in Nat
        BY <2>1, <4>1, Places
      <4>3. QED
        BY <2>5, <4>1, <4>2
    <3>2. QED
      BY <3>1 DEF Before
  <2>7. QED
    BY <1>e, <2>1, <2>2, <2>3, <2>4, <2>6
<1>9. ASSUME NEW w \in Workers, ParseNoPath(w) \/ Crash(w)
      PROVE  Order'
  BY <1>9, <1>d DEF ParseNoPath, Crash
<1>10. ASSUME NEW w \in Workers, WriteBlocks(w)
       PROVE  Order'
  <2>1. conn[w] \in Clients
    BY <1>10, BusyConn DEF WriteBlocks, Busy
  <2>2. /\ UNCHANGED <<conn, from, req, cstate, taken, answers>> /\ pc[w] = "serve"
        /\ pc'[w] = "write" /\ \A v \in Workers \ {w} : pc'[v] = pc[v]
    BY <1>a, <1>10 DEF TypeOK, WriteBlocks
  <2>3. taken[conn[w]] \in Nat
    BY <1>a, <2>1 DEF TypeOK
  <2>4. QED
    BY <1>b, <2>1, <2>2, <2>3
<1>11. ASSUME NEW w \in Workers, Serve(w)
       PROVE  Order'
  <2> DEFINE c == conn[w]
             k == req[w].k
             a == [k |-> req[w].k, body |-> req[w].body]
  <2>1. c \in Clients /\ pc[w] \in {"serve", "write"}
    BY <1>11, BusyConn DEF Serve, Written, Busy
  <2>2. /\ a \in [k : Nat, body : Bodies] /\ a.k = k
        /\ answers[c] \in Seq([k : Nat, body : Bodies])
        /\ taken[c] \in Nat
    BY <1>a, <2>1 DEF TypeOK, Bodies
  <2>3. cstate[c] = "open"
    BY <2>1 DEF Ownership, OpenIsHeld
  <2> DEFINE o == IF k = 0 THEN taken[c] ELSE Begin(c, k)
  <2>4. /\ Before(c, o) /\ o \in Int /\ o <= taken[c]
        /\ k # 0 => k \in Indices(c) /\ o = Begin(c, k) /\ Begin(c, k) < taken[c]
    <3>1. CASE k = 0
      BY <1>a, <2>1, <2>2, <3>1 DEF Ahead
    <3>2. CASE k # 0
      <4>1. k \in Indices(c) /\ Before(c, Begin(c, k)) /\ Begin(c, k) < taken[c]
        BY <1>a, <2>1, <3>2 DEF Ahead
      <4>2. Begin(c, k) \in Nat
        BY <2>1, <4>1, Places
      <4>3. QED
        BY <2>2, <3>2, <4>1, <4>2
    <3>3. QED
      BY <3>1, <3>2
  <2>5. /\ UNCHANGED <<taken, sent, continued>>
        /\ \A v \in Workers \ {w} : req'[v] = req[v]
        /\ \A d \in Clients \ {c} : answers'[d] = answers[d]
        /\ answers'[c] = answers[c] \/ answers'[c] = Append(answers[c], a)
    BY <1>a, <1>11, <2>1 DEF TypeOK, Serve, Written
  <2> HIDE DEF o, a, k
  <2>6. /\ AnswersAdvance'
        /\ \A i \in 1..Len(answers'[c]) : answers'[c][i].k # 0 =>
              answers'[c][i].k \in Indices(c) /\ Begin(c, answers'[c][i].k) < taken[c]
    <3>1. CASE answers'[c] = answers[c]
      <4>1. \A d \in Clients : answers'[d] = answers[d]
        BY <2>5, <3>1
      <4>2. AnswersAdvance'
        BY <4>1 DEF Order, AnswersAdvance
      <4>3. ASSUME NEW i \in 1..Len(answers[c]), answers[c][i].k # 0
            PROVE  answers[c][i].k \in Indices(c) /\ Begin(c, answers[c][i].k) < taken[c]
        <5>1. answers[c][i].k \in Indices(c) /\ Begin(c, answers[c][i].k) < o
          BY <2>4, <4>3 DEF Before
        <5>2. Begin(c, answers[c][i].k) \in Nat
          BY <2>1, <5>1, Places
        <5>3. QED
          BY <2>2, <2>4, <5>1, <5>2
      <4>4. QED
        BY <3>1, <4>2, <4>3
    <3>2. CASE answers'[c] = Append(answers[c], a)
      <4>1. \A i \in 1..Len(answers'[c]) : answers'[c][i].k # 0 =>
              answers'[c][i].k \in Indices(c) /\ Begin(c, answers'[c][i].k) < taken[c]
        <5>1. taken[c] \in Int /\ a.k = k
          BY <2>2
        <5>2. a.k # 0 => a.k \in Indices(c) /\ Begin(c, a.k) < taken[c]
          BY <2>4, <5>1
        <5> HIDE DEF c
        <5>3. QED
          BY <1>a, <2>1, <2>2, <2>4, <3>2, <5>1, <5>2, BeforeAppend
      <4>2. /\ Len(answers'[c]) = Len(answers[c]) + 1 /\ Len(answers[c]) \in Nat
            /\ answers'[c][Len(answers[c]) + 1] = a
            /\ \A i \in 1..Len(answers[c]) : answers'[c][i] = answers[c][i]
        BY <2>2, <3>2
      <4>3. ASSUME NEW i \in 1..Len(answers[c]), answers[c][i].k # 0, k # 0
            PROVE  answers[c][i].k < k
        <5>1. answers[c][i].k \in Indices(c) /\ Begin(c, answers[c][i].k) < Begin(c, k)
          BY <2>4, <4>3 DEF Before
        <5>2. QED
          BY <2>1, <2>4, <4>3, <5>1, BeginOrder
      <4>4. ASSUME NEW i \in 1..Len(answers'[c]), NEW j \in 1..Len(answers'[c]), i < j,
                   answers'[c][i].k # 0, answers'[c][j].k # 0
            PROVE  answers'[c][i].k < answers'[c][j].k
        <5>1. i \in 1..Len(answers[c]) /\ answers'[c][i] = answers[c][i]
          BY <4>2, <4>4
        <5>2. CASE j = Len(answers[c]) + 1
          BY <2>2, <4>2, <4>3, <4>4, <5>1, <5>2
        <5>3. CASE j # Len(answers[c]) + 1
          <6>1. j \in 1..Len(answers[c]) /\ answers'[c][j] = answers[c][j]
            BY <4>2, <4>4, <5>3
          <6>2. QED
            BY <2>1, <4>4, <5>1, <6>1 DEF Order, AnswersAdvance
        <5>4. QED
          BY <5>2, <5>3
      <4>5. ASSUME NEW d \in Clients \ {c}, NEW i \in 1..Len(answers'[d]),
                   NEW j \in 1..Len(answers'[d]), i < j,
                   answers'[d][i].k # 0, answers'[d][j].k # 0
            PROVE  answers'[d][i].k < answers'[d][j].k
        BY <2>5, <4>5 DEF Order, AnswersAdvance
      <4>6. AnswersAdvance'
        BY <4>4, <4>5 DEF AnswersAdvance
      <4>7. QED
        BY <4>1, <4>6
    <3>3. QED
      BY <2>5, <3>1, <3>2
  <2>7. \A d \in Clients : cstate'[d] \in {"new", "queued"} => d # c /\ cstate[d] = cstate'[d]
    <3>1. CASE UNCHANGED cstate
      BY <2>3, <3>1
    <3>2. CASE Close(w)
      BY <1>a, <3>2 DEF TypeOK, Close
    <3>3. QED
      BY <1>11, <3>1, <3>2 DEF Serve
  <2>8. Unanswered'
    BY <2>5, <2>7 DEF Order, Unanswered
  <2>9. Ahead(w)'
    <3>1. CASE NextRequest(w, c) /\ UNCHANGED conn
      <4>1. pc'[w] = "read" /\ from'[w] = taken[c] /\ conn'[w] = c
        BY <1>a, <3>1 DEF TypeOK, NextRequest
      <4>2. QED
        BY <2>6, <4>1 DEF Ahead, Before, Begin, Indices
    <3>2. CASE Close(w)
      <4>1. pc'[w] \notin Busy
        BY <1>a, <3>2 DEF TypeOK, Close, Busy
      <4>2. QED
        BY <4>1 DEF Ahead, Busy
    <3>3. QED
      BY <1>11, <3>1, <3>2 DEF Serve
  <2>10. \A v \in Workers \ {w} : pc'[v] = pc[v] /\ conn'[v] = conn[v] /\ from'[v] = from[v]
    <3>1. CASE NextRequest(w, c) /\ UNCHANGED conn
      BY <1>a, <3>1 DEF TypeOK, NextRequest
    <3>2. CASE Close(w) /\ UNCHANGED from
      BY <1>a, <3>2 DEF TypeOK, Close
    <3>3. QED
      BY <1>11, <3>1, <3>2 DEF Serve
  <2>11. (\A v \in Workers : Ahead(v))'
    BY <1>a, <2>5, <2>9, <2>10, OtherAhead
  <2>12. QED
    BY <2>6, <2>8, <2>11 DEF Order
<1>12. ASSUME NEW c \in Clients, Connect(c) \/ ClientSend(c) \/ ClientEnd(c)
       PROVE  Order'
  <2>1. UNCHANGED <<pc, conn, from, req, taken, answers>>
    BY <1>12 DEF Connect, ClientSend, ClientEnd
  <2>2. \A d \in Clients : cstate'[d] \in {"new", "queued"} => cstate[d] \in {"new", "queued"}
    BY <1>a, <1>12 DEF TypeOK, Connect, ClientSend, ClientEnd
  <2>3. (\A v \in Workers : Ahead(v))'
    BY <1>a, <2>1 DEF Ahead, Before, Begin, Indices
  <2>4. QED
    BY <2>1, <2>2, <2>3, SameAnswers DEF Order
<1>13. CASE UNCHANGED vars
  <2>1. UNCHANGED <<pc, conn, from, req, cstate, taken, answers>>
    BY <1>13 DEF vars
  <2>2. (\A v \in Workers : Ahead(v))'
    BY <1>a, <2>1 DEF Ahead, Before, Begin, Indices
  <2>3. QED
    BY <2>1, <2>2, SameAnswers DEF Order
<1>14. QED
  BY <1>1, <1>2, <1>3, <1>4, <1>5, <1>6, <1>7, <1>8, <1>9, <1>10, <1>11, <1>12, <1>13
  DEF Next, Worker, Client

(* No request is answered twice or after a later one, however the streams  *)
(* are cut and however far the clients run ahead.                          *)
THEOREM AnswersInOrder == Spec => []AnswersAdvance
<1> DEFINE IInv == TypeInv /\ Ownership /\ Stream /\ Order
<1>1. Init => IInv
  BY InitTypeInv, NoClientAssumption
  DEF Init, Ownership, OpenIsHeld, OneHolder, Stream, BufferIsStream, NothingInvented,
      Order, Unanswered, AnswersAdvance, Ahead
<1>2. IInv /\ [Next]_vars => IInv'
  BY NextTypeInv, NextOwnership, NextStream, NextOrder
<1>3. IInv => AnswersAdvance
  BY DEF Order
<1>4. QED
  BY <1>1, <1>2, <1>3, PTL DEF Spec

-----------------------------------------------------------------------------
(***************************************************************************)
(* Turns: a client that sends each request in one piece and waits.         *)
(***************************************************************************)
(* Where the stream of c may stand after n answers: at the next request's  *)
(* begin, or as far behind it as the client goes without an answer.        *)
AtTurn(c, n, s) ==
  \/ s = End(c)[n]
  \/ /\ n < Len(Script[c])
     /\ s = IF Script[c][n + 1].expect THEN HeadEnd(c, n + 1) ELSE End(c)[n + 1]

(* A worker has the request in hand that is due after n answers.           *)
Given(c, n, r, cont) ==
  /\ n + 1 \in Indices(c)
  /\ r.k = n + 1
  /\ r.keep = Script[c][n + 1].keep
  /\ ~Script[c][n + 1].expect => r.body = "exact"
  /\ cont <= n + 1

(* Where the worker of such a client is.                                   *)
InTurn(w) ==
  LET c == conn[w]
      n == Len(answers[c])
  IN  /\ pc[w] \in {"read", "parse"} =>
           \/ from[w] = End(c)[n] /\ AtTurn(c, n, sent[c]) /\ continued[c] <= n
           \/ ended[c] = "fin" /\ from[w] = sent[c]
      /\ pc[w] = "parse" => taken[c] = sent[c]
      /\ pc[w] = "more" =>
           /\ Given(c, n, req[w], continued[c]) /\ Script[c][n + 1].expect
           /\ taken[c] >= HeadEnd(c, n + 1)
           /\ sent[c] \in {HeadEnd(c, n + 1), End(c)[n + 1]}
      /\ pc[w] \in {"serve", "write"} =>
           /\ Given(c, n, req[w], continued[c]) /\ taken[c] = sent[c]
           /\ sent[c] = End(c)[n + 1] \/ ended[c] = "fin"

Due(w) == pc[w] \in Busy /\ conn[w] \in Disciplined /\ ended[conn[w]] # "reset"

AllInTurn == \A w \in Workers : Due(w) => InTurn(w)

Waiting ==
  \A c \in Disciplined : cstate[c] \in {"new", "queued"} =>
     AtTurn(c, 0, sent[c]) /\ continued[c] = 0 /\ taken[c] = 0

NoEmptyParse ==
  \A w \in Workers : pc[w] = "parse" /\ totsize[w] = 0 => ended[conn[w]] # "no"

RightSoFar == AnswersRight /\ \A c \in Disciplined : Len(answers[c]) <= Len(Script[c])

Turns == NoEmptyParse /\ Waiting /\ RightSoFar /\ AllInTurn

(* Offsets of the stream belong to one request.                            *)
LEMMA OneRequest ==
  ASSUME NEW c \in Clients, NEW j \in Indices(c), NEW k \in Indices(c), NEW o \in Int,
         Begin(c, j) <= o, o < End(c)[j], Begin(c, k) <= o, o < End(c)[k]
  PROVE  j = k
<1>1. /\ j \in Nat /\ k \in Nat
      /\ j \in 0..Len(Script[c]) /\ k \in 0..Len(Script[c])
      /\ j - 1 \in 0..Len(Script[c]) /\ k - 1 \in 0..Len(Script[c])
      /\ \A i \in 0..Len(Script[c]) : End(c)[i] \in Nat
  BY EndDef DEF Indices
<1>2. CASE j < k
  <2>1. j = k - 1 \/ End(c)[j] < End(c)[k - 1]
    BY <1>1, <1>2, EndIncreases
  <2>2. QED
    BY <1>1, <2>1 DEF Begin
<1>3. CASE k < j
  <2>1. k = j - 1 \/ End(c)[k] < End(c)[j - 1]
    BY <1>1, <1>3, EndIncreases
  <2>2. QED
    BY <1>1, <2>1 DEF Begin
<1>4. QED
  BY <1>1, <1>2, <1>3

(* Where the next piece of a disciplined client ends: it is the next       *)
(* request, or its head as long as 100 Continue is due.                    *)
LEMMA NextStop ==
  ASSUME TypeOK, NEW c \in Disciplined, NEW n \in Nat, n = Len(answers[c]),
         n <= Len(Script[c]), End(c)[n] <= sent[c], NEW o \in Stops(c)
  PROVE  /\ n + 1 \in Indices(c) /\ o \in Int /\ sent[c] < o
         /\ o = End(c)[n + 1] \/ (Script[c][n + 1].expect /\ o = HeadEnd(c, n + 1))
         /\ Script[c][n + 1].expect /\ continued[c] <= n => o = HeadEnd(c, n + 1)
<1>a. c \in Clients /\ c \notin Splitters /\ c \notin Pipeliners
  BY DEF Disciplined
<1> DEFINE N == Len(Script[c])
<1>1. N \in Nat /\ \A i \in 0..N : End(c)[i] \in Nat
  BY <1>a, EndDef
<1>2. sent[c] \in Nat /\ continued[c] \in Nat
  BY <1>a DEF TypeOK
<1>3. o \in Int /\ sent[c] < o /\ o <= End(c)[N]
  BY <1>1, <1>2 DEF Stops
<1>4. n # N
  BY <1>1, <1>2, <1>3
<1>5. n + 1 \in Indices(c) /\ n + 1 \in 0..N /\ n \in 0..N /\ Begin(c, n + 1) = End(c)[n]
  BY <1>1, <1>4 DEF Indices, Begin
<1>6. o <= End(c)[n + 1]
  BY <1>a, <1>5 DEF Stops
<1>7. PICK k \in Indices(c) :
        o = End(c)[k] \/ (Script[c][k].expect /\ o = HeadEnd(c, k))
  BY <1>a DEF Stops
<1>8. /\ Begin(c, k) < o /\ o <= End(c)[k]
      /\ Begin(c, n + 1) < o /\ o <= End(c)[n + 1]
  <2>1. /\ Begin(c, k) \in Nat /\ HeadEnd(c, k) \in Nat /\ End(c)[k] \in Nat
        /\ Begin(c, k) < HeadEnd(c, k) /\ HeadEnd(c, k) <= End(c)[k]
    BY <1>a, Places
  <2>2. End(c)[n] \in Nat
    BY <1>1, <1>5
  <2>3. QED
    BY <1>2, <1>3, <1>5, <1>6, <1>7, <2>1, <2>2
<1>9. k = n + 1
  <2>1. /\ Begin(c, k) \in Nat /\ Begin(c, n + 1) \in Nat
        /\ End(c)[k] \in Nat /\ End(c)[n + 1] \in Nat
    BY <1>a, <1>5, Places
  <2>2. /\ o - 1 \in Int /\ Begin(c, k) <= o - 1 /\ o - 1 < End(c)[k]
        /\ Begin(c, n + 1) <= o - 1 /\ o - 1 < End(c)[n + 1]
    BY <1>3, <1>8, <2>1
  <2>3. QED
    BY <1>a, <1>5, <2>2, OneRequest
<1>10. ASSUME Script[c][n + 1].expect, continued[c] <= n
       PROVE  o = HeadEnd(c, n + 1)
  <2>1. o <= HeadEnd(c, n + 1)
    <3>1. continued[c] < n + 1
      BY <1>2, <1>10
    <3>2. QED
      BY <1>5, <1>10, <3>1 DEF Stops
  <2>2. HeadEnd(c, n + 1) \in Nat /\ HeadEnd(c, n + 1) <= End(c)[n + 1] /\ End(c)[n + 1] \in Nat
    BY <1>a, <1>5, Places
  <2>3. QED
    BY <1>3, <1>7, <1>9, <2>1, <2>2
<1>11. QED
  BY <1>3, <1>5, <1>7, <1>9, <1>10

(* At a turn, what lies behind the answered requests is the head of the    *)
(* next one at least, or nothing.                                          *)
LEMMA TurnPlaces ==
  ASSUME NEW c \in Clients, NEW n \in Nat, n <= Len(Script[c]), NEW s, AtTurn(c, n, s)
  PROVE  /\ s \in Nat /\ End(c)[n] \in Nat /\ End(c)[n] <= s
         /\ s # End(c)[n] =>
              /\ n + 1 \in Indices(c) /\ Begin(c, n + 1) = End(c)[n]
              /\ HeadEnd(c, n + 1) <= s
              /\ s = IF Script[c][n + 1].expect THEN HeadEnd(c, n + 1) ELSE End(c)[n + 1]
<1>1. /\ Len(Script[c]) \in Nat /\ n \in 0..Len(Script[c])
      /\ \A i \in 0..Len(Script[c]) : End(c)[i] \in Nat
  BY EndDef
<1>2. CASE s = End(c)[n]
  BY <1>1, <1>2
<1>3. CASE s # End(c)[n]
  <2>1. n + 1 \in Indices(c) /\ (n + 1) - 1 = n
    BY <1>1, <1>3 DEF AtTurn, Indices
  <2>2. /\ Begin(c, n + 1) = End(c)[n]
        /\ HeadEnd(c, n + 1) \in Nat /\ End(c)[n + 1] \in Nat /\ End(c)[n] \in Nat
        /\ Begin(c, n + 1) < HeadEnd(c, n + 1) /\ HeadEnd(c, n + 1) <= End(c)[n + 1]
    BY <1>1, <2>1, Places
  <2>3. s = IF Script[c][n + 1].expect THEN HeadEnd(c, n + 1) ELSE End(c)[n + 1]
    BY <1>3 DEF AtTurn
  <2>4. QED
    BY <2>1, <2>2, <2>3
<1>4. QED
  BY <1>2, <1>3

(* A step of worker w that does nothing to other connections leaves the    *)
(* other workers at their turns.                                           *)
LEMMA OtherTurns ==
  ASSUME TypeInv, Ownership, AllInTurn, NEW w \in Workers,
         \A v \in Workers \ {w} :
            /\ pc'[v] = pc[v] /\ conn'[v] = conn[v]
            /\ from'[v] = from[v] /\ req'[v] = req[v],
         \A c \in Clients \ {conn[w]} :
            taken'[c] = taken[c] /\ answers'[c] = answers[c] /\ continued'[c] = continued[c],
         UNCHANGED <<sent, ended>>,
         Due(w)' => InTurn(w)'
  PROVE  AllInTurn'
<1>1. ASSUME NEW v \in Workers \ {w}, Due(v)'
      PROVE  InTurn(v)'
  <2>1. pc[v] \in Busy /\ Due(v)
    BY <1>1 DEF Due
  <2>2. conn[v] \in Clients /\ conn[v] # conn[w]
    BY <2>1, BusyConn, NoClientAssumption DEF Busy, Ownership, OneHolder
  <2>3. /\ taken'[conn[v]] = taken[conn[v]] /\ answers'[conn[v]] = answers[conn[v]]
        /\ continued'[conn[v]] = continued[conn[v]]
        /\ conn'[v] = conn[v] /\ pc'[v] = pc[v] /\ from'[v] = from[v] /\ req'[v] = req[v]
        /\ sent' = sent /\ ended' = ended
    BY <2>2
  <2>4. InTurn(v)
    BY <2>1 DEF AllInTurn
  <2>5. QED
    BY <2>3, <2>4 DEF InTurn
<1>2. QED
  BY <1>1 DEF AllInTurn

(* An empty buffer is parsed only when the client has gone.                *)
LEMMA NextNoEmptyParse ==
  ASSUME TypeInv, TypeInv', Ownership, NoEmptyParse, [Next]_vars
  PROVE  NoEmptyParse'
<1> USE DEF Goto, buffer, client
<1>a. TypeOK /\ TypeOK'
  BY DEF TypeInv
<1>b. ASSUME NEW w \in Workers, UNCHANGED ended,
             \A v \in Workers \ {w} :
               pc'[v] = pc[v] /\ totsize'[v] = totsize[v] /\ conn'[v] = conn[v],
             pc'[w] # "parse" \/ totsize'[w] # 0 \/ ended[conn'[w]] # "no"
      PROVE  NoEmptyParse'
  BY <1>b DEF NoEmptyParse
<1>c. ASSUME UNCHANGED <<pc, totsize, conn>>,
             \A c \in Clients : ended[c] # "no" => ended'[c] # "no"
      PROVE  NoEmptyParse'
  <2>1. ASSUME NEW w \in Workers, pc[w] = "parse", totsize[w] = 0
        PROVE  ended'[conn[w]] # "no"
    BY <1>c, <2>1, BusyConn DEF NoEmptyParse, Busy
  <2>2. QED
    BY <1>c, <2>1 DEF NoEmptyParse
<1>1. ASSUME NEW w \in Workers, Accept(w)
      PROVE  NoEmptyParse'
  BY <1>1, <1>a, <1>b DEF TypeOK, Accept, NextRequest, FreshBuffer
<1>2. ASSUME NEW w \in Workers, ReadFull(w)
      PROVE  NoEmptyParse'
  BY <1>2, <1>a, <1>b DEF TypeOK, ReadFull
<1>3. ASSUME NEW w \in Workers, ReadShort(w)
      PROVE  NoEmptyParse'
  <2>1. conn[w] \in Clients
    BY <1>3, BusyConn DEF ReadShort, Busy
  <2>2. Available(conn[w]) \in Int /\ Available(conn[w]) > 0 /\ totsize[w] \in Nat
    BY <1>3, <1>a, <2>1 DEF TypeOK, ReadShort, Available
  <2>3. totsize'[w] = totsize[w] + Available(conn[w])
    BY <1>3, <1>a DEF TypeOK, ReadShort
  <2>4. totsize'[w] # 0
    BY <2>2, <2>3
  <2>5. QED
    BY <1>3, <1>a, <1>b, <2>4 DEF TypeOK, ReadShort
<1>4. ASSUME NEW w \in Workers, ReadEnd(w)
      PROVE  NoEmptyParse'
  BY <1>4, <1>a, <1>b DEF TypeOK, ReadEnd
<1>5. ASSUME NEW w \in Workers, ReadFails(w)
      PROVE  NoEmptyParse'
  <2>1. pc'[w] \in {"accept", "serve"} /\ UNCHANGED <<ended, totsize>>
    BY <1>5, <1>a DEF TypeOK, ReadFails, Close
  <2>2. \A v \in Workers \ {w} : pc'[v] = pc[v] /\ conn'[v] = conn[v]
    BY <1>5, <1>a DEF TypeOK, ReadFails, Close
  <2>3. QED
    BY <1>b, <2>1, <2>2
<1>6. ASSUME NEW w \in Workers, ParseNothing(w)
      PROVE  NoEmptyParse'
  BY <1>6, <1>a, <1>b DEF TypeOK, ParseNothing, Close
<1>7. ASSUME NEW w \in Workers, ParseHead(w) \/ ParseFragment(w)
      PROVE  NoEmptyParse'
  <2>1. PICK k, expect : Parsed(w, k, expect)
    BY <1>7 DEF ParseHead, ParseFragment
  <2>2. UNCHANGED <<conn, ended>>
    BY <1>7 DEF ParseHead, ParseFragment
  <2>3. QED
    BY <1>a, <1>b, <2>1, <2>2, ParsedFrame
<1>8. ASSUME NEW w \in Workers, ParseNoPath(w) \/ Crash(w)
      PROVE  NoEmptyParse'
  <2>1. Die(w)
    BY <1>8 DEF ParseNoPath, Crash
  <2>2. pc'[w] = "dead" /\ UNCHANGED <<ended, totsize>>
    BY <1>a, <2>1 DEF TypeOK, Die
  <2>3. \A v \in Workers \ {w} : pc'[v] = pc[v] /\ conn'[v] = conn[v]
    BY <1>a, <2>1 DEF TypeOK, Die
  <2>4. QED
    BY <1>b, <2>2, <2>3
<1>9. ASSUME NEW w \in Workers, WriteBlocks(w)
      PROVE  NoEmptyParse'
  BY <1>9, <1>a, <1>b DEF TypeOK, WriteBlocks
<1>10. ASSUME NEW w \in Workers, Serve(w)
       PROVE  NoEmptyParse'
  BY <1>10, <1>a, <1>b DEF TypeOK, Serve, Written, NextRequest, FreshBuffer, Close
<1>11. ASSUME NEW c \in Clients, Connect(c) \/ ClientSend(c) \/ ClientEnd(c)
       PROVE  NoEmptyParse'
  BY <1>11, <1>a, <1>c DEF TypeOK, Connect, ClientSend, ClientEnd
<1>12. CASE UNCHANGED vars
  BY <1>12, <1>c DEF vars
<1>13. QED
  BY <1>1, <1>2, <1>3, <1>4, <1>5, <1>6, <1>7, <1>8, <1>9, <1>10, <1>11, <1>12
  DEF Next, Worker, Client

(* What a step of worker w leaves alone.                                   *)
LEMMA WorkerFrame ==
  ASSUME TypeInv, NEW w \in Workers, Worker(w) \/ Crash(w)
  PROVE  /\ UNCHANGED <<sent, ended>>
         /\ \A v \in Workers \ {w} :
              /\ pc'[v] = pc[v] /\ conn'[v] = conn[v]
              /\ from'[v] = from[v] /\ req'[v] = req[v]
         /\ \A c \in Clients \ {conn[w]} :
              /\ taken'[c] = taken[c] /\ answers'[c] = answers[c]
              /\ continued'[c] = continued[c]
         /\ \A c \in Clients :
              cstate'[c] \in {"new", "queued"} => cstate'[c] = cstate[c]
<1> USE DEF Goto, buffer, client
<1>a. TypeOK
  BY DEF TypeInv
<1>1. CASE Accept(w)
  BY <1>a, <1>1 DEF TypeOK, Accept, NextRequest
<1>2. CASE ReadFull(w)
  BY <1>a, <1>2 DEF TypeOK, ReadFull
<1>3. CASE ReadShort(w)
  BY <1>a, <1>3 DEF TypeOK, ReadShort
<1>4. CASE ReadEnd(w)
  BY <1>a, <1>4 DEF TypeOK, ReadEnd
<1>5. CASE ReadFails(w)
  BY <1>a, <1>5 DEF TypeOK, ReadFails, Close
<1>6. CASE ParseNothing(w)
  BY <1>a, <1>6 DEF TypeOK, ParseNothing, Close
<1>7. CASE ParseHead(w) \/ ParseFragment(w)
  <2>1. PICK k, expect : Parsed(w, k, expect)
    BY <1>7 DEF ParseHead, ParseFragment
  <2>2. /\ UNCHANGED <<conn, from, cstate, sent, ended, taken, answers>>
        /\ \A v \in Workers \ {w} : req'[v] = req[v]
    BY <1>a, <1>7 DEF TypeOK, ParseHead, ParseFragment
  <2>3. \A v \in Workers \ {w} : pc'[v] = pc[v]
    BY <1>a, <2>1, ParsedFrame
  <2>4. \A c \in Clients \ {conn[w]} : continued'[c] = continued[c]
    BY <1>a, <2>1 DEF TypeOK, Parsed
  <2>5. QED
    BY <2>2, <2>3, <2>4
<1>8. CASE ParseNoPath(w) \/ Crash(w)
  <2>1. Die(w)
    BY <1>8 DEF ParseNoPath, Crash
  <2>2. QED
    BY <1>a, <2>1 DEF TypeOK, Die
<1>9. CASE WriteBlocks(w)
  BY <1>a, <1>9 DEF TypeOK, WriteBlocks
<1>10. CASE Serve(w)
  <2>1. /\ UNCHANGED <<sent, ended, taken, continued>>
        /\ \A v \in Workers \ {w} : req'[v] = req[v]
        /\ \A c \in Clients \ {conn[w]} : answers'[c] = answers[c]
    BY <1>a, <1>10 DEF TypeOK, Serve, Written
  <2>2. CASE NextRequest(w, conn[w]) /\ UNCHANGED <<conn, cstate>>
    BY <1>a, <2>1, <2>2 DEF TypeOK, NextRequest
  <2>3. CASE Close(w) /\ UNCHANGED from
    BY <1>a, <2>1, <2>3 DEF TypeOK, Close
  <2>4. QED
    BY <1>10, <2>2, <2>3 DEF Serve
<1>11. QED
  BY <1>1, <1>2, <1>3, <1>4, <1>5, <1>6, <1>7, <1>8, <1>9, <1>10 DEF Worker

(* Nobody reads from a client or answers it before it is accepted.         *)
LEMMA NextWaiting ==
  ASSUME TypeInv, Ownership, Order, RightSoFar, Waiting, [Next]_vars
  PROVE  Waiting'
<1>a. TypeOK
  BY DEF TypeInv
<1>1. ASSUME NEW w \in Workers, Worker(w) \/ Crash(w)
      PROVE  Waiting'
  <2>1. ASSUME NEW c \in Disciplined, cstate'[c] \in {"new", "queued"}
        PROVE  AtTurn(c, 0, sent'[c]) /\ continued'[c] = 0 /\ taken'[c] = 0
    <3>1. c \in Clients /\ cstate[c] \in {"new", "queued"} /\ sent' = sent
      BY <1>1, <2>1, WorkerFrame DEF Disciplined
    <3>2. conn[w] # c
      BY <3>1 DEF Ownership, OpenIsHeld
    <3>3. taken'[c] = taken[c] /\ continued'[c] = continued[c]
      BY <1>1, <3>1, <3>2, WorkerFrame
    <3>4. QED
      BY <3>1, <3>3 DEF Waiting
  <2>2. QED
    BY <2>1 DEF Waiting
<1>2. ASSUME NEW d \in Clients, Connect(d) \/ ClientEnd(d)
      PROVE  Waiting'
  <2>1. /\ UNCHANGED <<sent, continued, taken>>
        /\ \A c \in Clients :
             cstate'[c] \in {"new", "queued"} => cstate[c] \in {"new", "queued"}
    <3>1. CASE Connect(d)
      BY <1>a, <3>1 DEF TypeOK, Connect, client
    <3>2. CASE ClientEnd(d)
      BY <1>a, <3>2 DEF TypeOK, ClientEnd
    <3>3. QED
      BY <1>2, <3>1, <3>2
  <2>2. ASSUME NEW c \in Disciplined, cstate'[c] \in {"new", "queued"}
        PROVE  AtTurn(c, 0, sent'[c]) /\ continued'[c] = 0 /\ taken'[c] = 0
    <3>1. c \in Clients
      BY DEF Disciplined
    <3>2. cstate[c] \in {"new", "queued"}
      BY <2>1, <2>2, <3>1
    <3>3. QED
      BY <2>1, <3>2 DEF Waiting
  <2>3. QED
    BY <2>2 DEF Waiting
<1>3. ASSUME NEW d \in Clients, ClientSend(d)
      PROVE  Waiting'
  <2>1. PICK o \in Stops(d) : sent' = [sent EXCEPT ![d] = o]
    BY <1>3 DEF ClientSend
  <2>2. UNCHANGED <<cstate, continued, taken>>
    BY <1>3 DEF ClientSend
  <2>3. ASSUME NEW c \in Disciplined, cstate[c] \in {"new", "queued"}
        PROVE  AtTurn(c, 0, sent'[c]) /\ continued[c] = 0 /\ taken[c] = 0
    <3>1. /\ c \in Clients /\ answers[c] = <<>> /\ Len(answers[c]) = 0
          /\ AtTurn(c, 0, sent[c]) /\ continued[c] = 0 /\ taken[c] = 0
          /\ Len(Script[c]) \in Nat
      BY <2>3, EndDef DEF Waiting, Order, Unanswered, Disciplined
    <3>2. CASE c # d
      BY <1>a, <2>1, <3>1, <3>2 DEF TypeOK
    <3>3. CASE c = d
      <4>1. sent'[c] = o
        BY <1>a, <2>1, <3>1, <3>3 DEF TypeOK
      <4>2. End(c)[0] <= sent[c]
        BY <3>1, TurnPlaces
      <4>3. /\ 0 + 1 \in Indices(c)
            /\ o = End(c)[0 + 1] \/ (Script[c][0 + 1].expect /\ o = HeadEnd(c, 0 + 1))
            /\ Script[c][0 + 1].expect => o = HeadEnd(c, 0 + 1)
        BY <1>a, <2>1, <3>1, <3>3, <4>2, NextStop
      <4>4. 0 < Len(Script[c])
        BY <3>1, <4>3 DEF Indices
      <4>5. QED
        BY <3>1, <4>1, <4>3, <4>4 DEF AtTurn
    <3>4. QED
      BY <3>2, <3>3
  <2>4. QED
    BY <2>2, <2>3 DEF Waiting
<1>4. CASE UNCHANGED vars
  BY <1>4 DEF Waiting, vars
<1>5. QED
  BY <1>1, <1>2, <1>3, <1>4 DEF Next, Client

(* What is behind the head is the body, no more, no less.                  *)
LEMMA ExactBody == \A x \in Nat : BodyServed(x, x) = "exact"
  BY DEF BodyServed

(* Every step of a worker keeps the turns.                                 *)
LEMMA WorkerTurns ==
  ASSUME TypeInv, TypeInv', Ownership, Stream, Order, Turns,
         NEW w \in Workers, Worker(w) \/ Crash(w)
  PROVE  RightSoFar' /\ AllInTurn'
<1> USE DEF Goto, buffer, client
<1> DEFINE c == conn[w]
           n == Len(answers[c])
           N == Len(Script[c])
           b == totsize[w]
<1>a. TypeOK /\ TypeOK' /\ UNCHANGED <<sent, ended>>
  BY WorkerFrame DEF TypeInv
<1>b. ASSUME UNCHANGED answers
      PROVE  RightSoFar'
  BY <1>b DEF Turns, RightSoFar, AnswersRight
<1>c. ASSUME Due(w)' => InTurn(w)'
      PROVE  AllInTurn'
  BY <1>c, WorkerFrame, OtherTurns DEF Turns
<1>d. ASSUME c \in Disciplined
      PROVE  /\ c \in Clients /\ n \in Nat /\ N \in Nat /\ n <= N /\ n \in 0..N
             /\ b \in Nat /\ from[w] \in Nat /\ taken[c] \in Nat /\ sent[c] \in Nat
             /\ continued[c] \in Nat
             /\ \A i \in 0..N : End(c)[i] \in Nat
             /\ End(c)[n] \in Nat /\ taken[c] <= sent[c]
  <2>1. c \in Clients
    BY <1>d DEF Disciplined
  <2>2. n \in Nat /\ n <= N
    BY <1>a, <1>d, <2>1 DEF TypeOK, Turns, RightSoFar
  <2>3. N \in Nat /\ \A i \in 0..N : End(c)[i] \in Nat
    BY <2>1, EndDef
  <2>4. QED
    BY <1>a, <2>1, <2>2, <2>3 DEF TypeOK, Stream, NothingInvented
<1>e. ASSUME pc'[w] \notin Busy \/ conn'[w] \notin Disciplined, UNCHANGED answers
      PROVE  RightSoFar' /\ AllInTurn'
  BY <1>b, <1>c, <1>e DEF Due
<1>1. CASE Accept(w)
  <2>1. PICK d \in Clients :
          cstate[d] = "queued" /\ conn' = [conn EXCEPT ![w] = d] /\ NextRequest(w, d)
    BY <1>1 DEF Accept
  <2>2. UNCHANGED <<taken, continued, answers>>
    BY <1>1 DEF Accept
  <2>3. pc'[w] = "read" /\ conn'[w] = d /\ from'[w] = taken[d]
    BY <1>a, <2>1 DEF TypeOK, NextRequest
  <2>4. ASSUME d \in Disciplined
        PROVE  InTurn(w)'
    <3>1. AtTurn(d, 0, sent[d]) /\ continued[d] = 0 /\ taken[d] = 0 /\ answers[d] = <<>>
      BY <2>1, <2>4 DEF Turns, Waiting, Order, Unanswered
    <3>2. Len(answers[d]) = 0 /\ End(d)[0] = 0
      BY <2>1, <3>1, EndDef
    <3>3. QED
      BY <1>a, <2>2, <2>3, <3>1, <3>2 DEF InTurn
  <2>5. QED
    BY <1>b, <1>c, <2>2, <2>3, <2>4 DEF Due
<1>2. CASE ReadFull(w)
  <2>1. /\ UNCHANGED <<pc, conn, from, req, continued, answers>> /\ pc[w] \in {"read", "more"}
        /\ taken' = [taken EXCEPT ![c] = @ + (cursize[w] - curpos[w])]
    BY <1>2 DEF ReadFull
  <2>2. cursize[w] - curpos[w] \in Nat
    BY <1>2, RoomLeft DEF ReadFull, Reading
  <2>3. ASSUME Due(w)
        PROVE  InTurn(w)'
    <3>1. c \in Disciplined /\ InTurn(w)
      BY <2>3 DEF Due, Turns, AllInTurn
    <3>2. taken'[c] \in Nat /\ taken[c] <= taken'[c]
      <4>1. taken'[c] = taken[c] + (cursize[w] - curpos[w])
        BY <1>a, <1>d, <2>1, <3>1 DEF TypeOK
      <4>2. QED
        BY <1>d, <2>2, <3>1, <4>1
    <3>3. CASE pc[w] = "read"
      BY <1>a, <2>1, <3>1, <3>3 DEF InTurn
    <3>4. CASE pc[w] = "more"
      <4>1. /\ Given(c, n, req[w], continued[c]) /\ Script[c][n + 1].expect
            /\ taken[c] >= HeadEnd(c, n + 1)
            /\ sent[c] \in {HeadEnd(c, n + 1), End(c)[n + 1]}
        BY <3>1, <3>4 DEF InTurn
      <4>2. HeadEnd(c, n + 1) \in Nat
        BY <1>d, <3>1, <4>1, Places DEF Given
      <4>3. taken'[c] >= HeadEnd(c, n + 1)
        BY <1>d, <3>1, <3>2, <4>1, <4>2
      <4>4. QED
        BY <1>a, <2>1, <3>4, <4>1, <4>3 DEF InTurn
    <3>5. QED
      BY <2>1, <3>3, <3>4
  <2>4. Due(w)' => Due(w)
    BY <1>a, <2>1 DEF Due
  <2>5. QED
    BY <1>b, <1>c, <2>1, <2>3, <2>4
<1>3. CASE ReadShort(w) \/ ReadEnd(w)
  <2>1. /\ UNCHANGED <<conn, from, req, continued, answers>> /\ pc[w] \in {"read", "more"}
        /\ pc'[w] = IF pc[w] = "read" THEN "parse" ELSE "serve"
    BY <1>a, <1>3 DEF TypeOK, ReadShort, ReadEnd, AfterRead
  <2>2. Due(w)' => Due(w)
    BY <1>a, <2>1 DEF Due, Busy
  <2>3. ASSUME Due(w)
        PROVE  InTurn(w)'
    <3>1. c \in Disciplined /\ InTurn(w)
      BY <2>3 DEF Due, Turns, AllInTurn
    <3>2. taken'[c] = sent[c] /\ (ended[c] = "fin" \/ taken[c] < sent[c])
      <4>1. CASE ReadShort(w)
        <5>1. taken'[c] = taken[c] + Available(c) /\ Available(c) > 0
          BY <1>a, <1>d, <3>1, <4>1 DEF TypeOK, ReadShort
        <5>2. QED
          BY <1>d, <3>1, <5>1 DEF Available
      <4>2. CASE ReadEnd(w)
        <5>1. taken'[c] = taken[c] /\ Available(c) = 0 /\ ended[c] = "fin"
          BY <4>2 DEF ReadEnd
        <5>2. QED
          BY <1>d, <3>1, <5>1 DEF Available
      <4>3. QED
        BY <1>3, <4>1, <4>2
    <3>3. CASE pc[w] = "read"
      BY <1>a, <2>1, <3>1, <3>2, <3>3 DEF InTurn
    <3>4. CASE pc[w] = "more"
      <4>1. /\ Given(c, n, req[w], continued[c])
            /\ taken[c] >= HeadEnd(c, n + 1)
            /\ sent[c] \in {HeadEnd(c, n + 1), End(c)[n + 1]}
        BY <3>1, <3>4 DEF InTurn
      <4>2. HeadEnd(c, n + 1) \in Nat
        BY <1>d, <3>1, <4>1, Places DEF Given
      <4>3. sent[c] = End(c)[n + 1] \/ ended[c] = "fin"
        BY <1>d, <3>1, <3>2, <4>1, <4>2
      <4>4. QED
        BY <1>a, <2>1, <3>2, <3>4, <4>1, <4>3 DEF InTurn
    <3>5. QED
      BY <2>1, <3>3, <3>4
  <2>4. QED
    BY <1>b, <1>c, <2>1, <2>2, <2>3
<1>4. CASE ReadFails(w)
  <2>1. UNCHANGED answers /\ ended[c] = "reset"
    BY <1>4 DEF ReadFails
  <2>2. pc'[w] \notin Busy \/ conn'[w] = c
    BY <1>a, <1>4 DEF TypeOK, ReadFails, Close, Busy
  <2>3. ~Due(w)'
    BY <1>a, <2>1, <2>2 DEF Due
  <2>4. QED
    BY <1>b, <1>c, <2>1, <2>3
<1>5. CASE ParseNothing(w)
  <2>1. pc'[w] \notin Busy /\ UNCHANGED answers
    BY <1>a, <1>5 DEF TypeOK, ParseNothing, Close, Busy
  <2>2. QED
    BY <1>e, <2>1
<1>f. ASSUME pc[w] = "parse", c \in Disciplined, ended[c] # "reset", b # 0
      PROVE  /\ from[w] = End(c)[n] /\ from[w] + b = sent[c] /\ taken[c] = sent[c]
             /\ continued[c] <= n /\ n + 1 \in Indices(c) /\ Begin(c, n + 1) = End(c)[n]
             /\ HeadEnd(c, n + 1) <= sent[c]
             /\ sent[c] = IF Script[c][n + 1].expect THEN HeadEnd(c, n + 1)
                          ELSE End(c)[n + 1]
  <2>1. InTurn(w)
    BY <1>f DEF Turns, AllInTurn, Due, Busy
  <2>2. from[w] + b = taken[c]
    BY <1>f DEF Stream, BufferIsStream
  <2>3. taken[c] = sent[c] /\ from[w] # sent[c]
    BY <1>d, <1>f, <2>1, <2>2 DEF InTurn
  <2>4. from[w] = End(c)[n] /\ AtTurn(c, n, sent[c]) /\ continued[c] <= n
    BY <1>f, <2>1, <2>3 DEF InTurn
  <2>5. QED
    BY <1>d, <1>f, <2>2, <2>3, <2>4, TurnPlaces
<1>6. CASE ParseHead(w)
  <2>1. pc[w] = "parse" /\ UNCHANGED <<conn, taken, answers>>
    BY <1>6 DEF ParseHead
  <2>2. PICK k \in Indices(c) :
          LET script == Script[c][k] IN
          /\ HeadFound(w, k)
          /\ req' = [req EXCEPT ![w] =
                       [k    |-> k,
                        body |-> BodyServed(from[w] + b - HeadEnd(c, k), script.body),
                        keep |-> script.keep]]
          /\ Parsed(w, k, script.expect)
    BY <1>6 DEF ParseHead
  <2>3. ASSUME Due(w)'
        PROVE  InTurn(w)'
    <3>1. c \in Disciplined /\ ended[c] # "reset"
      BY <1>a, <2>1, <2>3 DEF Due
    <3>2. c \in Clients /\ Script[c][k].head \in Nat \ {0} /\ Script[c][k].body \in Nat
      BY <1>d, <2>2, <3>1, ScriptType
    <3>3. b # 0
      <4>1. from[w] <= Begin(c, k) /\ HeadEnd(c, k) <= from[w] + b
        <5>1. Begin(c, k) \in Nat /\ from[w] \in Nat
          BY <1>d, <2>2, <3>1, <3>2, Places
        <5>2. QED
          BY <2>2, <5>1 DEF HeadFound
      <4>2. /\ Begin(c, k) \in Nat /\ HeadEnd(c, k) \in Nat
            /\ Begin(c, k) < HeadEnd(c, k)
        BY <2>2, <3>2, Places
      <4>3. b \in Nat /\ from[w] \in Nat
        BY <1>d, <3>1
      <4>4. QED
        BY <4>1, <4>2, <4>3
    <3>4. k = n + 1
      <4>1. /\ from[w] = Begin(c, n + 1) /\ n + 1 \in Indices(c)
            /\ Begin(c, n + 1) \in Nat /\ End(c)[n + 1] \in Nat
            /\ Begin(c, n + 1) < End(c)[n + 1]
        <5>1. from[w] = Begin(c, n + 1) /\ n + 1 \in Indices(c)
          BY <1>f, <2>1, <3>1, <3>3
        <5>2. /\ Begin(c, n + 1) \in Nat /\ End(c)[n + 1] \in Nat
              /\ HeadEnd(c, n + 1) \in Nat
              /\ Begin(c, n + 1) < HeadEnd(c, n + 1) /\ HeadEnd(c, n + 1) <= End(c)[n + 1]
          BY <3>2, <5>1, Places
        <5>3. QED
          BY <5>1, <5>2
      <4>2. CASE from[w] = Begin(c, k)
        BY <2>2, <3>2, <4>1, <4>2, BeginOrder
      <4>3. CASE k > 1 /\ from[w] \in Begin(c, k - 1) + 1 .. Begin(c, k) - 1
        <5>1. k - 1 \in Indices(c)
          BY <2>2, <3>2, <4>3, Places DEF Indices
        <5>2. Begin(c, k - 1) \in Nat /\ End(c)[k - 1] \in Nat /\ Begin(c, k) = End(c)[k - 1]
          BY <2>2, <3>2, <5>1, Places
        <5>3. Begin(c, k - 1) < from[w] /\ from[w] < End(c)[k - 1]
          BY <4>1, <4>3, <5>2
        <5>4. k - 1 = n + 1
          BY <3>2, <4>1, <5>1, <5>2, <5>3, OneRequest
        <5>5. QED
          BY <4>1, <5>2, <5>3, <5>4
      <4>4. QED
        BY <2>2, <4>2, <4>3 DEF HeadFound
    <3>b. from[w] + b - HeadEnd(c, k) = b - Script[c][k].head
      <4>1. from[w] = Begin(c, k) /\ k \in Indices(c)
        BY <1>f, <2>1, <3>1, <3>3, <3>4
      <4>2. HeadEnd(c, k) = Begin(c, k) + Script[c][k].head /\ Begin(c, k) \in Nat
        BY <3>2, <4>1, Places
      <4>3. from[w] \in Nat /\ b \in Nat /\ Script[c][k].head \in Nat
        BY <1>d, <3>1, <3>2
      <4>4. QED
        BY <4>1, <4>2, <4>3
    <3>5. /\ req'[w].k = n + 1 /\ req'[w].keep = Script[c][n + 1].keep
          /\ req'[w].body = BodyServed(b - Script[c][k].head, Script[c][k].body)
      BY <1>a, <2>2, <3>4, <3>b DEF TypeOK
    <3>6. ASSUME ~Script[c][n + 1].expect
          PROVE  req'[w].body = "exact"
      <4>1. /\ from[w] + b = End(c)[n + 1] /\ from[w] = End(c)[n]
            /\ Begin(c, n + 1) = End(c)[n] /\ n + 1 \in Indices(c)
        BY <1>f, <2>1, <3>1, <3>3, <3>6
      <4>2. /\ HeadEnd(c, n + 1) = Begin(c, n + 1) + Script[c][k].head
            /\ End(c)[n + 1] = HeadEnd(c, n + 1) + Script[c][k].body
        BY <3>2, <3>4, <4>1, Places
      <4>3. /\ b \in Nat /\ End(c)[n] \in Nat /\ End(c)[n + 1] \in Nat
            /\ Script[c][k].head \in Nat /\ Script[c][k].body \in Nat
            /\ End(c)[n] + b = (End(c)[n] + Script[c][k].head) + Script[c][k].body
        <5>1. End(c)[n + 1] \in Nat
          BY <1>d, <3>1, <4>1, Places
        <5>2. QED
          BY <1>d, <3>1, <3>2, <4>1, <4>2, <5>1
      <4>4. b - Script[c][k].head = Script[c][k].body
        <5> HIDE DEF b, c, n
        <5>1. QED
          BY <4>3
      <4>5. BodyServed(b - Script[c][k].head, Script[c][k].body) = "exact"
        BY <3>2, <4>4, ExactBody
      <4>6. QED
        BY <3>5, <4>5
    <3>7. CASE Script[c][n + 1].expect
      <4>1. pc'[w] = "more" /\ continued'[c] = n + 1
        BY <1>a, <1>d, <2>2, <3>1, <3>4, <3>7 DEF TypeOK, Parsed
      <4>2. Given(c, n, req'[w], continued'[c])
        BY <1>d, <2>2, <3>1, <3>4, <3>5, <3>7, <4>1 DEF Given
      <4>3. sent[c] = HeadEnd(c, n + 1) /\ taken[c] = sent[c] /\ HeadEnd(c, n + 1) <= sent[c]
        BY <1>f, <2>1, <3>1, <3>3, <3>7
      <4>4. taken[c] >= HeadEnd(c, n + 1)
        BY <4>3
      <4>5. QED
        BY <1>a, <2>1, <3>7, <4>1, <4>2, <4>3, <4>4 DEF InTurn
    <3>8. CASE ~Script[c][n + 1].expect
      <4>1. pc'[w] = "serve" /\ continued'[c] = continued[c] /\ continued[c] <= n
        BY <1>a, <1>f, <2>1, <2>2, <3>1, <3>3, <3>4, <3>8 DEF TypeOK, Parsed
      <4>2. Given(c, n, req'[w], continued'[c])
        BY <1>d, <2>2, <3>1, <3>4, <3>5, <3>6, <3>8, <4>1 DEF Given
      <4>3. sent[c] = End(c)[n + 1] /\ taken[c] = sent[c]
        BY <1>f, <2>1, <3>1, <3>3, <3>8
      <4>4. QED
        BY <1>a, <2>1, <4>1, <4>2, <4>3 DEF InTurn
    <3>9. QED
      BY <3>7, <3>8
  <2>4. QED
    BY <1>b, <1>c, <2>1, <2>3
<1>7. CASE ParseFragment(w)
  <2>1. pc[w] = "parse" /\ UNCHANGED <<conn, answers>>
    BY <1>7 DEF ParseFragment
  <2>2. PICK k \in Indices(c) : Fragment(w, k)
    BY <1>7 DEF ParseFragment
  <2>3. ASSUME c \in Disciplined, ended[c] # "reset"
        PROVE  FALSE
    <3>1. b # 0 /\ from[w] \in Offsets(c, k) /\ (Begin(c, k) = from[w] => b < Script[c][k].head)
      BY <1>d, <2>2, <2>3 DEF Fragment
    <3>2. /\ from[w] = End(c)[n] /\ from[w] + b = sent[c]
          /\ n + 1 \in Indices(c) /\ Begin(c, n + 1) = End(c)[n]
          /\ HeadEnd(c, n + 1) <= sent[c]
      BY <1>f, <2>1, <2>3, <3>1
    <3>3. /\ HeadEnd(c, n + 1) = Begin(c, n + 1) + Script[c][n + 1].head
          /\ HeadEnd(c, n + 1) \in Nat /\ End(c)[n + 1] \in Nat
          /\ Begin(c, n + 1) < HeadEnd(c, n + 1) /\ HeadEnd(c, n + 1) <= End(c)[n + 1]
          /\ Begin(c, k) \in Nat /\ End(c)[k] \in Nat
      BY <1>d, <2>2, <2>3, <3>2, Places
    <3>4. /\ Begin(c, k) <= from[w] /\ from[w] < End(c)[k]
          /\ Begin(c, n + 1) <= from[w] /\ from[w] < End(c)[n + 1]
      BY <1>d, <2>3, <3>1, <3>2, <3>3 DEF Offsets
    <3>5. k = n + 1
      BY <1>d, <2>2, <2>3, <3>2, <3>4, OneRequest
    <3>6. Script[c][n + 1].head \in Nat
      BY <1>d, <2>3, <3>2, ScriptType
    <3>7. /\ b < Script[c][n + 1].head /\ b \in Nat /\ End(c)[n] \in Nat
          /\ End(c)[n] + Script[c][n + 1].head <= End(c)[n] + b
      BY <1>d, <2>3, <3>1, <3>2, <3>3, <3>5
    <3> HIDE DEF b, c, n
    <3>8. QED
      BY <3>6, <3>7
  <2>4. ~Due(w)'
    BY <1>a, <2>1, <2>3 DEF Due
  <2>5. QED
    BY <1>b, <1>c, <2>1, <2>4
<1>8. CASE ParseNoPath(w) \/ Crash(w)
  <2>1. Die(w)
    BY <1>8 DEF ParseNoPath, Crash
  <2>2. pc'[w] \notin Busy /\ UNCHANGED answers
    BY <1>a, <2>1 DEF TypeOK, Die, Busy
  <2>3. QED
    BY <1>e, <2>2
<1>9. CASE WriteBlocks(w)
  <2>1. /\ UNCHANGED <<conn, from, req, taken, continued, answers>> /\ pc[w] = "serve"
        /\ pc'[w] = "write"
    BY <1>a, <1>9 DEF TypeOK, WriteBlocks
  <2>2. ASSUME Due(w)'
        PROVE  InTurn(w)'
    <3>1. InTurn(w)
      BY <1>a, <2>1, <2>2 DEF Due, Busy, Turns, AllInTurn
    <3>2. QED
      BY <1>a, <2>1, <3>1 DEF InTurn
  <2>3. QED
    BY <1>b, <1>c, <2>1, <2>2
<1>10. CASE Serve(w)
  <2> DEFINE a == [k |-> req[w].k, body |-> req[w].body]
  <2>1. /\ UNCHANGED <<taken, continued>> /\ pc[w] \in Busy /\ c \in Clients
        /\ answers' = IF ended[c] = "reset" THEN answers
                      ELSE [answers EXCEPT ![c] = Append(@, a)]
    BY <1>10, BusyConn DEF Serve, Written, Busy
  <2>2. pc'[w] \notin Busy \/ conn'[w] = c
    BY <1>a, <1>10 DEF TypeOK, Serve, Close, Busy
  <2>3. CASE ended[c] = "reset"
    <3>1. ~Due(w)' /\ UNCHANGED answers
      BY <1>a, <2>1, <2>2, <2>3 DEF Due
    <3>2. QED
      BY <1>b, <1>c, <3>1
  <2>4. CASE ended[c] # "reset"
    <3>1. pc[w] = "serve"
      BY <1>10, <2>4 DEF Serve, Written
    <3>2. /\ answers'[c] = Append(answers[c], a)
          /\ \A d \in Clients \ {c} : answers'[d] = answers[d]
      BY <1>a, <2>1, <2>4 DEF TypeOK
    <3>3. answers[c] \in Seq([k : Nat, body : Bodies]) /\ a \in [k : Nat, body : Bodies]
      BY <1>a, <2>1 DEF TypeOK, Bodies
    <3>4. /\ Len(answers'[c]) = n + 1 /\ answers'[c][n + 1] = a
          /\ \A i \in 1..n : answers'[c][i] = answers[c][i]
          /\ n \in Nat
      BY <3>2, <3>3
    <3>5. ASSUME c \in Disciplined
          PROVE  /\ Given(c, n, req[w], continued[c]) /\ taken[c] = sent[c]
                 /\ sent[c] = End(c)[n + 1] \/ ended[c] = "fin"
      <4>1. InTurn(w)
        BY <2>4, <3>1, <3>5 DEF Turns, AllInTurn, Due, Busy
      <4>2. QED
        BY <3>1, <4>1 DEF InTurn
    <3>6. RightSoFar'
      <4>1. ASSUME NEW d \in Disciplined, d # c
            PROVE  /\ Len(answers'[d]) <= Len(Script[d])
                   /\ \A i \in 1..Len(answers'[d]) :
                        /\ answers'[d][i].k = i
                        /\ ~Script[d][i].expect => answers'[d][i].body = "exact"
        <5>1. answers'[d] = answers[d]
          BY <3>2, <4>1 DEF Disciplined
        <5>2. QED
          BY <5>1 DEF Turns, RightSoFar, AnswersRight
      <4>2. ASSUME c \in Disciplined
            PROVE  /\ Len(answers'[c]) <= Len(Script[c])
                   /\ \A i \in 1..Len(answers'[c]) :
                        /\ answers'[c][i].k = i
                        /\ ~Script[c][i].expect => answers'[c][i].body = "exact"
        <5>1. /\ n + 1 \in Indices(c) /\ a.k = n + 1
              /\ ~Script[c][n + 1].expect => a.body = "exact"
          BY <3>5, <4>2 DEF Given
        <5>2. Len(answers'[c]) <= Len(Script[c])
          BY <1>d, <3>4, <4>2, <5>1 DEF Indices
        <5>3. ASSUME NEW i \in 1..n
              PROVE  /\ answers'[c][i].k = i
                     /\ ~Script[c][i].expect => answers'[c][i].body = "exact"
          <6>1. i \in 1..Len(answers[c]) /\ answers'[c][i] = answers[c][i]
            BY <3>4
          <6>2. QED
            BY <4>2, <6>1 DEF Turns, RightSoFar, AnswersRight
        <5> HIDE DEF a
        <5>4. \A i \in 1..Len(answers'[c]) : i = n + 1 \/ i \in 1..n
          BY <3>4
        <5>5. QED
          BY <3>4, <5>1, <5>2, <5>3, <5>4
      <4>3. QED
        BY <4>1, <4>2 DEF RightSoFar, AnswersRight
    <3>7. ASSUME Due(w)'
          PROVE  InTurn(w)'
      <4>1. NextRequest(w, c) /\ conn'[w] = c
        BY <1>a, <1>10, <2>2, <3>7 DEF TypeOK, Due, Serve, Close, Busy
      <4>2. pc'[w] = "read" /\ from'[w] = taken[c]
        BY <1>a, <4>1 DEF TypeOK, NextRequest
      <4>3. c \in Disciplined
        BY <3>7, <4>1 DEF Due
      <4>4. continued[c] <= n + 1
        BY <3>5, <4>3 DEF Given
      <4>5. CASE sent[c] = End(c)[n + 1]
        BY <1>a, <2>1, <3>4, <3>5, <4>1, <4>2, <4>3, <4>4, <4>5 DEF InTurn, AtTurn
      <4>6. CASE ended[c] = "fin"
        BY <1>a, <2>1, <3>5, <4>1, <4>2, <4>3, <4>6 DEF InTurn
      <4>7. QED
        BY <3>5, <4>3, <4>5, <4>6
    <3>8. QED
      BY <1>c, <3>6, <3>7
  <2>5. QED
    BY <2>3, <2>4
<1>11. QED
  BY <1>1, <1>2, <1>3, <1>4, <1>5, <1>6, <1>7, <1>8, <1>9, <1>10 DEF Worker

(* A client that sends ends where its turn lets it.                        *)
LEMMA SendTurns ==
  ASSUME TypeInv, Ownership, Stream, Turns, NEW d \in Clients, ClientSend(d)
  PROVE  AllInTurn'
<1>a. TypeOK
  BY DEF TypeInv
<1>1. PICK o \in Stops(d) : sent' = [sent EXCEPT ![d] = o]
  BY DEF ClientSend
<1>2. UNCHANGED <<pc, conn, from, totsize, req, taken, ended, continued, answers>>
  BY DEF ClientSend, buffer
<1>3. ended[d] = "no" /\ sent'[d] = o /\ \A c \in Clients \ {d} : sent'[c] = sent[c]
  BY <1>a, <1>1 DEF TypeOK, ClientSend
<1>4. ASSUME NEW w \in Workers, Due(w)
      PROVE  InTurn(w)'
  <2> DEFINE c == conn[w]
             n == Len(answers[c])
  <2>1. InTurn(w) /\ c \in Disciplined /\ c \in Clients
    BY <1>4 DEF Due, Turns, AllInTurn, Disciplined
  <2>2. CASE c # d
    <3>1. sent'[c] = sent[c]
      BY <1>3, <2>1, <2>2
    <3>2. QED
      BY <1>2, <2>1, <3>1 DEF InTurn
  <2>3. CASE c = d
    <3>1. /\ n \in Nat /\ n <= Len(Script[c]) /\ sent[c] \in Nat /\ continued[c] \in Nat
          /\ taken[c] \in Nat /\ taken[c] <= sent[c] /\ from[w] \in Nat /\ totsize[w] \in Nat
          /\ Len(Script[c]) \in Nat
      BY <1>a, <2>1, EndDef DEF TypeOK, Turns, RightSoFar, Stream, NothingInvented
    <3>2. \A i \in 0..Len(Script[c]) : End(c)[i] \in Nat
      BY <2>1, EndDef
    <3>3. ASSUME End(c)[n] <= sent[c]
          PROVE  /\ n + 1 \in Indices(c) /\ n < Len(Script[c]) /\ o \in Int /\ sent[c] < o
                 /\ o = End(c)[n + 1] \/ (Script[c][n + 1].expect /\ o = HeadEnd(c, n + 1))
                 /\ Script[c][n + 1].expect /\ continued[c] <= n => o = HeadEnd(c, n + 1)
                 /\ HeadEnd(c, n + 1) \in Nat /\ End(c)[n + 1] \in Nat
                 /\ HeadEnd(c, n + 1) <= End(c)[n + 1]
      <4>1. o \in Stops(c)
        BY <2>3
      <4> HIDE DEF c
      <4>2. /\ n + 1 \in Indices(c) /\ o \in Int /\ sent[c] < o
            /\ o = End(c)[n + 1] \/ (Script[c][n + 1].expect /\ o = HeadEnd(c, n + 1))
            /\ Script[c][n + 1].expect /\ continued[c] <= n => o = HeadEnd(c, n + 1)
        BY <1>a, <2>1, <3>1, <3>3, <4>1, NextStop
      <4>3. n < Len(Script[c])
        BY <3>1, <4>2 DEF Indices
      <4>4. /\ HeadEnd(c, n + 1) \in Nat /\ End(c)[n + 1] \in Nat
            /\ HeadEnd(c, n + 1) <= End(c)[n + 1]
        BY <2>1, <4>2, Places
      <4>5. QED
        BY <4>2, <4>3, <4>4
    <3>4. CASE pc[w] \in {"read", "parse"}
      <4>1. from[w] = End(c)[n] /\ AtTurn(c, n, sent[c]) /\ continued[c] <= n
        BY <1>3, <2>1, <2>3, <3>4 DEF InTurn
      <4>2. /\ End(c)[n] <= sent[c]
            /\ sent[c] # End(c)[n] =>
                 sent[c] = IF Script[c][n + 1].expect THEN HeadEnd(c, n + 1)
                           ELSE End(c)[n + 1]
        BY <2>1, <3>1, <4>1, TurnPlaces
      <4>3. sent[c] = End(c)[n]
        <5>1. SUFFICES ASSUME sent[c] # End(c)[n] PROVE FALSE
          OBVIOUS
        <5>2. CASE Script[c][n + 1].expect
          BY <3>1, <3>3, <4>1, <4>2, <5>1, <5>2
        <5>3. CASE ~Script[c][n + 1].expect
          BY <3>1, <3>3, <4>1, <4>2, <5>1, <5>3
        <5>4. QED
          BY <5>2, <5>3
      <4>4. pc[w] = "read"
        <5>1. SUFFICES ASSUME pc[w] = "parse" PROVE FALSE
          BY <3>4
        <5>2. from[w] + totsize[w] = taken[c] /\ totsize[w] # 0 /\ taken[c] = sent[c]
          BY <1>3, <2>1, <2>3, <5>1 DEF Stream, BufferIsStream, Turns, NoEmptyParse, InTurn
        <5>3. QED
          BY <3>1, <4>1, <4>3, <5>2
      <4>5. AtTurn(c, n, o)
        BY <3>3, <4>1, <4>2 DEF AtTurn
      <4>6. QED
        BY <1>2, <1>3, <2>3, <4>1, <4>4, <4>5 DEF InTurn
    <3>5. CASE pc[w] = "more"
      <4>1. /\ Given(c, n, req[w], continued[c]) /\ Script[c][n + 1].expect
            /\ taken[c] >= HeadEnd(c, n + 1)
            /\ sent[c] \in {HeadEnd(c, n + 1), End(c)[n + 1]}
        BY <2>1, <3>5 DEF InTurn
      <4>2. n + 1 \in Indices(c)
        BY <4>1 DEF Given
      <4>3. End(c)[n] <= sent[c]
        <5>1. /\ HeadEnd(c, n + 1) \in Nat /\ Begin(c, n + 1) \in Nat /\ Begin(c, n + 1) <= HeadEnd(c, n + 1)
              /\ Begin(c, n + 1) = End(c)[(n + 1) - 1] /\ (n + 1) - 1 = n
          BY <2>1, <3>1, <4>2, Places
        <5>2. QED
          BY <3>1, <4>1, <5>1
      <4>4. o \in {HeadEnd(c, n + 1), End(c)[n + 1]}
        BY <3>3, <4>3
      <4>5. QED
        BY <1>2, <1>3, <2>3, <3>5, <4>1, <4>4 DEF InTurn
    <3>6. CASE pc[w] \in {"serve", "write"}
      <4>1. Given(c, n, req[w], continued[c]) /\ sent[c] = End(c)[n + 1]
        BY <1>3, <2>1, <2>3, <3>6 DEF InTurn
      <4>2. n + 1 \in Indices(c)
        BY <4>1 DEF Given
      <4>3. End(c)[n] <= sent[c]
        <5>1. /\ HeadEnd(c, n + 1) \in Nat /\ Begin(c, n + 1) \in Nat /\ End(c)[n + 1] \in Nat
              /\ Begin(c, n + 1) <= HeadEnd(c, n + 1) /\ HeadEnd(c, n + 1) <= End(c)[n + 1]
              /\ Begin(c, n + 1) = End(c)[(n + 1) - 1] /\ (n + 1) - 1 = n
          BY <2>1, <3>1, <4>2, Places
        <5>2. QED
          BY <3>1, <4>1, <5>1
      <4>4. sent[c] < o /\ o <= End(c)[n + 1]
        BY <3>3, <4>3
      <4>5. QED
        BY <3>1, <3>3, <4>1, <4>3, <4>4
    <3>7. QED
      BY <1>4, <3>4, <3>5, <3>6 DEF Due, Busy
  <2>4. QED
    BY <2>2, <2>3
<1>5. \A w \in Workers : Due(w)' <=> Due(w)
  BY <1>2 DEF Due
<1>6. QED
  BY <1>4, <1>5 DEF AllInTurn

(* Every step keeps the turns.                                             *)
LEMMA NextTurns ==
  ASSUME TypeInv, TypeInv', Ownership, Stream, Order, Turns, [Next]_vars
  PROVE  Turns'
<1>a. TypeOK
  BY DEF TypeInv
<1>b. NoEmptyParse' /\ Waiting'
  BY NextNoEmptyParse, NextWaiting DEF Turns
<1>c. ASSUME UNCHANGED answers
      PROVE  RightSoFar'
  BY <1>c DEF Turns, RightSoFar, AnswersRight
<1>1. ASSUME NEW w \in Workers, Worker(w) \/ Crash(w)
      PROVE  RightSoFar' /\ AllInTurn'
  BY <1>1, WorkerTurns
<1>2. ASSUME NEW c \in Clients, ClientSend(c)
      PROVE  RightSoFar' /\ AllInTurn'
  BY <1>2, <1>c, SendTurns DEF ClientSend
<1>d. ASSUME UNCHANGED <<pc, conn, from, req, sent, taken, continued, answers>>,
             \A c \in Clients : ended'[c] = ended[c] \/ ended'[c] = "reset"
                                \/ (ended[c] = "no" /\ ended'[c] = "fin")
      PROVE  RightSoFar' /\ AllInTurn'
  <2>1. ASSUME NEW w \in Workers, Due(w)'
        PROVE  InTurn(w)'
    <3>1. conn[w] \in Clients
      BY <1>d, <2>1 DEF Due, Disciplined
    <3>2. /\ ended'[conn[w]] = ended[conn[w]] \/ (ended[conn[w]] = "no" /\ ended'[conn[w]] = "fin")
          /\ Due(w)
      BY <1>d, <2>1, <3>1 DEF Due
    <3>3. InTurn(w)
      BY <3>2 DEF Turns, AllInTurn
    <3>4. QED
      BY <1>d, <3>2, <3>3 DEF InTurn
  <2>2. QED
    BY <1>c, <1>d, <2>1 DEF AllInTurn
<1>3. ASSUME NEW c \in Clients, Connect(c)
      PROVE  RightSoFar' /\ AllInTurn'
  BY <1>3, <1>d DEF Connect, client
<1>4. ASSUME NEW c \in Clients, ClientEnd(c)
      PROVE  RightSoFar' /\ AllInTurn'
  <2>1. UNCHANGED <<pc, conn, from, req, sent, taken, continued, answers>>
    BY <1>4 DEF ClientEnd
  <2>2. \A d \in Clients : ended'[d] = ended[d] \/ ended'[d] = "reset"
                          \/ (ended[d] = "no" /\ ended'[d] = "fin")
    BY <1>4, <1>a DEF TypeOK, ClientEnd
  <2>3. QED
    BY <1>d, <2>1, <2>2
<1>5. ASSUME UNCHANGED vars
      PROVE  RightSoFar' /\ AllInTurn'
  <2>1. UNCHANGED <<pc, conn, from, req, sent, taken, ended, continued, answers>>
    BY <1>5 DEF vars
  <2>2. QED
    BY <1>d, <2>1
<1>6. RightSoFar' /\ AllInTurn'
  BY <1>1, <1>2, <1>3, <1>4, <1>5 DEF Next, Client
<1>7. QED
  BY <1>b, <1>6 DEF Turns

(* The inductive invariant.                                                *)
ServerInv == TypeInv /\ Ownership /\ Stream /\ Order /\ Turns

LEMMA InitServerInv == Init => ServerInv
<1> SUFFICES ASSUME Init PROVE ServerInv
  OBVIOUS
<1>1. TypeInv /\ Ownership /\ Stream /\ Order
  BY InitTypeInv, NoClientAssumption
  DEF Init, Ownership, OpenIsHeld, OneHolder, Stream, BufferIsStream, NothingInvented,
      Order, Unanswered, AnswersAdvance, Ahead
<1>2. NoEmptyParse /\ AllInTurn
  BY DEF Init, NoEmptyParse, AllInTurn, Due, Busy
<1>3. Waiting
  BY EndDef DEF Init, Waiting, AtTurn, Disciplined
<1>4. RightSoFar
  BY EndDef DEF Init, RightSoFar, AnswersRight, Disciplined
<1>5. QED
  BY <1>1, <1>2, <1>3, <1>4 DEF ServerInv, Turns

LEMMA NextServerInv == ServerInv /\ [Next]_vars => ServerInv'
  BY NextTypeInv, NextOwnership, NextStream, NextOrder, NextTurns DEF ServerInv

(* A client that sends each request in one piece and waits for the answer  *)
(* gets the answers to its requests one by one, none skipped, and each     *)
(* request that did not ask for 100 Continue is served with its body, no   *)
(* more, no less.                                                          *)
THEOREM AnsweredRight == Spec => []AnswersRight
<1>1. ServerInv => AnswersRight
  BY DEF ServerInv, Turns, RightSoFar
<1>2. QED
  BY <1>1, InitServerInv, NextServerInv, PTL DEF Spec

(* A connection is closed under such a client only when it has gone, when  *)
(* the worker dies, or with the answer to a request that did not ask for   *)
(* keep-alive.                                                             *)
THEOREM KeepAliveKept == Spec => KeepAliveHonoured
<1> DEFINE Kept ==
      \A c \in Disciplined :
        cstate[c] = "open" /\ cstate'[c] = "closed" =>
          \/ ended[c] # "no"
          \/ \E w \in Workers : conn[w] = c /\ pc'[w] = "dead"
          \/ ~Script[c][Len(answers'[c])].keep
<1>1. ASSUME ServerInv, [Next]_vars
      PROVE  [Kept]_vars
  <2> USE DEF Goto, buffer, client
  <2>a. TypeInv /\ TypeOK /\ Turns /\ Ownership
    BY <1>1 DEF ServerInv, TypeInv
  <2> SUFFICES ASSUME NEW c \in Disciplined, cstate[c] = "open", cstate'[c] = "closed",
                      ended[c] = "no"
               PROVE  \/ \E w \in Workers : conn[w] = c /\ pc'[w] = "dead"
                      \/ ~Script[c][Len(answers'[c])].keep
    OBVIOUS
  <2>b. c \in Clients
    BY DEF Disciplined
  <2>1. ASSUME NEW w \in Workers, Accept(w)
        PROVE  FALSE
    BY <2>a, <2>b, <2>1 DEF TypeOK, Accept
  <2>2. ASSUME NEW w \in Workers,
               \/ ReadFull(w) \/ ReadShort(w) \/ ReadEnd(w)
               \/ ParseHead(w) \/ ParseFragment(w) \/ WriteBlocks(w)
        PROVE  FALSE
    BY <2>2 DEF ReadFull, ReadShort, ReadEnd, ParseHead, ParseFragment, WriteBlocks
  <2>3. ASSUME NEW w \in Workers, ReadFails(w)
        PROVE  FALSE
    BY <2>a, <2>b, <2>3 DEF TypeOK, ReadFails, Close
  <2>4. ASSUME NEW w \in Workers, ParseNothing(w)
        PROVE  FALSE
    <3>1. conn[w] = c
      BY <2>a, <2>b, <2>4 DEF TypeOK, ParseNothing, Close
    <3>2. QED
      BY <2>a, <2>4, <3>1 DEF ParseNothing, Turns, NoEmptyParse
  <2>5. ASSUME NEW w \in Workers, ParseNoPath(w) \/ Crash(w)
        PROVE  conn[w] = c /\ pc'[w] = "dead"
    <3>1. Die(w)
      BY <2>5 DEF ParseNoPath, Crash
    <3>2. QED
      BY <2>a, <2>b, <3>1 DEF TypeOK, Die
  <2>6. ASSUME NEW w \in Workers, Serve(w)
        PROVE  ~Script[c][Len(answers'[c])].keep
    <3>1. ~req[w].keep /\ Close(w)
      BY <2>6 DEF Serve
    <3>2. conn[w] = c
      BY <2>a, <2>b, <3>1 DEF TypeOK, Close
    <3>3. pc[w] = "serve" /\ Due(w)
      BY <2>6, <3>2 DEF Serve, Written, Due, Busy
    <3>4. Script[c][Len(answers[c]) + 1].keep = req[w].keep
      BY <2>a, <3>2, <3>3 DEF Turns, AllInTurn, InTurn, Given
    <3>5. Len(answers'[c]) = Len(answers[c]) + 1
      BY <2>6, <2>a, <2>b, <3>2 DEF TypeOK, Serve, Written
    <3>6. QED
      BY <3>1, <3>4, <3>5
  <2>7. ASSUME NEW d \in Clients, Client(d)
        PROVE  FALSE
    BY <2>a, <2>b, <2>7 DEF TypeOK, Client, Connect, ClientSend, ClientEnd
  <2>8. CASE UNCHANGED vars
    BY <2>8 DEF vars
  <2>9. QED
    BY <1>1, <2>1, <2>2, <2>3, <2>4, <2>5, <2>6, <2>7, <2>8 DEF Next, Worker
<1>2. QED
  BY <1>1, InitServerInv, NextServerInv, PTL DEF Spec, KeepAliveHonoured
=============================================================================
