---------------------------- MODULE HttpConnsProofs ----------------------------
(***************************************************************************)
(* Proofs about HttpServer: each connection is served once, the            *)
(* descriptors are accounted for, and a GET that has an id is not answered *)
(* 404 before its turn.                                                    *)
(***************************************************************************)
EXTENDS HttpFilesProofs, FiniteSetTheorems

(***************************************************************************)
(* Where a connection is: waiting, in main's hand, in the queue, served,   *)
(* or gone.  Nothing is said of ErrorFd, which may be in many places.      *)
(***************************************************************************)
Queued(c) == \E i \in 1 .. Len(bounded_buf) : bounded_buf[i] = c
Gone(c)   == c \notin pending /\ hand # c /\ ~Queued(c) /\ Serving(c) = {}
Busy(w)   == pc[w] # "idle" /\ connfd[w] \in Conns

PlaceInv ==
  /\ \A c \in pending : hand # c /\ ~Queued(c) /\ Serving(c) = {}
  /\ \A c \in Conns : hand = c => ~Queued(c) /\ Serving(c) = {}
  /\ \A c \in Conns : Queued(c) => Serving(c) = {}
  /\ \A i, j \in 1 .. Len(bounded_buf) :
       bounded_buf[i] = bounded_buf[j] /\ bounded_buf[i] \in Conns => i = j
  /\ \A v, w \in Workers : Busy(v) /\ connfd[w] = connfd[v] /\ pc[w] # "idle" => v = w

(***************************************************************************)
(* A connection has its answer when its worker gets to the audit log, and  *)
(* its line there when its worker closes it.                               *)
(***************************************************************************)
Answered(w) == pc[w] \in {"audit", "close"}

AnswerInv ==
  /\ \A c \in Conns : c \in pending \/ hand = c \/ Queued(c) => reply[c] = 0
  /\ \A w \in Workers : Busy(w) => (reply[connfd[w]] # 0 <=> Answered(w))
  /\ \A c \in Conns : Gone(c) => reply[c] # 0
  /\ \A w \in Workers : pc[w] \in {"not_opened", "reply", "get_send"} => res[w] # 0

Done(c) == Gone(c) \/ \E w \in Serving(c) : pc[w] = "close"

LogInv ==
  /\ \A c \in Conns : (\E n \in 1 .. Len(audit) : audit[n].conn = c) => Done(c)
  /\ \A m, n \in 1 .. Len(audit) : audit[m].conn = audit[n].conn => m = n
  /\ \A c \in Conns : Done(c) /\ Request[c].method # "BAD"
                        => \E n \in 1 .. Len(audit) : audit[n].conn = c

(* What access did not find is not there when it is created. *)
MissingInv == \A w \in Workers : pc[w] = "put_create" => ~Exists(Uri(w))

(* The descriptors: finite sets of what is open, counted. *)
FdInv ==
  /\ \A u \in Uris : kind[u] = "absent" => Kind0[u] = "absent"
  /\ IsFiniteSet(OpenConns) /\ IsFiniteSet(OpenFiles) /\ IsFiniteSet(Created)
  /\ FdAccounting
  /\ fds <= FdLimit

(***************************************************************************)
(* The turns of the ids: req_id is the id of a request that had its turn.  *)
(***************************************************************************)
Told404(c) == reply[c] = 404 \/ \E w \in Serving(c) : res[w] = 404
InTurn404(c) == \E d \in Conns \ {c} : HadTurn(d) /\ Request[d].id >= Request[c].id

IdInv ==
  /\ req_id > 0 => \E d \in Conns : HadTurn(d) /\ Request[d].id = req_id
  /\ \A w \in Workers : pc[w] \in BeforeTurn \cup {"idle"} => res[w] # 404
  /\ \A c \in Conns : Request[c].method = "GET" /\ Told404(c) /\ Request[c].id > 0
                        => InTurn404(c)

-------------------------------------------------------------------------------
(* -1 as a descriptor is none of the connections' descriptors, and like    *)
(* them it passes the test in main.                                        *)
LEMMA ErrorNotConn ==
  /\ ErrorFd = Word - 1 /\ ErrorFd \notin Conns
  /\ \A c \in Conns \cup {ErrorFd} : c > 2
  <1>1. ErrorFd = Word - 1
    BY HttpAssumption DEF ErrorFd
  <1> QED BY <1>1, HttpAssumption

(* The steps that leave every connection where it is. *)
LEMMA PlacesKept ==
  ASSUME PathInv, FileTypes, NEW w \in Workers, TakeTurn(w) \/ Serve(w), ~Pop(w), ~Close(w)
  PROVE  /\ UNCHANGED net
         /\ \A v \in Workers : pc'[v] # "idle" <=> pc[v] # "idle"
         /\ \A v \in Workers \ {w} : pc'[v] = pc[v]
         /\ \A c : Serving(c)' = Serving(c)
         /\ \A c : Queued(c)' = Queued(c)
         /\ \A c : Gone(c)' = Gone(c)
  <1>1. UNCHANGED net
    BY DEF TakeTurn, Serve, Parse, SignalTurn, Reply, AuditLog,
       Get, GetYield, GetWait, GetOpen, GetFlock, GetStat, GetSend, GetSent,
       Put, PutAccess, PutCreate, PutOpen, PutFlock, PutRecv, PutReceived, PutWriteFails
  <1>2. pc[w] # "idle" /\ pc'[w] # "idle"
    <2> USE DEF Goto, PathInv, ConnTypes
    <2>1. CASE TakeTurn(w)
      BY <2>1, TurnLabels DEF TakeTurn
    <2>2. CASE SignalTurn(w)
      BY <2>2, SignalLabels DEF SignalTurn
    <2>3. CASE Parse(w)
      BY <2>3, HandlerLabels DEF Parse
    <2>4. CASE Reply(w) \/ AuditLog(w)
      BY <2>4 DEF Reply, AuditLog
    <2>5. CASE Get(w)
      BY <2>5 DEF Get, GetYield, GetWait, GetOpen, GetFlock, GetStat, GetSend, GetSent
    <2>6. CASE Put(w)
      BY <2>6 DEF Put, PutAccess, PutCreate, PutOpen, PutFlock, PutRecv, PutReceived, PutWriteFails
    <2> QED BY <2>1, <2>2, <2>3, <2>4, <2>5, <2>6 DEF Serve
  <1>3. \A v \in Workers \ {w} : pc'[v] = pc[v]
    BY OthersStay DEF Stays
  <1>4. \A v \in Workers : pc'[v] # "idle" <=> pc[v] # "idle"
    BY <1>2, <1>3
  <1>5. \A c : Serving(c)' = Serving(c)
    BY <1>1, <1>4 DEF Serving, net
  <1>6. \A c : Queued(c)' = Queued(c)
    BY <1>1 DEF Queued, net
  <1> QED BY <1>1, <1>3, <1>4, <1>5, <1>6 DEF Gone, net

(* What Push does: the connection in main's hand is queued. *)
LEMMA PushQueues ==
  ASSUME PathInv, Push
  PROVE  /\ hand \in Conns \cup {ErrorFd} /\ hand' = NoConn
         /\ bounded_buf' = Append(bounded_buf, hand)
         /\ UNCHANGED <<pending, connfd, pc, mutex, req_id, files, local, fds, out>>
         /\ \A c : Queued(c)' <=> Queued(c) \/ c = hand
  <1>1. hand \in Conns \cup {ErrorFd} /\ bounded_buf \in Seq(Conns \cup {ErrorFd})
    BY DEF Push, PathInv, ConnTypes
  <1>2. hand > 2
    BY <1>1, ErrorNotConn
  <1>3. /\ bounded_buf' = Append(bounded_buf, hand) /\ hand' = NoConn
        /\ UNCHANGED <<pending, connfd, pc, mutex, req_id, files, local, fds, out>>
    BY <1>2 DEF Push, Queue!Enqueue
  <1>4. \A c : Queued(c)' <=> Queued(c) \/ c = hand
    <2>1. /\ Len(bounded_buf') = Len(bounded_buf) + 1
          /\ \A i \in 1 .. Len(bounded_buf) : bounded_buf'[i] = bounded_buf[i]
          /\ bounded_buf'[Len(bounded_buf) + 1] = hand
          /\ Len(bounded_buf) \in Nat
      BY <1>1, <1>3
    <2> QED BY <2>1 DEF Queued
  <1> QED BY <1>1, <1>3, <1>4

(* What Pop does: the first connection in the queue is served. *)
LEMMA PopServes ==
  ASSUME PathInv, NEW w \in Workers, Pop(w)
  PROVE  /\ connfd'[w] \in Conns \cup {ErrorFd} /\ Queued(connfd'[w])
         /\ connfd'[w] = bounded_buf[1]
         /\ pc[w] = "idle" /\ pc'[w] = "parse"
         /\ \A v \in Workers \ {w} : pc'[v] = pc[v] /\ connfd'[v] = connfd[v]
         /\ Len(bounded_buf') = Len(bounded_buf) - 1 /\ Len(bounded_buf) \in Nat
         /\ \A i \in 1 .. Len(bounded_buf) - 1 : bounded_buf'[i] = bounded_buf[i + 1]
         /\ \A c : Serving(c)' = IF c = connfd'[w] THEN Serving(c) \cup {w} ELSE Serving(c)
         /\ UNCHANGED <<pending, hand, mutex, req_id, files, local, fds, out>>
  <1>1. /\ bounded_buf # << >> /\ bounded_buf' = Tail(bounded_buf)
        /\ connfd' = [connfd EXCEPT ![w] = Head(bounded_buf)]
        /\ pc[w] = "idle" /\ pc' = [pc EXCEPT ![w] = "parse"]
        /\ UNCHANGED <<pending, hand, mutex, req_id, files, local, fds, out>>
    BY DEF Pop, Queue!Dequeue, Goto
  <1>2. bounded_buf \in Seq(Conns \cup {ErrorFd}) /\ ConnTypes
    BY DEF PathInv, ConnTypes
  <1>3. /\ Len(bounded_buf) \in Nat /\ Len(bounded_buf) > 0
        /\ Head(bounded_buf) = bounded_buf[1] /\ bounded_buf[1] \in Conns \cup {ErrorFd}
        /\ Len(bounded_buf') = Len(bounded_buf) - 1
        /\ \A i \in 1 .. Len(bounded_buf) - 1 : bounded_buf'[i] = bounded_buf[i + 1]
    BY <1>1, <1>2
  <1>4. /\ connfd'[w] = bounded_buf[1] /\ pc'[w] = "parse"
        /\ \A v \in Workers \ {w} : pc'[v] = pc[v] /\ connfd'[v] = connfd[v]
    BY <1>1, <1>2, <1>3 DEF ConnTypes
  <1>5. Queued(connfd'[w])
    BY <1>3, <1>4 DEF Queued
  <1>6. \A c : Serving(c)' = IF c = connfd'[w] THEN Serving(c) \cup {w} ELSE Serving(c)
    BY <1>1, <1>4 DEF Serving
  <1> QED BY <1>1, <1>3, <1>4, <1>5, <1>6

(* What Close does: its connection is served no more. *)
LEMMA CloseLeaves ==
  ASSUME PathInv, NEW w \in Workers, Close(w)
  PROVE  /\ pc[w] = "close" /\ pc'[w] = "idle"
         /\ \A v \in Workers \ {w} : pc'[v] = pc[v]
         /\ connfd[w] \in Conns \cup {ErrorFd}
         /\ \A c : Serving(c)' = Serving(c) \ {w}
         /\ \A c : Queued(c)' = Queued(c)
         /\ UNCHANGED <<net, mutex, req_id, files, out>>
  <1>1. /\ pc[w] = "close" /\ pc' = [pc EXCEPT ![w] = "idle"]
        /\ UNCHANGED <<net, mutex, req_id, files, out>>
    BY DEF Close, Goto
  <1>2. pc'[w] = "idle" /\ \A v \in Workers \ {w} : pc'[v] = pc[v]
    BY <1>1 DEF PathInv, ConnTypes
  <1>3. connfd[w] \in Conns \cup {ErrorFd}
    BY <1>1 DEF PathInv, ConnTypes, Path
  <1>4. \A c : Serving(c)' = Serving(c) \ {w}
    BY <1>1, <1>2 DEF Serving, net
  <1>5. \A c : Queued(c)' = Queued(c)
    BY <1>1 DEF Queued, net
  <1> QED BY <1>1, <1>2, <1>3, <1>4, <1>5

-------------------------------------------------------------------------------
(* At the start every connection is still to come. *)
LEMMA InitPlaceInv == Init => PlaceInv
  <1> SUFFICES ASSUME Init PROVE PlaceInv
    OBVIOUS
  <1>1. /\ pending = Conns /\ hand = NoConn /\ bounded_buf = << >>
        /\ \A w \in Workers : pc[w] = "idle"
    BY DEF Init, Queue!Init
  <1>2. \A c : ~Queued(c) /\ Serving(c) = {}
    BY <1>1 DEF Queued, Serving
  <1>3. NoConn \notin Conns
    BY HttpAssumption
  <1> QED BY <1>1, <1>2, <1>3 DEF PlaceInv, Busy

(* main's steps: a connection goes from the waiting ones to its hand, and  *)
(* from there into the queue.                                              *)
LEMMA MainPlaceInv ==
  ASSUME PathInv, PlaceInv, Main
  PROVE  PlaceInv'
  <1>1. UNCHANGED <<connfd, pc>>
    BY MainFrame DEF PathInv
  <1>2. \A c : Serving(c)' = Serving(c)
    BY <1>1 DEF Serving
  <1>3. \A v, w \in Workers : (Busy(v) /\ connfd[w] = connfd[v] /\ pc[w] # "idle" => v = w)'
    BY <1>1 DEF PlaceInv, Busy
  <1>4. ASSUME NEW c \in Conns, Accept(c)
        PROVE  PlaceInv'
    <2>1. c \in pending /\ hand' = c /\ pending' = pending \ {c} /\ UNCHANGED bounded_buf
      BY <1>4 DEF Accept
    <2>2. \A e : Queued(e)' = Queued(e)
      BY <2>1 DEF Queued
    <2> QED BY <1>2, <1>3, <2>1, <2>2 DEF PlaceInv
  <1>5. CASE AcceptFails
    <2>1. hand' = ErrorFd /\ UNCHANGED <<pending, bounded_buf>>
      BY <1>5 DEF AcceptFails
    <2>2. \A e : Queued(e)' = Queued(e)
      BY <2>1 DEF Queued
    <2> QED BY <1>2, <1>3, <2>1, <2>2, ErrorNotConn DEF PlaceInv, PathInv, ConnTypes
  <1>6. CASE Push
    <2>1. /\ hand' = NoConn /\ bounded_buf' = Append(bounded_buf, hand)
          /\ UNCHANGED pending /\ \A c : Queued(c)' <=> Queued(c) \/ c = hand
      BY <1>6, PushQueues
    <2>2. bounded_buf \in Seq(Conns \cup {ErrorFd}) /\ NoConn \notin Conns
      BY HttpAssumption DEF PathInv, ConnTypes
    <2>3. ASSUME NEW i \in 1 .. Len(bounded_buf'), NEW j \in 1 .. Len(bounded_buf'),
                 bounded_buf'[i] = bounded_buf'[j], bounded_buf'[i] \in Conns
          PROVE  i = j
      <3>1. /\ Len(bounded_buf') = Len(bounded_buf) + 1 /\ Len(bounded_buf) \in Nat
            /\ bounded_buf'[Len(bounded_buf) + 1] = hand
            /\ \A k \in 1 .. Len(bounded_buf) : bounded_buf'[k] = bounded_buf[k]
        BY <2>1, <2>2
      <3>2. hand \in Conns => \A k \in 1 .. Len(bounded_buf) : bounded_buf[k] # hand
        BY DEF PlaceInv, Queued
      <3> QED BY <2>3, <3>1, <3>2 DEF PlaceInv
    <2> QED BY <1>2, <1>3, <2>1, <2>2, <2>3 DEF PlaceInv, PathInv, ConnTypes
  <1> QED BY <1>4, <1>5, <1>6 DEF Main

(* The queue keeps the others' places when a connection leaves it. *)
LEMMA PopQueue ==
  ASSUME PathInv, PlaceInv, NEW w \in Workers, Pop(w)
  PROVE  /\ \A c : Queued(c)' => Queued(c)
         /\ \A c \in Conns : c = connfd'[w] => ~Queued(c)'
         /\ \A c \in Conns : Queued(c) => Queued(c)' \/ c = connfd'[w]
  <1>1. /\ Len(bounded_buf') = Len(bounded_buf) - 1 /\ Len(bounded_buf) \in Nat
        /\ connfd'[w] = bounded_buf[1] /\ Queued(connfd'[w])
        /\ \A i \in 1 .. Len(bounded_buf) - 1 : bounded_buf'[i] = bounded_buf[i + 1]
    BY PopServes
  <1>2. Len(bounded_buf) >= 1
    BY <1>1 DEF Queued
  <1>3. \A c : Queued(c)' => \E i \in 2 .. Len(bounded_buf) : bounded_buf[i] = c
    <2> SUFFICES ASSUME NEW c, NEW i \in 1 .. Len(bounded_buf) - 1, bounded_buf'[i] = c
                 PROVE  \E j \in 2 .. Len(bounded_buf) : bounded_buf[j] = c
      BY <1>1 DEF Queued
    <2>1. bounded_buf[i + 1] = c /\ i + 1 \in 2 .. Len(bounded_buf)
      BY <1>1
    <2> QED BY <2>1
  <1>4. ASSUME NEW c \in Conns, c = connfd'[w]
        PROVE  ~Queued(c)'
    <2> SUFFICES ASSUME NEW i \in 2 .. Len(bounded_buf), bounded_buf[i] = c
                 PROVE  FALSE
      BY <1>3
    <2>1. 1 \in 1 .. Len(bounded_buf) /\ i \in 1 .. Len(bounded_buf) /\ i # 1
      BY <1>1, <1>2
    <2> QED BY <1>1, <1>4, <2>1 DEF PlaceInv
  <1>5. ASSUME NEW c \in Conns, Queued(c), c # connfd'[w]
        PROVE  Queued(c)'
    <2>1. PICK i \in 1 .. Len(bounded_buf) : bounded_buf[i] = c
      BY <1>5 DEF Queued
    <2>2. i - 1 \in 1 .. Len(bounded_buf') /\ bounded_buf'[i - 1] = c
      BY <1>1, <1>5, <2>1
    <2> QED BY <2>2 DEF Queued
  <1>6. \A c : Queued(c)' => Queued(c)
    <2> SUFFICES ASSUME NEW c, NEW i \in 2 .. Len(bounded_buf), bounded_buf[i] = c
                 PROVE  Queued(c)
      BY <1>3
    <2>1. i \in 1 .. Len(bounded_buf)
      BY <1>1
    <2> QED BY <2>1 DEF Queued
  <1> QED BY <1>4, <1>5, <1>6

(* A worker takes a connection that nobody else has. *)
LEMMA PopPlaceInv ==
  ASSUME PathInv, PlaceInv, NEW w \in Workers, Pop(w)
  PROVE  PlaceInv'
  <1> PICK x : x = connfd'[w]
    OBVIOUS
  <1>1. /\ x \in Conns \cup {ErrorFd} /\ Queued(x)
        /\ \A c : Queued(c)' => Queued(c)
        /\ x \in Conns => ~Queued(x)'
    BY PopServes, PopQueue
  <1>2. /\ pc[w] = "idle" /\ pc'[w] = "parse"
        /\ \A v \in Workers \ {w} : pc'[v] = pc[v] /\ connfd'[v] = connfd[v]
        /\ \A c : Serving(c)' = IF c = x THEN Serving(c) \cup {w} ELSE Serving(c)
        /\ UNCHANGED <<pending, hand>>
    BY PopServes
  <1>3. x \in Conns => x \notin pending /\ hand # x /\ Serving(x) = {}
    BY <1>1 DEF PlaceInv
  <1>4. /\ \A c \in pending' : hand' # c /\ ~Queued(c)' /\ Serving(c)' = {}
        /\ \A c \in Conns : hand' = c => ~Queued(c)' /\ Serving(c)' = {}
        /\ \A c \in Conns : Queued(c)' => Serving(c)' = {}
    <2>1. \A c \in Conns : c # x => Serving(c)' = Serving(c)
      BY <1>2
    <2>2. pending \subseteq Conns
      BY DEF PathInv, ConnTypes
    <2> QED BY <1>1, <1>2, <1>3, <2>1, <2>2 DEF PlaceInv
  <1>5. ASSUME NEW i \in 1 .. Len(bounded_buf'), NEW j \in 1 .. Len(bounded_buf'),
               bounded_buf'[i] = bounded_buf'[j], bounded_buf'[i] \in Conns
        PROVE  i = j
    <2>1. /\ Len(bounded_buf') = Len(bounded_buf) - 1 /\ Len(bounded_buf) \in Nat
          /\ bounded_buf'[i] = bounded_buf[i + 1] /\ bounded_buf'[j] = bounded_buf[j + 1]
      BY PopServes
    <2>2. /\ i + 1 \in 1 .. Len(bounded_buf) /\ j + 1 \in 1 .. Len(bounded_buf)
          /\ i \in Int /\ j \in Int
      BY <2>1
    <2>3. i + 1 = j + 1
      BY <1>5, <2>1, <2>2 DEF PlaceInv
    <2> QED BY <2>2, <2>3
  <1>6. ASSUME NEW u \in Workers, NEW v \in Workers,
               (Busy(u) /\ connfd[v] = connfd[u] /\ pc[v] # "idle")'
        PROVE  u = v
    <2>1. CASE u # w /\ v # w
      BY <1>2, <1>6, <2>1 DEF Busy, PlaceInv
    <2>2. ASSUME NEW t \in Workers \ {w}, pc'[t] # "idle", connfd'[t] = x
          PROVE  t \in Serving(x)
      BY <1>2, <2>2 DEF Serving
    <2> QED BY <1>2, <1>3, <1>6, <2>1, <2>2 DEF Busy
  <1> QED BY <1>4, <1>5, <1>6 DEF PlaceInv

(* Every step leaves each connection in one place. *)
LEMMA NextPlaceInv == PathInv /\ FileTypes /\ PlaceInv /\ [Next]_vars => PlaceInv'
  <1> SUFFICES ASSUME PathInv, FileTypes, PlaceInv, [Next]_vars PROVE PlaceInv'
    OBVIOUS
  <1>1. CASE UNCHANGED vars \/ Quiet
    BY <1>1 DEF Quiet, vars, net, PlaceInv, Queued, Serving, Busy
  <1>2. CASE Main
    BY <1>2, MainPlaceInv
  <1>3. ASSUME NEW w \in Workers, Pop(w)
        PROVE  PlaceInv'
    BY <1>3, PopPlaceInv
  <1>4. ASSUME NEW w \in Workers, Close(w)
        PROVE  PlaceInv'
    <2>1. /\ UNCHANGED net /\ \A c : Queued(c)' = Queued(c)
          /\ \A c : Serving(c)' = Serving(c) \ {w}
          /\ \A v \in Workers : pc'[v] # "idle" => pc[v] # "idle"
      BY <1>4, CloseLeaves
    <2> QED BY <2>1 DEF PlaceInv, Busy, net
  <1>5. ASSUME NEW w \in Workers, TakeTurn(w) \/ Serve(w), ~Pop(w), ~Close(w)
        PROVE  PlaceInv'
    <2>1. /\ UNCHANGED net /\ \A c : Queued(c)' = Queued(c) /\ Serving(c)' = Serving(c)
          /\ \A v \in Workers : pc'[v] # "idle" <=> pc[v] # "idle"
      BY <1>5, PlacesKept
    <2> QED BY <2>1 DEF PlaceInv, Busy, net
  <1> QED BY <1>1, <1>2, <1>3, <1>4, <1>5 DEF Next

-------------------------------------------------------------------------------
(* At the start nothing is answered. *)
LEMMA InitAnswerInv == Init => AnswerInv
  <1> SUFFICES ASSUME Init PROVE AnswerInv
    OBVIOUS
  <1>1. /\ pending = Conns /\ reply = [c \in Conns |-> 0]
        /\ \A w \in Workers : pc[w] = "idle"
    BY DEF Init
  <1> QED BY <1>1 DEF AnswerInv, Busy, Gone

(* A worker answers its own connection, on its way to the audit log or to  *)
(* the close, and nobody else's.                                           *)
AnswersOwn(w) ==
  /\ pc[w] \in {"reply", "get_send"} /\ pc'[w] \in {"audit", "close"}
  /\ connfd[w] \in Conns => reply'[connfd[w]] = res[w]
  /\ \A c \in Conns : c # connfd[w] => reply'[c] = reply[c]

(* A step of a worker answers nothing, or the connection that it has. *)
LEMMA ReplyStep ==
  ASSUME PathInv, FileTypes, NEW w \in Workers, TakeTurn(w) \/ Serve(w)
  PROVE  \/ UNCHANGED reply /\ ~(pc[w] = "reply") /\ (Answered(w)' => Answered(w))
         \/ AnswersOwn(w)
  <1> USE DEF Goto, PathInv, ConnTypes, FileTypes, Answered
  <1>1. CASE TakeTurn(w)
    BY <1>1, TurnLabels DEF TakeTurn, out
  <1>2. CASE SignalTurn(w)
    BY <1>2, SignalLabels DEF SignalTurn, out
  <1>3. CASE Parse(w)
    BY <1>3, HandlerLabels DEF Parse, out
  <1>4. CASE Pop(w) \/ Close(w) \/ AuditLog(w)
    BY <1>4 DEF Pop, Close, AuditLog, out
  <1>5. CASE Reply(w)
    BY <1>5 DEF Reply, AnswersOwn
  <1>6. CASE GetSent(w)
    <2>1. Method(w) = "GET"
      BY <1>6 DEF GetSent, GetLabels, Path
    <2>2. connfd[w] \in Conns
      BY <2>1, MethodConn
    <2> QED BY <1>6, <2>2 DEF GetSent, AnswersOwn
  <1>7. CASE GetYield(w) \/ GetWait(w) \/ GetOpen(w) \/ GetFlock(w) \/ GetStat(w) \/ GetSend(w)
    BY <1>7 DEF GetYield, GetWait, GetOpen, GetFlock, GetStat, GetSend, out
  <1>8. CASE Put(w)
    BY <1>8 DEF Put, PutAccess, PutCreate, PutOpen, PutFlock, PutRecv, PutReceived, PutWriteFails, out
  <1> QED BY <1>1, <1>2, <1>3, <1>4, <1>5, <1>6, <1>7, <1>8 DEF Serve, Get

(* The status code is there before it is needed. *)
CodeSet(w) == pc[w] \in {"not_opened", "reply", "get_send"} => res[w] # 0

(* A code that is set stays set until the answer is sent. *)
LEMMA CodeStep ==
  ASSUME PathInv, FileTypes, NEW w \in Workers, TakeTurn(w) \/ Serve(w), CodeSet(w)
  PROVE  CodeSet(w)'
  <1> USE DEF Goto, PathInv, ConnTypes, FileTypes, CodeSet
  <1>1. CASE TakeTurn(w)
    BY <1>1, TurnLabels DEF TakeTurn
  <1>2. CASE SignalTurn(w)
    BY <1>2 DEF SignalTurn, AfterSignal, local
  <1>3. CASE Parse(w)
    <2>1. pc'[w] = Handler[Method(w)] /\ res'[w] = Refusal[Method(w)]
      BY <1>3 DEF Parse
    <2>2. Handler[Method(w)] \in {"get_lock", "put_lock"} \/ Refusal[Method(w)] # 0
      BY MethodType DEF Handler, Refusal, Methods
    <2>3. Handler[Method(w)] \notin {"not_opened", "get_send"}
      BY HandlerLabels
    <2> QED BY <2>1, <2>2, <2>3
  <1>4. CASE Pop(w) \/ Close(w) \/ AuditLog(w) \/ Reply(w)
    BY <1>4 DEF Pop, Close, AuditLog, Reply, local
  <1>5. CASE GetOpen(w) \/ PutOpen(w)
    BY <1>5 DEF GetOpen, PutOpen
  <1>6. CASE GetYield(w) \/ GetWait(w) \/ GetFlock(w) \/ GetStat(w) \/ GetSend(w) \/ GetSent(w)
    BY <1>6 DEF GetYield, GetWait, GetFlock, GetStat, GetSend, GetSent, local
  <1>7. CASE PutAccess(w) \/ PutCreate(w) \/ PutFlock(w) \/ PutRecv(w) \/ PutReceived(w)
               \/ PutWriteFails(w)
    BY <1>7 DEF PutAccess, PutCreate, PutFlock, PutRecv, PutReceived, PutWriteFails
  <1> QED BY <1>1, <1>2, <1>3, <1>4, <1>5, <1>6, <1>7 DEF Serve, Get, Put

(* main's steps answer nobody. *)
LEMMA MainAnswerInv ==
  ASSUME PathInv, PlaceInv, AnswerInv, Main
  PROVE  AnswerInv'
  <1>1. UNCHANGED <<connfd, pc, reply, res>>
    BY MainFrame DEF PathInv, out, local
  <1>2. \A c : Serving(c)' = Serving(c)
    BY <1>1 DEF Serving
  <1>3. \A c \in Conns : /\ (c \in pending \/ hand = c \/ Queued(c))'
                              => c \in pending \/ hand = c \/ Queued(c)
                         /\ Gone(c)' => Gone(c)
    <2>1. CASE AcceptFails \/ \E c \in Conns : Accept(c)
      <3>1. /\ UNCHANGED bounded_buf /\ hand = NoConn /\ NoConn \notin Conns
            /\ \/ hand' = ErrorFd /\ pending' = pending
               \/ hand' \in pending /\ pending' = pending \ {hand'}
        BY <2>1, HttpAssumption DEF AcceptFails, Accept
      <3>2. \A c : Queued(c)' = Queued(c)
        BY <3>1 DEF Queued
      <3> QED BY <1>2, <3>1, <3>2, ErrorNotConn DEF Gone
    <2>2. CASE Push
      <3>1. /\ hand' = NoConn /\ UNCHANGED pending /\ NoConn \notin Conns
            /\ \A c : Queued(c)' <=> Queued(c) \/ c = hand
        BY <2>2, PushQueues, HttpAssumption
      <3> QED BY <1>2, <3>1 DEF Gone
    <2> QED BY <2>1, <2>2 DEF Main
  <1> QED BY <1>1, <1>3 DEF AnswerInv, Busy, Answered

(* A worker's step keeps who is answered. *)
LEMMA WorkerAnswerInv ==
  ASSUME PathInv, FileTypes, PlaceInv, AnswerInv, NEW w \in Workers, TakeTurn(w) \/ Serve(w)
  PROVE  AnswerInv'
  <1>1. \A v \in Workers \ {w} : Stays(v)
    BY OthersStay
  <1>2. \A v \in Workers : CodeSet(v)'
    BY <1>1, CodeStep DEF AnswerInv, CodeSet, Stays
  <1>3. ConnTypes /\ ConnTypes'
    BY NextPathInv DEF PathInv, Next
  <1>4. CASE Pop(w)
    <2>1. /\ Queued(connfd'[w]) /\ connfd'[w] \in Conns \cup {ErrorFd}
          /\ pc'[w] = "parse" /\ UNCHANGED <<pending, hand, reply>>
      BY <1>4, PopServes DEF out
    <2>2. \A c \in Conns : (Queued(c)' => Queued(c)) /\ (Queued(c) => Queued(c)' \/ c = connfd'[w])
      BY <1>4, PopQueue
    <2>3. \A c \in Conns : Gone(c)' => Gone(c)
      <3>1. \A c : Serving(c)' = IF c = connfd'[w] THEN Serving(c) \cup {w} ELSE Serving(c)
        BY <1>4, PopServes
      <3> QED BY <2>1, <2>2, <3>1 DEF Gone
    <2>4. \A v \in Workers : Busy(v)' => (reply'[connfd'[v]] # 0 <=> Answered(v)')
      BY <1>1, <2>1 DEF AnswerInv, Busy, Answered, Stays
    <2> QED BY <1>2, <2>1, <2>2, <2>3, <2>4 DEF AnswerInv, CodeSet
  <1>5. CASE Close(w)
    <2>1. /\ pc[w] = "close" /\ pc'[w] = "idle" /\ UNCHANGED <<net, reply>>
          /\ \A c : Serving(c)' = Serving(c) \ {w} /\ Queued(c)' = Queued(c)
      BY <1>5, CloseLeaves DEF out
    <2>2. \A c \in Conns : Gone(c)' => Gone(c) \/ c = connfd[w]
      BY <2>1 DEF Gone, Serving, net
    <2>3. connfd[w] \in Conns => reply[connfd[w]] # 0
      BY <2>1 DEF AnswerInv, Busy, Answered
    <2>4. \A v \in Workers : Busy(v)' => (reply'[connfd'[v]] # 0 <=> Answered(v)')
      BY <1>1, <2>1 DEF AnswerInv, Busy, Answered, Stays
    <2> QED BY <1>2, <2>1, <2>2, <2>3, <2>4 DEF AnswerInv, CodeSet, net
  <1>6. CASE ~Pop(w) /\ ~Close(w)
    <2>1. /\ UNCHANGED <<pending, hand, connfd>>
          /\ \A v \in Workers : pc'[v] # "idle" <=> pc[v] # "idle"
          /\ \A c : Queued(c)' = Queued(c) /\ Gone(c)' = Gone(c)
      BY <1>6, PlacesKept DEF net
    <2>2. CASE UNCHANGED reply /\ ~AnswersOwn(w)
      <3>1. pc[w] # "reply" /\ (Answered(w)' => Answered(w))
        BY <2>2, ReplyStep
      <3>2. Answered(w) => Answered(w)'
        <4>1. CASE TakeTurn(w)
          BY <4>1, TurnLabels DEF TakeTurn, Answered
        <4>2. CASE SignalTurn(w)
          BY <4>2, SignalLabels DEF SignalTurn, Answered
        <4>3. CASE Parse(w) \/ Reply(w) \/ AuditLog(w)
          BY <1>3, <4>3 DEF Parse, Reply, AuditLog, Goto, Answered, ConnTypes
        <4>4. CASE Get(w)
          BY <4>4 DEF Get, GetYield, GetWait, GetOpen, GetFlock, GetStat, GetSend, GetSent,
                  Goto, Answered
        <4>5. CASE Put(w)
          BY <4>5 DEF Put, PutAccess, PutCreate, PutOpen, PutFlock, PutRecv, PutReceived, PutWriteFails,
                  Goto, Answered
        <4> QED BY <1>6, <4>1, <4>2, <4>3, <4>4, <4>5 DEF Serve
      <3>3. \A v \in Workers : Busy(v)' => (reply'[connfd'[v]] # 0 <=> Answered(v)')
        BY <1>1, <2>1, <2>2, <3>1, <3>2 DEF AnswerInv, Busy, Answered, Stays
      <3> QED BY <1>2, <2>1, <2>2, <3>3 DEF AnswerInv, CodeSet
    <2>3. CASE AnswersOwn(w)
      <3>1. /\ pc[w] # "idle" /\ Answered(w)' /\ res[w] # 0
            /\ connfd[w] \in Conns => reply'[connfd[w]] = res[w]
            /\ \A c \in Conns : c # connfd[w] => reply'[c] = reply[c]
        BY <2>3 DEF AnswersOwn, Answered, AnswerInv
      <3>2. \A v \in Workers : Busy(v)' => (reply'[connfd'[v]] # 0 <=> Answered(v)')
        BY <1>1, <2>1, <3>1 DEF AnswerInv, PlaceInv, Busy, Answered, Stays
      <3>3. \A c \in Conns : c \in pending \/ hand = c \/ Queued(c) => c # connfd[w]
        BY <3>1 DEF PlaceInv, Serving
      <3>4. \A c \in Conns : Gone(c) => reply'[c] # 0
        BY <3>1 DEF AnswerInv
      <3> QED BY <1>2, <2>1, <3>1, <3>2, <3>3, <3>4 DEF AnswerInv, CodeSet
    <2> QED BY <2>2, <2>3, ReplyStep
  <1> QED BY <1>4, <1>5, <1>6

(* Every step keeps who is answered. *)
LEMMA NextAnswerInv ==
  PathInv /\ FileTypes /\ PlaceInv /\ AnswerInv /\ [Next]_vars => AnswerInv'
  <1> SUFFICES ASSUME PathInv, FileTypes, PlaceInv, AnswerInv, [Next]_vars PROVE AnswerInv'
    OBVIOUS
  <1>1. CASE UNCHANGED vars \/ Quiet
    BY <1>1 DEF Quiet, vars, net, local, out, AnswerInv, Queued, Serving, Gone, Busy, Answered
  <1> QED BY <1>1, MainAnswerInv, WorkerAnswerInv DEF Next

-------------------------------------------------------------------------------
(* At the start nothing is logged. *)
LEMMA InitLogInv == Init => LogInv
  <1> SUFFICES ASSUME Init PROVE LogInv
    OBVIOUS
  <1>1. /\ audit = << >> /\ Len(audit) = 0 /\ pending = Conns
        /\ \A w \in Workers : pc[w] = "idle"
    BY DEF Init
  <1>2. \A c \in Conns : ~Done(c)
    BY <1>1 DEF Done, Gone, Serving
  <1> QED BY <1>1, <1>2 DEF LogInv

(* main's steps take no connection out and bring none back.                *)
LEMMA MainGone ==
  ASSUME PathInv, Main, NEW c \in Conns
  PROVE  Gone(c)' <=> Gone(c)
  <1>1. Serving(c)' = Serving(c)
    BY MainFrame DEF PathInv, Serving
  <1>2. CASE AcceptFails \/ \E x \in Conns : Accept(x)
    <2>1. /\ UNCHANGED bounded_buf /\ hand = NoConn /\ NoConn \notin Conns
          /\ \/ hand' = ErrorFd /\ pending' = pending
             \/ hand' \in pending /\ pending' = pending \ {hand'}
      BY <1>2, HttpAssumption DEF AcceptFails, Accept
    <2>2. Queued(c)' = Queued(c)
      BY <2>1 DEF Queued
    <2> QED BY <1>1, <2>1, <2>2, ErrorNotConn DEF Gone
  <1>3. CASE Push
    <2>1. /\ hand' = NoConn /\ UNCHANGED pending /\ NoConn \notin Conns
          /\ Queued(c)' <=> Queued(c) \/ c = hand
      BY <1>3, PushQueues, HttpAssumption
    <2> QED BY <1>1, <2>1 DEF Gone
  <1> QED BY <1>2, <1>3 DEF Main

(* And they finish none. *)
LEMMA MainDone ==
  ASSUME PathInv, Main, NEW c \in Conns
  PROVE  Done(c)' <=> Done(c)
  <1>1. UNCHANGED <<connfd, pc>>
    BY MainFrame DEF PathInv
  <1>2. Serving(c)' = Serving(c)
    BY <1>1 DEF Serving
  <1> QED BY <1>1, <1>2, MainGone DEF Done

(* A worker finishes a connection with a line in the log, unless its       *)
(* request did not parse.                                                  *)
LEMMA WorkerDone ==
  ASSUME PathInv, FileTypes, PlaceInv, NEW w \in Workers, TakeTurn(w) \/ Serve(w),
         ~AuditLog(w), NEW c \in Conns
  PROVE  /\ Done(c) => Done(c)'
         /\ Done(c)' => Done(c) \/ Request[c].method = "BAD"
  <1>1. \A v \in Workers \ {w} : Stays(v)
    BY OthersStay
  <1>2. CASE Pop(w)
    <2>1. /\ Queued(connfd'[w]) /\ pc[w] = "idle" /\ pc'[w] = "parse"
          /\ UNCHANGED <<pending, hand>>
          /\ Serving(c)' = IF c = connfd'[w] THEN Serving(c) \cup {w} ELSE Serving(c)
      BY <1>2, PopServes
    <2>2. (Queued(c)' => Queued(c)) /\ (Queued(c) => Queued(c)' \/ c = connfd'[w])
      BY <1>2, PopQueue
    <2>3. w \notin Serving(c)
      BY <2>1 DEF Serving
    <2>4. Gone(c)' <=> Gone(c)
      BY <2>1, <2>2 DEF Gone
    <2>5. \A v \in Serving(c) : pc'[v] = pc[v]
      BY <1>1, <2>3 DEF Serving, Stays
    <2> QED BY <2>1, <2>4, <2>5 DEF Done
  <1>3. CASE Close(w)
    <2>1. /\ pc[w] = "close" /\ pc'[w] = "idle" /\ UNCHANGED net
          /\ Serving(c)' = Serving(c) \ {w} /\ Queued(c)' = Queued(c)
          /\ connfd[w] \in Conns \cup {ErrorFd}
      BY <1>3, CloseLeaves
    <2>2. ASSUME w \in Serving(c)
          PROVE  Done(c) /\ Done(c)'
      <3>1. \A v \in Serving(c) : v = w
        BY <2>1, <2>2 DEF PlaceInv, Serving, Busy
      <3>2. c \notin pending /\ hand # c /\ ~Queued(c)
        BY <2>2 DEF PlaceInv
      <3>3. Gone(c)'
        BY <2>1, <3>1, <3>2 DEF Gone, net
      <3> QED BY <2>1, <2>2, <3>3 DEF Done
    <2>3. CASE w \notin Serving(c)
      <3>1. Serving(c)' = Serving(c) /\ \A v \in Serving(c) : pc'[v] = pc[v]
        BY <1>1, <2>1, <2>3 DEF Serving, Stays
      <3> QED BY <2>1, <3>1 DEF Done, Gone, net
    <2> QED BY <2>2, <2>3
  <1>4. CASE ~Pop(w) /\ ~Close(w)
    <2>1. Serving(c)' = Serving(c) /\ Gone(c)' = Gone(c) /\ UNCHANGED net
      BY <1>4, PlacesKept
    <2>2. pc[w] # "close" /\ (pc'[w] = "close" => Method(w) = "BAD")
      <3> USE DEF Goto, PathInv, ConnTypes
      <3>1. CASE TakeTurn(w)
        BY <3>1, TurnLabels DEF TakeTurn
      <3>2. CASE SignalTurn(w)
        BY <3>2, SignalLabels DEF SignalTurn
      <3>3. CASE Parse(w)
        BY <3>3, HandlerLabels DEF Parse
      <3>4. CASE Reply(w)
        BY <3>4 DEF Reply, IsLogged
      <3>5. CASE Get(w)
        BY <3>5 DEF Get, GetYield, GetWait, GetOpen, GetFlock, GetStat, GetSend, GetSent
      <3>6. CASE Put(w)
        BY <3>6 DEF Put, PutAccess, PutCreate, PutOpen, PutFlock, PutRecv, PutReceived, PutWriteFails
      <3> QED BY <1>4, <3>1, <3>2, <3>3, <3>4, <3>5, <3>6 DEF Serve
    <2>3. \A v \in Serving(c) : v # w => pc'[v] = pc[v]
      BY <1>1 DEF Serving, Stays
    <2>4. w \in Serving(c) /\ Method(w) = "BAD" => Request[c].method = "BAD"
      BY DEF Serving, Method
    <2> QED BY <2>1, <2>2, <2>3, <2>4 DEF Done
  <1> QED BY <1>2, <1>3, <1>4

(* A line of the log: the first one of its connection. *)
LEMMA AuditLogInv ==
  ASSUME PathInv, FileTypes, PlaceInv, LogInv, NEW w \in Workers, AuditLog(w)
  PROVE  LogInv'
  <1> PICK x : x = connfd[w]
    OBVIOUS
  <1>1. /\ pc[w] = "audit" /\ pc' = [pc EXCEPT ![w] = "close"] /\ UNCHANGED net
    BY DEF AuditLog, Goto, net
  <1>2. Method(w) # "BAD"
    BY <1>1 DEF PathInv, Path
  <1>3. x \in Conns /\ w \in Serving(x) /\ \A v \in Serving(x) : v = w
    BY <1>1, <1>2, MethodConn DEF PlaceInv, Busy, Serving
  <1>4. \A c : Serving(c)' = Serving(c) /\ Gone(c)' = Gone(c)
    BY <1>1, PlacesKept DEF Serve, Pop, Close, Goto
  <1>5. ~Done(x) /\ Done(x)'
    BY <1>1, <1>3, <1>4 DEF Done, Gone, PathInv, ConnTypes
  <1>6. \A c \in Conns : c # x => Done(c)' = Done(c)
    <2>1. \A c : c # x => \A v \in Serving(c) : pc'[v] = pc[v]
      BY <1>1 DEF Serving, PathInv, ConnTypes
    <2> QED BY <1>4, <2>1 DEF Done
  <1>7. /\ Len(audit') = Len(audit) + 1 /\ Len(audit) \in Nat
        /\ \A n \in 1 .. Len(audit) : audit'[n] = audit[n] /\ audit[n].conn \in Conns
        /\ audit'[Len(audit) + 1].conn = x
    <2> DEFINE e == [oper |-> Method(w), uri |-> Uri(w), code |-> res[w],
                     conn |-> connfd[w], body |-> body[w], wrote |-> held[w] = "exclusive"]
    <2>1. e.conn = x /\ audit' = Append(audit, e)
      BY DEF AuditLog
    <2>2. e \in Entry
      BY <1>2, MethodConn, MethodType DEF Entry, FileTypes
    <2> HIDE DEF e
    <2>3. audit \in Seq(Entry)
      BY DEF FileTypes
    <2>4. \A n \in 1 .. Len(audit) : audit[n].conn \in Conns
      <3>1. \A n \in 1 .. Len(audit) : audit[n] \in Entry
        BY <2>3
      <3>2. \A r \in Entry : r.conn \in Conns
        BY DEF Entry
      <3> QED BY <3>1, <3>2
    <2> QED BY <2>1, <2>2, <2>3, <2>4
  <1>8. \A n \in 1 .. Len(audit) : audit[n].conn # x
    BY <1>3, <1>5 DEF LogInv
  <1>9. \A n \in 1 .. Len(audit') : n \in 1 .. Len(audit) \/ n = Len(audit) + 1
    BY <1>7
  <1>10. \A c \in Conns : (\E n \in 1 .. Len(audit') : audit'[n].conn = c) => Done(c)'
    <2> SUFFICES ASSUME NEW c \in Conns, NEW n \in 1 .. Len(audit'), audit'[n].conn = c
                 PROVE  Done(c)'
      OBVIOUS
    <2>1. CASE n \in 1 .. Len(audit)
      BY <1>6, <1>7, <1>8, <2>1 DEF LogInv
    <2>2. CASE n = Len(audit) + 1
      BY <1>5, <1>7, <2>2
    <2> QED BY <1>9, <2>1, <2>2
  <1>11. \A m, n \in 1 .. Len(audit') : audit'[m].conn = audit'[n].conn => m = n
    BY <1>7, <1>8, <1>9 DEF LogInv
  <1>12. \A c \in Conns : Done(c)' /\ Request[c].method # "BAD"
                            => \E n \in 1 .. Len(audit') : audit'[n].conn = c
    <2> SUFFICES ASSUME NEW c \in Conns, Done(c)', Request[c].method # "BAD"
                 PROVE  \E n \in 1 .. Len(audit') : audit'[n].conn = c
      OBVIOUS
    <2>1. CASE c = x
      BY <1>7, <2>1
    <2>2. CASE c # x
      <3>1. PICK n \in 1 .. Len(audit) : audit[n].conn = c
        BY <1>6, <2>2 DEF LogInv
      <3>2. n \in 1 .. Len(audit') /\ audit'[n].conn = c
        BY <1>7, <3>1
      <3> QED BY <3>2
    <2> QED BY <2>1, <2>2
  <1> QED BY <1>10, <1>11, <1>12 DEF LogInv

(* Every step keeps the log's account of the connections. *)
LEMMA NextLogInv == PathInv /\ FileTypes /\ PlaceInv /\ LogInv /\ [Next]_vars => LogInv'
  <1> SUFFICES ASSUME PathInv, FileTypes, PlaceInv, LogInv, [Next]_vars PROVE LogInv'
    OBVIOUS
  <1>1. CASE UNCHANGED vars \/ Quiet
    BY <1>1 DEF Quiet, vars, net, out, LogInv, Done, Gone, Queued, Serving
  <1>2. CASE Main
    <2>1. UNCHANGED audit
      BY <1>2, MainFrame DEF PathInv, out
    <2> QED BY <1>2, <2>1, MainDone DEF LogInv
  <1>3. ASSUME NEW w \in Workers, AuditLog(w)
        PROVE  LogInv'
    BY <1>3, AuditLogInv
  <1>4. ASSUME NEW w \in Workers, TakeTurn(w) \/ Serve(w), ~AuditLog(w)
        PROVE  LogInv'
    <2>1. UNCHANGED audit
      BY <1>4, LogStays
    <2> QED BY <1>4, <2>1, WorkerDone DEF LogInv
  <1> QED BY <1>1, <1>2, <1>3, <1>4 DEF Next

(***************************************************************************)
(* The whole invariant of the connections.                                 *)
(***************************************************************************)
ConnInv == PathInv /\ FileTypes /\ PlaceInv /\ AnswerInv /\ LogInv

(* All of these at the start. *)
LEMMA InitConnInv == Init => ConnInv
  BY InitPathInv, InitFileTypes, InitPlaceInv, InitAnswerInv, InitLogInv DEF ConnInv

(* All of these through every step. *)
LEMMA NextConnInv == ConnInv /\ [Next]_vars => ConnInv'
  BY NextPathInv, NextFileTypes, NextPlaceInv, NextAnswerInv, NextLogInv DEF ConnInv

(* What is at most one thing is counted as one, or as none. *)
LEMMA CountOne ==
  ASSUME NEW S, \A x, y \in S : x = y
  PROVE  IF S = {} THEN Cardinality(S) = 0 ELSE Cardinality(S) = 1
  <1>1. CASE S = {}
    BY <1>1, FS_EmptySet
  <1>2. CASE S # {}
    <2>1. PICK x : S = {x}
      BY <1>2
    <2> QED BY <1>2, <2>1, FS_Singleton
  <1> QED BY <1>1, <1>2

(***************************************************************************)
(* No connection is lost or served twice, whatever the threads do: main    *)
(* and the workers hand each descriptor on through the queue, so at any    *)
(* time it is in one place; when it is in none its client was answered     *)
(* and, if the request parsed, the log has one line for it (httpserver.c   *)
(* lines 119-124 and 135-157).                                             *)
(***************************************************************************)
THEOREM EachServedOnce == Spec => []ServedOnce
  <1>1. ConnInv => ServedOnce
    <2> SUFFICES ASSUME ConnInv, NEW c \in Conns
                 PROVE  /\ Places(c) <= 1
                        /\ Places(c) = 0 => reply[c] # 0
                        /\ Places(c) = 0 /\ Request[c].method # "BAD"
                             => Cardinality(Logged(c)) = 1
      BY DEF ServedOnce
    <2> USE DEF ConnInv
    <2> DEFINE P == {i \in 1 .. Len(bounded_buf) : bounded_buf[i] = c}
    <2>1. IF Serving(c) = {} THEN Cardinality(Serving(c)) = 0 ELSE Cardinality(Serving(c)) = 1
      <3>1. \A v, w \in Serving(c) : v = w
        BY DEF PlaceInv, Busy, Serving
      <3> QED BY <3>1, CountOne
    <2>2. IF P = {} THEN Cardinality(P) = 0 ELSE Cardinality(P) = 1
      <3>1. \A i, j \in P : i = j
        BY DEF PlaceInv
      <3> QED BY <3>1, CountOne
    <2>3. P # {} <=> Queued(c)
      BY DEF Queued
    <2>4. Places(c) = Cardinality(Serving(c)) + Cardinality(P)
                        + (IF hand = c THEN 1 ELSE 0) + (IF c \in pending THEN 1 ELSE 0)
      BY DEF Places
    <2> HIDE DEF P
    <2>5. /\ c \in pending => hand # c /\ ~Queued(c) /\ Serving(c) = {}
          /\ hand = c => ~Queued(c) /\ Serving(c) = {}
          /\ Queued(c) => Serving(c) = {}
      BY DEF PlaceInv
    <2>6. Places(c) <= 1 /\ (Places(c) = 0 => Gone(c))
      BY <2>1, <2>2, <2>3, <2>4, <2>5 DEF Gone
    <2>7. Gone(c) => reply[c] # 0
      BY DEF AnswerInv
    <2>8. Gone(c) /\ Request[c].method # "BAD" => Cardinality(Logged(c)) = 1
      <3> SUFFICES ASSUME Gone(c), Request[c].method # "BAD" PROVE Cardinality(Logged(c)) = 1
        OBVIOUS
      <3>1. \A m, n \in Logged(c) : m = n
        BY DEF LogInv, Logged
      <3>2. Logged(c) # {}
        BY DEF LogInv, Logged, Done
      <3> QED BY <3>1, <3>2, CountOne
    <2> QED BY <2>6, <2>7, <2>8
  <1> QED BY InitConnInv, NextConnInv, <1>1, PTL DEF Spec

-------------------------------------------------------------------------------
(* The connections with a descriptor are those that are neither waiting    *)
(* nor gone.                                                               *)
Inside == {c \in Conns \ pending : ~Gone(c)}

(* The open connections are those that main, the queue or a worker has. *)
LEMMA OpenInside == ConnInv => OpenConns = Inside
  <1> SUFFICES ASSUME ConnInv PROVE OpenConns = Inside
    OBVIOUS
  <1> USE DEF ConnInv
  <1> DEFINE served == {v \in Workers : pc[v] # "idle" /\ connfd[v] # ErrorFd}
  <1>1. \A v \in served : connfd[v] \in Conns /\ v \in Serving(connfd[v])
    BY DEF PathInv, Path, ConnTypes, Serving
  <1>2. ASSUME NEW c \in OpenConns
        PROVE  c \in Inside
    <2>1. CASE c \in Conns /\ reply[c] = 0 /\ c \notin pending
      BY <2>1 DEF AnswerInv, Inside
    <2>2. CASE \E v \in served : c = connfd[v]
      BY <1>1, <2>2 DEF PlaceInv, Inside, Gone
    <2> QED BY <1>2, <2>1, <2>2 DEF OpenConns
  <1>3. ASSUME NEW c \in Inside
        PROVE  c \in OpenConns
    <2>1. c \in Conns /\ c \notin pending /\ (hand = c \/ Queued(c) \/ Serving(c) # {})
      BY DEF Inside, Gone
    <2>2. CASE hand = c \/ Queued(c)
      BY <2>1, <2>2 DEF AnswerInv, OpenConns
    <2>3. CASE Serving(c) # {}
      BY <2>1, <2>3, ErrorNotConn DEF Serving, OpenConns
    <2> QED BY <2>1, <2>2, <2>3
  <1> QED BY <1>2, <1>3

(* main's steps let a connection in, or leave the others where they are.   *)
LEMMA MainInside ==
  ASSUME PathInv, PlaceInv, Main
  PROVE  \/ \E c \in Conns : Accept(c) /\ c \notin Inside /\ Inside' = Inside \cup {c}
         \/ UNCHANGED fds /\ Inside' = Inside
  <1>1. \A c \in Conns : Gone(c)' <=> Gone(c)
    BY MainGone
  <1>2. ASSUME NEW c \in Conns, Accept(c)
        PROVE  c \notin Inside /\ Inside' = Inside \cup {c}
    <2>1. c \in pending /\ pending' = pending \ {c}
      BY <1>2 DEF Accept
    <2> QED BY <1>1, <2>1 DEF Inside, Gone
  <1>3. CASE AcceptFails \/ Push
    BY <1>1, <1>3, PushQueues DEF AcceptFails, Inside
  <1> QED BY <1>2, <1>3 DEF Main

(* A worker's step lets a connection out when it closes it. *)
LEMMA WorkerInside ==
  ASSUME PathInv, FileTypes, PlaceInv, NEW w \in Workers, TakeTurn(w) \/ Serve(w)
  PROVE  IF Close(w) /\ connfd[w] # ErrorFd
         THEN connfd[w] \in Inside /\ Inside' = Inside \ {connfd[w]}
         ELSE Inside' = Inside
  <1>1. CASE Pop(w)
    <2>1. \A c \in Conns : Gone(c)' <=> Gone(c)
      <3>1. /\ Queued(connfd'[w]) /\ UNCHANGED <<pending, hand>>
            /\ \A c : Serving(c)' = IF c = connfd'[w] THEN Serving(c) \cup {w} ELSE Serving(c)
        BY <1>1, PopServes
      <3>2. \A c \in Conns : (Queued(c)' => Queued(c)) /\ (Queued(c) => Queued(c)' \/ c = connfd'[w])
        BY <1>1, PopQueue
      <3> QED BY <3>1, <3>2 DEF Gone
    <2>2. UNCHANGED pending /\ ~Close(w)
      BY <1>1 DEF Pop, Close, Goto
    <2> QED BY <2>1, <2>2 DEF Inside
  <1>2. CASE Close(w)
    <2>1. /\ pc[w] = "close" /\ UNCHANGED net /\ connfd[w] \in Conns \cup {ErrorFd}
          /\ \A c : Serving(c)' = Serving(c) \ {w} /\ Queued(c)' = Queued(c)
      BY <1>2, CloseLeaves
    <2>2. ASSUME NEW c \in Conns, c # connfd[w]
          PROVE  Gone(c)' <=> Gone(c)
      BY <2>1, <2>2 DEF Gone, Serving, net
    <2>3. ASSUME connfd[w] # ErrorFd, NEW c \in Conns, c = connfd[w]
          PROVE  c \in Inside /\ Gone(c)'
      <3>1. w \in Serving(c) /\ \A v \in Serving(c) : v = w
        BY <2>1, <2>3 DEF PlaceInv, Serving, Busy
      <3>2. c \notin pending /\ hand # c /\ ~Queued(c)
        BY <3>1 DEF PlaceInv
      <3> QED BY <2>1, <3>1, <3>2 DEF Inside, Gone, net
    <2> QED BY <1>2, <2>1, <2>2, <2>3, ErrorNotConn DEF Inside, net
  <1>3. CASE ~Pop(w) /\ ~Close(w)
    BY <1>3, PlacesKept DEF Inside, net
  <1> QED BY <1>1, <1>2, <1>3

(* A descriptor is given only when there is one left. *)
LEMMA OpenLimit ==
  ASSUME FileTypes, NEW u
  PROVE  /\ OpenCode(u, 404, 0) = 0 => fds < FdLimit
         /\ OpenCode(u, 403, 403) = 0 => fds < FdLimit
  <1>1. fds >= FdLimit \/ fds < FdLimit
    BY HttpAssumption DEF FileTypes
  <1>2. fds >= FdLimit => ~(fds < FdLimit)
    BY HttpAssumption DEF FileTypes
  <1> QED BY <1>1, <1>2 DEF OpenCode

(* At the start no descriptor is open. *)
LEMMA InitFdInv == Init => FdInv
  <1> SUFFICES ASSUME Init PROVE FdInv
    OBVIOUS
  <1>1. /\ pending = Conns /\ kind = Kind0 /\ fds = 0
        /\ \A w \in Workers : pc[w] = "idle" /\ held[w] = "none"
    BY DEF Init
  <1>2. OpenConns = {} /\ OpenFiles = {} /\ Created = {}
    BY <1>1 DEF OpenConns, OpenFiles, Created
  <1> QED BY <1>1, <1>2, FS_EmptySet, HttpAssumption DEF FdInv, FdAccounting

(* Steps that open and close nothing. *)
FdsStay == UNCHANGED <<fds, kind>> /\ OpenFiles' = OpenFiles /\ Inside' = Inside

(* Which files are open changes with the worker that steps only.           *)
HasFile(w) == held[w] # "none" \/ pc[w] \in {"get_flock", "put_flock"}

(* A step of a worker opens or closes its own file only. *)
LEMMA OpenFilesStep ==
  ASSUME PathInv, FileTypes, NEW w \in Workers, TakeTurn(w) \/ Serve(w)
  PROVE  OpenFiles' = IF HasFile(w)' THEN OpenFiles \cup {w} ELSE OpenFiles \ {w}
  <1>1. \A v \in Workers \ {w} : pc'[v] = pc[v] /\ held'[v] = held[v]
    BY OthersStay DEF Stays
  <1> QED BY <1>1 DEF OpenFiles, HasFile

(* Three steps open or close a file; the others keep it. *)
LEMMA FileKept ==
  ASSUME PathInv, FileTypes, NEW w \in Workers, TakeTurn(w) \/ Serve(w),
         ~GetOpen(w), ~PutOpen(w), ~Close(w)
  PROVE  OpenFiles' = OpenFiles
  <1> USE DEF Goto, PathInv, ConnTypes, FileTypes, HasFile
  <1>1. HasFile(w)' <=> HasFile(w)
    <2>1. CASE TakeTurn(w)
      BY <2>1, TurnLabels DEF TakeTurn, local
    <2>2. CASE SignalTurn(w)
      BY <2>2, SignalLabels DEF SignalTurn, local
    <2>3. CASE Parse(w)
      BY <2>3, HandlerLabels DEF Parse
    <2>4. CASE Pop(w) \/ Reply(w) \/ AuditLog(w)
      BY <2>4 DEF Pop, Reply, AuditLog, local
    <2>5. CASE GetYield(w) \/ GetWait(w) \/ GetStat(w) \/ GetSend(w) \/ GetSent(w)
      BY <2>5 DEF GetYield, GetWait, GetStat, GetSend, GetSent, local
    <2>6. CASE GetFlock(w) \/ PutFlock(w)
      BY <2>6 DEF GetFlock, PutFlock, Flock
    <2>7. CASE PutAccess(w)
      BY <2>7 DEF PutAccess
    <2>8. CASE PutCreate(w) \/ PutRecv(w) \/ PutReceived(w) \/ PutWriteFails(w)
      BY <2>8 DEF PutCreate, PutRecv, PutReceived, PutWriteFails, local
    <2> QED BY <2>1, <2>2, <2>3, <2>4, <2>5, <2>6, <2>7, <2>8 DEF Serve, Get, Put
  <1> QED BY <1>1, OpenFilesStep DEF OpenFiles

(* Where descriptors are used, and released. *)
LEMMA FdsKept ==
  ASSUME NEW w \in Workers, TakeTurn(w) \/ Serve(w),
         ~GetOpen(w), ~PutOpen(w), ~PutCreate(w), ~Close(w)
  PROVE  UNCHANGED <<fds, kind>>
  <1>1. CASE TakeTurn(w) \/ Pop(w) \/ Parse(w) \/ SignalTurn(w) \/ Reply(w) \/ AuditLog(w)
    BY <1>1 DEF TakeTurn, Pop, Parse, SignalTurn, Reply, AuditLog, files
  <1>2. CASE Get(w)
    BY <1>2 DEF Get, GetYield, GetWait, GetFlock, GetStat, GetSend, GetSent, files
  <1>3. CASE Put(w)
    BY <1>3 DEF Put, PutAccess, PutFlock, PutRecv, PutReceived, PutWriteFails, files
  <1> QED BY <1>1, <1>2, <1>3 DEF Serve

(* An open that succeeds, and one that does not. *)
LEMMA OpenStep ==
  ASSUME PathInv, FileTypes, LockInv, NEW w \in Workers, GetOpen(w) \/ PutOpen(w)
  PROVE  /\ w \notin OpenFiles /\ UNCHANGED kind
         /\ \/ fds' = fds + 1 /\ fds < FdLimit /\ OpenFiles' = OpenFiles \cup {w}
            \/ fds' = fds /\ OpenFiles' = OpenFiles
  <1>1. /\ pc[w] \in {"get_test", "put_open"} /\ UNCHANGED <<held, kind>>
        /\ \/ fds' = fds + 1 /\ fds < FdLimit /\ pc'[w] \in {"get_flock", "put_flock"}
           \/ fds' = fds /\ pc'[w] = "not_opened"
    BY OpenLimit DEF GetOpen, PutOpen, Goto, files, PathInv, ConnTypes
  <1>2. held[w] = "none"
    BY <1>1 DEF LockInv, Lock, Reading, Writing, Ending, FileTypes
  <1>3. w \notin OpenFiles
    BY <1>1, <1>2 DEF OpenFiles
  <1>4. OpenFiles' = IF HasFile(w)' THEN OpenFiles \cup {w} ELSE OpenFiles \ {w}
    BY OpenFilesStep DEF Serve, Get, Put
  <1> QED BY <1>1, <1>2, <1>3, <1>4 DEF HasFile

(* No other worker creates a file between a PUT's access and its open: it  *)
(* would need the turn.                                                    *)
LEMMA NextMissingInv ==
  ASSUME TurnInv, PathInv, FileTypes, MissingInv, [Next]_vars
  PROVE  MissingInv'
  <1>1. CASE UNCHANGED vars \/ Quiet \/ Main
    <2>1. UNCHANGED <<connfd, pc, kind>>
      BY <1>1, MainFrame DEF PathInv, Quiet, vars, net, files
    <2> QED BY <2>1 DEF MissingInv, Exists, Uri
  <1>2. ASSUME NEW w \in Workers, TakeTurn(w) \/ Serve(w), NEW v \in Workers,
               pc'[v] = "put_create"
        PROVE  ~Exists(Uri(v))'
    <2>1. CASE v # w
      <3>1. pc[v] = "put_create" /\ Uri(v)' = Uri(v)
        BY <1>2, <2>1, OthersStay DEF Stays, Uri
      <3>2. ~PutCreate(w)
        BY <2>1, <3>1 DEF PutCreate, Goto, TurnInv, CreationMutex, InTurn
      <3>3. UNCHANGED kind
        BY <1>2, <3>2, FdsKept DEF GetOpen, PutOpen, Close, files
      <3> QED BY <3>1, <3>3 DEF MissingInv, Exists
    <2>2. CASE v = w
      <3> USE <2>2 DEF Goto, PathInv, ConnTypes
      <3>1. CASE TakeTurn(w)
        BY <1>2, <3>1, TurnLabels DEF TakeTurn
      <3>2. CASE SignalTurn(w)
        BY <1>2, <3>2, SignalLabels DEF SignalTurn
      <3>3. CASE Parse(w)
        BY <1>2, <3>3, HandlerLabels DEF Parse
      <3>4. CASE Pop(w) \/ Reply(w) \/ AuditLog(w) \/ Close(w)
        BY <1>2, <3>4 DEF Pop, Reply, AuditLog, Close
      <3>5. CASE Get(w)
        BY <1>2, <3>5 DEF Get, GetYield, GetWait, GetOpen, GetFlock, GetStat, GetSend, GetSent
      <3>6. CASE PutCreate(w) \/ PutOpen(w) \/ PutFlock(w) \/ PutRecv(w) \/ PutReceived(w)
                   \/ PutWriteFails(w)
        BY <1>2, <3>6 DEF PutCreate, PutOpen, PutFlock, PutRecv, PutReceived, PutWriteFails
      <3>7. CASE PutAccess(w)
        <4>1. ~Exists(Uri(w)) /\ UNCHANGED <<connfd, kind>>
          BY <1>2, <3>7 DEF PutAccess, net, files
        <4> QED BY <4>1 DEF Exists, Uri
      <3> QED BY <1>2, <3>1, <3>2, <3>3, <3>4, <3>5, <3>6, <3>7 DEF Serve, Put
    <2> QED BY <2>1, <2>2
  <1> QED BY <1>1, <1>2 DEF MissingInv, Next

(* Every step accounts for the descriptors that it opens and closes.       *)
LEMMA NextFdInv ==
  ConnInv /\ ConnInv' /\ LockInv /\ FdInv /\ MissingInv /\ [Next]_vars => FdInv'
  <1> SUFFICES ASSUME ConnInv, ConnInv', LockInv, FdInv, MissingInv, [Next]_vars PROVE FdInv'
    OBVIOUS
  <1> USE DEF FdInv, FdAccounting
  <1>1. OpenConns = Inside /\ OpenConns' = Inside'
    <2>1. (ConnInv => OpenConns = Inside)'
      BY OpenInside, PTL
    <2> QED BY OpenInside, <2>1
  <1>2. PathInv /\ FileTypes /\ PlaceInv /\ fds \in Int
    BY DEF ConnInv, FileTypes
  <1>3. CASE FdsStay
    <2>1. Created' = Created
      BY <1>3 DEF FdsStay, Created
    <2> QED BY <1>1, <1>3, <2>1 DEF FdsStay
  <1>4. CASE UNCHANGED vars \/ Quiet
    <2>1. UNCHANGED <<pending, hand, bounded_buf, connfd, pc, held, kind, fds>>
      BY <1>4 DEF Quiet, vars, net, local, files
    <2>2. FdsStay
      BY <2>1 DEF FdsStay, OpenFiles, Inside, Gone, Queued, Serving
    <2> QED BY <1>3, <2>2
  <1>5. CASE Main
    <2>1. OpenFiles' = OpenFiles /\ UNCHANGED kind
      BY <1>2, <1>5, MainFrame DEF PathInv, OpenFiles, local, files
    <2>2. CASE UNCHANGED fds /\ Inside' = Inside
      BY <1>3, <2>1, <2>2 DEF FdsStay
    <2>3. ASSUME NEW c \in Conns, Accept(c), c \notin Inside, Inside' = Inside \cup {c}
          PROVE  FdInv'
      <3>1. fds' = fds + 1 /\ fds < FdLimit
        BY <2>3 DEF Accept
      <3>2. IsFiniteSet(OpenConns') /\ Cardinality(OpenConns') = Cardinality(OpenConns) + 1
        BY <1>1, <2>3, FS_AddElement
      <3>3. Created' = Created
        BY <2>1 DEF Created
      <3>4. Cardinality(OpenConns) \in Nat /\ Cardinality(OpenFiles) \in Nat /\ Cardinality(Created) \in Nat
        BY FS_CardinalityType
      <3> QED BY <1>2, <2>1, <3>1, <3>2, <3>3, <3>4, HttpAssumption
    <2> QED BY <1>2, <1>5, <2>2, <2>3, MainInside
  <1>6. ASSUME NEW w \in Workers, Close(w)
        PROVE  FdInv'
    <2>1. /\ UNCHANGED kind /\ held'[w] = "none" /\ pc[w] = "close" /\ pc'[w] = "idle"
          /\ fds' = fds - FileFds(w) - (IF connfd[w] = ErrorFd THEN 0 ELSE 1)
      BY <1>2, <1>6 DEF Close, Goto, files, PathInv, ConnTypes, FileTypes
    <2>2. OpenFiles' = OpenFiles \ {w}
      BY <1>2, <1>6, <2>1, OpenFilesStep DEF HasFile, Serve
    <2>3. w \in OpenFiles <=> held[w] # "none"
      BY <2>1 DEF OpenFiles
    <2>4. IsFiniteSet(OpenFiles') /\ Cardinality(OpenFiles') = Cardinality(OpenFiles) - FileFds(w)
      BY <2>2, <2>3, FS_RemoveElement, FS_CardinalityType DEF FileFds
    <2>5. /\ IsFiniteSet(OpenConns')
          /\ Cardinality(OpenConns')
               = Cardinality(OpenConns) - (IF connfd[w] = ErrorFd THEN 0 ELSE 1)
      <3>1. CASE connfd[w] = ErrorFd
        <4>1. Inside' = Inside
          BY <1>2, <1>6, <3>1, WorkerInside DEF Serve
        <4> QED BY <1>1, <3>1, <4>1, FS_CardinalityType
      <3>2. CASE connfd[w] # ErrorFd
        <4>1. connfd[w] \in Inside /\ Inside' = Inside \ {connfd[w]}
          BY <1>2, <1>6, <3>2, WorkerInside DEF Serve
        <4> QED BY <1>1, <3>2, <4>1, FS_RemoveElement
      <3> QED BY <3>1, <3>2
    <2>6. Created' = Created
      BY <2>1 DEF Created
    <2>7. Cardinality(OpenConns) \in Nat /\ Cardinality(OpenFiles) \in Nat /\ Cardinality(Created) \in Nat
      BY FS_CardinalityType
    <2>8. FileFds(w) \in {0, 1}
      BY DEF FileFds
    <2> QED BY <1>2, <2>1, <2>4, <2>5, <2>6, <2>7, <2>8, HttpAssumption
  <1>7. ASSUME NEW w \in Workers, GetOpen(w) \/ PutOpen(w)
        PROVE  FdInv'
    <2>1. /\ w \notin OpenFiles /\ UNCHANGED kind
          /\ \/ fds' = fds + 1 /\ fds < FdLimit /\ OpenFiles' = OpenFiles \cup {w}
             \/ fds' = fds /\ OpenFiles' = OpenFiles
      BY <1>2, <1>7, OpenStep
    <2>2. Inside' = Inside
      BY <1>2, <1>7, WorkerInside DEF Serve, Get, Put, GetOpen, PutOpen, Close, Goto
    <2>3. CASE fds' = fds /\ OpenFiles' = OpenFiles
      BY <1>3, <2>1, <2>2, <2>3 DEF FdsStay
    <2>4. CASE fds' = fds + 1 /\ fds < FdLimit /\ OpenFiles' = OpenFiles \cup {w}
      <3>1. IsFiniteSet(OpenFiles') /\ Cardinality(OpenFiles') = Cardinality(OpenFiles) + 1
        BY <2>1, <2>4, FS_AddElement
      <3>2. Created' = Created
        BY <2>1 DEF Created
      <3>3. Cardinality(OpenConns) \in Nat /\ Cardinality(OpenFiles) \in Nat /\ Cardinality(Created) \in Nat
        BY FS_CardinalityType
      <3> QED BY <1>1, <1>2, <2>1, <2>2, <2>4, <3>1, <3>2, <3>3, HttpAssumption
    <2> QED BY <2>1, <2>3, <2>4
  <1>8. ASSUME NEW w \in Workers, PutCreate(w)
        PROVE  FdInv'
    <2>1. Inside' = Inside /\ OpenFiles' = OpenFiles
      BY <1>2, <1>8, WorkerInside, FileKept
         DEF Serve, Put, PutCreate, GetOpen, PutOpen, Close, Goto
    <2>2. CASE UNCHANGED <<kind, fds>>
      BY <1>3, <2>1, <2>2 DEF FdsStay
    <2>3. CASE /\ kind[Uri(w)] = "absent" /\ fds < FdLimit /\ fds' = fds + 1
               /\ kind' = [kind EXCEPT ![Uri(w)] = "file"]
      <3>1. Uri(w) \in Uris
        BY <1>2, <1>8, MethodConn DEF PutCreate, Goto, PathInv, Path, PutLabels
      <3>2. Uri(w) \notin Created /\ Created' = Created \cup {Uri(w)}
        BY <1>2, <2>3, <3>1 DEF Created, FileTypes
      <3>3. IsFiniteSet(Created') /\ Cardinality(Created') = Cardinality(Created) + 1
        BY <3>2, FS_AddElement
      <3>4. Cardinality(OpenConns) \in Nat /\ Cardinality(OpenFiles) \in Nat /\ Cardinality(Created) \in Nat
        BY FS_CardinalityType
      <3>5. \A u \in Uris : kind'[u] = "absent" => Kind0[u] = "absent"
        BY <1>2, <2>3 DEF FileTypes
      <3> QED BY <1>1, <1>2, <2>1, <2>3, <3>3, <3>4, <3>5, HttpAssumption
    <2>4. kind[Uri(w)] # "file"
      BY <1>8 DEF MissingInv, PutCreate, Goto, Exists
    <2> QED BY <1>8, <2>2, <2>3, <2>4 DEF PutCreate
  <1>9. ASSUME NEW w \in Workers, TakeTurn(w) \/ Serve(w),
               ~GetOpen(w), ~PutOpen(w), ~PutCreate(w), ~Close(w)
        PROVE  FdInv'
    BY <1>2, <1>3, <1>9, FdsKept, FileKept, WorkerInside DEF FdsStay
  <1> QED BY <1>4, <1>5, <1>6, <1>7, <1>8, <1>9 DEF Next

-------------------------------------------------------------------------------
(***************************************************************************)
(* The invariant of the whole server.                                      *)
(***************************************************************************)
ServerInv == TurnInv /\ ConnInv /\ FileInv /\ FdInv /\ MissingInv

(* The invariant of the descriptors at the start. *)
LEMMA InitServerInv == Init => ServerInv
  <1>1. Init => MissingInv
    BY DEF Init, MissingInv
  <1> QED BY <1>1, InitTurnInv, InitConnInv, InitFileInv, InitFdInv DEF ServerInv

(* The invariant of the descriptors through every step. *)
LEMMA NextServerInv == ServerInv /\ [Next]_vars => ServerInv'
  <1> SUFFICES ASSUME ServerInv, [Next]_vars PROVE ServerInv'
    OBVIOUS
  <1>1. TurnInv' /\ ConnInv'
    BY NextTurnInv, NextConnInv DEF ServerInv
  <1>2. FileInv'
    BY NextFileInv DEF ServerInv, ConnInv
  <1>3. FdInv'
    BY <1>1, NextFdInv DEF ServerInv, FileInv
  <1>4. MissingInv'
    BY NextMissingInv DEF ServerInv, ConnInv
  <1> QED BY <1>1, <1>2, <1>3, <1>4 DEF ServerInv

(***************************************************************************)
(* Every descriptor that accept or open gave is closed by the one path     *)
(* that has it, and by no other, but for the one of each created file      *)
(* (httpserver.c lines 120, 224, 314, 318, and 142, 274-276, 346-349).     *)
(***************************************************************************)
THEOREM DescriptorsAccounted == Spec => []FdAccounting
  <1>1. ServerInv => FdAccounting
    BY DEF ServerInv, FdInv
  <1> QED BY InitServerInv, NextServerInv, <1>1, PTL DEF Spec

(***************************************************************************)
(* Type correctness.  That fds is never negative is the accounting again:  *)
(* nothing is closed that was not open.                                    *)
(***************************************************************************)
THEOREM TypesCorrect == Spec => []TypeOK
  <1>1. ServerInv => TypeOK
    <2> SUFFICES ASSUME ServerInv PROVE TypeOK
      OBVIOUS
    <2>1. fds \in 0 .. FdLimit
      <3>1. /\ Cardinality(OpenConns) \in Nat /\ Cardinality(OpenFiles) \in Nat
            /\ Cardinality(Created) \in Nat
        BY FS_CardinalityType DEF ServerInv, FdInv
      <3> QED BY <3>1, HttpAssumption DEF ServerInv, FdInv, FdAccounting
    <2>2. ControlTypes /\ ConnTypes /\ FileTypes
      BY DEF ServerInv, TurnInv, ConnInv, PathInv
    <2> QED BY <2>1, <2>2 DEF ControlTypes, ConnTypes, FileTypes, TypeOK
  <1> QED BY InitServerInv, NextServerInv, <1>1, PTL DEF Spec

-------------------------------------------------------------------------------
(* An answer is not taken back. *)
LEMMA AnswerStays ==
  ASSUME PathInv, FileTypes, AnswerInv, [Next]_vars, NEW c \in Conns, reply[c] # 0
  PROVE  reply'[c] # 0
  <1>1. CASE UNCHANGED vars \/ Quiet \/ Main
    BY <1>1, MainFrame DEF PathInv, Quiet, vars, out
  <1>2. ASSUME NEW w \in Workers, TakeTurn(w) \/ Serve(w)
        PROVE  reply'[c] # 0
    BY <1>2, ReplyStep DEF AnswerInv, AnswersOwn
  <1> QED BY <1>1, <1>2 DEF Next

(* A worker that had its turn does not go back before it. *)
LEMMA TurnPassed ==
  ASSUME PathInv, FileTypes, NEW w \in Workers, TakeTurn(w) \/ Serve(w), ~Close(w),
         pc[w] \notin BeforeTurn \cup {"idle"}
  PROVE  pc'[w] \notin BeforeTurn
  <1> USE DEF Goto, PathInv, ConnTypes, BeforeTurn
  <1>1. CASE TakeTurn(w)
    BY <1>1, TurnLabels DEF TakeTurn
  <1>2. CASE SignalTurn(w)
    BY <1>2 DEF SignalTurn, AfterSignal
  <1>3. CASE Pop(w) \/ Parse(w)
    BY <1>3 DEF Pop, Parse
  <1>4. CASE Reply(w) \/ AuditLog(w)
    BY <1>4 DEF Reply, AuditLog
  <1>5. CASE Get(w)
    BY <1>5 DEF Get, GetYield, GetWait, GetOpen, GetFlock, GetStat, GetSend, GetSent
  <1>6. CASE Put(w)
    BY <1>6 DEF Put, PutAccess, PutCreate, PutOpen, PutFlock, PutRecv, PutReceived, PutWriteFails
  <1> QED BY <1>1, <1>2, <1>3, <1>4, <1>5, <1>6 DEF Serve

(* So a request that had its turn had it for ever. *)
LEMMA HadTurnStays ==
  ASSUME ConnInv, [Next]_vars, NEW c \in Conns, HadTurn(c)
  PROVE  HadTurn(c)'
  <1> USE DEF ConnInv
  <1>1. CASE reply[c] # 0
    BY <1>1, AnswerStays DEF HadTurn
  <1>2. ASSUME NEW v \in Serving(c), pc[v] \notin BeforeTurn
        PROVE  HadTurn(c)'
    <2>1. v \in Workers /\ pc[v] # "idle" /\ connfd[v] = c
      BY DEF Serving
    <2>2. CASE UNCHANGED vars \/ Quiet \/ Main
      <3>1. UNCHANGED <<connfd, pc, reply>>
        BY <2>2, MainFrame DEF PathInv, Quiet, vars, net, out
      <3> QED BY <1>2, <2>1, <3>1 DEF HadTurn, Serving
    <2>3. ASSUME NEW w \in Workers, TakeTurn(w) \/ Serve(w)
          PROVE  HadTurn(c)'
      <3>1. CASE w # v
        <4>1. Stays(v)
          BY <2>1, <2>3, <3>1, OthersStay
        <4> QED BY <1>2, <2>1, <4>1 DEF HadTurn, Serving, Stays
      <3>2. CASE w = v /\ Close(w)
        <4>1. reply[c] # 0
          BY <2>1, <3>2, CloseLeaves DEF AnswerInv, Busy, Answered
        <4> QED BY <4>1, AnswerStays DEF HadTurn
      <3>3. CASE w = v /\ ~Close(w)
        <4>1. ~Pop(w)
          BY <2>1, <3>3 DEF Pop, Goto
        <4>2. Serving(c)' = Serving(c)
          BY <2>3, <3>3, <4>1, PlacesKept
        <4>3. pc'[v] \notin BeforeTurn
          BY <1>2, <2>1, <2>3, <3>3, TurnPassed
        <4> QED BY <4>2, <4>3 DEF HadTurn
      <3> QED BY <3>1, <3>2, <3>3
    <2> QED BY <2>2, <2>3 DEF Next
  <1> QED BY <1>1, <1>2 DEF HadTurn

(* Where req_id changes, the request that sets it has its turn. *)
LEMMA IdSet ==
  ASSUME ConnInv, NEW w \in Workers, GetOpen(w) \/ PutAccess(w)
  PROVE  /\ connfd[w] \in Conns /\ req_id' \in {req_id, Id(w)}
         /\ \A c \in Conns : c = connfd[w] => HadTurn(c)'
  <1> USE DEF ConnInv, PathInv, ConnTypes, Goto
  <1>1. /\ pc[w] \in {"get_test", "put_access"}
        /\ pc'[w] \in {"get_flock", "not_opened", "put_open", "put_create"}
        /\ UNCHANGED connfd /\ req_id' \in {req_id, Id(w)}
    BY DEF GetOpen, PutAccess, net
  <1>2. Method(w) \in {"GET", "PUT"}
    BY <1>1 DEF Path, GetLabels, PutLabels
  <1>3. connfd[w] \in Conns /\ Request[connfd[w]].method \in {"GET", "PUT"}
    BY <1>2, MethodConn DEF Method
  <1>4. \A c \in Conns : c = connfd[w] => w \in Serving(c)' /\ pc'[w] \notin BeforeTurn
    BY <1>1 DEF Serving, BeforeTurn
  <1> QED BY <1>1, <1>3, <1>4 DEF HadTurn

(* Elsewhere it stays. *)
LEMMA IdStays ==
  ASSUME NEW w \in Workers, TakeTurn(w) \/ Serve(w), ~GetOpen(w), ~PutAccess(w)
  PROVE  UNCHANGED req_id
  <1>1. CASE TakeTurn(w) \/ Pop(w) \/ Parse(w) \/ SignalTurn(w) \/ Reply(w) \/ AuditLog(w) \/ Close(w)
    BY <1>1 DEF TakeTurn, Pop, Parse, SignalTurn, Reply, AuditLog, Close
  <1>2. CASE Get(w)
    BY <1>2 DEF Get, GetYield, GetWait, GetFlock, GetStat, GetSend, GetSent
  <1>3. CASE Put(w)
    BY <1>3 DEF Put, PutCreate, PutOpen, PutFlock, PutRecv, PutReceived, PutWriteFails
  <1> QED BY <1>1, <1>2, <1>3 DEF Serve

(* A GET gets its 404 from the open in its turn only. *)
LEMMA CodeOf404 ==
  ASSUME PathInv, FileTypes, NEW w \in Workers, TakeTurn(w) \/ Serve(w), ~Close(w),
         res'[w] = 404, res[w] # 404
  PROVE  Method(w) = "PUT" \/ (GetOpen(w) /\ OpenCode(Uri(w), 404, 0) = 404)
  <1>0. Refusal[Method(w)] # 404
    BY RefusalCodes
  <1> USE DEF Goto, PathInv, ConnTypes, FileTypes
  <1>1. CASE TakeTurn(w) \/ SignalTurn(w) \/ Pop(w) \/ Reply(w) \/ AuditLog(w)
    BY <1>1 DEF TakeTurn, SignalTurn, Pop, Reply, AuditLog, local
  <1>2. CASE Parse(w)
    <2>1. res'[w] = Refusal[Method(w)]
      BY <1>2 DEF Parse
    <2> QED BY <1>0, <2>1
  <1>3. CASE GetYield(w) \/ GetWait(w) \/ GetFlock(w) \/ GetStat(w) \/ GetSend(w) \/ GetSent(w)
    BY <1>3 DEF GetYield, GetWait, GetFlock, GetStat, GetSend, GetSent, local
  <1>4. CASE GetOpen(w)
    BY <1>4 DEF GetOpen
  <1>5. CASE Put(w)
    <2>1. pc[w] \in PutLabels
      BY <1>5 DEF Put, PutAccess, PutCreate, PutOpen, PutFlock, PutRecv, PutReceived, PutWriteFails,
              PutLabels
    <2> QED BY <2>1 DEF Path
  <1> QED BY <1>1, <1>2, <1>3, <1>4, <1>5 DEF Serve, Get

(* What open says with ENOENT: the file is not there. *)
LEMMA MissingOf404 ==
  ASSUME FileTypes, NEW u \in Uris, OpenCode(u, 404, 0) = 404
  PROVE  ~Exists(u)
  <1>1. fds >= FdLimit => ~(fds < FdLimit)
    BY HttpAssumption DEF FileTypes
  <1>2. fds >= FdLimit \/ fds < FdLimit
    BY HttpAssumption DEF FileTypes
  <1>3. Exists(u) => kind[u] \in {"file", "denied", "dir"}
    BY DEF FileTypes, Kinds, Exists
  <1> QED BY <1>1, <1>2, <1>3 DEF OpenCode

(* At the start no 404 is decided on. *)
LEMMA InitIdInv == Init => IdInv
  <1> SUFFICES ASSUME Init PROVE IdInv
    OBVIOUS
  <1>1. /\ req_id = 0 /\ reply = [c \in Conns |-> 0]
        /\ \A w \in Workers : pc[w] = "idle" /\ res[w] = 0
    BY DEF Init
  <1> QED BY <1>1 DEF IdInv, Told404, Serving

(* A 404 that is not new was explained before. *)
LEMMA InTurnStays ==
  ASSUME ConnInv, [Next]_vars, NEW c \in Conns, InTurn404(c)
  PROVE  InTurn404(c)'
  BY HadTurnStays DEF InTurn404

(* A new 404 of a GET: its id is not above req_id, which another one set.  *)
LEMMA NewInTurn ==
  ASSUME ConnInv, IdInv, [Next]_vars, NEW w \in Workers, GetOpen(w),
         OpenCode(Uri(w), 404, 0) = 404, NEW c \in Conns, c = connfd[w], Request[c].id > 0
  PROVE  InTurn404(c)'
  <1> USE DEF ConnInv
  <1>1. pc[w] = "get_test" /\ ~MustWait(w)
    BY DEF GetOpen
  <1>2. Uri(w) \in Uris /\ Id(w) \in Int /\ Id(w) = Request[c].id
    BY HttpAssumption DEF Uri, Id
  <1>3. ~Exists(Uri(w))
    BY <1>2, MissingOf404
  <1>4. Id(w) <= req_id
    BY <1>1, <1>2, <1>3 DEF MustWait, FileTypes
  <1>5. PICK e \in Conns : HadTurn(e) /\ Request[e].id = req_id
    BY <1>2, <1>4 DEF IdInv, FileTypes
  <1>6. ~HadTurn(c)
    <2>1. w \in Serving(c) /\ \A v \in Serving(c) : v = w
      BY <1>1 DEF PlaceInv, Serving, Busy
    <2>2. reply[c] = 0
      BY <1>1 DEF AnswerInv, Busy, Answered
    <2> QED BY <1>1, <2>1, <2>2 DEF HadTurn, BeforeTurn
  <1>7. e # c /\ Request[e].id >= Request[c].id
    BY <1>2, <1>4, <1>5, <1>6
  <1> QED BY <1>5, <1>7, HadTurnStays DEF InTurn404

(* A worker's step: whoever is told 404 is told it in its turn. *)
LEMMA WorkerIdInv ==
  ASSUME ConnInv, IdInv, [Next]_vars, NEW w \in Workers, TakeTurn(w) \/ Serve(w)
  PROVE  IdInv'
  <1> USE DEF ConnInv
  <1>1. \A v \in Workers \ {w} : Stays(v)
    BY OthersStay
  <1>2. req_id' > 0 => \E c \in Conns : HadTurn(c)' /\ Request[c].id = req_id'
    <2>1. CASE UNCHANGED req_id
      BY <2>1, HadTurnStays DEF IdInv
    <2>2. CASE GetOpen(w) \/ PutAccess(w)
      <3>1. /\ connfd[w] \in Conns /\ req_id' \in {req_id, Id(w)}
            /\ \A c \in Conns : c = connfd[w] => HadTurn(c)'
        BY <2>2, IdSet
      <3>2. CASE req_id' = Id(w)
        BY <3>1, <3>2 DEF Id
      <3> QED BY <2>1, <3>1, <3>2
    <2> QED BY <2>1, <2>2, IdStays
  <1>3. pc'[w] \in BeforeTurn \cup {"idle"} => res'[w] # 404
    <2>1. CASE Close(w)
      BY <2>1 DEF Close, FileTypes
    <2>2. CASE ~Close(w)
      <3> SUFFICES ASSUME pc'[w] \in BeforeTurn \cup {"idle"}, res'[w] = 404 PROVE FALSE
        OBVIOUS
      <3>1. pc[w] \in BeforeTurn \cup {"idle"}
        BY <2>2, PlacesKept, TurnPassed DEF Pop, Goto
      <3>2. res[w] # 404
        BY <3>1 DEF IdInv
      <3>3. ~GetOpen(w)
        BY DEF GetOpen, Goto, BeforeTurn, PathInv, ConnTypes
      <3>4. res' = res \/ (Put(w) /\ ~(pc'[w] \in BeforeTurn \cup {"idle"})) \/ Parse(w)
              \/ res'[w] \in {200, 201, 403}
        BY <2>2, <3>3 DEF TakeTurn, Serve, Pop, SignalTurn, Reply, AuditLog, local,
                Get, GetYield, GetWait, GetFlock, GetStat, GetSend, GetSent,
                Put, PutAccess, PutCreate, PutOpen, PutFlock, PutRecv, PutReceived, PutWriteFails,
                Goto, BeforeTurn, PathInv, ConnTypes, FileTypes
      <3>5. CASE Parse(w)
        <4>1. res'[w] = Refusal[Method(w)]
          BY <3>5 DEF Parse, FileTypes
        <4>2. Refusal[Method(w)] # 404
          BY RefusalCodes
        <4> QED BY <4>1, <4>2
      <3> QED BY <3>2, <3>4, <3>5
    <2> QED BY <2>1, <2>2
  <1>4. \A v \in Workers : pc'[v] \in BeforeTurn \cup {"idle"} => res'[v] # 404
    BY <1>1, <1>3 DEF IdInv, Stays
  <1>5. ASSUME NEW c \in Conns, Request[c].method = "GET", Told404(c)', Request[c].id > 0
        PROVE  InTurn404(c)'
    <2>1. CASE Told404(c)
      BY <1>5, <2>1, InTurnStays DEF IdInv
    <2>2. CASE reply'[c] = 404
      <3>1. reply[c] = 404 \/ (connfd[w] = c /\ res[w] = 404 /\ pc[w] # "idle")
        BY <2>2, ReplyStep DEF AnswersOwn
      <3> QED BY <2>1, <3>1 DEF Told404, Serving
    <2>3. ASSUME NEW v \in Workers, v \in Serving(c)', res'[v] = 404
          PROVE  InTurn404(c)'
      <3>1. CASE v # w
        BY <1>1, <2>1, <2>3, <3>1 DEF Told404, Serving, Stays
      <3>2. CASE v = w
        <4>1. ~Pop(w) /\ ~Close(w)
          <5>1. pc'[w] # "idle" /\ pc'[w] # "parse"
            BY <1>3, <2>3, <3>2 DEF Serving, BeforeTurn
          <5> QED BY <5>1 DEF Pop, Close, Goto, PathInv, ConnTypes
        <4>2. w \in Serving(c)
          BY <2>3, <3>2, <4>1, PlacesKept
        <4>3. CASE res[w] = 404
          BY <2>1, <4>2, <4>3 DEF Told404
        <4>4. CASE res[w] # 404
          <5>1. connfd[w] = c /\ Method(w) = "GET"
            BY <1>5, <4>2 DEF Serving, Method
          <5>2. GetOpen(w) /\ OpenCode(Uri(w), 404, 0) = 404
            BY <2>3, <3>2, <4>1, <4>4, <5>1, CodeOf404
          <5> QED BY <1>5, <5>1, <5>2, NewInTurn
        <4> QED BY <4>3, <4>4
      <3> QED BY <3>1, <3>2
    <2> QED BY <1>5, <2>2, <2>3 DEF Told404, Serving
  <1> QED BY <1>2, <1>4, <1>5 DEF IdInv

(* What is known of a 404, through every step. *)
LEMMA NextIdInv == ConnInv /\ IdInv /\ [Next]_vars => IdInv'
  <1> SUFFICES ASSUME ConnInv, IdInv, [Next]_vars PROVE IdInv'
    OBVIOUS
  <1>1. CASE UNCHANGED vars \/ Quiet \/ Main
    <2>1. UNCHANGED <<connfd, pc, reply, res, req_id>>
      BY <1>1, MainFrame DEF ConnInv, PathInv, Quiet, vars, net, out, local
    <2> QED BY <2>1 DEF IdInv, Told404, InTurn404, HadTurn, Serving
  <1> QED BY <1>1, WorkerIdInv DEF Next

(***************************************************************************)
(* A GET with an id above 0 is told 404 in its turn only: another request  *)
(* with an id at least as high has had its turn (httpserver.c lines        *)
(* 211-222 and 307-309).                                                   *)
(***************************************************************************)
THEOREM MissingInTurn == Spec => []NotFoundInTurn
  <1>1. ConnInv /\ IdInv => NotFoundInTurn
    BY DEF IdInv, Told404, InTurn404, NotFoundInTurn
  <1>2. Init => ConnInv /\ IdInv
    BY InitConnInv, InitIdInv
  <1>3. ConnInv /\ IdInv /\ [Next]_vars => (ConnInv /\ IdInv)'
    BY NextConnInv, NextIdInv
  <1> QED BY <1>1, <1>2, <1>3, PTL DEF Spec
===============================================================================
