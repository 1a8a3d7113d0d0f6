---------------------------- MODULE HttpFilesProofs ----------------------------
(***************************************************************************)
(* Proofs about HttpServer: which request a worker serves at each label,   *)
(* the locks on the files, and the theorem that the audit log explains     *)
(* what was read and what is stored.                                       *)
(***************************************************************************)
EXTENDS HttpServerProofs, SequenceTheorems

(***************************************************************************)
(* The connections and the path of a worker: the label says which method   *)
(* the request has.                                                        *)
(***************************************************************************)
ConnTypes ==
  /\ pending \subseteq Conns
  /\ hand \in Conns \cup {NoConn, ErrorFd}
  /\ bounded_buf \in Seq(Conns \cup {ErrorFd}) /\ Len(bounded_buf) <= QueueSize
  /\ connfd \in [Workers -> Conns \cup {NoConn, ErrorFd}]
  /\ pc \in [Workers -> Labels]

GetLabels == {"get_lock", "get_yield", "get_signal", "get_relock", "get_test",
              "get_flock", "get_opened", "get_stat", "get_send"}
PutLabels == {"put_lock", "put_access", "put_create", "put_open", "put_flock", "put_opened",
              "put_recv"}

Path(w) ==
  /\ pc[w] # "idle" => connfd[w] # NoConn
  /\ pc[w] \in GetLabels => Method(w) = "GET"
  /\ pc[w] \in PutLabels => Method(w) = "PUT"
  /\ pc[w] = "not_opened" => Method(w) \in {"GET", "PUT"}
  /\ pc[w] = "audit" => Method(w) # "BAD"

PathInv == ConnTypes /\ \A w \in Workers : Path(w)

(* A worker with a method to serve has a connection and a file name.       *)
LEMMA MethodConn ==
  ASSUME NEW w \in Workers, Method(w) # "BAD"
  PROVE  connfd[w] \in Conns /\ Uri(w) \in Uris /\ Id(w) \in Int
  BY HttpAssumption DEF Method, Uri, Id

(* Every worker's request has a method. *)
LEMMA MethodType ==
  ASSUME NEW w \in Workers
  PROVE  Method(w) \in Methods
  BY HttpAssumption DEF Method, Methods

(* What each of main's steps leaves alone is the workers' state. *)
LEMMA MainFrame ==
  ASSUME ConnTypes, Main
  PROVE  UNCHANGED <<connfd, pc, mutex, req_id, files, local, out>>
  BY DEF Main, Accept, AcceptFails, Push, Queue!Enqueue

(* A step of one worker, from one label to another, that keeps the         *)
(* connections.                                                            *)
LEMMA PathStep ==
  ASSUME PathInv, UNCHANGED net, NEW w \in Workers, NEW to \in Labels,
         pc' = [pc EXCEPT ![w] = to], pc[w] # "idle",
         to \in GetLabels => Method(w) = "GET",
         to \in PutLabels => Method(w) = "PUT",
         to = "not_opened" => Method(w) \in {"GET", "PUT"},
         to = "audit" => Method(w) # "BAD"
  PROVE  PathInv'
  <1>1. ConnTypes'
    BY DEF PathInv, ConnTypes, net
  <1>2. \A v \in Workers : Method(v)' = Method(v)
    BY DEF Method, net
  <1>3. \A v \in Workers : Path(v)'
    BY <1>2 DEF PathInv, ConnTypes, Path, net
  <1> QED BY <1>1, <1>3 DEF PathInv

(* At the start every worker is idle. *)
LEMMA InitPathInv == Init => PathInv
  BY HttpAssumption DEF Init, Queue!Init, PathInv, ConnTypes, Path, Labels,
     GetLabels, PutLabels

(* Taking a connection: the queue holds descriptors only. *)
LEMMA PathPop ==
  ASSUME PathInv, NEW w \in Workers, Pop(w)
  PROVE  PathInv'
  <1> USE DEF PathInv, ConnTypes
  <1>1. /\ bounded_buf # << >> /\ bounded_buf' = Tail(bounded_buf)
        /\ connfd' = [connfd EXCEPT ![w] = Head(bounded_buf)]
        /\ pc' = [pc EXCEPT ![w] = "parse"]
        /\ UNCHANGED <<pending, hand>>
    BY DEF Pop, Queue!Dequeue, Goto
  <1>2. Head(bounded_buf) \in Conns \cup {ErrorFd}
    BY <1>1
  <1>3. bounded_buf' \in Seq(Conns \cup {ErrorFd}) /\ Len(bounded_buf') <= QueueSize
    BY <1>1, HttpAssumption
  <1>4. ConnTypes'
    BY <1>1, <1>2, <1>3 DEF Labels
  <1>5. Path(w)'
    BY <1>1, <1>2, HttpAssumption DEF Path, GetLabels, PutLabels
  <1>6. \A v \in Workers \ {w} : Path(v)'
    BY <1>1 DEF Path, Method
  <1> QED BY <1>4, <1>5, <1>6

(* main's steps keep the invariant: it queues what it has in its hand. *)
LEMMA PathMain ==
  ASSUME PathInv, Main
  PROVE  PathInv'
  <1>1. UNCHANGED <<connfd, pc>>
    BY MainFrame DEF PathInv
  <1>2. /\ pending' \subseteq Conns /\ hand' \in Conns \cup {NoConn, ErrorFd}
        /\ bounded_buf' \in Seq(Conns \cup {ErrorFd}) /\ Len(bounded_buf') <= QueueSize
    <2>1. CASE AcceptFails \/ \E c \in Conns : Accept(c)
      BY <2>1 DEF AcceptFails, Accept, PathInv, ConnTypes
    <2>2. CASE Push
      <3>1. hand \in Conns \cup {ErrorFd}
        BY <2>2 DEF Push, PathInv, ConnTypes
      <3>2. CASE UNCHANGED bounded_buf
        BY <2>2, <3>2 DEF Push, PathInv, ConnTypes
      <3>3. CASE Queue!Enqueue(hand)
        <4>1. Len(bounded_buf) < QueueSize /\ bounded_buf' = Append(bounded_buf, hand)
          BY <3>3 DEF Queue!Enqueue
        <4> QED BY <2>2, <3>1, <4>1, HttpAssumption DEF Push, PathInv, ConnTypes
      <3> QED BY <2>2, <3>2, <3>3 DEF Push
    <2> QED BY <2>1, <2>2 DEF Main
  <1>3. \A w \in Workers : Path(w)'
    BY <1>1 DEF PathInv, Path, Method
  <1> QED BY <1>1, <1>2, <1>3 DEF PathInv, ConnTypes

(* Every step follows the paths of the handlers. *)
LEMMA NextPathInv == PathInv /\ [Next]_vars => PathInv'
  <1> SUFFICES ASSUME PathInv, [Next]_vars PROVE PathInv'
    OBVIOUS
  <1> USE DEF Goto
  <1>1. CASE UNCHANGED vars \/ Quiet
    BY <1>1 DEF Quiet, vars, net, PathInv, ConnTypes, Path, Method
  <1>2. CASE Main
    BY <1>2, PathMain
  <1>3. ASSUME NEW w \in Workers, TakeTurn(w)
        PROVE  PathInv'
    <2>1. UNCHANGED net
      BY <1>3 DEF TakeTurn
    <2>2. CASE UNCHANGED pc
      BY <2>1, <2>2 DEF net, PathInv, ConnTypes, Path, Method
    <2>3. CASE pc' = [pc EXCEPT ![w] = Turn[pc[w]]]
      <3>1. \/ pc[w] = "put_lock" /\ Turn[pc[w]] = "put_access"
            \/ pc[w] = "get_lock" /\ Turn[pc[w]] = "get_yield"
            \/ pc[w] = "get_relock" /\ Turn[pc[w]] = "get_test"
        BY <1>3 DEF TakeTurn, Turn
      <3>2. CASE pc[w] = "put_lock"
        <4>1. Method(w) = "PUT"
          BY <3>2 DEF PathInv, Path, PutLabels
        <4> QED BY <2>1, <2>3, <3>1, <3>2, <4>1, PathStep DEF GetLabels, Labels
      <3>3. CASE pc[w] \in {"get_lock", "get_relock"}
        <4>1. Method(w) = "GET"
          BY <3>3 DEF PathInv, Path, GetLabels
        <4> QED BY <2>1, <2>3, <3>1, <3>3, <4>1, PathStep DEF PutLabels, Labels
      <3> QED BY <3>1, <3>2, <3>3
    <2> QED BY <1>3, <2>2, <2>3 DEF TakeTurn
  <1>4. ASSUME NEW w \in Workers, Pop(w)
        PROVE  PathInv'
    BY <1>4, PathPop
  <1>5. ASSUME NEW w \in Workers, Parse(w)
        PROVE  PathInv'
    <2> DEFINE to == Handler[Method(w)]
    <2>1. /\ UNCHANGED net /\ pc[w] = "parse"
          /\ pc' = [pc EXCEPT ![w] = to]
      BY <1>5 DEF Parse
    <2>2. \/ to = "reply"
          \/ to = "get_lock" /\ Method(w) = "GET"
          \/ to = "put_lock" /\ Method(w) = "PUT"
      BY MethodType DEF Handler, Methods
    <2> HIDE DEF to
    <2> QED BY <2>1, <2>2, PathStep DEF GetLabels, PutLabels, Labels
  <1>6. ASSUME NEW w \in Workers, SignalTurn(w)
        PROVE  PathInv'
    BY <1>6, SignalLabels, PathStep, ZenonT(60)
       DEF SignalTurn, AfterSignal, GetLabels, PutLabels, Labels, PathInv, Path
  <1>7. ASSUME NEW w \in Workers, Reply(w) \/ AuditLog(w)
        PROVE  PathInv'
    BY <1>7, PathStep DEF Reply, AuditLog, IsLogged, GetLabels, PutLabels, Labels
  <1>8. ASSUME NEW w \in Workers, Close(w)
        PROVE  PathInv'
    BY <1>8, PathStep DEF Close, GetLabels, PutLabels, Labels
  <1>9. ASSUME NEW w \in Workers, Get(w)
        PROVE  PathInv'
    <2>1. UNCHANGED net /\ Method(w) = "GET"
      BY <1>9 DEF Get, GetYield, GetWait, GetOpen, GetFlock, GetStat, GetSend, GetSent,
              GetLabels, PathInv, Path
    <2>2. \E to \in GetLabels \cup {"not_opened", "reply", "audit"} :
            pc' = [pc EXCEPT ![w] = to]
      BY <1>9 DEF Get, GetYield, GetWait, GetOpen, GetFlock, GetStat, GetSend, GetSent,
              GetLabels
    <2>3. pc[w] # "idle"
      BY <1>9 DEF Get, GetYield, GetWait, GetOpen, GetFlock, GetStat, GetSend, GetSent
    <2> QED BY <2>1, <2>2, <2>3, PathStep DEF GetLabels, PutLabels, Labels
  <1>10. ASSUME NEW w \in Workers, Put(w)
        PROVE  PathInv'
    <2>1. UNCHANGED net /\ Method(w) = "PUT"
      BY <1>10 DEF Put, PutAccess, PutCreate, PutOpen, PutFlock, PutRecv, PutReceived, PutWriteFails,
              PutLabels, PathInv, Path
    <2>2. \E to \in PutLabels \cup {"not_opened", "reply"} :
            pc' = [pc EXCEPT ![w] = to]
      BY <1>10 DEF Put, PutAccess, PutCreate, PutOpen, PutFlock, PutRecv, PutReceived, PutWriteFails,
              PutLabels
    <2>3. pc[w] # "idle"
      BY <1>10 DEF Put, PutAccess, PutCreate, PutOpen, PutFlock, PutRecv, PutReceived, PutWriteFails
    <2> QED BY <2>1, <2>2, <2>3, PathStep DEF GetLabels, PutLabels, Labels
  <1> QED BY <1>1, <1>2, <1>3, <1>4, <1>5, <1>6, <1>7, <1>8, <1>9, <1>10 DEF Next, Serve

-------------------------------------------------------------------------------
(***************************************************************************)
(* The types of the files and of what workers keep of them.  That fds is   *)
(* between 0 and FdLimit needs the accounting of the descriptors.          *)
(***************************************************************************)
Entry == [oper : Methods, uri : Uris, code : Codes \cup {0}, conn : Conns,
          body : Seq(Chunk), wrote : BOOLEAN]

FileTypes ==
  /\ req_id \in Int /\ fds \in Int
  /\ kind \in [Uris -> Kinds] /\ data \in [Uris -> Seq(Chunk)]
  /\ held \in [Workers -> {"none", "shared", "exclusive"}]
  /\ res \in [Workers -> Codes \cup {0}]
  /\ filesize \in [Workers -> Nat] /\ body \in [Workers -> Seq(Chunk)]
  /\ reply \in [Conns -> Codes \cup {0}]
  /\ audit \in Seq(Entry)

(***************************************************************************)
(* The locks: a worker at a label that reads has its file shared, one that *)
(* writes has it for itself.                                               *)
(***************************************************************************)
Reading == {"get_opened", "get_stat", "get_send"}
Writing == {"put_opened", "put_recv"}
Ending  == {"reply", "audit", "close"}

Lock(w) ==
  /\ pc[w] \in Reading => held[w] = "shared"
  /\ pc[w] \in Writing => held[w] = "exclusive"
  /\ held[w] = "shared" => pc[w] \in Reading \cup Ending /\ Method(w) = "GET"
  /\ held[w] = "exclusive" => pc[w] \in Writing \cup Ending /\ Method(w) = "PUT"

Alone(v, w) == held[v] = "exclusive" /\ held[w] # "none" => Uri(v) # Uri(w)

LockInv ==
  /\ \A w \in Workers : Lock(w)
  /\ \A v, w \in Workers : v # w => Alone(v, w)

(***************************************************************************)
(* What a worker has sent or received: a writer's file is its body; what a *)
(* reader has sent is the beginning of its file, and all of it when it     *)
(* gets to the audit log with 200.                                         *)
(***************************************************************************)
Prefix(s, t) == Len(s) <= Len(t) /\ \A i \in 1 .. Len(s) : s[i] = t[i]

Transfer(w) ==
  /\ pc[w] \notin {"get_send", "put_recv"} \cup Ending => body[w] = << >>
  /\ held[w] = "exclusive" => body[w] = data[Uri(w)]
  /\ pc[w] = "get_send" => /\ filesize[w] = Len(data[Uri(w)])
                           /\ Prefix(body[w], data[Uri(w)])
  /\ Method(w) = "GET" /\ pc[w] \in {"not_opened", "reply"} => res[w] # 200
  /\ Method(w) = "GET" /\ pc[w] = "audit" /\ res[w] = 200
       => held[w] = "shared" /\ body[w] = data[Uri(w)]

FileInv == FileTypes /\ LockInv /\ \A w \in Workers : Transfer(w)

(***************************************************************************)
(* The audit log, as a function of the log.  Between its flock and its     *)
(* line in the log, a writer's file is ahead of the log.                   *)
(***************************************************************************)
WritesIn(log, u, n) == {i \in 1 .. n : log[i].uri = u /\ log[i].wrote}
LastIn(log, u, n) == CHOOSE i \in WritesIn(log, u, n) : \A j \in WritesIn(log, u, n) : j <= i
ContentIn(log, u, n) ==
  IF WritesIn(log, u, n) = {} THEN Content0(u) ELSE log[LastIn(log, u, n)].body

HasLast(log, u, n) ==
  WritesIn(log, u, n) # {}
    => \E i \in WritesIn(log, u, n) : \A j \in WritesIn(log, u, n) : j <= i

Settled(u) == \A w \in Workers : held[w] = "exclusive" /\ Uri(w) = u => pc[w] = "close"

Read(log, n) == log[n].oper = "GET" /\ log[n].code = 200
                  => log[n].body = ContentIn(log, log[n].uri, n - 1)

ReplayInv ==
  /\ \A u \in Uris : \A n \in 0 .. Len(audit) : HasLast(audit, u, n)
  /\ \A n \in 1 .. Len(audit) : Read(audit, n)
  /\ \A u \in Uris : Settled(u) => data[u] = ContentIn(audit, u, Len(audit))

-------------------------------------------------------------------------------
(* What open may answer to a GET and to a PUT. *)
LEMMA OpenCodes ==
  ASSUME FileTypes, NEW u \in Uris
  PROVE  /\ OpenCode(u, 404, 0) \in {0, 403, 404, 500}
         /\ OpenCode(u, 403, 403) \in {0, 403, 500}
  <1>1. fds >= FdLimit \/ fds < FdLimit
    BY HttpAssumption DEF FileTypes
  <1>2. kind[u] \in {"file", "denied", "dir"} \/ ~Exists(u)
    BY DEF FileTypes, Kinds, Exists
  <1> QED BY <1>1, <1>2 DEF OpenCode

(* A write at the end of a file appends to it. *)
LEMMA WriteAtEnd ==
  ASSUME NEW S, NEW s \in Seq(S), NEW x \in S
  PROVE  WriteAt(s, Len(s) + 1, x) = Append(s, x)
  <1> DEFINE t == WriteAt(s, Len(s) + 1, x)
  <1>1. t = [i \in 1 .. Len(s) + 1 |-> IF i = Len(s) + 1 THEN x ELSE s[i]]
    BY DEF WriteAt
  <1>2. t \in Seq(S) /\ Append(s, x) \in Seq(S)
    BY <1>1
  <1>3. Len(t) = Len(Append(s, x)) /\ \A i \in 1 .. Len(t) : t[i] = Append(s, x)[i]
    BY <1>1
  <1> QED BY <1>2, <1>3, SeqEqual

(* What the other workers are at, serve, hold and have sent stays. *)
Stays(v) == /\ pc'[v] = pc[v] /\ connfd'[v] = connfd[v] /\ held'[v] = held[v]
            /\ res'[v] = res[v] /\ filesize'[v] = filesize[v] /\ body'[v] = body[v]

(* A step of one worker leaves the others where they are. *)
LEMMA OthersStay ==
  ASSUME PathInv, FileTypes, NEW w \in Workers, TakeTurn(w) \/ Serve(w),
         NEW v \in Workers, v # w
  PROVE  Stays(v)
  <1> USE DEF PathInv, ConnTypes, FileTypes, Stays, Goto
  <1>1. CASE TakeTurn(w)
    BY <1>1 DEF TakeTurn, net, local
  <1>2. CASE Pop(w)
    BY <1>2 DEF Pop, Queue!Dequeue, local
  <1>3. CASE Parse(w) \/ SignalTurn(w) \/ Reply(w) \/ AuditLog(w) \/ Close(w)
    BY <1>3 DEF Parse, SignalTurn, Reply, AuditLog, Close, net, local
  <1>4. CASE Get(w)
    BY <1>4 DEF Get, GetYield, GetWait, GetOpen, GetFlock, GetStat, GetSend, GetSent,
            Flock, net, local
  <1>5. CASE Put(w)
    BY <1>5 DEF Put, PutAccess, PutCreate, PutOpen, PutFlock, PutRecv, PutReceived, PutWriteFails,
            Flock, net, local
  <1> QED BY <1>1, <1>2, <1>3, <1>4, <1>5 DEF Serve

(* The codes of the requests that open no file. *)
LEMMA RefusalCodes ==
  ASSUME NEW w \in Workers
  PROVE  /\ Refusal[Method(w)] \in {0, 400, 501}
         /\ Refusal[Method(w)] # 0 => Method(w) \in {"UNSUPPORTED", "BAD"}
  BY MethodType DEF Refusal, Methods

(* The types of the files at the start. *)
LEMMA InitFileTypes == Init => FileTypes
  <1> SUFFICES ASSUME Init PROVE FileTypes
    OBVIOUS
  <1>1. \A u \in Uris : Content0(u) \in Seq(Chunk)
    BY HttpAssumption DEF Content0, Chunk
  <1> QED BY <1>1, HttpAssumption DEF Init, FileTypes, Codes

(* A reader's step. *)
LEMMA GetFileTypes ==
  ASSUME PathInv, FileTypes, NEW w \in Workers, Get(w)
  PROVE  FileTypes'
  <1> USE DEF Goto, FileTypes
  <1>1. Method(w) = "GET"
    BY DEF Get, GetYield, GetWait, GetOpen, GetFlock, GetStat, GetSend, GetSent,
       GetLabels, PathInv, Path
  <1>2. connfd[w] \in Conns /\ Uri(w) \in Uris /\ Id(w) \in Int
    BY <1>1, MethodConn
  <1>3. CASE GetYield(w) \/ GetWait(w)
    BY <1>3 DEF GetYield, GetWait, files, local, out
  <1>4. CASE GetOpen(w)
    <2> DEFINE code == OpenCode(Uri(w), 404, 0)
    <2>1. code \in Codes \cup {0}
      BY <1>2, OpenCodes DEF Codes
    <2>2. /\ req_id' = Id(w) /\ fds' \in {fds, fds + 1}
          /\ res' = res \/ res' = [res EXCEPT ![w] = code]
          /\ UNCHANGED <<kind, data, held, filesize, body, reply, audit>>
      BY <1>4 DEF GetOpen, files, out
    <2> HIDE DEF code
    <2> QED BY <1>2, <2>1, <2>2
  <1>5. CASE GetFlock(w)
    BY <1>5 DEF GetFlock, Flock, files, out
  <1>6. CASE GetStat(w)
    BY <1>2, <1>6 DEF GetStat, files, out, Codes
  <1>7. CASE GetSend(w)
    <2>1. data[Uri(w)] \in Seq(Chunk) /\ body[w] \in Seq(Chunk)
      BY <1>2
    <2>2. Append(body[w], data[Uri(w)][Len(body[w]) + 1]) \in Seq(Chunk)
      BY <1>7, <2>1 DEF GetSend
    <2> QED BY <1>7, <2>2 DEF GetSend, files, out
  <1>8. CASE GetSent(w)
    BY <1>2, <1>8 DEF GetSent, files, local
  <1> QED BY <1>3, <1>4, <1>5, <1>6, <1>7, <1>8 DEF Get

(* A writer's step. *)
LEMMA PutFileTypes ==
  ASSUME PathInv, FileTypes, NEW w \in Workers, Put(w)
  PROVE  FileTypes'
  <1> USE DEF Goto, FileTypes
  <1>1. Method(w) = "PUT"
    BY DEF Put, PutAccess, PutCreate, PutOpen, PutFlock, PutRecv, PutReceived, PutWriteFails,
       PutLabels, PathInv, Path
  <1>2. connfd[w] \in Conns /\ Uri(w) \in Uris /\ Id(w) \in Int
    BY <1>1, MethodConn
  <1>3. CASE PutAccess(w) \/ PutCreate(w)
    <2>1. CASE PutAccess(w)
      BY <1>2, <2>1 DEF PutAccess, files, out, Codes
    <2>2. CASE PutCreate(w)
      BY <1>2, <2>2 DEF PutCreate, local, out, Kinds
    <2> QED BY <1>3, <2>1, <2>2
  <1>4. CASE PutOpen(w)
    <2> DEFINE code == OpenCode(Uri(w), 403, 403)
    <2>1. code \in Codes \cup {0}
      BY <1>2, OpenCodes DEF Codes
    <2>2. /\ fds' \in {fds, fds + 1}
          /\ res' = res \/ res' = [res EXCEPT ![w] = code]
          /\ UNCHANGED <<req_id, kind, data, held, filesize, body, reply, audit>>
      BY <1>4 DEF PutOpen, files, out
    <2> HIDE DEF code
    <2>3. fds' \in Int
      BY <2>2
    <2>4. res' \in [Workers -> Codes \cup {0}]
      BY <2>1, <2>2
    <2> QED BY <2>2, <2>3, <2>4
  <1>5. CASE PutFlock(w)
    <2>1. data' = [data EXCEPT ![Uri(w)] = << >>] /\ held' = [held EXCEPT ![w] = "exclusive"]
      BY <1>5 DEF PutFlock, Flock, Truncated
    <2>2. << >> \in Seq(Chunk)
      OBVIOUS
    <2>3. data' \in [Uris -> Seq(Chunk)]
      BY <2>1, <2>2
    <2>4. UNCHANGED <<req_id, fds, kind, res, filesize, body, reply, audit>>
      BY <1>5 DEF PutFlock, out
    <2> QED BY <2>1, <2>3, <2>4
  <1>6. CASE PutRecv(w)
    <2>1. connfd[w] \in Chunk /\ data[Uri(w)] \in Seq(Chunk) /\ body[w] \in Seq(Chunk)
      BY <1>2 DEF Chunk
    <2>2. WriteAt(data[Uri(w)], Len(body[w]) + 1, connfd[w]) \in Seq(Chunk)
      BY <2>1 DEF WriteAt, Chunk
    <2>3. Append(body[w], connfd[w]) \in Seq(Chunk)
      BY <2>1
    <2> QED BY <1>6, <2>2, <2>3 DEF PutRecv, out
  <1>7. CASE PutReceived(w) \/ PutWriteFails(w)
    <2>1. \E code \in Codes : res' = [res EXCEPT ![w] = code]
      BY <1>7 DEF PutReceived, PutWriteFails, Codes
    <2>2. UNCHANGED <<req_id, fds, kind, data, held, filesize, body, reply, audit>>
      BY <1>7 DEF PutReceived, PutWriteFails, files, out
    <2> QED BY <2>1, <2>2
  <1> QED BY <1>3, <1>4, <1>5, <1>6, <1>7 DEF Put

(* Every step keeps the types of the files. *)
LEMMA NextFileTypes == PathInv /\ FileTypes /\ [Next]_vars => FileTypes'
  <1> SUFFICES ASSUME PathInv, FileTypes, [Next]_vars PROVE FileTypes'
    OBVIOUS
  <1>1. CASE UNCHANGED vars \/ Quiet
    BY <1>1 DEF Quiet, vars, files, local, out, FileTypes
  <1>2. CASE Main
    <2>1. fds' \in Int
      BY <1>2 DEF Main, Accept, AcceptFails, Push, FileTypes
    <2> QED BY <1>2, <2>1, MainFrame DEF PathInv, files, local, out, FileTypes
  <1>3. ASSUME NEW w \in Workers, TakeTurn(w) \/ SignalTurn(w) \/ Pop(w)
        PROVE  FileTypes'
    BY <1>3 DEF TakeTurn, SignalTurn, Pop, files, local, out, FileTypes
  <1>4. ASSUME NEW w \in Workers, Parse(w)
        PROVE  FileTypes'
    <2>1. Refusal[Method(w)] \in Codes \cup {0}
      BY RefusalCodes DEF Codes
    <2> QED BY <1>4, <2>1 DEF Parse, files, out, FileTypes
  <1>5. ASSUME NEW w \in Workers, Reply(w)
        PROVE  FileTypes'
    BY <1>5 DEF Reply, files, local, FileTypes
  <1>6. ASSUME NEW w \in Workers, AuditLog(w)
        PROVE  FileTypes'
    <2> DEFINE e == [oper |-> Method(w), uri |-> Uri(w), code |-> res[w],
                     conn |-> connfd[w], body |-> body[w], wrote |-> held[w] = "exclusive"]
    <2>1. Method(w) # "BAD"
      BY <1>6 DEF AuditLog, Goto, PathInv, Path
    <2>2. e \in Entry
      BY <2>1, MethodConn, MethodType DEF Entry, FileTypes
    <2>3. audit' = Append(audit, e)
      BY <1>6 DEF AuditLog
    <2> HIDE DEF e
    <2> QED BY <1>6, <2>2, <2>3 DEF AuditLog, files, local, FileTypes
  <1>7. ASSUME NEW w \in Workers, Close(w)
        PROVE  FileTypes'
    <2>1. << >> \in Seq(Chunk) /\ FileFds(w) \in {0, 1}
      BY DEF FileFds
    <2>2. fds' \in Int
      BY <1>7, <2>1 DEF Close, FileTypes
    <2> QED BY <1>7, <2>1, <2>2 DEF Close, files, out, FileTypes
  <1> QED BY <1>1, <1>2, <1>3, <1>4, <1>5, <1>6, <1>7, GetFileTypes, PutFileTypes
          DEF Next, Serve

-------------------------------------------------------------------------------
(* At the start nobody has a lock or a file. *)
LEMMA InitFileInv == Init => FileInv
  BY InitFileTypes DEF Init, FileInv, LockInv, Lock, Alone, Transfer,
     Reading, Writing, Ending

(* Locks change with the worker that steps only. *)
LEMMA LockStep ==
  ASSUME PathInv, FileTypes, LockInv, NEW w \in Workers, TakeTurn(w) \/ Serve(w),
         Lock(w)',
         \A v \in Workers \ {w} : Alone(v, w)' /\ Alone(w, v)'
  PROVE  LockInv'
  <1>1. \A v \in Workers \ {w} : Stays(v)
    BY OthersStay
  <1>2. \A v \in Workers \ {w} : Lock(v)'
    BY <1>1 DEF LockInv, Lock, Stays, Method
  <1>3. \A u, v \in Workers \ {w} : u # v => Alone(u, v)'
    BY <1>1 DEF LockInv, Alone, Stays, Uri
  <1> QED BY <1>2, <1>3 DEF LockInv

(* A step that keeps a worker's lock and connection keeps it alone. *)
LEMMA LockKept ==
  ASSUME PathInv, FileTypes, LockInv, NEW w \in Workers, TakeTurn(w) \/ Serve(w),
         held'[w] = held[w], connfd'[w] = connfd[w], Lock(w)'
  PROVE  LockInv'
  <1>1. \A v \in Workers \ {w} : Stays(v)
    BY OthersStay
  <1>2. \A v \in Workers \ {w} : Alone(v, w)' /\ Alone(w, v)'
    BY <1>1 DEF LockInv, Alone, Stays, Uri
  <1> QED BY <1>2, LockStep

(* A flock on a file is alone against those that it excludes. *)
LEMMA FlockAlone ==
  ASSUME PathInv, FileTypes, LockInv, NEW w \in Workers, NEW mode \in {"shared", "exclusive"},
         Flock(w, mode), TakeTurn(w) \/ Serve(w), connfd' = connfd,
         NEW v \in Workers \ {w}
  PROVE  Alone(v, w)' /\ Alone(w, v)'
  <1>1. held'[v] = held[v] /\ held'[w] = mode
    BY DEF Flock, FileTypes
  <1>2. Uri(v)' = Uri(v) /\ Uri(w)' = Uri(w)
    BY DEF Uri
  <1>3. held[v] # "none" /\ Uri(v) = Uri(w) => mode = "shared" /\ held[v] = "shared"
    BY DEF Flock, Sharing
  <1> QED BY <1>1, <1>2, <1>3 DEF Alone

(* Every step keeps the locks: no reader and no second writer beside a     *)
(* writer.                                                                 *)
LEMMA NextLockInv == PathInv /\ FileTypes /\ LockInv /\ [Next]_vars => LockInv'
  <1> SUFFICES ASSUME PathInv, FileTypes, LockInv, [Next]_vars PROVE LockInv'
    OBVIOUS
  <1> USE DEF Goto, Reading, Writing, Ending
  <1>1. CASE UNCHANGED vars \/ Quiet
    BY <1>1 DEF Quiet, vars, local, net, LockInv, Lock, Alone, Method, Uri
  <1>2. CASE Main
    BY <1>2, MainFrame DEF PathInv, local, LockInv, Lock, Alone, Method, Uri
  <1>4. ASSUME NEW w \in Workers, TakeTurn(w)
        PROVE  LockInv'
    <2>1. UNCHANGED <<held, connfd>>
      BY <1>4 DEF TakeTurn, local, net
    <2>2. pc[w] \in {"get_lock", "get_relock", "put_lock"}
      BY <1>4, TurnLabels DEF TakeTurn
    <2>3. pc'[w] \in {pc[w], "get_yield", "get_test", "put_access"}
      BY <1>4, TurnLabels DEF TakeTurn, PathInv, ConnTypes
    <2>4. held[w] = "none"
      BY <2>2 DEF LockInv, Lock, FileTypes
    <2>5. Lock(w)'
      BY <2>1, <2>2, <2>3, <2>4 DEF Lock
    <2> QED BY <1>4, <2>1, <2>5, LockKept
  <1>5. ASSUME NEW w \in Workers, Serve(w), held'[w] = "none", Lock(w)'
        PROVE  LockInv'
    BY <1>5, LockStep DEF Alone
  <1>6. ASSUME NEW w \in Workers, Pop(w)
        PROVE  LockInv'
    <2>1. held'[w] = "none"
      BY <1>6 DEF Pop, local, LockInv, Lock, FileTypes
    <2>2. pc'[w] = "parse"
      BY <1>6 DEF Pop, PathInv, ConnTypes
    <2> QED BY <1>5, <1>6, <2>1, <2>2 DEF Serve, Lock
  <1>7. ASSUME NEW w \in Workers, Close(w)
        PROVE  LockInv'
    <2>1. held'[w] = "none" /\ pc'[w] = "idle"
      BY <1>7 DEF Close, PathInv, ConnTypes, FileTypes
    <2> QED BY <1>5, <1>7, <2>1 DEF Serve, Lock
  <1>8. ASSUME NEW w \in Workers, Parse(w)
        PROVE  LockInv'
    <2>1. UNCHANGED <<held, connfd>> /\ pc[w] = "parse" /\ pc'[w] \in {"get_lock", "put_lock", "reply"}
      BY <1>8, HandlerLabels DEF Parse, net, PathInv, ConnTypes
    <2>2. Lock(w)'
      BY <2>1 DEF LockInv, Lock
    <2> QED BY <1>8, <2>1, <2>2, LockKept DEF Serve
  <1>9. ASSUME NEW w \in Workers, SignalTurn(w)
        PROVE  LockInv'
    <2>1. /\ UNCHANGED <<held, connfd>>
          /\ \/ pc[w] = "get_signal" /\ pc'[w] = "get_relock"
             \/ pc[w] = "get_opened" /\ pc'[w] = "get_stat"
             \/ pc[w] = "put_opened" /\ pc'[w] = "put_recv"
             \/ pc[w] = "not_opened" /\ pc'[w] = "reply"
      BY <1>9 DEF SignalTurn, AfterSignal, local, net, PathInv, ConnTypes
    <2>2. Lock(w)'
      BY <2>1 DEF LockInv, Lock, Method
    <2> QED BY <1>9, <2>1, <2>2, LockKept DEF Serve
  <1>10. ASSUME NEW w \in Workers, Reply(w) \/ AuditLog(w)
        PROVE  LockInv'
    <2>1. /\ UNCHANGED <<held, connfd>>
          /\ pc[w] \in Ending /\ pc'[w] \in Ending
      BY <1>10 DEF Reply, AuditLog, local, net, PathInv, ConnTypes
    <2>2. Lock(w)'
      BY <2>1 DEF LockInv, Lock, Method
    <2> QED BY <1>10, <2>1, <2>2, LockKept DEF Serve
  <1>11. ASSUME NEW w \in Workers, Get(w)
        PROVE  LockInv'
    <2>1. CASE GetYield(w) \/ GetWait(w) \/ GetOpen(w)
      <3>1. /\ UNCHANGED <<held, connfd>>
            /\ pc[w] \in {"get_yield", "get_test"}
            /\ pc'[w] \in {"get_signal", "get_yield", "get_flock", "not_opened"}
        BY <2>1 DEF GetYield, GetWait, GetOpen, local, net, PathInv, ConnTypes
      <3>2. Lock(w)'
        BY <3>1 DEF LockInv, Lock
      <3> QED BY <1>11, <3>1, <3>2, LockKept DEF Serve
    <2>2. CASE GetFlock(w)
      <3>1. /\ Flock(w, "shared") /\ connfd' = connfd
            /\ pc[w] = "get_flock" /\ pc'[w] = "get_opened"
        BY <2>2 DEF GetFlock, net, PathInv, ConnTypes
      <3>2. Method(w)' = "GET" /\ held'[w] = "shared"
        BY <3>1 DEF Flock, FileTypes, PathInv, Path, Method, GetLabels
      <3>3. Lock(w)'
        BY <3>1, <3>2 DEF Lock
      <3> QED BY <1>11, <3>1, <3>3, FlockAlone, LockStep DEF Serve
    <2>3. CASE GetStat(w) \/ GetSend(w) \/ GetSent(w)
      <3>1. /\ UNCHANGED <<held, connfd>>
            /\ pc[w] \in {"get_stat", "get_send"}
            /\ pc'[w] \in {"get_send", "reply", "audit"}
        BY <2>3 DEF GetStat, GetSend, GetSent, local, net, PathInv, ConnTypes
      <3>2. Lock(w)'
        BY <3>1 DEF LockInv, Lock, Method
      <3> QED BY <1>11, <3>1, <3>2, LockKept DEF Serve
    <2> QED BY <1>11, <2>1, <2>2, <2>3 DEF Get
  <1>12. ASSUME NEW w \in Workers, Put(w)
        PROVE  LockInv'
    <2>1. CASE PutAccess(w) \/ PutCreate(w) \/ PutOpen(w)
      <3>1. /\ UNCHANGED <<held, connfd>>
            /\ pc[w] \in {"put_access", "put_create", "put_open"}
            /\ pc'[w] \in {"put_create", "put_open", "put_flock", "not_opened"}
        BY <2>1 DEF PutAccess, PutCreate, PutOpen, local, net, PathInv, ConnTypes
      <3>2. Lock(w)'
        BY <3>1 DEF LockInv, Lock
      <3> QED BY <1>12, <3>1, <3>2, LockKept DEF Serve
    <2>2. CASE PutFlock(w)
      <3>1. /\ Flock(w, "exclusive") /\ connfd' = connfd
            /\ pc[w] = "put_flock" /\ pc'[w] = "put_opened"
        BY <2>2 DEF PutFlock, net, PathInv, ConnTypes
      <3>2. Method(w)' = "PUT" /\ held'[w] = "exclusive"
        BY <3>1 DEF Flock, FileTypes, PathInv, Path, Method, PutLabels
      <3>3. Lock(w)'
        BY <3>1, <3>2 DEF Lock
      <3> QED BY <1>12, <3>1, <3>3, FlockAlone, LockStep DEF Serve
    <2>3. CASE PutRecv(w) \/ PutReceived(w) \/ PutWriteFails(w)
      <3>1. /\ UNCHANGED <<held, connfd>>
            /\ pc[w] = "put_recv" /\ pc'[w] \in {"put_recv", "reply"}
        BY <2>3 DEF PutRecv, PutReceived, PutWriteFails, local, net, PathInv, ConnTypes
      <3>2. Lock(w)'
        BY <3>1 DEF LockInv, Lock, Method
      <3> QED BY <1>12, <3>1, <3>2, LockKept DEF Serve
    <2> QED BY <1>12, <2>1, <2>2, <2>3 DEF Put
  <1> QED BY <1>1, <1>2, <1>4, <1>6, <1>7, <1>8, <1>9, <1>10, <1>11, <1>12 DEF Next, Serve

(* Only the file of a worker that has it for itself changes. *)
LEMMA FilesStay ==
  ASSUME PathInv, FileTypes, LockInv, LockInv',
         NEW w \in Workers, TakeTurn(w) \/ Serve(w),
         NEW v \in Workers \ {w}, held[v] # "none"
  PROVE  data'[Uri(v)] = data[Uri(v)]
  <1>1. CASE UNCHANGED data
    BY <1>1
  <1>2. CASE PutFlock(w) \/ PutRecv(w)
    <2>1. /\ connfd' = connfd /\ held'[w] = "exclusive"
          /\ \E s : data' = [data EXCEPT ![Uri(w)] = s]
      BY <1>2 DEF PutFlock, PutRecv, Flock, Truncated, net, Goto, LockInv, Lock, Writing, FileTypes
    <2>2. Stays(v)
      BY OthersStay
    <2>3. Uri(v) # Uri(w)
      BY <2>1, <2>2 DEF LockInv, Alone, Stays, Uri
    <2> QED BY <2>1, <2>3 DEF FileTypes
  <1> QED BY <1>1, <1>2 DEF TakeTurn, Serve, Pop, Parse, SignalTurn, Reply, AuditLog, Close,
          Get, GetYield, GetWait, GetOpen, GetFlock, GetStat, GetSend, GetSent,
          Put, PutAccess, PutCreate, PutOpen, PutReceived, PutWriteFails, files

(* So the other workers' transfers stay what they are. *)
LEMMA TransferStep ==
  ASSUME PathInv, FileInv, FileTypes', LockInv',
         NEW w \in Workers, TakeTurn(w) \/ Serve(w), Transfer(w)'
  PROVE  FileInv'
  <1>1. ASSUME NEW v \in Workers \ {w}
        PROVE  Transfer(v)'
    <2>1. Stays(v)
      BY OthersStay DEF FileInv
    <2>2. Method(v)' = Method(v) /\ Uri(v)' = Uri(v)
      BY <2>1 DEF Stays, Method, Uri
    <2>3. held[v] # "none" => data'[Uri(v)] = data[Uri(v)]
      BY FilesStay DEF FileInv
    <2>4. pc[v] = "get_send" => held[v] # "none"
      BY DEF FileInv, LockInv, Lock, Reading
    <2> QED BY <2>1, <2>2, <2>3, <2>4 DEF FileInv, Transfer, Stays
  <1> QED BY <1>1 DEF FileInv

(* A reader's step: it sends its file from the beginning. *)
LEMMA GetTransfer ==
  ASSUME PathInv, FileInv, FileTypes', LockInv', NEW w \in Workers, Get(w)
  PROVE  Transfer(w)'
  <1> USE DEF Goto, Ending
  <1>1. /\ Method(w) = "GET" /\ Method(w)' = "GET" /\ Uri(w)' = Uri(w)
        /\ UNCHANGED <<connfd, data>>
    BY DEF Get, GetYield, GetWait, GetOpen, GetFlock, GetStat, GetSend, GetSent,
       GetLabels, PathInv, Path, net, files, Method, Uri
  <1>2. held'[w] # "exclusive" /\ Uri(w) \in Uris
    BY <1>1, MethodConn DEF LockInv, Lock
  <1>3. FileTypes /\ ConnTypes
    BY DEF FileInv, PathInv
  <1>4. CASE GetYield(w) \/ GetWait(w)
    <2>1. /\ UNCHANGED body /\ pc[w] \in {"get_yield", "get_test"}
          /\ pc'[w] \in {"get_signal", "get_yield"}
      BY <1>3, <1>4 DEF GetYield, GetWait, local, ConnTypes
    <2> QED BY <1>2, <2>1 DEF FileInv, Transfer
  <1>5. CASE GetOpen(w)
    <2>1. /\ UNCHANGED body /\ pc[w] = "get_test"
          /\ pc'[w] \in {"get_flock", "not_opened"}
      BY <1>3, <1>5 DEF GetOpen, ConnTypes
    <2>2. pc'[w] = "not_opened" => res'[w] # 200
      <3>1. OpenCode(Uri(w), 404, 0) # 200
        BY <1>2, <1>3, OpenCodes
      <3> QED BY <1>3, <1>5, <3>1 DEF GetOpen, FileTypes, ConnTypes
    <2> QED BY <1>2, <2>1, <2>2 DEF FileInv, Transfer
  <1>6. CASE GetFlock(w)
    <2>1. UNCHANGED body /\ pc[w] = "get_flock" /\ pc'[w] = "get_opened"
      BY <1>3, <1>6 DEF GetFlock, ConnTypes
    <2> QED BY <1>2, <2>1 DEF FileInv, Transfer
  <1>7. CASE GetStat(w)
    <2>1. /\ UNCHANGED body /\ pc[w] = "get_stat" /\ filesize'[w] = Len(data[Uri(w)])
          /\ \/ pc'[w] = "reply" /\ res'[w] = 403
             \/ pc'[w] = "get_send"
      BY <1>3, <1>7 DEF GetStat, ConnTypes, FileTypes
    <2>2. body'[w] = << >>
      BY <2>1 DEF FileInv, Transfer
    <2>3. data[Uri(w)] \in Seq(Chunk)
      BY <1>2, <1>3 DEF FileTypes
    <2>4. Prefix(<< >>, data[Uri(w)])
      BY <2>3 DEF Prefix
    <2> QED BY <1>1, <1>2, <2>1, <2>2, <2>4 DEF Transfer
  <1>8. CASE GetSend(w)
    <2> DEFINE d == data[Uri(w)]
               b == body[w]
    <2>1. /\ pc[w] = "get_send" /\ pc'[w] = "get_send"
          /\ filesize' = filesize
          /\ body'[w] = Append(b, d[Len(b) + 1])
          /\ Len(b) < Len(d)
      BY <1>3, <1>8 DEF GetSend, ConnTypes, FileTypes
    <2>2. filesize[w] = Len(d) /\ Prefix(b, d) /\ b \in Seq(Chunk) /\ d \in Seq(Chunk)
      BY <1>2, <1>3, <2>1 DEF FileInv, Transfer, FileTypes
    <2> HIDE DEF b, d
    <2>3. Prefix(Append(b, d[Len(b) + 1]), d)
      BY <2>1, <2>2 DEF Prefix
    <2> QED BY <1>1, <1>2, <2>1, <2>2, <2>3 DEF Transfer, d
  <1>9. CASE GetSent(w)
    <2> DEFINE d == data[Uri(w)]
               b == body[w]
    <2>1. /\ pc[w] = "get_send" /\ pc'[w] = "audit" /\ UNCHANGED local
          /\ Len(b) >= filesize[w] \/ Len(b) >= Len(d)
      BY <1>3, <1>9 DEF GetSent, ConnTypes
    <2>2. /\ filesize[w] = Len(d) /\ Prefix(b, d) /\ b \in Seq(Chunk) /\ d \in Seq(Chunk)
          /\ held[w] = "shared"
      BY <1>2, <1>3, <2>1 DEF FileInv, Transfer, FileTypes, LockInv, Lock, Reading
    <2> HIDE DEF b, d
    <2>3. Len(b) = Len(d) /\ \A i \in 1 .. Len(b) : b[i] = d[i]
      BY <2>1, <2>2 DEF Prefix
    <2>4. b = d
      BY <2>2, <2>3, SeqEqual
    <2> QED BY <1>1, <1>2, <2>1, <2>2, <2>4 DEF Transfer, local, b, d
  <1> QED BY <1>4, <1>5, <1>6, <1>7, <1>8, <1>9 DEF Get

(* A writer's step: its file is its body. *)
LEMMA PutTransfer ==
  ASSUME PathInv, FileInv, FileTypes', LockInv', NEW w \in Workers, Put(w)
  PROVE  Transfer(w)'
  <1> USE DEF Goto, Ending
  <1>1. /\ Method(w) = "PUT" /\ Method(w)' = "PUT" /\ Uri(w)' = Uri(w)
        /\ UNCHANGED connfd
    BY DEF Put, PutAccess, PutCreate, PutOpen, PutFlock, PutRecv, PutReceived, PutWriteFails,
       PutLabels, PathInv, Path, net, Method, Uri
  <1>2. connfd[w] \in Conns /\ Uri(w) \in Uris
    BY <1>1, MethodConn
  <1>3. FileTypes /\ ConnTypes
    BY DEF FileInv, PathInv
  <1>4. CASE PutAccess(w) \/ PutCreate(w) \/ PutOpen(w)
    <2>1. /\ UNCHANGED <<body, held>> /\ pc[w] \in {"put_access", "put_create", "put_open"}
          /\ pc'[w] \in {"put_create", "put_open", "put_flock", "not_opened"}
      BY <1>3, <1>4 DEF PutAccess, PutCreate, PutOpen, ConnTypes, local
    <2>2. held[w] # "exclusive" /\ body[w] = << >>
      BY <2>1 DEF FileInv, LockInv, Lock, Transfer, Writing
    <2> QED BY <1>1, <2>1, <2>2 DEF Transfer
  <1>5. CASE PutFlock(w)
    <2>1. /\ UNCHANGED body /\ pc[w] = "put_flock" /\ pc'[w] = "put_opened"
          /\ data'[Uri(w)] = << >>
      BY <1>2, <1>3, <1>5 DEF PutFlock, Truncated, ConnTypes, FileTypes
    <2>2. body[w] = << >>
      BY <2>1 DEF FileInv, Transfer
    <2> QED BY <1>1, <2>1, <2>2 DEF Transfer
  <1>6. CASE PutRecv(w)
    <2>1. /\ pc[w] = "put_recv" /\ pc'[w] = "put_recv"
          /\ data'[Uri(w)] = WriteAt(data[Uri(w)], Len(body[w]) + 1, connfd[w])
          /\ body'[w] = Append(body[w], connfd[w])
      BY <1>2, <1>3, <1>6 DEF PutRecv, ConnTypes, FileTypes
    <2>2. body[w] = data[Uri(w)] /\ body[w] \in Seq(Chunk) /\ connfd[w] \in Chunk
      BY <1>2, <1>3, <2>1 DEF FileInv, LockInv, Lock, Writing, Transfer, FileTypes, Chunk
    <2>3. WriteAt(body[w], Len(body[w]) + 1, connfd[w]) = Append(body[w], connfd[w])
      BY <2>2, WriteAtEnd
    <2> QED BY <1>1, <2>1, <2>2, <2>3 DEF Transfer
  <1>7. CASE PutReceived(w) \/ PutWriteFails(w)
    <2>1. /\ UNCHANGED <<data, body, held>> /\ pc[w] = "put_recv" /\ pc'[w] = "reply"
      BY <1>3, <1>7 DEF PutReceived, PutWriteFails, files, ConnTypes
    <2> QED BY <1>1, <2>1 DEF FileInv, Transfer
  <1> QED BY <1>4, <1>5, <1>6, <1>7 DEF Put

(* Every step keeps what the transfers are. *)
LEMMA NextFileInv == PathInv /\ FileInv /\ [Next]_vars => FileInv'
  <1> SUFFICES ASSUME PathInv, FileInv, [Next]_vars PROVE FileInv'
    OBVIOUS
  <1> USE DEF Goto, Ending
  <1>1. FileTypes' /\ LockInv' /\ PathInv'
    BY NextFileTypes, NextLockInv, NextPathInv DEF FileInv
  <1>2. FileTypes /\ ConnTypes
    BY DEF FileInv, PathInv
  <1>3. CASE UNCHANGED vars \/ Quiet
    BY <1>1, <1>3 DEF Quiet, vars, local, net, files, FileInv, Transfer, Method, Uri
  <1>4. CASE Main
    BY <1>1, <1>2, <1>4, MainFrame DEF local, files, FileInv, Transfer, Method, Uri
  <1>5. ASSUME NEW w \in Workers, TakeTurn(w)
        PROVE  FileInv'
    <2>1. /\ UNCHANGED <<held, body, data, connfd>>
          /\ pc[w] \in {"get_lock", "get_relock", "put_lock"}
          /\ pc'[w] \in {pc[w], "get_yield", "get_test", "put_access"}
      BY <1>2, <1>5, TurnLabels DEF TakeTurn, local, files, net, ConnTypes
    <2>2. Transfer(w)'
      BY <2>1 DEF FileInv, Transfer, Uri
    <2> QED BY <1>1, <1>5, <2>2, TransferStep
  <1>6. ASSUME NEW w \in Workers, Pop(w) \/ Close(w)
        PROVE  FileInv'
    <2>1. ASSUME Pop(w) PROVE Transfer(w)'
      <3>1. /\ UNCHANGED <<held, body>> /\ pc[w] = "idle" /\ pc'[w] = "parse"
        BY <1>2, <2>1 DEF Pop, local, ConnTypes
      <3>2. held'[w] # "exclusive" /\ body'[w] = << >>
        BY <3>1 DEF FileInv, LockInv, Lock, Transfer, Writing
      <3> QED BY <3>1, <3>2 DEF Transfer
    <2>2. ASSUME Close(w) PROVE Transfer(w)'
      BY <1>2, <2>2 DEF Close, ConnTypes, FileTypes, Transfer
    <2>3. Transfer(w)'
      BY <1>6, <2>1, <2>2
    <2> QED BY <1>1, <1>6, <2>3, TransferStep DEF Serve
  <1>7. ASSUME NEW w \in Workers, Parse(w)
        PROVE  FileInv'
    <2>1. /\ UNCHANGED <<held, body, data, connfd>> /\ pc[w] = "parse"
          /\ res'[w] = Refusal[Method(w)]
          /\ pc'[w] \in {"get_lock", "put_lock", "reply"}
      BY <1>2, <1>7, HandlerLabels DEF Parse, files, net, ConnTypes, FileTypes
    <2>2. Refusal[Method(w)] # 200
      BY RefusalCodes
    <2>3. Transfer(w)'
      BY <2>1, <2>2 DEF FileInv, Transfer, Uri
    <2> QED BY <1>1, <1>7, <2>3, TransferStep DEF Serve
  <1>8. ASSUME NEW w \in Workers, SignalTurn(w)
        PROVE  FileInv'
    <2>1. /\ UNCHANGED <<held, body, res, data, connfd>>
          /\ \/ pc[w] = "get_signal" /\ pc'[w] = "get_relock"
             \/ pc[w] = "get_opened" /\ pc'[w] = "get_stat"
             \/ pc[w] = "put_opened" /\ pc'[w] = "put_recv"
             \/ pc[w] = "not_opened" /\ pc'[w] = "reply"
      BY <1>2, <1>8 DEF SignalTurn, AfterSignal, local, files, net, ConnTypes
    <2>2. Transfer(w)'
      BY <2>1 DEF FileInv, Transfer, Method, Uri
    <2> QED BY <1>1, <1>8, <2>2, TransferStep DEF Serve
  <1>9. ASSUME NEW w \in Workers, Reply(w) \/ AuditLog(w)
        PROVE  FileInv'
    <2>1. /\ UNCHANGED <<held, body, res, data, connfd>>
          /\ \/ pc[w] = "reply" /\ pc'[w] \in {"audit", "close"}
             \/ pc[w] = "audit" /\ pc'[w] = "close"
      BY <1>2, <1>9 DEF Reply, AuditLog, local, files, net, ConnTypes
    <2>2. Transfer(w)'
      BY <2>1 DEF FileInv, Transfer, Method, Uri
    <2> QED BY <1>1, <1>9, <2>2, TransferStep DEF Serve
  <1>10. ASSUME NEW w \in Workers, Get(w) \/ Put(w)
         PROVE  FileInv'
    BY <1>1, <1>10, GetTransfer, PutTransfer, TransferStep DEF Serve
  <1> QED BY <1>3, <1>4, <1>5, <1>6, <1>7, <1>8, <1>9, <1>10 DEF Next, Serve

-------------------------------------------------------------------------------
(* What the beginning of a log says stays when the log grows. *)
LEMMA LogGrows ==
  ASSUME NEW log \in Seq(Entry), NEW e \in Entry, NEW u, NEW n \in 0 .. Len(log),
         HasLast(log, u, n)
  PROVE  /\ HasLast(Append(log, e), u, n)
         /\ ContentIn(Append(log, e), u, n) = ContentIn(log, u, n)
  <1> DEFINE ext == Append(log, e)
  <1>1. \A i \in 1 .. n : ext[i] = log[i]
    OBVIOUS
  <1>2. WritesIn(ext, u, n) = WritesIn(log, u, n)
    BY <1>1 DEF WritesIn
  <1> HIDE DEF ext
  <1>3. LastIn(ext, u, n) = LastIn(log, u, n)
    BY <1>2 DEF LastIn
  <1>4. WritesIn(log, u, n) # {} => LastIn(log, u, n) \in 1 .. n
    BY DEF HasLast, LastIn, WritesIn
  <1>5. ContentIn(ext, u, n) = ContentIn(log, u, n)
    BY <1>1, <1>2, <1>3, <1>4 DEF ContentIn
  <1> QED BY <1>2, <1>5 DEF HasLast, ext

(* A write that is logged is what the file holds from then on. *)
LEMMA LogWrite ==
  ASSUME NEW log \in Seq(Entry), NEW e \in Entry, e.wrote
  PROVE  /\ HasLast(Append(log, e), e.uri, Len(log) + 1)
         /\ ContentIn(Append(log, e), e.uri, Len(log) + 1) = e.body
  <1> DEFINE ext == Append(log, e)
             n == Len(log) + 1
  <1>1. ext[n] = e /\ n \in Nat
    OBVIOUS
  <1> HIDE DEF ext, n
  <1>2. n \in WritesIn(ext, e.uri, n) /\ \A j \in WritesIn(ext, e.uri, n) : j <= n
    BY <1>1 DEF WritesIn, n
  <1>3. \A i \in WritesIn(ext, e.uri, n) :
          (\A j \in WritesIn(ext, e.uri, n) : j <= i) => i = n
    BY <1>1, <1>2 DEF WritesIn
  <1>4. LastIn(ext, e.uri, n) = n
    BY <1>2, <1>3 DEF LastIn
  <1> QED BY <1>1, <1>2, <1>4 DEF HasLast, ContentIn, ext, n

(* Another line says nothing of the file. *)
LEMMA LogOther ==
  ASSUME NEW log \in Seq(Entry), NEW e \in Entry, NEW u, ~(e.uri = u /\ e.wrote),
         HasLast(log, u, Len(log))
  PROVE  /\ HasLast(Append(log, e), u, Len(log) + 1)
         /\ ContentIn(Append(log, e), u, Len(log) + 1) = ContentIn(log, u, Len(log))
  <1> DEFINE ext == Append(log, e)
             n == Len(log)
  <1>1. n \in Nat /\ ext[n + 1] = e /\ \A i \in 1 .. n : ext[i] = log[i]
    OBVIOUS
  <1> HIDE DEF ext
  <1>2. WritesIn(ext, u, n + 1) = WritesIn(ext, u, n)
    BY <1>1 DEF WritesIn
  <1>3. /\ HasLast(ext, u, n + 1) <=> HasLast(ext, u, n)
        /\ ContentIn(ext, u, n + 1) = ContentIn(ext, u, n)
    <2>1. LastIn(ext, u, n + 1) = LastIn(ext, u, n)
      BY <1>2 DEF LastIn
    <2> QED BY <1>2, <2>1 DEF HasLast, ContentIn
  <1>4. HasLast(ext, u, n) /\ ContentIn(ext, u, n) = ContentIn(log, u, n)
    BY <1>1, LogGrows DEF ext
  <1> QED BY <1>3, <1>4 DEF ext

(* At the start the log is empty and the files are as they were. *)
LEMMA InitReplayInv == Init => ReplayInv
  <1> SUFFICES ASSUME Init PROVE ReplayInv
    OBVIOUS
  <1>1. audit = << >> /\ Len(audit) = 0 /\ data = [u \in Uris |-> Content0(u)]
    BY DEF Init
  <1>2. \A u \in Uris : WritesIn(audit, u, 0) = {}
    BY DEF WritesIn
  <1> QED BY <1>1, <1>2 DEF ReplayInv, HasLast, ContentIn

(* A step that logs nothing: a file may change if its writer is not done.  *)
LEMMA ReplayStep ==
  ASSUME ReplayInv, FileTypes, UNCHANGED audit,
         \A u \in Uris : Settled(u)' => Settled(u) /\ data'[u] = data[u]
  PROVE  ReplayInv'
  BY DEF ReplayInv

(* A worker that keeps its file locked the same way, and is not done.      *)
LEMMA SettledStep ==
  ASSUME PathInv, FileTypes, LockInv, NEW w \in Workers, TakeTurn(w) \/ Serve(w),
         NEW u \in Uris, Settled(u)',
         held[w] = "exclusive" /\ Uri(w) = u => pc[w] = "close"
  PROVE  Settled(u)
  <1>1. \A v \in Workers \ {w} : Stays(v)
    BY OthersStay
  <1> QED BY <1>1 DEF Settled, Stays, Uri

(* A worker whose file becomes settled is done with it, and has logged it. *)
LEMMA SettledBefore ==
  ASSUME PathInv, FileInv, NEW w \in Workers, TakeTurn(w) \/ Serve(w), ~AuditLog(w),
         NEW u \in Uris, Settled(u)'
  PROVE  held[w] = "exclusive" /\ Uri(w) = u => pc[w] = "close"
  <1> SUFFICES ASSUME held[w] = "exclusive", Uri(w) = u, pc[w] # "close"
               PROVE  FALSE
    OBVIOUS
  <1> USE DEF Goto
  <1>1. pc[w] \in {"put_opened", "put_recv", "reply", "audit"} /\ Method(w) = "PUT"
    BY DEF FileInv, LockInv, Lock, Writing, Ending
  <1>2. FileTypes /\ ConnTypes
    BY DEF FileInv, PathInv
  <1>3. UNCHANGED <<held, connfd>> /\ pc'[w] # "close"
    <2>1. CASE TakeTurn(w)
      BY <1>1, <2>1, TurnLabels DEF TakeTurn
    <2>2. CASE SignalTurn(w)
      BY <1>1, <1>2, <2>2, SignalLabels DEF SignalTurn, local, net, ConnTypes
    <2>3. CASE Pop(w) \/ Parse(w) \/ Close(w)
      BY <1>1, <2>3 DEF Pop, Parse, Close
    <2>4. CASE Reply(w)
      BY <1>1, <1>2, <2>4 DEF Reply, IsLogged, local, net, ConnTypes
    <2>5. CASE Get(w)
      BY <1>1, <2>5 DEF Get, GetYield, GetWait, GetOpen, GetFlock, GetStat, GetSend, GetSent
    <2>6. CASE Put(w)
      BY <1>1, <1>2, <2>6 DEF Put, PutAccess, PutCreate, PutOpen, PutFlock, PutRecv, PutReceived,
              PutWriteFails, net, ConnTypes
    <2> QED BY <2>1, <2>2, <2>3, <2>4, <2>5, <2>6 DEF Serve
  <1> QED BY <1>3 DEF Settled, Uri

(* Only the file of an unfinished writer changes. *)
LEMMA SettledData ==
  ASSUME PathInv, FileInv, LockInv', NEW w \in Workers, TakeTurn(w) \/ Serve(w),
         NEW u \in Uris, Settled(u)'
  PROVE  data'[u] = data[u]
  <1>1. CASE UNCHANGED data
    BY <1>1
  <1>2. CASE PutFlock(w) \/ PutRecv(w)
    <2>1. FileTypes /\ ConnTypes
      BY DEF FileInv, PathInv
    <2>2. /\ held'[w] = "exclusive" /\ connfd' = connfd
          /\ pc'[w] \in {"put_opened", "put_recv"}
          /\ \E s : data' = [data EXCEPT ![Uri(w)] = s]
      BY <1>2, <2>1 DEF PutFlock, PutRecv, Flock, Truncated, net, Goto, FileInv, LockInv, Lock,
              Writing, FileTypes, ConnTypes
    <2>3. Uri(w) # u
      BY <2>2 DEF Settled, Uri
    <2> QED BY <2>1, <2>2, <2>3 DEF FileTypes
  <1> QED BY <1>1, <1>2 DEF TakeTurn, Serve, Pop, Parse, SignalTurn, Reply, AuditLog, Close,
          Get, GetYield, GetWait, GetOpen, GetFlock, GetStat, GetSend, GetSent,
          Put, PutAccess, PutCreate, PutOpen, PutReceived, PutWriteFails, files

(* The log changes in one place only. *)
LEMMA LogStays ==
  ASSUME NEW w \in Workers, TakeTurn(w) \/ Serve(w), ~AuditLog(w)
  PROVE  UNCHANGED audit
  <1>1. CASE TakeTurn(w) \/ Pop(w) \/ Parse(w) \/ SignalTurn(w) \/ Reply(w) \/ Close(w)
    BY <1>1 DEF TakeTurn, Pop, Parse, SignalTurn, Reply, Close, out
  <1>2. CASE Get(w)
    BY <1>2 DEF Get, GetYield, GetWait, GetOpen, GetFlock, GetStat, GetSend, GetSent, out
  <1>3. CASE Put(w)
    BY <1>3 DEF Put, PutAccess, PutCreate, PutOpen, PutFlock, PutRecv, PutReceived, PutWriteFails, out
  <1> QED BY <1>1, <1>2, <1>3 DEF Serve

(* The line of a request in the log agrees with the lines before it.       *)
LEMMA AuditReplayInv ==
  ASSUME PathInv, FileInv, ReplayInv, NEW w \in Workers, AuditLog(w)
  PROVE  ReplayInv'
  <1> DEFINE e == [oper |-> Method(w), uri |-> Uri(w), code |-> res[w], conn |-> connfd[w],
                   body |-> body[w], wrote |-> held[w] = "exclusive"]
             n == Len(audit)
  <1>1. FileTypes /\ ConnTypes
    BY DEF FileInv, PathInv
  <1>2. /\ audit' = Append(audit, e)
        /\ UNCHANGED <<connfd, data, held, body>>
        /\ pc[w] = "audit" /\ pc' = [pc EXCEPT ![w] = "close"]
    BY DEF AuditLog, Goto, net, files, local
  <1>3. Uri(w) \in Uris /\ e \in Entry
    <2>1. Method(w) # "BAD"
      BY <1>2 DEF PathInv, Path
    <2> QED BY <1>1, <2>1, MethodConn, MethodType DEF Entry, FileTypes
  <1>4. /\ e.oper = Method(w) /\ e.uri = Uri(w) /\ e.code = res[w] /\ e.body = body[w]
        /\ e.wrote <=> held[w] = "exclusive"
    OBVIOUS
  <1> HIDE DEF e
  <1>5. /\ audit \in Seq(Entry) /\ n \in Nat /\ Len(audit') = n + 1
        /\ \A i \in 1 .. n : audit'[i] = audit[i]
        /\ audit'[n + 1] = e
    BY <1>1, <1>2, <1>3 DEF FileTypes
  <1> HIDE DEF n
  <1>6. \A u \in Uris : \A m \in 0 .. n :
          HasLast(audit', u, m) /\ ContentIn(audit', u, m) = ContentIn(audit, u, m)
    BY <1>2, <1>3, <1>5, LogGrows DEF ReplayInv, n
  <1>7. \A u \in Uris : ~(e.uri = u /\ e.wrote)
          => /\ HasLast(audit', u, n + 1)
             /\ ContentIn(audit', u, n + 1) = ContentIn(audit, u, n)
    <2>1. \A u \in Uris : HasLast(audit, u, n)
      BY <1>5 DEF ReplayInv, n
    <2> QED BY <1>2, <1>3, <1>5, <2>1, LogOther DEF n
  <1>8. e.wrote => /\ HasLast(audit', Uri(w), n + 1)
                   /\ ContentIn(audit', Uri(w), n + 1) = body[w]
    BY <1>2, <1>3, <1>4, <1>5, LogWrite DEF n
  <1>9. \A u \in Uris : \A m \in 0 .. n + 1 : HasLast(audit', u, m)
    BY <1>4, <1>5, <1>6, <1>7, <1>8
  <1>10. \A i \in 1 .. n : Read(audit', i)
    <2> SUFFICES ASSUME NEW i \in 1 .. n, Read(audit, i) PROVE Read(audit', i)
      BY DEF ReplayInv, n
    <2>1. audit[i] \in Entry
      BY <1>5 DEF n
    <2>2. audit[i].uri \in Uris
      BY <2>1 DEF Entry
    <2>3. i - 1 \in 0 .. n
      BY <1>5
    <2>4. ContentIn(audit', audit[i].uri, i - 1) = ContentIn(audit, audit[i].uri, i - 1)
      BY <1>6, <2>2, <2>3
    <2>5. audit'[i] = audit[i]
      BY <1>5
    <2> QED BY <2>4, <2>5 DEF Read
  <1>11. Read(audit', n + 1)
    <2> SUFFICES ASSUME Method(w) = "GET", res[w] = 200
                 PROVE  body[w] = ContentIn(audit', Uri(w), n)
      <3>1. (n + 1) - 1 = n /\ audit'[n + 1] = e
        BY <1>5
      <3> QED BY <1>4, <3>1 DEF Read
    <2>1. held[w] = "shared" /\ body[w] = data[Uri(w)]
      BY <1>2 DEF FileInv, Transfer
    <2>2. Settled(Uri(w))
      BY <2>1 DEF FileInv, LockInv, Alone, Settled
    <2>3. data[Uri(w)] = ContentIn(audit, Uri(w), n)
      BY <1>3, <2>2 DEF ReplayInv, n
    <2> QED BY <1>3, <1>5, <1>6, <2>1, <2>3
  <1>12. ASSUME NEW u \in Uris, Settled(u)'
         PROVE  data'[u] = ContentIn(audit', u, n + 1)
    <2>1. CASE e.uri = u /\ e.wrote
      <3>1. held[w] = "exclusive" /\ Uri(w) = u
        BY <1>4, <2>1
      <3>2. body[w] = data[u]
        BY <3>1 DEF FileInv, Transfer
      <3> QED BY <1>2, <1>8, <2>1, <3>1, <3>2
    <2>2. CASE ~(e.uri = u /\ e.wrote)
      <3>1. Settled(u)
        BY <1>1, <1>2, <1>4, <1>12, <2>2 DEF Settled, Uri, ConnTypes
      <3> QED BY <1>2, <1>7, <2>2, <3>1 DEF ReplayInv, n
    <2> QED BY <2>1, <2>2
  <1> QED BY <1>5, <1>9, <1>10, <1>11, <1>12 DEF ReplayInv

(* Every step keeps the log's account of the files. *)
LEMMA NextReplayInv ==
  PathInv /\ FileInv /\ ReplayInv /\ LockInv' /\ [Next]_vars => ReplayInv'
  <1> SUFFICES ASSUME PathInv, FileInv, ReplayInv, LockInv', [Next]_vars
               PROVE  ReplayInv'
    OBVIOUS
  <1>1. CASE UNCHANGED vars \/ Quiet \/ Main
    <2>1. UNCHANGED <<connfd, pc, data, held, audit>>
      BY <1>1, MainFrame DEF PathInv, Quiet, vars, net, files, local, out
    <2> QED BY <2>1 DEF ReplayInv, Settled, Uri
  <1>2. ASSUME NEW w \in Workers, AuditLog(w)
        PROVE  ReplayInv'
    BY <1>2, AuditReplayInv
  <1>3. ASSUME NEW w \in Workers, TakeTurn(w) \/ Serve(w), ~AuditLog(w)
        PROVE  ReplayInv'
    <2>1. FileTypes /\ LockInv
      BY DEF FileInv
    <2>2. \A u \in Uris : Settled(u)' => Settled(u) /\ data'[u] = data[u]
      BY <1>3, <2>1, SettledBefore, SettledData, SettledStep
    <2>3. UNCHANGED audit
      BY <1>3, LogStays
    <2> QED BY <2>1, <2>2, <2>3, ReplayStep
  <1> QED BY <1>1, <1>2, <1>3 DEF Next

(***************************************************************************)
(* The audit log explains the answers, whatever the number of workers and  *)
(* the requests: each successful GET in the log sent the whole of what the *)
(* last PUT of that file before it in the log stored, and a file that      *)
(* nobody writes holds what the log says (httpserver.c lines 147-157,      *)
(* 221-277 and 318-350).  It rests on the flock that is held from before   *)
(* the truncation, or the reading, until the line is in the log.           *)
(***************************************************************************)
THEOREM LogExplains == Spec => []AuditReplay
  <1> DEFINE Inv == PathInv /\ FileInv /\ ReplayInv
  <1>1. Init => Inv
    BY InitPathInv, InitFileInv, InitReplayInv
  <1>2. Inv /\ [Next]_vars => Inv'
    <2>1. PathInv /\ FileInv /\ [Next]_vars => PathInv' /\ FileInv'
      BY NextPathInv, NextFileInv
    <2>2. FileInv' => LockInv'
      BY DEF FileInv
    <2> QED BY <2>1, <2>2, NextReplayInv
  <1>3. Inv => AuditReplay
    <2> SUFFICES ASSUME Inv PROVE AuditReplay
      OBVIOUS
    <2>1. \A u, n : Content(u, n) = ContentIn(audit, u, n)
      BY DEF Content, Writes, ContentIn, LastIn, WritesIn
    <2>2. \A u \in Uris : (\A w \in Workers : held[w] = "exclusive" => Uri(w) # u) => Settled(u)
      BY DEF Settled
    <2> QED BY <2>1, <2>2 DEF AuditReplay, ReplayInv, Read
  <1> HIDE DEF Inv
  <1> QED BY <1>1, <1>2, <1>3, PTL DEF Spec
===============================================================================
