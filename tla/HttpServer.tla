------------------------------ MODULE HttpServer ------------------------------
(***************************************************************************)
(* The multi-threaded HTTP server of asgn4/httpserver.c.  main() accepts   *)
(* connections and puts them into a bounded queue; worker threads take     *)
(* them out and serve GET and PUT requests on files.  creation_lock orders *)
(* the opening of files and guards req_id; flock on the open file orders   *)
(* its readers and its writers, and is held until the audit log entry of   *)
(* the request is written.                                                 *)
(*                                                                         *)
(* A step is one operation on state that threads share: a mutex, a system  *)
(* call on a file, a message to a client, a line of the audit log.  A file *)
(* and a message body are sequences of chunks, a chunk is named after the  *)
(* connection it came from, and a connection after its descriptor.         *)
(***************************************************************************)
EXTENDS Integers, Sequences, FiniteSets

CONSTANTS
  Conns,      (* the connections that clients make                         *)
  Workers,    (* the threads created with -t                               *)
  Uris,
  Request,    (* Request[c]: what the client sends, method, uri and id     *)
              (* (atoi of Request-Id, 0 without one; "BAD" does not parse) *)
  Kind0,      (* the kinds of the files when the server starts             *)
  Chunks,     (* the chunks in the body of a PUT, and in an initial file   *)
  QueueSize,  (* 10 in the code                                            *)
  FdLimit,    (* the descriptors the process may still open                *)
  Word,       (* the number of values of type uintptr_t                    *)
  Old,        (* a chunk of an initial file                                *)
  Hole,       (* a chunk of a file that was never written                  *)
  NoConn,     (* no connection: a worker before its first one, main's hand *)
  NoWorker    (* the owner of a free mutex                                 *)

(* -1 from listener_accept, stored in a uintptr_t. *)
ErrorFd == (-1) % Word

Methods == {"GET", "PUT", "UNSUPPORTED", "BAD"}

(* A file may be readable and writable, a directory, closed to the server, *)
(* missing, or missing in a directory where no file can be created.        *)
Kinds == {"file", "dir", "denied", "absent", "uncreatable"}
Codes == {200, 201, 400, 403, 404, 500, 501}

ASSUME HttpAssumption ==
  /\ Word \in Nat /\ Conns \subseteq 3 .. Word - 2
  /\ Word > 3
  /\ Request \in [Conns -> [method : Methods, uri : Uris, id : Int]]
  /\ Kind0 \in [Uris -> Kinds]
  /\ Chunks \in Nat /\ FdLimit \in Nat /\ QueueSize \in Nat \ {0}
  /\ NoConn \notin Conns \cup {ErrorFd} /\ NoWorker \notin Workers

VARIABLES
  pending,           (* connections that wait to be accepted               *)
  hand,              (* main's connfd                                      *)
  bounded_buf,       (* the queue of connections                           *)
  connfd, pc,        (* each worker's connection, and where it is          *)
  creation_lock,     (* the owner of the mutex                             *)
  creating, creation_waiting,
  req_id,
  kind, data,        (* the files: what each is and its chunks             *)
  held,              (* held[w]: the flock on w's open file                *)
  res,               (* res[w]: the status code, 0 for NULL                *)
  filesize, body,    (* the size w saw, the chunks it sent or received     *)
  fds,               (* descriptors in use                                 *)
  reply, audit       (* what each client was told; the audit log           *)

mutex == <<creation_lock, creating, creation_waiting>>
files == <<kind, data>>
local == <<held, res, filesize, body>>
net   == <<pending, hand, bounded_buf, connfd>>
out   == <<reply, audit>>
vars  == <<net, pc, mutex, req_id, files, local, fds, out>>

(* The queue of the helper library, which promises what Fifo says.         *)
Queue == INSTANCE Fifo WITH q <- bounded_buf, got <- connfd,
           Capacity <- QueueSize, Items <- Conns \cup {ErrorFd},
           Consumers <- Workers, Nothing <- NoConn

(* The chunks of file u when the server starts. *)
Content0(u) == IF Kind0[u] = "file" THEN [i \in 1 .. Chunks |-> Old] ELSE << >>

Init ==
  /\ pending = Conns /\ hand = NoConn /\ Queue!Init
  /\ pc = [w \in Workers |-> "idle"]
  /\ creation_lock = NoWorker /\ creating = FALSE /\ creation_waiting = {}
  /\ req_id = 0
  /\ kind = Kind0 /\ data = [u \in Uris |-> Content0(u)]
  /\ held = [w \in Workers |-> "none"] /\ res = [w \in Workers |-> 0]
  /\ filesize = [w \in Workers |-> 0] /\ body = [w \in Workers |-> << >>]
  /\ fds = 0
  /\ reply = [c \in Conns |-> 0] /\ audit = << >>

Goto(w, from, to) == pc[w] = from /\ pc' = [pc EXCEPT ![w] = to]

(* What worker w serves. *)
Method(w) == IF connfd[w] \in Conns THEN Request[connfd[w]].method ELSE "BAD"
Uri(w)    == Request[connfd[w]].uri
Id(w)     == Request[connfd[w]].id
Exists(u) == kind[u] \notin {"absent", "uncreatable"}     (* access(u, F_OK) *)

(***************************************************************************)
(* main: lines 119-124.  When no descriptor is left, accept fails and its  *)
(* -1 passes the test of line 121 like a descriptor.                       *)
(***************************************************************************)
Accept(c) ==
  /\ hand = NoConn /\ c \in pending /\ fds < FdLimit
  /\ hand' = c /\ pending' = pending \ {c} /\ fds' = fds + 1
  /\ UNCHANGED <<bounded_buf, connfd, pc, mutex, req_id, files, local, out>>

AcceptFails ==
  /\ hand = NoConn /\ fds >= FdLimit
  /\ hand' = ErrorFd
  /\ UNCHANGED <<pending, bounded_buf, connfd, pc, mutex, req_id, files, local, fds, out>>

Push ==
  /\ hand # NoConn
  /\ IF hand > 2 THEN Queue!Enqueue(hand) ELSE UNCHANGED <<bounded_buf, connfd>>
  /\ hand' = NoConn
  /\ UNCHANGED <<pending, pc, mutex, req_id, files, local, fds, out>>

(***************************************************************************)
(* A worker takes a connection and parses the request: worker and          *)
(* handle_connection.                                                      *)
(***************************************************************************)
Pop(w) ==
  /\ Goto(w, "idle", "parse")
  /\ Queue!Dequeue(w)
  /\ UNCHANGED <<pending, hand, mutex, req_id, files, local, fds, out>>

Handler == [GET |-> "get_lock", PUT |-> "put_lock", UNSUPPORTED |-> "reply", BAD |-> "reply"]
Refusal == [GET |-> 0, PUT |-> 0, UNSUPPORTED |-> 501, BAD |-> 400]

Parse(w) ==
  /\ Goto(w, "parse", Handler[Method(w)])
  /\ res' = [res EXCEPT ![w] = Refusal[Method(w)]]
  /\ UNCHANGED <<net, mutex, req_id, files, held, filesize, body, fds, out>>

(***************************************************************************)
(* The turn to create or open a file: lock, wait while creating, set it;   *)
(* and reset it, unlock, signal.                                           *)
(***************************************************************************)
Turn == [get_lock |-> "get_yield", get_relock |-> "get_test", put_lock |-> "put_access"]

(* Fault: nobody locks the mutex, nor tests creating. *)
TakeTurnAnyway(w) ==
  /\ pc[w] \in DOMAIN Turn
  /\ pc' = [pc EXCEPT ![w] = Turn[pc[w]]]
  /\ UNCHANGED <<net, mutex, req_id, files, local, fds, out>>

TakeTurn(w) ==
  /\ pc[w] \in DOMAIN Turn
  /\ creation_lock = NoWorker /\ w \notin creation_waiting
  /\ IF creating
     THEN /\ creation_waiting' = creation_waiting \cup {w}
          /\ UNCHANGED <<creation_lock, creating, pc>>
     ELSE /\ creation_lock' = w /\ creating' = TRUE
          /\ pc' = [pc EXCEPT ![w] = Turn[pc[w]]]
          /\ UNCHANGED creation_waiting
  /\ UNCHANGED <<net, req_id, files, local, fds, out>>

(* Fault: creating is not reset. *)
EndTurnCreating == creation_lock' = NoWorker /\ UNCHANGED <<creating, creation_waiting>>

EndTurn == creating' = FALSE /\ creation_lock' = NoWorker /\ UNCHANGED creation_waiting

AfterSignal == [get_signal |-> "get_relock", get_opened |-> "get_stat",
                put_opened |-> "put_recv", not_opened |-> "reply"]

Signal(waiting) == IF waiting = {} THEN {{}} ELSE {waiting \ {w} : w \in waiting}

SignalTurn(w) ==
  /\ pc[w] \in DOMAIN AfterSignal
  /\ pc' = [pc EXCEPT ![w] = AfterSignal[pc[w]]]
  /\ creation_waiting' \in Signal(creation_waiting)
  /\ UNCHANGED <<net, creation_lock, creating, req_id, files, local, fds, out>>

(***************************************************************************)
(* What open answers: 0 for a descriptor, else the code that the handler   *)
(* derives from errno.  A full descriptor table is noticed first.          *)
(***************************************************************************)
OpenCode(u, missing, directory) ==
  CASE fds >= FdLimit                      -> 500
    [] fds < FdLimit /\ kind[u] = "file"   -> 0
    [] fds < FdLimit /\ kind[u] = "denied" -> 403
    [] fds < FdLimit /\ kind[u] = "dir"    -> directory
    [] fds < FdLimit /\ ~Exists(u)         -> missing

(***************************************************************************)
(* handle_get.  The do-while loop of lines 211-220 gives the turn away and *)
(* takes it back at least once, and again while the file is missing and    *)
(* the request's id is above req_id.                                       *)
(***************************************************************************)
GetYield(w) ==
  /\ Goto(w, "get_yield", "get_signal")
  /\ EndTurn
  /\ UNCHANGED <<net, req_id, files, local, fds, out>>

(* Faults: no loop, and an id compared with the wrong bound. *)
MustWaitNever(w)    == FALSE
MustWaitOffByOne(w) == ~Exists(Uri(w)) /\ Id(w) > req_id + 1

MustWait(w) == ~Exists(Uri(w)) /\ Id(w) > req_id

(* Fault: the loop keeps the turn. *)
GetWaitHolding(w) ==
  /\ Goto(w, "get_test", "get_test")
  /\ MustWait(w)
  /\ UNCHANGED <<net, mutex, req_id, files, local, fds, out>>

GetWait(w) ==
  /\ Goto(w, "get_test", "get_yield")
  /\ MustWait(w)
  /\ UNCHANGED <<net, mutex, req_id, files, local, fds, out>>

GetOpen(w) ==
  LET code == OpenCode(Uri(w), 404, 0) IN
  /\ pc[w] = "get_test" /\ ~MustWait(w)
  /\ req_id' = Id(w)
  /\ \/ /\ code = 0
        /\ Goto(w, "get_test", "get_flock")
        /\ fds' = fds + 1
        /\ UNCHANGED <<mutex, res>>
     \/ /\ code # 0
        /\ Goto(w, "get_test", "not_opened")
        /\ res' = [res EXCEPT ![w] = code]
        /\ EndTurn
        /\ UNCHANGED fds
  /\ UNCHANGED <<net, files, held, filesize, body, out>>

(* flock on w's file, granted when no conflicting lock is held. *)
Sharing(w) == {v \in Workers \ {w} : held[v] # "none" /\ Uri(v) = Uri(w)}

Flock(w, mode) ==
  /\ \A v \in Sharing(w) : mode = "shared" /\ held[v] = "shared"
  /\ held' = [held EXCEPT ![w] = mode]

GetFlock(w) ==
  /\ Goto(w, "get_flock", "get_opened")
  /\ Flock(w, "shared")
  /\ EndTurn
  /\ UNCHANGED <<net, req_id, files, res, filesize, body, fds, out>>

GetStat(w) ==
  /\ Goto(w, "get_stat", IF kind[Uri(w)] = "dir" THEN "reply" ELSE "get_send")
  /\ res' = [res EXCEPT ![w] = IF kind[Uri(w)] = "dir" THEN 403 ELSE 200]
  /\ filesize' = [filesize EXCEPT ![w] = Len(data[Uri(w)])]
  /\ UNCHANGED <<net, mutex, req_id, files, held, body, fds, out>>

(* conn_send_file: one chunk after the other, up to the size seen before.  *)
GetSend(w) ==
  /\ Goto(w, "get_send", "get_send")
  /\ Len(body[w]) < filesize[w] /\ Len(body[w]) < Len(data[Uri(w)])
  /\ body' = [body EXCEPT ![w] = Append(@, data[Uri(w)][Len(@) + 1])]
  /\ UNCHANGED <<net, mutex, req_id, files, held, res, filesize, fds, out>>

GetSent(w) ==
  /\ Goto(w, "get_send", "audit")
  /\ Len(body[w]) >= filesize[w] \/ Len(body[w]) >= Len(data[Uri(w)])
  /\ reply' = [reply EXCEPT ![connfd[w]] = res[w]]
  /\ UNCHANGED <<net, mutex, req_id, files, local, fds, audit>>

(***************************************************************************)
(* handle_put.  A file that access does not find is created by an open     *)
(* whose descriptor is not kept (line 314), then opened by a second one.   *)
(* Without O_EXCL the first open also succeeds if the file is there.       *)
(***************************************************************************)
PutAccess(w) ==
  /\ Goto(w, "put_access", IF Exists(Uri(w)) THEN "put_open" ELSE "put_create")
  /\ req_id' = IF req_id < Id(w) THEN Id(w) ELSE req_id
  /\ res' = [res EXCEPT ![w] = IF Exists(Uri(w)) THEN @ ELSE 201]
  /\ UNCHANGED <<net, mutex, files, held, filesize, body, fds, out>>

PutCreate(w) ==
  LET u == Uri(w)
      opened == kind[u] \in {"absent", "file"} /\ fds < FdLimit IN
  /\ Goto(w, "put_create", "put_open")
  /\ kind' = IF opened THEN [kind EXCEPT ![u] = "file"] ELSE kind
  /\ fds' = IF opened THEN fds + 1 ELSE fds
  /\ UNCHANGED <<net, mutex, req_id, data, local, out>>

PutOpen(w) ==
  LET code == OpenCode(Uri(w), 403, 403) IN
  /\ pc[w] = "put_open"
  /\ \/ /\ code = 0
        /\ Goto(w, "put_open", "put_flock")
        /\ fds' = fds + 1
        /\ UNCHANGED <<mutex, res>>
     \/ /\ code # 0
        /\ Goto(w, "put_open", "not_opened")
        /\ res' = [res EXCEPT ![w] = code]
        /\ EndTurn
        /\ UNCHANGED fds
  /\ UNCHANGED <<net, req_id, files, held, filesize, body, out>>

(* Fault: no ftruncate. *)
Untruncated(u) == data

Truncated(u) == [data EXCEPT ![u] = << >>]

(* flock, ftruncate, and the end of the turn. *)
PutFlock(w) ==
  /\ Goto(w, "put_flock", "put_opened")
  /\ Flock(w, "exclusive")
  /\ data' = Truncated(Uri(w))
  /\ EndTurn
  /\ UNCHANGED <<net, req_id, kind, res, filesize, body, fds, out>>

(* write at w's offset, which is the number of chunks it has written. *)
WriteAt(s, n, x) ==
  [i \in 1 .. (IF Len(s) < n THEN n ELSE Len(s)) |->
     IF i = n THEN x ELSE IF i <= Len(s) THEN s[i] ELSE Hole]

(* conn_recv_file: it stops at the end of the body, or before it when the  *)
(* client is gone or too slow, which it does not report (PutReceived); or  *)
(* when a write fails (PutWriteFails).                                     *)
PutRecv(w) ==
  /\ Goto(w, "put_recv", "put_recv")
  /\ Len(body[w]) < Chunks
  /\ data' = [data EXCEPT ![Uri(w)] = WriteAt(@, Len(body[w]) + 1, connfd[w])]
  /\ body' = [body EXCEPT ![w] = Append(@, connfd[w])]
  /\ UNCHANGED <<net, mutex, req_id, kind, held, res, filesize, fds, out>>

PutReceived(w) ==
  /\ Goto(w, "put_recv", "reply")
  /\ res' = [res EXCEPT ![w] = 200]
  /\ UNCHANGED <<net, mutex, req_id, files, held, filesize, body, fds, out>>

PutWriteFails(w) ==
  /\ Goto(w, "put_recv", "reply")
  /\ Len(body[w]) < Chunks
  /\ res' = [res EXCEPT ![w] = 500]
  /\ UNCHANGED <<net, mutex, req_id, files, held, filesize, body, fds, out>>

(***************************************************************************)
(* The ends of the handlers: the answer, the line of the audit log (none   *)
(* for a request that does not parse), and the closing of the file, which  *)
(* releases the flock, and of the connection.                              *)
(***************************************************************************)
(* Fault: a request that failed is not logged. *)
LoggedAfterSuccess(w) == res[w] = 200

IsLogged(w) == Method(w) # "BAD"

Reply(w) ==
  /\ Goto(w, "reply", IF IsLogged(w) THEN "audit" ELSE "close")
  /\ reply' = [c \in Conns |-> IF c = connfd[w] THEN res[w] ELSE reply[c]]
  /\ UNCHANGED <<net, mutex, req_id, files, local, fds, audit>>

AuditLog(w) ==
  /\ Goto(w, "audit", "close")
  /\ audit' = Append(audit,
       [oper |-> Method(w), uri |-> Uri(w), code |-> res[w], conn |-> connfd[w],
        body |-> body[w], wrote |-> held[w] = "exclusive"])
  /\ UNCHANGED <<net, mutex, req_id, files, local, fds, reply>>

(* Fault: the file is only closed after a success. *)
FileFdsAfterSuccess(w) == IF res[w] = 200 THEN 1 ELSE 0

FileFds(w) == IF held[w] = "none" THEN 0 ELSE 1

Close(w) ==
  /\ Goto(w, "close", "idle")
  /\ fds' = fds - FileFds(w) - (IF connfd[w] = ErrorFd THEN 0 ELSE 1)
  /\ held' = [held EXCEPT ![w] = "none"]
  /\ res' = [res EXCEPT ![w] = 0]
  /\ filesize' = [filesize EXCEPT ![w] = 0]
  /\ body' = [body EXCEPT ![w] = << >>]
  /\ UNCHANGED <<net, mutex, req_id, files, out>>

-------------------------------------------------------------------------------
Main == (\E c \in Conns : Accept(c)) \/ AcceptFails \/ Push

Get(w) == GetYield(w) \/ GetWait(w) \/ GetOpen(w) \/ GetFlock(w) \/ GetStat(w)
            \/ GetSend(w) \/ GetSent(w)
Put(w) == PutAccess(w) \/ PutCreate(w) \/ PutOpen(w) \/ PutFlock(w) \/ PutRecv(w)
            \/ PutReceived(w) \/ PutWriteFails(w)

(* What a worker does on its own, but for taking its turn. *)
Serve(w) == Pop(w) \/ Parse(w) \/ SignalTurn(w) \/ Get(w) \/ Put(w)
              \/ Reply(w) \/ AuditLog(w) \/ Close(w)

(* Every client is served: main blocks in accept, the workers in pop. *)
Quiet ==
  /\ pending = {} /\ hand = NoConn /\ bounded_buf = << >>
  /\ \A w \in Workers : pc[w] = "idle"
  /\ fds < FdLimit
  /\ UNCHANGED vars

Next == Main \/ (\E w \in Workers : TakeTurn(w) \/ Serve(w)) \/ Quiet

Spec == Init /\ [][Next]_vars

(***************************************************************************)
(* Threads that can run do; a mutex that is free again and again is got    *)
(* some time (strong fairness).  A flock needs no more than weak fairness: *)
(* the thread that waits for it has the turn, so nobody overtakes it.      *)
(***************************************************************************)
FairSpec == /\ Spec /\ WF_vars(Main)
            /\ \A w \in Workers : WF_vars(Serve(w)) /\ SF_vars(TakeTurn(w))
-------------------------------------------------------------------------------
Labels == {"idle", "parse", "get_lock", "get_yield", "get_signal", "get_relock",
           "get_test", "get_flock", "get_opened", "get_stat", "get_send",
           "put_lock", "put_access", "put_create", "put_open", "put_flock",
           "put_opened", "put_recv", "not_opened", "reply", "audit", "close"}

Chunk == Conns \cup {Old, Hole}

TypeOK ==
  /\ pending \subseteq Conns /\ hand \in Conns \cup {NoConn, ErrorFd}
  /\ bounded_buf \in Seq(Conns \cup {ErrorFd}) /\ Len(bounded_buf) <= QueueSize
  /\ connfd \in [Workers -> Conns \cup {NoConn, ErrorFd}]
  /\ pc \in [Workers -> Labels]
  /\ creation_lock \in Workers \cup {NoWorker}
  /\ creating \in BOOLEAN /\ creation_waiting \subseteq Workers
  /\ req_id \in Int
  /\ kind \in [Uris -> Kinds] /\ data \in [Uris -> Seq(Chunk)]
  /\ held \in [Workers -> {"none", "shared", "exclusive"}]
  /\ res \in [Workers -> Codes \cup {0}]
  /\ filesize \in [Workers -> Nat] /\ body \in [Workers -> Seq(Chunk)]
  /\ fds \in 0 .. FdLimit
  /\ reply \in [Conns -> Codes \cup {0}]

(***************************************************************************)
(* The turn is exclusive, and the mutex alone makes it so: creating is set *)
(* exactly while the mutex is held, so the waits of lines 189, 216 and 295 *)
(* never block and the signals never wake anybody.  It needs every path    *)
(* out of the turn to reset creating before it unlocks.                    *)
(***************************************************************************)
InTurn == {"get_yield", "get_test", "get_flock",
           "put_access", "put_create", "put_open", "put_flock"}

CreationMutex ==
  /\ creating <=> creation_lock # NoWorker
  /\ creation_waiting = {}
  /\ \A w \in Workers : pc[w] \in InTurn <=> creation_lock = w

(***************************************************************************)
(* The audit log explains the answers (lines 147-157, 273 and 345): what a *)
(* successful GET sent is what the last PUT before it in the log wrote,    *)
(* whole, or the initial file; and a file that nobody is writing holds     *)
(* what the last PUT in the log wrote.                                     *)
(***************************************************************************)
Writes(u, n) == {i \in 1 .. n : audit[i].uri = u /\ audit[i].wrote}
Content(u, n) ==
  IF Writes(u, n) = {} THEN Content0(u)
  ELSE audit[CHOOSE i \in Writes(u, n) : \A j \in Writes(u, n) : j <= i].body

AuditReplay ==
  /\ \A n \in 1 .. Len(audit) :
       audit[n].oper = "GET" /\ audit[n].code = 200
         => audit[n].body = Content(audit[n].uri, n - 1)
  /\ \A u \in Uris :
       (\A w \in Workers : held[w] = "exclusive" => Uri(w) # u)
         => data[u] = Content(u, Len(audit))

(***************************************************************************)
(* No connection is lost or served twice between accept and close (lines   *)
(* 119-124 and 135-145): at any time it is in one place, it leaves the     *)
(* server answered, and, if its request parses, with one line in the log.  *)
(***************************************************************************)
Serving(c) == {w \in Workers : pc[w] # "idle" /\ connfd[w] = c}
Logged(c)  == {n \in 1 .. Len(audit) : audit[n].conn = c}
Places(c)  == Cardinality(Serving(c))
               + Cardinality({i \in 1 .. Len(bounded_buf) : bounded_buf[i] = c})
               + (IF hand = c THEN 1 ELSE 0) + (IF c \in pending THEN 1 ELSE 0)

ServedOnce == \A c \in Conns :
  /\ Places(c) <= 1
  /\ Places(c) = 0 => reply[c] # 0
  /\ Places(c) = 0 /\ Request[c].method # "BAD" => Cardinality(Logged(c)) = 1

(***************************************************************************)
(* The descriptors in use are those of the connections inside the server,  *)
(* of the files that workers have open, and one more for every file that   *)
(* was created (line 314): each path out of a handler closes what it has.  *)
(***************************************************************************)
OpenConns == {c \in Conns : reply[c] = 0 /\ c \notin pending} \cup
               {connfd[w] : w \in {v \in Workers : pc[v] # "idle" /\ connfd[v] # ErrorFd}}
OpenFiles == {w \in Workers : held[w] # "none" \/ pc[w] \in {"get_flock", "put_flock"}}
Created   == {u \in Uris : Kind0[u] = "absent" /\ kind[u] = "file"}

FdAccounting ==
  fds = Cardinality(OpenConns) + Cardinality(OpenFiles) + Cardinality(Created)

(***************************************************************************)
(* A GET with an id above 0 answers 404 only when its turn has come (line  *)
(* 220): another request with such an id has had its turn, that is, it has *)
(* set req_id, or it was answered.                                         *)
(***************************************************************************)
BeforeTurn == {"parse", "get_lock", "get_yield", "get_signal", "get_relock", "get_test",
               "put_lock", "put_access"}

HadTurn(d) ==
  /\ Request[d].method \in {"GET", "PUT"}
  /\ reply[d] # 0 \/ \E w \in Serving(d) : pc[w] \notin BeforeTurn

NotFoundInTurn == \A c \in Conns :
  Request[c].method = "GET" /\ reply[c] = 404 /\ Request[c].id > 0
    => \E d \in Conns \ {c} : HadTurn(d) /\ Request[d].id >= Request[c].id

(***************************************************************************)
(* Lines 198-201: a GET is not answered 404 while a PUT of the same file   *)
(* with a smaller id is in the queue or being served.                      *)
(***************************************************************************)
InService == {d \in Conns : Serving(d) # {} \/ \E i \in 1 .. Len(bounded_buf) : bounded_buf[i] = d}

NotFoundRespectsIds ==
  [][\A w \in Workers : pc[w] = "get_test" /\ pc'[w] = "not_opened" /\ res'[w] = 404
       => ~ \E d \in InService : /\ Request[d].method = "PUT"
                                 /\ Request[d].uri = Uri(w) /\ Request[d].id < Id(w)]_vars

(***************************************************************************)
(* Every accepted connection is answered, whatever the workers block on:   *)
(* the mutex, a flock held while the mutex is, the loop of lines 211-220.  *)
(***************************************************************************)
EveryRequestAnswered == \A c \in Conns : c \notin pending ~> reply[c] # 0
===============================================================================
