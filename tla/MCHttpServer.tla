----------------------------- MODULE MCHttpServer -----------------------------
(***************************************************************************)
(* Instances of HttpServer for TLC: the requests of each run and the kinds *)
(* of the files when the server starts.                                    *)
(***************************************************************************)
EXTENDS HttpServer, TLC

CONSTANTS a, b, d, e   (* files *)

Rq(method, uri, id) == [method |-> method, uri |-> uri, id |-> id]

(* Writers and readers of one file, no ids, and a writer of a file that    *)
(* cannot be created.                                                      *)
StoreRequests == 3 :> Rq("PUT", a, 0) @@ 4 :> Rq("GET", a, 0) @@ 5 :> Rq("PUT", a, 0)
                   @@ 6 :> Rq("GET", a, 0) @@ 7 :> Rq("PUT", d, 0)
StoreKinds    == a :> "file" @@ d :> "uncreatable"

(* Two clients create the same file, among requests that fail, each in its *)
(* own way.                                                                *)
KindsRequests == 3 :> Rq("PUT", a, 0) @@ 4 :> Rq("PUT", a, 0) @@ 5 :> Rq("GET", b, 0)
                   @@ 6 :> Rq("GET", e, 0) @@ 7 :> Rq("BAD", a, 0)
KindsKinds    == a :> "absent" @@ b :> "dir" @@ e :> "denied"

(* A file is created and read, with ids; another one stays missing, and is *)
(* read with the same id; a request that does not count has an id too.     *)
TurnRequests == 3 :> Rq("PUT", a, 0) @@ 4 :> Rq("GET", a, 1) @@ 5 :> Rq("GET", b, 1)
                  @@ 6 :> Rq("UNSUPPORTED", b, 2)
TurnKinds    == a :> "absent" @@ b :> "absent"

(* One GET, with an id, of a missing file. *)
LoneRequests == 3 :> Rq("GET", a, 1)
LoneKinds    == a :> "absent"

(* A file is created and read, with ids, and a third request has a higher id. *)
ThirdRequests == 3 :> Rq("PUT", a, 0) @@ 4 :> Rq("GET", a, 1) @@ 5 :> Rq("PUT", b, 2)
ThirdKinds    == a :> "absent" @@ b :> "file"

(* Two clients that read. *)
AcceptRequests == 3 :> Rq("GET", a, 0) @@ 4 :> Rq("GET", a, 0)
AcceptKinds    == a :> "file"

(* Workers differ in nothing but their names. *)
WorkerSymmetry == Permutations(Workers)

-------------------------------------------------------------------------------
(***************************************************************************)
(* asgn2_helper_funcs.h:43-44: listener_accept returns "An socket for the  *)
(* new connection, or -1, if there is an error"; line 121 of httpserver.c  *)
(* tests the result before it is queued as a connection.                   *)
(***************************************************************************)
OnlySocketsServed == \A i \in 1 .. Len(bounded_buf) : bounded_buf[i] # ErrorFd
===============================================================================
