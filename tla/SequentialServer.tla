--------------------------- MODULE SequentialServer ---------------------------
(***************************************************************************)
(* The sequential HTTP server of asgn2: main accepts one client after the  *)
(* other; the request is read into a buffer and taken apart with regular   *)
(* expressions, a PUT or a GET is done, and one response is sent.  Every   *)
(* descriptor from one below the file's is closed at the end.              *)
(*                                                                         *)
(* Of a request's text the model has the lengths: where the lines of the   *)
(* head end, and which part of it the regular expressions match.  A byte   *)
(* of a body is named after its request and its position.                  *)
(***************************************************************************)
EXTENDS Integers, Sequences, FiniteSets

CONSTANTS
  Requests,    (* what a client may send                                   *)
  Kind0,       (* the kinds of the files when the server starts            *)
  Content0,    (* and their contents                                       *)
  MaxRequests, (* clients that are served                                  *)
  ReadSize,    (* what the read buffer has for the rest, and a terminator  *)
  Unset,       (* the numbers that uninitialised memory may hold           *)
  InHead, Junk,  (* a byte of the head; of memory that was never written     *)
  Phrase,      (* the body of a response that sends no file                *)
  NoRequest

Uris    == DOMAIN Kind0
Kinds   == {"file", "dir", "denied", "absent", "uncreatable"}
INIT    == -10
Codes   == {200, 201, 400, 403, 404, 501, 505}

(* A line of the head without its \r\n: its length, how many characters at *)
(* its end are in [a-zA-Z0-9.:/*-], whether PARSE_HEADER_FIELD matches it, *)
(* whether its key is Content-Length, and atoi of its value.               *)
Lines == [length : Nat, run : Nat, field : BOOLEAN, isLength : BOOLEAN, number : Nat]

(* A blank line in a body: the offset of its \r\n\r\n, and the characters  *)
(* of that class in front of it.                                           *)
BlankLines == [at : Int, run : Nat]

(* complete: the head ends with a blank line; otherwise the client leaves  *)
(* after the lines.  A GET has no body.  Bodies hold no NUL.               *)
ASSUME RequestsAssumption ==
  \A r \in Requests :
    /\ r.method \in STRING /\ r.uri \in Uris /\ r.version \in STRING
    /\ r.lines \in Seq(Lines) /\ r.complete \in BOOLEAN
    /\ r.body \in Nat /\ r.blanks \subseteq BlankLines
    /\ r.method = "GET" \/ ~r.complete => r.body = 0
    /\ \A b \in r.blanks : b.at >= -2 /\ b.at + 4 <= r.body

(* The buffer is counted in 16 bits. *)
ASSUME SizesAssumption ==
  MaxRequests \in Nat /\ ReadSize \in 0 .. 65535 /\ Unset \subseteq Int

ASSUME FilesAssumption ==
  /\ Kind0 \in [Uris -> Kinds] /\ DOMAIN Content0 = Uris
  /\ {InHead, Junk} \cap (Nat \X Nat) = {}

VARIABLES
  pc,            (* what main does next                                    *)
  fds,           (* open descriptors                                       *)
  sock, infile,  (* the client's and the file's                            *)
  req,           (* the request being served                               *)
  got,           (* how much of the body was read with the head            *)
  off,           (* where parse takes the body to start, from where it does *)
  statcode,
  kind, content, (* the files                                              *)
  served         (* what was answered, in order                            *)

vars == <<pc, fds, sock, infile, req, got, off, statcode, kind, content, served>>

(* socket twice in main, and in listener_init, whose descriptor is used.   *)
Listener == 5
Base     == 0 .. Listener

Init ==
  /\ pc = "accept" /\ fds = Base /\ sock = -1 /\ infile = -1
  /\ req = NoRequest /\ got = 0 /\ off = 0 /\ statcode = INIT
  /\ kind = Kind0 /\ content = Content0 /\ served = << >>

(* The descriptor that a call gets: the lowest that is free. *)
Lowest == CHOOSE d \in 0 .. Cardinality(fds) :
            d \notin fds /\ \A e \in 0 .. d - 1 : e \in fds

(***************************************************************************)
(* main and accept: any error is ignored, and the next client waited for.  *)
(***************************************************************************)
Accept ==
  /\ pc = "accept" /\ Listener \in fds /\ Len(served) < MaxRequests
  /\ sock' = Lowest /\ sock' > 2
  /\ fds' = fds \cup {sock'}
  /\ req' \in Requests
  /\ pc' = "parse"
  /\ UNCHANGED <<infile, got, off, statcode, kind, content, served>>

AcceptFails == pc = "accept" /\ UNCHANGED vars

(***************************************************************************)
(* The request line: {0,8} letters and {2,64} characters for the name.     *)
(***************************************************************************)
LineMatches(r) == /\ r.method # "malformed" /\ r.version # "malformed"
                  /\ Len(r.uri) \in 2 .. 64

(***************************************************************************)
(* parse_header_field, first loop: fields up to Content-Length, or the     *)
(* first line that is none.                                                *)
(***************************************************************************)
LineEnds(lines) ==
  LET end[i \in 0 .. Len(lines)] == IF i = 0 THEN 0 ELSE end[i - 1] + lines[i].length + 2
  IN  end

FieldsRead(lines) ==
  CHOOSE k \in 0 .. Len(lines) :
    /\ \A i \in 1 .. k : lines[i].field /\ (i < k => ~lines[i].isLength)
    /\ \/ k = Len(lines)
       \/ ~lines[k + 1].field
       \/ k > 0 /\ lines[k].isLength

HeadLength(r) == LineEnds(r.lines)[Len(r.lines)] + (IF r.complete THEN 2 ELSE 0)

(* The blank lines in what was read, from the end of the request line. *)
Blanks(r, n) ==
  {[at |-> HeadLength(r) - 4, run |-> r.lines[i].run] :
     i \in {j \in {Len(r.lines)} : j > 0 /\ r.complete}}
  \cup {[at |-> HeadLength(r) + b.at, run |-> b.run] : b \in {x \in r.blanks : x.at + 4 <= n}}

(***************************************************************************)
(* Second loop: the expression is not anchored, so it matches in front of  *)
(* the next blank line, wherever that is, and the length of the match is   *)
(* added to bytes_read, not where it ends.                                 *)
(***************************************************************************)
(* Fault: what is in front of the blank line is not part of the match. *)
MatchLengthBare(p, b) == 4

MatchLength(p, b) == (IF b.run < b.at - p THEN b.run ELSE b.at - p) + 4

BytesRead(r, n) ==
  LET skip[p \in 0 .. HeadLength(r) + n] ==
        LET ahead == {b \in Blanks(r, n) : b.at >= p} IN
        IF ahead = {} THEN p
        ELSE skip[p + MatchLength(p, CHOOSE b \in ahead : \A x \in ahead : b.at <= x.at)]
  IN  skip[LineEnds(r.lines)[FieldsRead(r.lines)]]

(* hfn, from where the body starts; 0 when nothing follows the request line. *)
Offset(r, n) ==
  IF HeadLength(r) + n = 0 THEN 0 ELSE BytesRead(r, n) + 2 - HeadLength(r)

(* The test for "\r\n" before the body of a GET: it fails when neither     *)
(* character is right.  Beyond the text, the first is uninitialised.       *)
Malformed(r, o) ==
  IF ~LineMatches(r) THEN {TRUE}
  ELSE IF r.method # "GET" \/ o = 0 THEN {FALSE}
  ELSE IF o \in {1, 2} THEN BOOLEAN ELSE {TRUE}

(* read_until returns when the head is complete, with any part of the body. *)
ReadAndParse ==
  /\ pc = "parse"
  /\ got' \in 0 .. req.body /\ HeadLength(req) + got' <= ReadSize
  /\ off' = IF LineMatches(req) THEN Offset(req, got') ELSE 0
  /\ \E bad \in Malformed(req, off') : statcode' = IF bad THEN 400 ELSE INIT
  /\ infile' = -1
  /\ pc' = "handle"
  /\ UNCHANGED <<fds, sock, req, kind, content, served>>

(***************************************************************************)
(* handle_request.  HTTP/1.0 stands for all other versions of 8 characters. *)
(***************************************************************************)
(* Fault: the default case is missing. *)
VerdictWithoutDefault(r) ==
  CASE statcode = 400                                     -> 400
    [] statcode # 400 /\ r.version = "HTTP/1.1"           -> INIT
    [] statcode # 400 /\ r.version # "HTTP/1.1"           ->
         IF r.version = "HTTP/1.0" THEN 505 ELSE 400

Verdict(r) ==
  CASE statcode = 400                                     -> 400
    [] statcode # 400 /\ r.version = "HTTP/1.1"           ->
         IF r.method \in {"GET", "PUT"} THEN INIT ELSE 501
    [] statcode # 400 /\ r.version # "HTTP/1.1"           ->
         IF r.version = "HTTP/1.0" THEN 505 ELSE 400

Refuse ==
  /\ pc = "handle" /\ (Verdict(req) # INIT \/ req.method \notin {"GET", "PUT"})
  /\ statcode' = Verdict(req)
  /\ pc' = "respond"
  /\ UNCHANGED <<fds, sock, infile, req, got, off, kind, content, served>>

Exists(u) == kind[u] \notin {"absent", "uncreatable"}

(* open, if it succeeds. *)
Opens(ok) ==
  IF ok THEN infile' = Lowest /\ fds' = fds \cup {Lowest} ELSE UNCHANGED <<infile, fds>>

(***************************************************************************)
(* method_put: access and open, which truncates or creates.                *)
(***************************************************************************)
(* Faults: access after open; no O_TRUNC. *)
PutCodeLate(u)     == 200
Untruncated(u)     == content

PutCode(u)   == IF Exists(u) THEN 200 ELSE 201
Truncated(u) == [content EXCEPT ![u] = << >>]

PutOpen ==
  LET u == req.uri
      ok == kind[u] \in {"file", "absent"} IN
  /\ pc = "handle" /\ Verdict(req) = INIT /\ req.method = "PUT"
  /\ Opens(ok)
  /\ statcode' = IF ok THEN PutCode(u) ELSE 400
  /\ kind' = IF ok THEN [kind EXCEPT ![u] = "file"] ELSE kind
  /\ content' = IF ok THEN Truncated(u) ELSE content
  /\ pc' = "put"
  /\ UNCHANGED <<sock, req, got, off, served>>

(* atoi of the value last read; without a field, of whatever value holds,  *)
(* which is NULL when nothing follows the request line.                    *)
Announced(r) == IF FieldsRead(r.lines) > 0 THEN {r.lines[FieldsRead(r.lines)].number}
                ELSE IF HeadLength(r) = 0 THEN {} ELSE Unset

(* Bytes from..to of the text that follows the head, counted from 1. *)
Text(from, to) ==
  [i \in 1 .. to - from + 1 |->
     LET j == from + i - 1 IN
     IF j <= 0 THEN InHead ELSE IF j <= got THEN <<Len(served) + 1, j>> ELSE Junk]

(* What a loop that writes bytes may have done when it returns. *)
Writing(bytes) ==
  {[bytes |-> SubSeq(bytes, 1, n), failed |-> n < Len(bytes)] : n \in 0 .. Len(bytes)}

(* write_all: n bytes of the body's buffer, whether it has them or not.    *)
WriteAll(n) == Writing(Text(off + 1, off + n))

(* pass_bytes: what is left in the socket, up to n bytes.  A client that   *)
(* sends less may close, which is no error, or keep the server waiting.    *)
PassBytes(n) ==
  LET last == IF got + n < req.body THEN got + n ELSE req.body
      rest == [i \in 1 .. last - got |-> <<Len(served) + 1, got + i>>] IN
  Writing(rest) \cup {[bytes |-> rest, failed |-> TRUE] : m \in {x \in {n} : x > Len(rest)}}

(* Fault: a body that is not complete is left to pass_bytes. *)
InBufferAll(n) == got >= n

(* msg_b->bufsize, a uint16_t, is not 0. *)
InBuffer(n) == (got - off) % 65536 # 0

Over(old, new) == new \o SubSeq(old, Len(new) + 1, Len(old))

PutBody ==
  /\ pc = "put"
  /\ \E n \in Announced(req) :
       \E out \in IF InBuffer(n) THEN WriteAll(n) ELSE PassBytes(n) :
         /\ content' = IF infile = -1 THEN content
                       ELSE [content EXCEPT ![req.uri] = Over(@, out.bytes)]
         /\ statcode' = IF out.failed THEN 400 ELSE statcode
  /\ pc' = "respond"
  /\ UNCHANGED <<fds, sock, infile, req, got, off, kind, served>>

(***************************************************************************)
(* atoi of a value that is no pointer; or, when nothing follows the request *)
(* line, regfree of an expression that was never compiled.                 *)
(***************************************************************************)
NothingFollows(r) == LineMatches(r) /\ HeadLength(r) = 0

Crash ==
  /\ \/ pc = "parse" /\ NothingFollows(req)
     \/ pc = "put" /\ FieldsRead(req.lines) = 0
  /\ pc' = "killed" /\ fds' = {}
  /\ UNCHANGED <<sock, infile, req, got, off, statcode, kind, content, served>>

(***************************************************************************)
(* method_get: a file that exists but cannot be opened keeps OK.           *)
(***************************************************************************)
GetCode(u) == IF ~Exists(u) THEN 404 ELSE IF kind[u] = "dir" THEN 403 ELSE 200

MethodGet ==
  /\ pc = "handle" /\ Verdict(req) = INIT /\ req.method = "GET"
  /\ Opens(kind[req.uri] \in {"file", "dir"})
  /\ statcode' = GetCode(req.uri)
  /\ pc' = "respond"
  /\ UNCHANGED <<sock, req, got, off, kind, content, served>>

(***************************************************************************)
(* handle_response: the file, if the request was a GET, is OK and has one. *)
(***************************************************************************)
(* A client that is gone: nobody catches SIGPIPE. *)
ClientGone ==
  /\ pc = "respond"
  /\ pc' = "killed" /\ fds' = {}
  /\ UNCHANGED <<sock, infile, req, got, off, statcode, kind, content, served>>

SendsFile == statcode = 200 /\ req.method = "GET" /\ infile > 0

Respond ==
  /\ pc = "respond"
  /\ served' = Append(served,
       [req |-> req, got |-> got, off |-> off, code |-> statcode, opened |-> infile > 0,
        body |-> IF SendsFile THEN content[req.uri] ELSE <<Phrase>>])
  /\ pc' = "close"
  /\ UNCHANGED <<fds, sock, infile, req, got, off, statcode, kind, content>>

(***************************************************************************)
(* closefrom, which takes a negative number for 0, and shutdown.           *)
(***************************************************************************)
(* Fault: the client is left out. *)
FromFile == infile

From == infile - 1

Close ==
  /\ pc = "close"
  /\ fds' = {d \in fds : d < From}
  /\ sock' = -1 /\ infile' = -1 /\ req' = NoRequest
  /\ got' = 0 /\ off' = 0 /\ statcode' = INIT
  /\ pc' = "accept"
  /\ UNCHANGED <<kind, content, served>>

Killed == pc = "killed" /\ UNCHANGED vars

Next == \/ Accept \/ AcceptFails \/ ReadAndParse \/ Refuse \/ PutOpen \/ PutBody
        \/ Crash \/ MethodGet \/ Respond \/ ClientGone \/ Close \/ Killed

Spec == Init /\ [][Next]_vars
-------------------------------------------------------------------------------
Bytes == ((1 .. MaxRequests) \X Nat) \cup {InHead, Junk}
           \cup UNION {{Content0[u][i] : i \in DOMAIN Content0[u]} : u \in Uris}

(* Types; a response always has one of the codes that it has a phrase for. *)
TypeOK ==
  /\ pc \in {"accept", "parse", "handle", "put", "respond", "close", "killed"}
  /\ fds \subseteq 0 .. Listener + 2
  /\ sock \in -1 .. Listener + 1 /\ infile \in -1 .. Listener + 2
  /\ req \in Requests \cup {NoRequest}
  /\ got \in Nat /\ off \in Int
  /\ statcode \in Codes \cup {INIT}
  /\ kind \in [Uris -> Kinds] /\ DOMAIN content = Uris
  /\ \A u \in Uris : \A i \in DOMAIN content[u] : content[u][i] \in Bytes
  /\ \A i \in 1 .. Len(served) : served[i].code \in Codes

(***************************************************************************)
(* httpserver.c:100 and 166: as long as every request opened a file the    *)
(* server waits for the next with the descriptors it started with; the     *)
(* first one that opened none closes the listener with everything else.    *)
(***************************************************************************)
ListenerKept ==
  pc = "accept" =>
    fds = IF \A i \in 1 .. Len(served) : served[i].opened THEN Base ELSE {}

(***************************************************************************)
(* requestparser.c:107-146: where the body is taken to start.  Right when  *)
(* the head ends with Content-Length, or with fields only, and no blank    *)
(* line of the body was read with it; with one line after Content-Length,  *)
(* whether it is right depends on the length of that line and of its end.  *)
(***************************************************************************)
BodyOffset ==
  pc = "close" /\ LineMatches(req) /\ req.complete
    /\ Blanks(req, got) \subseteq Blanks(req, 0) =>
    LET rest == Len(req.lines) - FieldsRead(req.lines)
        line == req.lines[Len(req.lines)] IN
    /\ rest = 0 => off = 0
    /\ rest = 1 => (off = 0 <=> (line.length + 2) % (line.run + 4) = 0)
    /\ off \in -1 .. 2

(***************************************************************************)
(* requestmethods.c:51-56: a PUT that is answered as a success has stored  *)
(* what was sent exactly when the body's start was found and none or all   *)
(* of the announced body was read with the head.                           *)
(***************************************************************************)
Sent(s, i, n) ==
  [j \in 1 .. (IF n < s.req.body THEN n ELSE s.req.body) |-> <<i, j>>]

Right(s, n) == n = 0 \/ (s.off = 0 /\ (s.got = 0 \/ s.got >= n))

StoredExactly ==
  pc = "close" =>
    LET i == Len(served)
        s == served[i] IN
    req.method = "PUT" /\ s.code \in {200, 201} /\ FieldsRead(req.lines) > 0 =>
      \A n \in Announced(req) : content[req.uri] = Sent(s, i, n) <=> Right(s, n)

(***************************************************************************)
(* requestmethods.c:44 and 75, and serverresponse.c:26-41 and 62-71: a GET *)
(* answered 200 sends what the last PUT of the file that opened it stored, *)
(* if that was right, and nothing of what was there before; or "OK", for a *)
(* file it cannot read.                                                    *)
(***************************************************************************)
Puts(u, i) == {j \in 1 .. i - 1 : served[j].req.method = "PUT" /\ served[j].opened
                                    /\ served[j].req.uri = u}

RoundTrip == \A i \in 1 .. Len(served) :
  LET s == served[i]
      before == Puts(s.req.uri, i) IN
  s.req.method = "GET" /\ s.code = 200 =>
    IF ~s.opened THEN s.body = <<Phrase>> /\ Kind0[s.req.uri] = "denied"
    ELSE IF before = {} THEN s.body = Content0[s.req.uri]
    ELSE LET j == CHOOSE x \in before : \A y \in before : y <= x
             n == CHOOSE x \in Announced(served[j].req) : TRUE IN
         served[j].code # 400 /\ FieldsRead(served[j].req.lines) > 0 /\ Right(served[j], n)
           => s.body = Sent(served[j], j, n)

(***************************************************************************)
(* requestmethods.c:39-43 and 68-73: the codes tell the history of a file: *)
(* 201 once, for the PUT that creates it, 200 after that, also if a        *)
(* transfer failed in between; 404 for as long as no PUT has opened it.    *)
(***************************************************************************)
CodesTell == \A i \in 1 .. Len(served) :
  LET s == served[i]
      missing == Kind0[s.req.uri] \in {"absent", "uncreatable"} /\ Puts(s.req.uri, i) = {} IN
  /\ s.req.method = "PUT" => (s.code = 201 => missing) /\ (s.code = 200 => ~missing)
  /\ s.req.method = "GET" => (s.code = 404 => missing)
                               /\ (s.code \in {200, 403} => ~missing)
===============================================================================
