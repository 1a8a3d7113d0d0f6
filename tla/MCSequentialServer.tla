-------------------------- MODULE MCSequentialServer --------------------------
(***************************************************************************)
(* Instances of SequentialServer for TLC.                                  *)
(***************************************************************************)
EXTENDS SequentialServer, TLC

CONSTANT Old      (* a byte of an initial file *)

(* Names are sequences of characters: files that exist in several ways, a  *)
(* missing one, and one with a name of one character.                      *)
File == <<"f", "f">>    Dir == <<"d", "d">>    Denied == <<"p", "p">>
New  == <<"n", "n">>    Uncreatable == <<"u", "u">>

FileKinds == File :> "file" @@ Dir :> "dir" @@ Denied :> "denied"
               @@ New :> "absent" @@ Uncreatable :> "uncreatable" @@ <<"f">> :> "absent"
FileContents == [u \in DOMAIN FileKinds |-> IF u = File THEN <<Old, Old, Old>> ELSE << >>]

Field(length, run) == [length |-> length, run |-> run, field |-> TRUE,
                       isLength |-> FALSE, number |-> 0]
NoField(length, run) == [Field(length, run) EXCEPT !.field = FALSE]
Announce(n) == [length |-> 17, run |-> 1, field |-> TRUE, isLength |-> TRUE, number |-> n]

(* "Host: localhost:8080", "User-Agent: curl/7.81.0", "Accept: */*". *)
Curl == <<Field(20, 14), Field(23, 11), Field(11, 3)>>

Rq(method, uri, version, lines, body) ==
  [method |-> method, uri |-> uri, version |-> version, lines |-> lines,
   complete |-> TRUE, body |-> body, blanks |-> {}]
Incomplete(r) == [r EXCEPT !.complete = FALSE, !.body = 0]

(* What may follow Content-Length: lines of every length up to 8, with     *)
(* every end; "Expect: 100-continue", and curl's other lines.              *)
Tails == {<<Field(p + v, v)>> : p \in 3 .. 6, v \in 0 .. 3}
           \cup {<<NoField(20, 12)>>, Curl, << >>}

Put(lines, body) == Rq("PUT", File, "HTTP/1.1", lines, body)
Get(uri, lines)  == Rq("GET", uri, "HTTP/1.1", lines, 0)

(* Heads of all shapes; bodies of all sizes, announced rightly or not;     *)
(* bodies with a blank line in them; files of all kinds; refusals.         *)
Heads  == {Put(<<Announce(3)>> \o t, 3) : t \in Tails} \cup
          {Put(Curl, 2), Put(<< >>, 2), Put(<<NoField(9, 4), Announce(2)>>, 2),
           Incomplete(Put(<<Announce(2)>>, 0)), Incomplete(Get(File, Curl)),
           Incomplete(Put(<< >>, 0)), Incomplete(Get(File, << >>))}
Bodies == {Put(Curl \o <<Announce(n)>>, m) : n \in {0, 1, 2, 4}, m \in {0, 2}} \cup
          {[Put(<<Announce(6)>>, 6) EXCEPT !.blanks = {b}] :
             b \in {[at |-> -2, run |-> 0], [at |-> 1, run |-> 1], [at |-> 2, run |-> 0]}}
Gets   == {Get(u, Curl) : u \in DOMAIN FileKinds} \cup
          {Get(File, <<Field(20, 14), l>>) : l \in {NoField(30, 7), NoField(9, 9), NoField(8, 1)}}
Others == {[Put(<<Announce(1)>>, 1) EXCEPT !.uri = u] : u \in {Dir, New, Uncreatable}} \cup
          {Rq("HEAD", File, "HTTP/1.1", Curl, 0), Rq("GET", File, "HTTP/1.0", Curl, 0),
           Rq("GET", File, "HTTP/11", Curl, 0), Rq("malformed", File, "HTTP/1.1", Curl, 0)}

(* 5000 bytes, which are more than a buffer for a body has.                *)
LongRequests == {Put(Curl \o <<[Announce(5000) EXCEPT !.length = 20]>>, 5000)}

AllRequests == Heads \cup Bodies \cup Gets \cup Others
-------------------------------------------------------------------------------
(***************************************************************************)
(* asgn2_helper_funcs.h:74-75, of write_all: "The number of bytes to       *)
(* write. Must be less than or equal to the size of buf."; a body's buffer *)
(* has PATH_MAX + 1 bytes (httpserver.h:45).                               *)
(***************************************************************************)
WithinBuffer == pc = "put" => \A n \in Announced(req) : InBuffer(n) => n <= 4097
===============================================================================
