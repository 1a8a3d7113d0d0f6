-------------------------------- MODULE Memory --------------------------------
(***************************************************************************)
(* The get/set program of asgn1/memory.c.  Standard input is a command, a  *)
(* space, the name of a file, a newline and, for "set", the new contents   *)
(* of the file.  The program reads it in pieces as read() delivers them,   *)
(* and keeps what it has understood so far between one piece and the next. *)
(*                                                                         *)
(* A step is one read, with all that main does with the piece, or one      *)
(* write.  Bytes are the members of a small set that has the space, the    *)
(* newline and the bytes that names must not have.                         *)
(***************************************************************************)
EXTENDS Integers, Sequences, SequencesExt

CONSTANTS
  Bytes,           (* the bytes                                            *)
  Inputs,          (* what may be on standard input: sequences of bytes    *)
  InitialFiles,    (* what the named file may be at the start              *)
  GetWord, SetWord,(* the bytes of the two commands                        *)
  PathMax,         (* PATH_MAX                                             *)
  BufferSize,      (* 8192 in the code                                     *)
  Space, Newline, Slash, Backslash, Zero,      (* bytes                    *)
  Null,            (* a command or name not known yet                      *)
  Missing, Dir, Denied   (* files that are no sequences of bytes           *)

NoFd      == -2    (* infile: no descriptor yet                            *)
Malformed == -3    (* infile: the input is no valid command                *)
Fd        == 3     (* infile: the file is open                             *)

ASSUME MemoryAssumption ==
  /\ GetWord # SetWord /\ Space # Newline
  /\ PathMax \in Nat /\ BufferSize \in Nat \ {0}
  /\ {Space, Newline} \subseteq Bytes /\ Null \notin Bytes \cup Seq(Bytes)
  /\ Inputs \subseteq Seq(Bytes)
  /\ InitialFiles \subseteq Seq(Bytes) \cup {Missing, Dir, Denied}

VARIABLES
  given,           (* all of standard input                                *)
  stdin,           (* what is still to be read                             *)
  phase,           (* "read", "write" in writeCommand, "fetch" and "show"  *)
                   (* in the loop of get, "done"                           *)
  command, filename, tmp, infile,
  buffer,          (* the bytes of buffer still to be written              *)
  file0, file,     (* the named file at the start, and now                 *)
  offset,          (* how much of the file has been read                   *)
  stdout, message  (* what was printed; the program's verdict              *)

parsed == <<command, filename, tmp, infile>>
world  == <<given, file0>>
vars   == <<world, stdin, phase, parsed, buffer, file, offset, stdout, message>>

Init ==
  /\ given \in Inputs /\ stdin = given
  /\ file0 \in InitialFiles /\ file = file0
  /\ phase = "read" /\ buffer = << >> /\ offset = 0
  /\ command = Null /\ filename = Null /\ tmp = << >> /\ infile = NoFd
  /\ stdout = << >> /\ message = "none"

(* s up to the first byte of stops, that byte, and what comes after it.    *)
Split(s, stops) ==
  LET i == SelectInSeq(s, LAMBDA b : b \in stops) IN
  IF i = 0 THEN [word |-> s, stop |-> Null, rest |-> << >>]
  ELSE [word |-> SubSeq(s, 1, i - 1), stop |-> s[i], rest |-> SubSeq(s, i + 1, Len(s))]

(* A name that main accepts: see nullTerminatorCheck. *)
Valid(name) ==
  /\ Len(name) \in 1 .. PathMax
  /\ \A i \in 1 .. Len(name) : name[i] # Slash
  /\ ~ \E i \in 1 .. Len(name) - 1 : name[i] = Backslash /\ name[i + 1] = Zero

(***************************************************************************)
(* The two loops over a piece.  p is what is understood, p.rest the part   *)
(* of the piece not looked at.  tmp carries a word from piece to piece.    *)
(***************************************************************************)
(* Fault: what earlier pieces had of the word is forgotten. *)
WordAnew(p, w) == w

Word(p, w) == p.tmp \o w

ParseCommand(p) ==
  LET c == Split(p.rest, {Space}) IN
  IF p.command # Null THEN p
  ELSE IF c.stop = Null THEN [p EXCEPT !.tmp = Word(p, c.word), !.rest = << >>]
  ELSE [p EXCEPT !.command = Word(p, c.word), !.tmp = << >>, !.rest = c.rest]

ParseName(p) ==
  LET n == Split(p.rest, {Space, Newline})
      name == Word(p, n.word) IN
  IF p.command = Null \/ p.filename # Null THEN p
  ELSE IF n.stop = Null THEN [p EXCEPT !.tmp = name, !.rest = << >>]
  ELSE [p EXCEPT !.filename = name, !.tmp = << >>, !.rest = n.rest,
                 !.infile = IF n.stop = Newline /\ Valid(name) THEN NoFd ELSE Malformed]

Parse(piece) ==
  ParseName(ParseCommand([command |-> command, filename |-> filename, tmp |-> tmp,
                          infile |-> infile, rest |-> piece]))

Understood(p) == /\ command' = p.command /\ filename' = p.filename
                 /\ tmp' = p.tmp /\ infile' = p.infile

(***************************************************************************)
(* main's exits, and the first n bytes that are there for read().          *)
(***************************************************************************)
(* Fault: the return after the message is missing. *)
ExitMissing(verdict) == UNCHANGED phase /\ message' = verdict

Exit(verdict) == phase' = "done" /\ message' = verdict
Piece(s, n)   == n \in 1 .. BufferSize /\ n <= Len(s)

(* A piece that is all contents. *)
ReadContents(n) ==
  /\ phase = "read" /\ infile = Fd /\ Piece(stdin, n)
  /\ buffer' = SubSeq(stdin, 1, n) /\ stdin' = SubSeq(stdin, n + 1, Len(stdin))
  /\ phase' = "write"
  /\ UNCHANGED <<world, parsed, file, offset, stdout, message>>

(* A piece with a part of the command line, or after an invalid one.       *)
ReadLine(n) ==
  LET p == Parse(SubSeq(stdin, 1, n))
      ready == p.command # Null /\ p.filename # Null /\ p.infile # Malformed IN
  /\ phase = "read" /\ infile # Fd /\ Piece(stdin, n)
  /\ stdin' = SubSeq(stdin, n + 1, Len(stdin))
  /\ \/ /\ ready /\ p.command = SetWord /\ file \notin {Dir, Denied}  (* open *)
        /\ Understood([p EXCEPT !.infile = Fd])
        /\ file' = << >> /\ buffer' = p.rest /\ phase' = "write"
        /\ UNCHANGED message
     \/ /\ ready /\ p.command = SetWord                        (* open fails *)
        /\ Understood([p EXCEPT !.infile = -1])
        /\ Exit("Operation Failed")
        /\ UNCHANGED <<file, buffer>>
     \/ /\ ~(ready /\ p.command = SetWord)
        /\ Understood(IF ready /\ p.command = GetWord /\ p.rest # << >>
                      THEN [p EXCEPT !.infile = Malformed] ELSE p)
        /\ UNCHANGED <<file, buffer, phase, message>>
  /\ UNCHANGED <<world, offset, stdout>>

(***************************************************************************)
(* writeCommand, for set and for get: one write, of k bytes, at a time.    *)
(***************************************************************************)
Put(bytes) == IF phase = "write" THEN file' = file \o bytes /\ UNCHANGED stdout
                                 ELSE stdout' = stdout \o bytes /\ UNCHANGED file

(* Fault: after a short write the next one starts at the beginning.        *)
LeftFromStart(k) == SubSeq(buffer, 1, Len(buffer) - k)

Left(k) == SubSeq(buffer, k + 1, Len(buffer))

Write(k) ==
  /\ phase \in {"write", "show"}
  /\ k <= Len(buffer) /\ (k = 0 <=> buffer = << >>)
  /\ Put(SubSeq(buffer, 1, k))
  /\ buffer' = Left(k)
  /\ phase' = IF k < Len(buffer) THEN phase ELSE IF phase = "write" THEN "read" ELSE "fetch"
  /\ UNCHANGED <<world, stdin, parsed, offset, message>>

(* A read or a write fails. *)
Fail ==
  /\ phase # "done" /\ Exit("Operation Failed")
  /\ UNCHANGED <<world, stdin, parsed, buffer, file, offset, stdout>>

(***************************************************************************)
(* The end of the input, and the rest of get.                              *)
(***************************************************************************)
Get == infile # Malformed /\ command = GetWord

Opened == filename # Null /\ file \notin {Missing, Dir, Denied}

EndSet ==
  /\ phase = "read" /\ stdin = << >> /\ infile = Fd
  /\ Exit("OK")
  /\ UNCHANGED <<world, stdin, parsed, buffer, file, offset, stdout>>

EndGet ==
  /\ phase = "read" /\ stdin = << >> /\ Get /\ Opened
  /\ infile' = Fd /\ phase' = "fetch"
  /\ UNCHANGED <<world, stdin, command, filename, tmp, buffer, file, offset, stdout, message>>

EndInvalid ==
  /\ phase = "read" /\ stdin = << >> /\ infile # Fd /\ ~(Get /\ Opened)
  /\ Exit("Invalid Command")
  /\ UNCHANGED <<world, stdin, parsed, buffer, file, offset, stdout>>

Fetch(n) ==
  /\ phase = "fetch" /\ n \in 1 .. BufferSize /\ offset + n <= Len(file)
  /\ buffer' = SubSeq(file, offset + 1, offset + n) /\ offset' = offset + n
  /\ phase' = "show"
  /\ UNCHANGED <<world, stdin, parsed, file, stdout, message>>

Fetched ==
  /\ phase = "fetch" /\ offset = Len(file)
  /\ Exit("none")
  /\ UNCHANGED <<world, stdin, parsed, buffer, file, offset, stdout>>

Terminated == phase = "done" /\ UNCHANGED vars

-------------------------------------------------------------------------------
Next ==
  \/ \E n \in 1 .. BufferSize : ReadContents(n) \/ ReadLine(n) \/ Fetch(n)
  \/ \E k \in 0 .. BufferSize : Write(k)
  \/ EndSet \/ EndGet \/ EndInvalid \/ Fetched \/ Fail \/ Terminated

Spec == Init /\ [][Next]_vars
-------------------------------------------------------------------------------
TypeOK ==
  /\ given \in Inputs /\ file0 \in InitialFiles
  /\ IsSuffix(stdin, given)
  /\ phase \in {"read", "write", "fetch", "show", "done"}
  /\ infile \in {NoFd, Malformed, Fd} \cup (IF phase = "done" THEN {-1} ELSE {})
  /\ phase \in {"write", "fetch", "show"} => infile = Fd /\ command # Null /\ filename # Null
  /\ Len(buffer) <= BufferSize
  /\ message \in {"none", "OK", "Invalid Command", "Operation Failed"}

(***************************************************************************)
(* The whole input read as one piece: what the README asks of the program. *)
(***************************************************************************)
Line     == Split(given, {Space})
Name     == Split(Line.rest, {Space, Newline})
Good     == Line.stop = Space /\ Name.stop = Newline /\ Valid(Name.word)
Sets     == Good /\ Line.word = SetWord
Gets     == Good /\ Line.word = GetWord /\ Name.rest = << >>
Readable == file0 \notin {Missing, Dir, Denied}

(***************************************************************************)
(* However read() splits the input (in the middle of the command, of the   *)
(* name, before the newline), and however short the writes are, the result *)
(* is that of the whole input, unless an operation failed.                 *)
(***************************************************************************)
ResultOfInput == phase = "done" /\ message # "Operation Failed" =>
  /\ message = IF Sets THEN "OK" ELSE IF Gets /\ Readable THEN "none" ELSE "Invalid Command"
  /\ file = IF Sets THEN Name.rest ELSE file0
  /\ stdout = IF Gets /\ Readable THEN file0 ELSE << >>

(***************************************************************************)
(* At any time, so also after a failure: the file is untouched, or holds a *)
(* first part of the new contents and nothing else; and what is printed is *)
(* a first part of the file.                                               *)
(***************************************************************************)
FirstPart ==
  /\ file = file0 \/ (Sets /\ IsPrefix(file, Name.rest))
  /\ stdout = << >> \/ (Gets /\ Readable /\ IsPrefix(stdout, file0))
===============================================================================
