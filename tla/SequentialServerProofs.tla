------------------------ MODULE SequentialServerProofs ------------------------
(***************************************************************************)
(* SequentialServer for all requests, files and numbers of clients: its    *)
(* descriptors, where its parser takes a body to start, what it stores and *)
(* what it answers.                                                        *)
(*                                                                         *)
(* The descriptors need an invariant of their own: numbers are given out   *)
(* lowest first, so the client always has the one above the listener, a    *)
(* file the next, and closefrom, called with one less than the file's,     *)
(* finds the client and the file above its argument and the listener below *)
(* it.  The rest follows the request, the answers and the files.           *)
(***************************************************************************)
EXTENDS SequentialServer, FiniteSetTheorems, SequenceTheorems, TLAPS

Opened(i) == served[i].opened

Client == Listener + 1
File   == Listener + 2

(* While a request is served: its descriptors, and those of main.          *)
Serving == {"parse", "handle", "put", "respond", "close"}
Fds(f)  == IF f = -1 THEN 0 .. Client ELSE 0 .. File

FdInv ==
  /\ \E S : served \in Seq(S)
  /\ infile \in {-1, File}
  /\ pc \in Serving \cup {"accept", "killed"}
  /\ pc \in {"accept", "parse", "handle"} => infile = -1
  /\ pc = "accept" => fds = IF \A i \in 1 .. Len(served) : Opened(i) THEN Base ELSE {}
  /\ pc \in Serving => fds = Fds(infile)
  /\ pc = "killed" => fds = {}
  /\ pc \in Serving \ {"close"} => \A i \in 1 .. Len(served) : Opened(i)
  /\ pc = "close" => /\ Len(served) > 0
                     /\ \A i \in 1 .. Len(served) - 1 : Opened(i)
                     /\ Opened(Len(served)) <=> infile = File

(***************************************************************************)
(* The descriptor that accept or open gets, when those in use are the n    *)
(* lowest numbers: the next one.                                           *)
(***************************************************************************)
LEMMA LowestIsNext ==
  ASSUME NEW n \in Nat, fds = 0 .. n
  PROVE  Lowest = n + 1
<1>1. Cardinality(fds) = n + 1
  BY FS_Interval
<1>2. n + 1 \in 0 .. Cardinality(fds) /\ n + 1 \notin fds /\ \A e \in 0 .. n + 1 - 1 : e \in fds
  BY <1>1
<1>3. ASSUME NEW d \in 0 .. Cardinality(fds), d \notin fds
      PROVE  d = n + 1
  BY <1>1, <1>3
<1>4. QED
  BY <1>2, <1>3 DEF Lowest

(* Appending to a sequence: its length and its elements.                   *)
LEMMA Appended ==
  ASSUME NEW s, NEW e, \E S : s \in Seq(S)
  PROVE  /\ \E S : Append(s, e) \in Seq(S)
         /\ Len(s) \in Nat
         /\ Len(Append(s, e)) = Len(s) + 1
         /\ \A i \in 1 .. Len(s) : Append(s, e)[i] = s[i]
         /\ Append(s, e)[Len(s) + 1] = e
<1>1. PICK S : s \in Seq(S)
  OBVIOUS
<1>2. s \in Seq(S \cup {e}) /\ e \in S \cup {e}
  BY <1>1
<1>3. Append(s, e) \in Seq(S \cup {e})
  BY <1>2
<1>4. QED
  BY <1>2, <1>3

(* The same of a log and the log after it. *)
Extends(s, e, t) ==
  /\ \E S : t \in Seq(S)
  /\ Len(s) \in Nat /\ Len(t) = Len(s) + 1
  /\ \A i \in 1 .. Len(s) : t[i] = s[i]
  /\ t[Len(t)] = e

LEMMA AppendExtends ==
  ASSUME NEW s, NEW e, \E S : s \in Seq(S)
  PROVE  Extends(s, e, Append(s, e))
  BY Appended DEF Extends

(* The descriptors at the start. *)
LEMMA FdInit == Init => FdInv
<1> USE DEF Listener, Base, Client, File, Serving, Fds
<1> SUFFICES ASSUME Init PROVE FdInv
  OBVIOUS
<1>1. served \in Seq({}) /\ Len(served) = 0
  BY DEF Init
<1>2. QED
  BY <1>1 DEF Init, FdInv, Opened

(* The same through every step: it needs nothing but the descriptors.      *)
LEMMA FdKept == FdInv /\ [Next]_vars => FdInv'
<1> USE DEF Listener, Base, Client, File, Serving, Fds
<1> SUFFICES ASSUME FdInv, [Next]_vars PROVE FdInv'
  OBVIOUS
<1>1. CASE Accept
  <2>1. fds = 0 .. 5 /\ \A i \in 1 .. Len(served) : Opened(i)
    BY <1>1 DEF Accept, FdInv
  <2>2. Lowest = 6
    BY <2>1, LowestIsNext, SMTT(60)
  <2>3. fds' = 0 .. 6
    BY <1>1, <2>1, <2>2 DEF Accept
  <2>4. pc' = "parse" /\ UNCHANGED <<infile, served>> /\ infile = -1
    BY <1>1 DEF Accept, FdInv
  <2>5. (\A i \in 1 .. Len(served) : Opened(i))'
    BY <2>1, <2>4 DEF Opened
  <2>6. (\E S : served \in Seq(S))'
    BY <2>4 DEF FdInv
  <2>7. QED
    BY <2>3, <2>4, <2>5, <2>6 DEF FdInv
<1>2. CASE ReadAndParse
  BY <1>2 DEF ReadAndParse, FdInv, Opened
<1>3. CASE Refuse
  BY <1>3 DEF Refuse, FdInv, Opened
<1>4. ASSUME pc = "handle", NEW ok, Opens(ok)
      PROVE  infile' \in {-1, File} /\ fds' = Fds(infile')
  <2>1. fds = 0 .. 6 /\ infile = -1
    BY <1>4 DEF FdInv
  <2>2. Lowest = 7
    BY <2>1, LowestIsNext
  <2>3. QED
    BY <1>4, <2>1, <2>2 DEF Opens
<1>5. CASE PutOpen
  <2>1. pc = "handle" /\ pc' = "put" /\ served' = served
        /\ Opens(kind[req.uri] \in {"file", "absent"})
    BY <1>5 DEF PutOpen
  <2>2. infile' \in {-1, File} /\ fds' = Fds(infile')
    BY <1>4, <2>1
  <2>3. QED
    BY <2>1, <2>2 DEF FdInv, Opened
<1>6. CASE PutBody
  BY <1>6 DEF PutBody, FdInv, Opened
<1>7. CASE Crash
  BY <1>7 DEF Crash, FdInv, Opened
<1>8. CASE MethodGet
  <2>1. pc = "handle" /\ pc' = "respond" /\ served' = served
        /\ Opens(kind[req.uri] \in {"file", "dir"})
    BY <1>8 DEF MethodGet
  <2>2. infile' \in {-1, File} /\ fds' = Fds(infile')
    BY <1>4, <2>1
  <2>3. QED
    BY <2>1, <2>2 DEF FdInv, Opened
<1>9. CASE Respond
  <2> DEFINE answer ==
        [req |-> req, got |-> got, off |-> off, code |-> statcode, opened |-> infile > 0,
         body |-> IF SendsFile THEN content[req.uri] ELSE <<Phrase>>]
  <2>1. /\ pc = "respond" /\ pc' = "close" /\ served' = Append(served, answer)
        /\ UNCHANGED <<fds, infile>>
    BY <1>9 DEF Respond
  <2>2. answer.opened <=> infile > 0
    OBVIOUS
  <2> HIDE DEF answer
  <2>3. \E S : served \in Seq(S)
    BY DEF FdInv
  <2>4. /\ \E S : served' \in Seq(S)
        /\ Len(served) \in Nat /\ Len(served') = Len(served) + 1
        /\ \A i \in 1 .. Len(served) : served'[i] = served[i]
        /\ served'[Len(served')] = answer
    <3>1. Extends(served, answer, Append(served, answer))
      BY <2>3, AppendExtends
    <3>2. Extends(served, answer, served')
      BY <2>1, <3>1
    <3>3. QED
      BY <3>2 DEF Extends
  <2>5. infile > 0 <=> infile = File
    BY DEF FdInv
  <2>6. \A i \in 1 .. Len(served') - 1 : served'[i].opened
    BY <2>1, <2>4 DEF FdInv, Opened
  <2>7. (\A i \in 1 .. Len(served) - 1 : Opened(i))' /\ (Opened(Len(served))' <=> infile > 0)
    BY <2>2, <2>4, <2>6 DEF Opened
  <2>8. Len(served') > 0 /\ fds = Fds(infile)
    BY <2>1, <2>4 DEF FdInv
  <2>9. QED
    BY <2>1, <2>4, <2>5, <2>7, <2>8 DEF FdInv
<1>10. CASE Close
  <2>1. pc = "close" /\ pc' = "accept" /\ infile' = -1 /\ served' = served
        /\ fds' = {d \in fds : d < infile - 1}
    BY <1>10 DEF Close, From
  <2>2. Len(served) \in Nat
    BY DEF FdInv
  <2>3. CASE infile = -1
    <3>1. fds' = {}
      BY <2>1, <2>3 DEF FdInv
    <3>2. ~ \A i \in 1 .. Len(served) : Opened(i)
      BY <2>1, <2>2, <2>3 DEF FdInv
    <3>3. (\A i \in 1 .. Len(served) : Opened(i))' = \A i \in 1 .. Len(served) : Opened(i)
      BY <2>1 DEF Opened
    <3>4. fds' = IF (\A i \in 1 .. Len(served) : Opened(i))' THEN Base ELSE {}
      BY <3>1, <3>2, <3>3
    <3>5. (\E S : served \in Seq(S))'
      BY <2>1 DEF FdInv
    <3>6. QED
      BY <2>1, <3>4, <3>5 DEF FdInv
  <2>4. CASE infile = File
    <3>1. fds' = 0 .. 5
      BY <2>1, <2>4 DEF FdInv
    <3>2. \A i \in 1 .. Len(served) : Opened(i)
      BY <2>1, <2>2, <2>4 DEF FdInv
    <3>3. (\A i \in 1 .. Len(served) : Opened(i))' = \A i \in 1 .. Len(served) : Opened(i)
      BY <2>1 DEF Opened
    <3>4. fds' = IF (\A i \in 1 .. Len(served) : Opened(i))' THEN Base ELSE {}
      BY <3>1, <3>2, <3>3
    <3>5. (\E S : served \in Seq(S))'
      BY <2>1 DEF FdInv
    <3>6. QED
      BY <2>1, <3>4, <3>5 DEF FdInv
  <2>5. QED
    BY <2>3, <2>4 DEF FdInv
<1>11. CASE UNCHANGED vars
  BY <1>11 DEF vars, FdInv, Opened
<1>12. CASE ClientGone
  BY <1>12 DEF ClientGone, FdInv, Opened
<1>13. QED
  BY <1>1, <1>2, <1>3, <1>5, <1>6, <1>7, <1>8, <1>9, <1>10, <1>11, <1>12
     DEF Next, AcceptFails, Killed

(***************************************************************************)
(* ListenerKept for every instance: as long as every request opened a file *)
(* the server waits for the next client with the descriptors it started    *)
(* with; after one that opened none, with no descriptor at all.            *)
(***************************************************************************)
THEOREM Descriptors == Spec => []ListenerKept
<1>1. FdInv => ListenerKept
  BY DEF FdInv, ListenerKept, Opened, Listener, Base
<1>2. QED
  BY <1>1, FdInit, FdKept, PTL DEF Spec

-------------------------------------------------------------------------------
(***************************************************************************)
(* Recursive functions.  Nothing is assumed of them but their equations;   *)
(* that there is a function with these equations is proved from below, by  *)
(* the least number up to which there is none.                             *)
(***************************************************************************)
(* Every set of natural numbers that is not empty has a least element. *)
LEMMA LeastOf ==
  ASSUME NEW S \in SUBSET Nat, S # {}
  PROVE  \E m \in S : \A j \in S : m <= j
<1>1. PICK i \in S : \A j \in S : ~(<<j, i>> \in OpToRel(<, Nat))
  BY NatLessThanWellFounded, WFMin
<1>2. \A j \in S : j \in Nat /\ ~(j < i)
  BY <1>1 DEF OpToRel
<1>3. \A j \in S : i <= j
  BY <1>2
<1>4. QED
  BY <1>1, <1>3

(* A sum over the numbers up to N. *)
Sums(N, add, f) == /\ f \in [0 .. N -> Nat] /\ f[0] = 0
                   /\ \A i \in 1 .. N : f[i] = f[i - 1] + add[i]

(* There is such a function. *)
LEMMA SumsExist ==
  ASSUME NEW N \in Nat, NEW add \in [1 .. N -> Nat]
  PROVE  \E f : Sums(N, add, f)
<1> DEFINE Bad == {n \in 0 .. N : ~ \E f : Sums(n, add, f)}
<1>1. ASSUME Bad # {} PROVE FALSE
  <2>0. Bad \in SUBSET Nat
    OBVIOUS
  <2>1. PICK n \in Bad : \A j \in Bad : n <= j
    <3> HIDE DEF Bad
    <3>1. QED
      BY <1>1, <2>0, LeastOf
  <2>2. n \in 0 .. N /\ ~ \E f : Sums(n, add, f)
    BY <2>1
  <2>3. n # 0
    <3>1. Sums(0, add, [i \in 0 .. 0 |-> 0])
      BY DEF Sums
    <3>2. QED
      BY <2>2, <3>1
  <2>4. n - 1 \in 0 .. N /\ n - 1 \notin Bad
    BY <2>1, <2>2, <2>3
  <2>5. PICK f : Sums(n - 1, add, f)
    BY <2>4
  <2>6. PICK g : g = [i \in 0 .. n |-> IF i = n THEN f[n - 1] + add[n] ELSE f[i]]
    OBVIOUS
  <2>7. f[n - 1] \in Nat /\ add[n] \in Nat /\ \A i \in 0 .. n - 1 : f[i] \in Nat
    BY <2>2, <2>3, <2>5 DEF Sums
  <2>8. g \in [0 .. n -> Nat]
    BY <2>2, <2>6, <2>7
  <2>9. g[0] = 0
    BY <2>2, <2>3, <2>5, <2>6 DEF Sums
  <2>10. ASSUME NEW i \in 1 .. n PROVE g[i] = g[i - 1] + add[i]
    <3>1. i - 1 \in 0 .. n /\ i - 1 # n /\ g[i - 1] = f[i - 1]
      BY <2>2, <2>6
    <3>2. CASE i = n
      BY <3>1, <3>2, <2>2, <2>6
    <3>3. CASE i # n
      <4>1. i \in 1 .. n - 1 /\ g[i] = f[i]
        BY <3>3, <2>2, <2>6
      <4>2. QED
        BY <4>1, <3>1, <2>5 DEF Sums
    <3>4. QED
      BY <3>2, <3>3
  <2>11. Sums(n, add, g)
    BY <2>8, <2>9, <2>10 DEF Sums
  <2>12. QED
    BY <2>2, <2>11
<1>2. N \notin Bad /\ N \in 0 .. N
  BY <1>1, SMTT(60)
<1>3. QED
  BY <1>2

(* Sums do not decrease. *)
LEMMA SumsGrow ==
  ASSUME NEW N \in Nat, NEW add \in [1 .. N -> Nat], NEW f, Sums(N, add, f)
  PROVE  \A k \in 0 .. N : f[k] <= f[N]
<1> DEFINE Bad == {n \in 0 .. N : \E k \in 0 .. n : ~(f[k] <= f[n])}
<1>1. ASSUME Bad # {} PROVE FALSE
  <2>0. Bad \in SUBSET Nat
    OBVIOUS
  <2>1. PICK n \in Bad : \A j \in Bad : n <= j
    <3> HIDE DEF Bad
    <3>1. QED
      BY <1>1, <2>0, LeastOf
  <2>2. PICK k \in 0 .. n : ~(f[k] <= f[n])
    BY <2>1
  <2>3. n \in 0 .. N /\ f[n] \in Nat /\ f[k] \in Nat
    BY <2>1, <2>2 DEF Sums
  <2>4. k # n
    BY <2>2, <2>3
  <2>5. n - 1 \in 0 .. N /\ n - 1 \notin Bad /\ k \in 0 .. n - 1 /\ n \in 1 .. N
    BY <2>1, <2>2, <2>3, <2>4
  <2>6. f[k] <= f[n - 1]
    BY <2>5
  <2>7. f[n] = f[n - 1] + add[n] /\ add[n] \in Nat /\ f[n - 1] \in Nat
    BY <2>5 DEF Sums
  <2>8. QED
    BY <2>2, <2>3, <2>6, <2>7
<1>2. N \notin Bad /\ N \in 0 .. N
  BY <1>1
<1>3. QED
  BY <1>2

(* The ends of the lines of a head. *)
LEMMA LineEndsAre ==
  ASSUME NEW lines \in Seq(Lines)
  PROVE  /\ Len(lines) \in Nat
         /\ LineEnds(lines) \in [0 .. Len(lines) -> Nat] /\ LineEnds(lines)[0] = 0
         /\ \A i \in 1 .. Len(lines) : LineEnds(lines)[i] = LineEnds(lines)[i - 1] + lines[i].length + 2
         /\ \A k \in 0 .. Len(lines) : LineEnds(lines)[k] <= LineEnds(lines)[Len(lines)]
<1>1. Len(lines) \in Nat /\ \A i \in 1 .. Len(lines) : lines[i].length \in Nat
  <2>1. Len(lines) \in Nat /\ \A i \in 1 .. Len(lines) : lines[i] \in Lines
    BY LenProperties, ElementOfSeq
  <2>2. \A x \in Lines : x.length \in Nat
    BY DEF Lines
  <2>3. QED
    BY <2>1, <2>2
<1>2. PICK N \in Nat : N = Len(lines)
  BY <1>1
<1>3. PICK add : add = [i \in 1 .. N |-> lines[i].length + 2]
  OBVIOUS
<1>4. add \in [1 .. N -> Nat]
  BY <1>1, <1>2, <1>3
<1>5. PICK f : Sums(N, add, f)
  BY <1>4, SumsExist
<1>6. f = [i \in 0 .. N |-> IF i = 0 THEN 0 ELSE f[i - 1] + lines[i].length + 2]
  <2>1. ASSUME NEW i \in 0 .. N PROVE f[i] = IF i = 0 THEN 0 ELSE f[i - 1] + lines[i].length + 2
    <3>1. CASE i = 0
      BY <3>1, <1>5 DEF Sums
    <3>2. CASE i # 0
      <4>1. i \in 1 .. N /\ i - 1 \in 0 .. N
        BY <3>2
      <4>2. f[i] = f[i - 1] + add[i] /\ f[i - 1] \in Nat
        BY <4>1, <1>5 DEF Sums
      <4>3. add[i] = lines[i].length + 2 /\ lines[i].length \in Nat
        BY <4>1, <1>1, <1>2, <1>3
      <4>4. QED
        BY <3>2, <4>2, <4>3
    <3>3. QED
      BY <3>1, <3>2
  <2>2. f \in [0 .. N -> Nat]
    BY <1>5 DEF Sums
  <2>3. QED
    BY <2>1, <2>2
<1>7. PICK e : e = LineEnds(lines)
  OBVIOUS
<1>8. e = [i \in 0 .. N |-> IF i = 0 THEN 0 ELSE e[i - 1] + lines[i].length + 2]
  BY <1>2, <1>6, <1>7 DEF LineEnds
<1>9. e = f
  <2> DEFINE Bad == {i \in 0 .. N : e[i] # f[i]}
  <2>1. ASSUME Bad # {} PROVE FALSE
    <3>0. Bad \in SUBSET Nat
      OBVIOUS
    <3>1. PICK n \in Bad : \A j \in Bad : n <= j
      <4> HIDE DEF Bad
      <4>1. QED
        BY <2>1, <3>0, LeastOf
    <3>2. n \in 0 .. N /\ e[n] # f[n]
      BY <3>1
    <3>3. e[n] = (IF n = 0 THEN 0 ELSE e[n - 1] + lines[n].length + 2)
      BY <1>8, <3>2
    <3>4. f[n] = (IF n = 0 THEN 0 ELSE f[n - 1] + lines[n].length + 2)
      BY <1>6, <3>2
    <3>5. n # 0
      BY <3>2, <3>3, <3>4
    <3>6. n - 1 \in 0 .. N /\ n - 1 \notin Bad
      BY <3>1, <3>2, <3>5
    <3>7. QED
      BY <3>2, <3>3, <3>4, <3>5, <3>6
  <2>2. \A i \in 0 .. N : e[i] = f[i]
    BY <2>1
  <2>3. QED
    BY <1>6, <1>8, <2>2
<1>10. Sums(N, add, e)
  BY <1>5, <1>9
<1>11. \A k \in 0 .. N : e[k] <= e[N]
  BY <1>4, <1>10, SumsGrow
<1>12. \A i \in 1 .. N : add[i] = lines[i].length + 2 /\ lines[i].length \in Nat
  BY <1>1, <1>2, <1>3
<1>13. e \in [0 .. N -> Nat] /\ e[0] = 0 /\ \A i \in 1 .. N : e[i] = e[i - 1] + lines[i].length + 2
  <2>1. e \in [0 .. N -> Nat] /\ e[0] = 0 /\ \A i \in 1 .. N : e[i] = e[i - 1] + add[i]
    BY <1>10 DEF Sums
  <2>2. ASSUME NEW i \in 1 .. N PROVE e[i] = e[i - 1] + lines[i].length + 2
    <3>1. e[i - 1] \in Nat
      BY <2>1
    <3>2. QED
      BY <3>1, <2>1, <1>12, SMTT(60)
  <2>3. QED
    BY <2>1, <2>2
<1>14. QED
  BY <1>2, <1>7, <1>11, <1>13

(* Where the first loop of parse_header_field stops. *)
LEMMA FieldsReadIs ==
  ASSUME NEW lines \in Seq(Lines)
  PROVE  FieldsRead(lines) \in 0 .. Len(lines)
<1>1. PICK N \in Nat : N = Len(lines)
  BY LenProperties
<1>2. PICK stop : stop = {k \in 0 .. N : \/ k = N
                                         \/ ~lines[k + 1].field
                                         \/ k > 0 /\ lines[k].isLength}
  OBVIOUS
<1>3. stop \in SUBSET Nat /\ stop # {}
  BY <1>2
<1>4. PICK k \in stop : \A j \in stop : k <= j
  BY <1>3, LeastOf
<1>5. k \in 0 .. N
  BY <1>2
<1>6. ASSUME NEW i \in 1 .. k PROVE lines[i].field /\ (i < k => ~lines[i].isLength)
  <2>1. i - 1 \in 0 .. N /\ i - 1 \notin stop /\ (i - 1) + 1 = i
    BY <1>3, <1>4, <1>5
  <2>2. lines[i].field
    BY <2>1, <1>2
  <2>3. ASSUME i < k PROVE ~lines[i].isLength
    <3>1. i \in 0 .. N /\ i \notin stop /\ i > 0
      BY <2>3, <1>3, <1>4, <1>5
    <3>2. QED
      BY <3>1, <1>2
  <2>4. QED
    BY <2>2, <2>3
<1>7. \/ k = N
      \/ ~lines[k + 1].field
      \/ k > 0 /\ lines[k].isLength
  BY <1>2
<1>8. QED
  BY <1>1, <1>5, <1>6, <1>7 DEF FieldsRead

(***************************************************************************)
(* The second loop: f[p] is where one gets from p by steps until there is  *)
(* none.                                                                   *)
(***************************************************************************)
Stepping(M, step) == step \in [0 .. M -> 0 .. M] /\ \A p \in 0 .. M : p <= step[p]

Jumps(l, M, step, f) ==
  /\ f \in [l .. M -> 0 .. M]
  /\ \A p \in l .. M : f[p] = IF step[p] = p THEN p ELSE f[step[p]]

(* There is such a function. *)
LEMMA JumpsExist ==
  ASSUME NEW M \in Nat, NEW step, Stepping(M, step)
  PROVE  \E f : Jumps(0, M, step, f)
<1> DEFINE Bad == {d \in 0 .. M : ~ \E f : Jumps(M - d, M, step, f)}
<1>1. ASSUME Bad # {} PROVE FALSE
  <2>0. Bad \in SUBSET Nat
    OBVIOUS
  <2>1. PICK d \in Bad : \A j \in Bad : d <= j
    <3> HIDE DEF Bad
    <3>1. QED
      BY <1>1, <2>0, LeastOf
  <2>2. d \in 0 .. M /\ ~ \E f : Jumps(M - d, M, step, f)
    BY <2>1
  <2>3. PICK l \in 0 .. M : l = M - d
    BY <2>2
  <2>4. l # M
    <3>1. ASSUME l = M PROVE FALSE
      <4>1. step[M] = M
        BY DEF Stepping
      <4>2. Jumps(M, M, step, [p \in M .. M |-> M])
        BY <4>1 DEF Jumps
      <4>3. QED
        BY <4>2, <3>1, <2>2, <2>3
    <3>2. QED
      BY <3>1
  <2>5. d - 1 \in 0 .. M /\ d - 1 \notin Bad /\ M - (d - 1) = l + 1
    BY <2>1, <2>2, <2>3, <2>4
  <2>6. PICK f : Jumps(l + 1, M, step, f)
    BY <2>5
  <2>7. step[l] \in l .. M /\ \A p \in l + 1 .. M : step[p] \in l + 1 .. M
    BY DEF Stepping
  <2>8. \A p \in l + 1 .. M : f[p] \in 0 .. M /\ f[p] = IF step[p] = p THEN p ELSE f[step[p]]
    BY <2>6 DEF Jumps
  <2>9. PICK g : g = [p \in l .. M |-> IF p = l THEN IF step[l] = l THEN l ELSE f[step[l]] ELSE f[p]]
    OBVIOUS
  <2>10. step[l] # l => step[l] \in l + 1 .. M
    BY <2>7
  <2>11. g \in [l .. M -> 0 .. M]
    <3>1. ASSUME NEW p \in l .. M PROVE g[p] \in 0 .. M
      BY <2>8, <2>9, <2>10
    <3>2. QED
      BY <2>9, <3>1
  <2>12. ASSUME NEW p \in l .. M PROVE g[p] = IF step[p] = p THEN p ELSE g[step[p]]
    <3>1. CASE p = l
      <4>1. step[l] # l => g[step[l]] = f[step[l]]
        BY <2>9, <2>10
      <4>2. g[l] = IF step[l] = l THEN l ELSE f[step[l]]
        BY <2>9
      <4>3. QED
        BY <3>1, <4>1, <4>2
    <3>2. CASE p # l
      <4>1. p \in l + 1 .. M /\ step[p] \in l + 1 .. M
        BY <3>2, <2>7
      <4>2. g[p] = f[p] /\ g[step[p]] = f[step[p]]
        BY <4>1, <2>9
      <4>3. QED
        BY <4>1, <4>2, <2>8
    <3>3. QED
      BY <3>1, <3>2
  <2>13. Jumps(M - d, M, step, g)
    BY <2>3, <2>11, <2>12 DEF Jumps
  <2>14. QED
    BY <2>2, <2>13
<1>2. M \notin Bad /\ M \in 0 .. M /\ M - M = 0
  BY <1>1
<1>3. QED
  BY <1>2

(* The equation has one solution; it leads to a number from which there is *)
(* no step, and never back.                                                *)
LEMMA JumpsUnique ==
  ASSUME NEW M \in Nat, NEW step, Stepping(M, step), NEW f, Jumps(0, M, step, f),
         NEW e, e = [p \in 0 .. M |-> IF step[p] = p THEN p ELSE e[step[p]]]
  PROVE  e = f
<1> DEFINE Bad == {d \in 0 .. M : e[M - d] # f[M - d]}
<1>1. ASSUME Bad # {} PROVE FALSE
  <2>0. Bad \in SUBSET Nat
    OBVIOUS
  <2>1. PICK d \in Bad : \A j \in Bad : d <= j
    <3> HIDE DEF Bad
    <3>1. QED
      BY <1>1, <2>0, LeastOf
  <2>2. PICK p \in 0 .. M : p = M - d
    BY <2>1
  <2>3. e[p] # f[p]
    BY <2>1, <2>2
  <2>4. f[p] = IF step[p] = p THEN p ELSE f[step[p]]
    BY DEF Jumps
  <2>5. e[p] = IF step[p] = p THEN p ELSE e[step[p]]
    OBVIOUS
  <2>6. step[p] # p /\ e[step[p]] # f[step[p]]
    BY <2>3, <2>4, <2>5
  <2>7. step[p] \in p + 1 .. M
    BY <2>6 DEF Stepping
  <2>8. M - step[p] \in 0 .. M /\ M - (M - step[p]) = step[p] /\ ~(d <= M - step[p])
    BY <2>1, <2>2, <2>7
  <2>9. M - step[p] \in Bad
    BY <2>6, <2>8
  <2>10. QED
    BY <2>1, <2>8, <2>9
<1>2. ASSUME NEW p \in 0 .. M PROVE e[p] = f[p]
  <2>1. PICK d : d = M - p
    OBVIOUS
  <2>2. d \in 0 .. M /\ M - d = p
    BY <2>1
  <2>3. d \notin Bad
    <3> HIDE DEF Bad
    <3>1. QED
      BY <1>1
  <2>4. QED
    BY <2>2, <2>3
<1>3. DOMAIN e = 0 .. M /\ e = [p \in 0 .. M |-> e[p]]
  OBVIOUS
<1>4. f = [p \in 0 .. M |-> f[p]]
  BY DEF Jumps
<1>5. QED
  BY <1>2, <1>3, <1>4

(* It never leads back, nor beyond the text. *)
LEMMA JumpsForward ==
  ASSUME NEW M \in Nat, NEW step, Stepping(M, step), NEW f, Jumps(0, M, step, f)
  PROVE  \A p \in 0 .. M : f[p] \in p .. M
<1> DEFINE Bad == {d \in 0 .. M : f[M - d] \notin M - d .. M}
<1>1. ASSUME Bad # {} PROVE FALSE
  <2>0. Bad \in SUBSET Nat
    OBVIOUS
  <2>1. PICK d \in Bad : \A j \in Bad : d <= j
    <3> HIDE DEF Bad
    <3>1. QED
      BY <1>1, <2>0, LeastOf
  <2>2. PICK p \in 0 .. M : p = M - d
    BY <2>1
  <2>3. f[p] \notin p .. M
    BY <2>1, <2>2
  <2>4. f[p] = IF step[p] = p THEN p ELSE f[step[p]]
    BY DEF Jumps
  <2>5. step[p] \in p + 1 .. M /\ f[p] = f[step[p]]
    BY <2>3, <2>4 DEF Stepping
  <2>6. M - step[p] \in 0 .. M /\ M - (M - step[p]) = step[p] /\ ~(d <= M - step[p])
    BY <2>1, <2>2, <2>5
  <2>7. M - step[p] \notin Bad
    BY <2>1, <2>6
  <2>8. f[step[p]] \in step[p] .. M
    BY <2>6, <2>7
  <2>9. QED
    BY <2>3, <2>5, <2>8
<1>2. ASSUME NEW p \in 0 .. M PROVE f[p] \in p .. M
  <2>1. PICK d : d = M - p
    OBVIOUS
  <2>2. d \in 0 .. M /\ M - d = p
    BY <2>1
  <2>3. d \notin Bad
    <3> HIDE DEF Bad
    <3>1. QED
      BY <1>1
  <2>4. QED
    BY <2>2, <2>3
<1>3. QED
  BY <1>2

-------------------------------------------------------------------------------
(***************************************************************************)
(* The parser.                                                             *)
(***************************************************************************)
LEMMA RequestIs ==
  ASSUME NEW r \in Requests
  PROVE  /\ r.method \in STRING /\ r.uri \in Uris /\ r.version \in STRING
         /\ r.lines \in Seq(Lines) /\ r.complete \in BOOLEAN
         /\ r.body \in Nat
         /\ \A b \in r.blanks : b.at \in Int /\ b.run \in Nat /\ b.at + 4 <= r.body /\ b.at >= -2
         /\ r.method = "GET" \/ ~r.complete => r.body = 0
<1>1. r.blanks \subseteq BlankLines
  BY RequestsAssumption
<1>2. \A b \in r.blanks : b.at \in Int /\ b.run \in Nat
  BY <1>1 DEF BlankLines
<1>3. QED
  BY <1>2, RequestsAssumption

(* The parts of a line. *)
LEMMA ElementsOfLines ==
  ASSUME NEW lines \in Seq(Lines)
  PROVE  \A i \in 1 .. Len(lines) : /\ lines[i].length \in Nat /\ lines[i].run \in Nat
                                    /\ lines[i].number \in Nat
<1>1. \A i \in 1 .. Len(lines) : lines[i] \in Lines
  BY ElementOfSeq
<1>2. \A x \in Lines : x.length \in Nat /\ x.run \in Nat /\ x.number \in Nat
  BY DEF Lines
<1>3. QED
  BY <1>1, <1>2

(* Where the second loop starts, and how long the head is. *)
Start(r) == LineEnds(r.lines)[FieldsRead(r.lines)]

(* The length of a head, and where the first loop leaves it. *)
LEMMA HeadIs ==
  ASSUME NEW r \in Requests
  PROVE  /\ HeadLength(r) \in Nat /\ Start(r) \in 0 .. HeadLength(r)
         /\ r.complete => HeadLength(r) - 2 = LineEnds(r.lines)[Len(r.lines)]
         /\ r.complete => Start(r) <= HeadLength(r) - 2
         /\ r.complete /\ Len(r.lines) > 0 => HeadLength(r) >= 4
         /\ Len(r.lines) \in Nat /\ FieldsRead(r.lines) \in 0 .. Len(r.lines)
<1>1. r.lines \in Seq(Lines) /\ r.complete \in BOOLEAN
  BY RequestIs
<1>2. PICK e : e = LineEnds(r.lines)
  OBVIOUS
<1>3. PICK N : N = Len(r.lines)
  OBVIOUS
<1>4. /\ N \in Nat /\ e \in [0 .. N -> Nat] /\ e[0] = 0
      /\ \A i \in 1 .. N : e[i] = e[i - 1] + r.lines[i].length + 2
      /\ \A k \in 0 .. N : e[k] <= e[N]
  BY <1>1, <1>2, <1>3, LineEndsAre
<1>5. \A i \in 1 .. N : r.lines[i].length \in Nat
  BY <1>1, <1>3, ElementsOfLines
<1>6. FieldsRead(r.lines) \in 0 .. N
  BY <1>1, <1>3, FieldsReadIs
<1>7. N > 0 => e[N] >= 2
  <2>1. ASSUME N > 0 PROVE e[N] >= 2
    <3>1. N \in 1 .. N /\ N - 1 \in 0 .. N
      BY <1>4, <2>1
    <3>2. e[N] = e[N - 1] + r.lines[N].length + 2 /\ e[N - 1] \in Nat /\ r.lines[N].length \in Nat
      BY <3>1, <1>4, <1>5
    <3>3. QED
      BY <3>2
  <2>2. QED
    BY <2>1
<1>8. e[N] \in Nat /\ Start(r) \in Nat /\ Start(r) <= e[N]
  BY <1>2, <1>4, <1>6 DEF Start
<1>9. HeadLength(r) = e[N] + (IF r.complete THEN 2 ELSE 0)
  BY <1>2, <1>3 DEF HeadLength
<1>10. QED
  BY <1>2, <1>3, <1>4, <1>6, <1>7, <1>8, <1>9, SMTT(60)

(* The blank lines of the text: where they are, and that they end in it. *)
LEMMA BlanksAre ==
  ASSUME NEW r \in Requests, NEW n \in 0 .. r.body
  PROVE  \A b \in Blanks(r, n) : b.at \in Int /\ b.run \in Nat /\ b.at + 4 <= HeadLength(r) + n
<1>1. HeadLength(r) \in Nat /\ Len(r.lines) \in Nat
  BY HeadIs
<1>2. SUFFICES ASSUME NEW b \in Blanks(r, n)
               PROVE  b.at \in Int /\ b.run \in Nat /\ b.at + 4 <= HeadLength(r) + n
  OBVIOUS
<1>3. CASE \E i \in {j \in {Len(r.lines)} : j > 0 /\ r.complete} :
             b = [at |-> HeadLength(r) - 4, run |-> r.lines[i].run]
  <2>1. PICK i \in 1 .. Len(r.lines) : b = [at |-> HeadLength(r) - 4, run |-> r.lines[i].run]
    BY <1>1, <1>3
  <2>2. r.lines[i].run \in Nat
    BY RequestIs, ElementsOfLines
  <2>3. b.at = HeadLength(r) - 4 /\ b.run = r.lines[i].run
    BY <2>1
  <2>4. QED
    BY <1>1, <2>2, <2>3
<1>4. CASE \E x \in r.blanks : x.at + 4 <= n /\ b = [at |-> HeadLength(r) + x.at, run |-> x.run]
  <2>1. PICK x \in r.blanks : x.at + 4 <= n /\ b = [at |-> HeadLength(r) + x.at, run |-> x.run]
    BY <1>4
  <2>2. x.at \in Int /\ x.run \in Nat
    BY RequestIs
  <2>3. b.at = HeadLength(r) + x.at /\ b.run = x.run
    BY <2>1
  <2>4. QED
    BY <1>1, <2>1, <2>2, <2>3
<1>5. QED
  BY <1>2, <1>3, <1>4 DEF Blanks

(* A step of the second loop. *)
Ahead(r, n, p) == {b \in Blanks(r, n) : b.at >= p}

Nearest(r, n, p) == CHOOSE b \in Ahead(r, n, p) : \A x \in Ahead(r, n, p) : b.at <= x.at

Step(r, n) ==
  [p \in 0 .. HeadLength(r) + n |->
     IF Ahead(r, n, p) = {} THEN p ELSE p + MatchLength(p, Nearest(r, n, p))]

(* The next blank line is one of those ahead. *)
LEMMA NearestIs ==
  ASSUME NEW r \in Requests, NEW n \in 0 .. r.body, NEW p \in Nat, Ahead(r, n, p) # {}
  PROVE  Nearest(r, n, p) \in Ahead(r, n, p)
<1>1. \A b \in Ahead(r, n, p) : b.at \in Nat /\ b.at >= p
  BY BlanksAre DEF Ahead
<1>2. PICK S : S = {b.at : b \in Ahead(r, n, p)}
  OBVIOUS
<1>3. S \in SUBSET Nat /\ S # {}
  BY <1>1, <1>2
<1>4. PICK m \in S : \A j \in S : m <= j
  BY <1>3, LeastOf
<1>5. PICK b \in Ahead(r, n, p) : m = b.at
  BY <1>2
<1>6. \A x \in Ahead(r, n, p) : b.at <= x.at
  BY <1>2, <1>4, <1>5
<1>7. QED
  BY <1>6 DEF Nearest

(* A match leads forward, and never beyond the text. *)
LEMMA StepForward ==
  ASSUME NEW r \in Requests, NEW n \in 0 .. r.body
  PROVE  /\ HeadLength(r) + n \in Nat /\ Stepping(HeadLength(r) + n, Step(r, n))
         /\ \A p \in 0 .. HeadLength(r) + n : Step(r, n)[p] = p <=> Ahead(r, n, p) = {}
<1>1. PICK M : M = HeadLength(r) + n
  OBVIOUS
<1>2. M \in Nat
  BY <1>1, HeadIs, RequestIs
<1>3. ASSUME NEW p \in 0 .. M, Ahead(r, n, p) # {}
      PROVE  p + MatchLength(p, Nearest(r, n, p)) \in p + 1 .. M
  <2>1. PICK b : b = Nearest(r, n, p)
    OBVIOUS
  <2>2. b \in Ahead(r, n, p)
    BY <1>3, <2>1, NearestIs
  <2>3. b.at \in Int /\ b.run \in Nat /\ b.at + 4 <= M /\ b.at >= p
    BY <2>2, <1>1, BlanksAre DEF Ahead
  <2>4. p + MatchLength(p, b) \in p + 1 .. M
    BY <1>2, <2>3 DEF MatchLength
  <2>5. QED
    BY <2>1, <2>4
<1>4. ASSUME NEW p \in 0 .. M
      PROVE  Step(r, n)[p] \in p .. M /\ (Step(r, n)[p] = p <=> Ahead(r, n, p) = {})
  <2>1. Step(r, n)[p] = IF Ahead(r, n, p) = {} THEN p ELSE p + MatchLength(p, Nearest(r, n, p))
    BY <1>1 DEF Step
  <2>2. QED
    BY <1>2, <1>3, <2>1
<1>5. Step(r, n) \in [0 .. M -> 0 .. M]
  <2>1. PICK g : g = Step(r, n)
    OBVIOUS
  <2>2. DOMAIN g = 0 .. M /\ g = [p \in 0 .. M |-> g[p]]
    BY <1>1, <2>1 DEF Step
  <2>3. \A p \in 0 .. M : g[p] \in 0 .. M
    BY <1>4, <2>1
  <2>4. QED
    BY <2>1, <2>2, <2>3
<1>6. Stepping(M, Step(r, n))
  BY <1>4, <1>5 DEF Stepping
<1>7. QED
  BY <1>1, <1>2, <1>4, <1>6

(* bytes_read is where the steps lead to. *)
LEMMA BytesReadIs ==
  ASSUME NEW r \in Requests, NEW n \in 0 .. r.body
  PROVE  \E f : /\ Jumps(0, HeadLength(r) + n, Step(r, n), f)
                /\ BytesRead(r, n) = f[Start(r)]
<1>1. PICK M \in Nat : M = HeadLength(r) + n
  BY StepForward
<1>2. PICK step : step = Step(r, n)
  OBVIOUS
<1>3. /\ Stepping(M, step)
      /\ \A p \in 0 .. M : step[p] = p <=> Ahead(r, n, p) = {}
  BY <1>1, <1>2, StepForward
<1>4. PICK f : Jumps(0, M, step, f)
  BY <1>3, JumpsExist
<1>5. DEFINE Eq(e) == e = [p \in 0 .. M |->
                          LET ahead == {b \in Blanks(r, n) : b.at >= p} IN
                          IF ahead = {} THEN p
                          ELSE e[p + MatchLength(p, CHOOSE b \in ahead : \A x \in ahead : b.at <= x.at)]]
<1>6. ASSUME NEW e
      PROVE  Eq(e) <=> e = [p \in 0 .. M |-> IF step[p] = p THEN p ELSE e[step[p]]]
  <2>1. ASSUME NEW p \in 0 .. M
        PROVE  (IF Ahead(r, n, p) = {} THEN p ELSE e[p + MatchLength(p, Nearest(r, n, p))])
                 = (IF step[p] = p THEN p ELSE e[step[p]])
    <3>1. step[p] = IF Ahead(r, n, p) = {} THEN p ELSE p + MatchLength(p, Nearest(r, n, p))
      BY <1>1, <1>2 DEF Step
    <3>2. QED
      BY <3>1, <1>3
  <2>2. [p \in 0 .. M |-> IF Ahead(r, n, p) = {} THEN p ELSE e[p + MatchLength(p, Nearest(r, n, p))]]
          = [p \in 0 .. M |-> IF step[p] = p THEN p ELSE e[step[p]]]
    BY <2>1
  <2>3. Eq(e) <=> e = [p \in 0 .. M |-> IF Ahead(r, n, p) = {} THEN p ELSE e[p + MatchLength(p, Nearest(r, n, p))]]
    BY DEF Ahead, Nearest
  <2>4. QED
    BY <2>2, <2>3
<1>7. Eq(f)
  <2>1. f = [p \in 0 .. M |-> IF step[p] = p THEN p ELSE f[step[p]]]
    BY <1>4 DEF Jumps
  <2>2. QED
    BY <2>1, <1>6
<1>8. PICK e : e = CHOOSE x : Eq(x)
  OBVIOUS
<1>9. Eq(e)
  <2> HIDE DEF Eq
  <2>1. Eq(CHOOSE x : Eq(x))
    BY <1>7, Zenon
  <2>2. QED
    BY <2>1, <1>8
<1>10. BytesRead(r, n) = e[Start(r)]
  BY <1>1, <1>8 DEF BytesRead, Start
<1>11. e = f
  <2>1. e = [p \in 0 .. M |-> IF step[p] = p THEN p ELSE e[step[p]]]
    BY <1>6, <1>9
  <2>2. QED
    BY <2>1, <1>3, <1>4, JumpsUnique
<1>12. QED
  BY <1>1, <1>2, <1>4, <1>10, <1>11

(* Remainders. *)
LEMMA Remainders ==
  ASSUME NEW m \in Nat, m > 0, NEW d \in Nat
  PROVE  /\ d < m => d % m = d
         /\ d >= m => d % m = (d - m) % m
<1>1. PICK q \in Int, r \in Int : q = d \div m /\ r = d % m
  OBVIOUS
<1>2. d = m * q + r
  BY <1>1
<1>3. r \in 0 .. m - 1
  BY <1>1
<1>4. d < m => d % m = d
  OBVIOUS
<1>5. d - m = m * (q - 1) + r
  BY <1>2
<1>6. (m * (q - 1) + r) % m = r
  <2>1. PICK k \in Int : k = q - 1
    OBVIOUS
  <2>2. (m * k + r) % m = r
    BY <1>3
  <2>3. QED
    BY <2>1, <2>2
<1>7. (d - m) % m = r
  BY <1>5, <1>6
<1>8. QED
  BY <1>1, <1>4, <1>7

(* The bounds of the offset, whatever the text is. *)
LEMMA OffsetIs ==
  ASSUME NEW r \in Requests, NEW n \in 0 .. r.body
  PROVE  Offset(r, n) \in Int /\ -2 <= n - Offset(r, n) /\ n - Offset(r, n) <= HeadLength(r) + n
<1>1. HeadLength(r) \in Nat /\ Start(r) \in 0 .. HeadLength(r) /\ r.body \in Nat /\ n \in Nat
  BY HeadIs, RequestIs
<1>2. PICK M \in Nat : M = HeadLength(r) + n
  BY <1>1
<1>3. PICK f : Jumps(0, M, Step(r, n), f) /\ BytesRead(r, n) = f[Start(r)]
  BY <1>2, BytesReadIs
<1>4. Stepping(M, Step(r, n))
  BY <1>2, StepForward
<1>5. Start(r) \in 0 .. M
  BY <1>1, <1>2
<1>6. BytesRead(r, n) \in Start(r) .. M
  BY <1>3, <1>4, <1>5, JumpsForward
<1>7. QED
  BY <1>1, <1>2, <1>5, <1>6 DEF Offset

(***************************************************************************)
(* When the text has one blank line, that at the end of the head, steps    *)
(* from in front of it lead to its end, or up to three characters around.  *)
(***************************************************************************)
OneBlankSteps(M, H, run, step) ==
  \A p \in 0 .. M :
    step[p] = IF p > H - 4 THEN p ELSE p + (IF run < H - 4 - p THEN run ELSE H - 4 - p) + 4

OneBlankEnds(H, run, f) ==
  \A d \in 0 .. H - 2 : /\ f[H - 2 - d] \in H - 3 .. H
                        /\ f[H - 2 - d] = H - 2 <=> d % (run + 4) = 0

(* Steps of run + 4 from in front of the blank line, to its end or around it. *)
LEMMA OneBlank ==
  ASSUME NEW H \in Nat, H >= 4, NEW n \in Nat, NEW run \in Nat, NEW M, M = H + n,
         NEW step, Stepping(M, step), NEW f, Jumps(0, M, step, f),
         OneBlankSteps(M, H, run, step)
  PROVE  OneBlankEnds(H, run, f)
<1> DEFINE Fine(d) == /\ f[H - 2 - d] \in H - 3 .. H
                      /\ f[H - 2 - d] = H - 2 <=> d % (run + 4) = 0
           Bad == {d \in 0 .. H - 2 : ~Fine(d)}
<1>0. \A p \in 0 .. H + n :
        step[p] = IF p > H - 4 THEN p ELSE p + (IF run < H - 4 - p THEN run ELSE H - 4 - p) + 4
  BY DEF OneBlankSteps
<1>1. \A p \in 0 .. H + n : f[p] = IF step[p] = p THEN p ELSE f[step[p]]
  BY DEF Jumps
<1>2. ASSUME NEW p \in H - 3 .. H PROVE f[p] = p
  <2>1. p \in 0 .. H + n /\ p > H - 4
    OBVIOUS
  <2>2. QED
    BY <2>1, <1>0, <1>1
<1>3. ASSUME NEW d \in 0 .. H - 2, \A j \in 0 .. d - 1 : Fine(j) PROVE Fine(d)
  <2>1. PICK p : p = H - 2 - d
    OBVIOUS
  <2>2. p \in 0 .. H - 2 /\ p \in 0 .. H + n
    BY <2>1
  <2>3. PICK m \in Nat : m = run + 4
    OBVIOUS
  <2>4. m >= 4 /\ d \in Nat
    BY <2>3
  <2>5. d < m => d % m = d
    BY <2>4, Remainders
  <2>6. d >= m => d % m = (d - m) % m
    BY <2>4, Remainders
  <2>7. SUFFICES f[p] \in H - 3 .. H /\ (f[p] = H - 2 <=> d % m = 0)
    BY <2>1, <2>3
  <2>8. CASE d < 2
    <3>1. p \in H - 3 .. H
      BY <2>1, <2>8
    <3>2. f[p] = p
      BY <3>1, <1>2
    <3>3. d % m = d
      BY <2>4, <2>5, <2>8
    <3>4. QED
      BY <3>1, <3>2, <3>3, <2>1
  <2>9. CASE d >= 2 /\ ~(run < d - 2)
    <3>1. H - 4 - p = d - 2 /\ ~(p > H - 4)
      BY <2>1, <2>9
    <3>2. step[p] = p + (d - 2) + 4
      BY <3>1, <2>2, <2>9, <1>0
    <3>3. step[p] = H /\ H # p
      BY <3>2, <2>1, <2>9
    <3>4. f[p] = H
      <4>1. f[H] = H
        BY <1>2
      <4>2. QED
        BY <4>1, <3>3, <2>2, <1>1
    <3>5. d % m = d
      BY <2>3, <2>4, <2>5, <2>9
    <3>6. QED
      BY <3>4, <3>5, <2>9
  <2>10. CASE d >= 2 /\ run < d - 2
    <3>1. H - 4 - p = d - 2 /\ ~(p > H - 4)
      BY <2>1, <2>10
    <3>2. step[p] = p + run + 4
      BY <3>1, <2>2, <2>10, <1>0
    <3>3. PICK q : q = p + m
      OBVIOUS
    <3>4. step[p] = q /\ q # p /\ q <= H /\ q \in Int
      BY <3>2, <3>3, <2>1, <2>2, <2>3, <2>4, <2>10
    <3>5. f[p] = f[q]
      BY <3>4, <2>2, <1>1
    <3>6. CASE d < m
      <4>1. q \in H - 1 .. H
        BY <3>6, <3>3, <3>4, <2>1
      <4>2. f[q] = q
        BY <4>1, <1>2
      <4>3. d % m = d
        BY <3>6, <2>5
      <4>4. QED
        BY <4>1, <4>2, <4>3, <3>5, <2>10
    <3>7. CASE d >= m
      <4>1. PICK j : j = d - m
        OBVIOUS
      <4>2. j \in 0 .. d - 1 /\ q = H - 2 - j
        BY <4>1, <3>3, <3>7, <2>1, <2>4
      <4>3. f[q] \in H - 3 .. H /\ (f[q] = H - 2 <=> j % m = 0)
        BY <4>2, <1>3, <2>3
      <4>4. d % m = j % m
        BY <4>1, <3>7, <2>6
      <4>5. QED
        BY <4>3, <4>4, <3>5
    <3>8. QED
      BY <3>6, <3>7, <2>4
  <2>11. QED
    BY <2>8, <2>9, <2>10, <2>4
<1>4. ASSUME Bad # {} PROVE FALSE
  <2>0. Bad \in SUBSET Nat
    OBVIOUS
  <2>1. PICK d \in Bad : \A j \in Bad : d <= j
    <3> HIDE DEF Bad
    <3>1. QED
      BY <1>4, <2>0, LeastOf
  <2>2. d \in 0 .. H - 2 /\ ~Fine(d)
    BY <2>1
  <2>3. \A j \in 0 .. d - 1 : j \in 0 .. H - 2 /\ ~(d <= j)
    BY <2>2
  <2> HIDE DEF Fine
  <2>4. \A j \in 0 .. d - 1 : Fine(j)
    BY <2>1, <2>3
  <2>5. QED
    BY <2>2, <2>4, <1>3
<1>5. \A d \in 0 .. H - 2 : Fine(d)
  <2> HIDE DEF Fine
  <2>1. QED
    BY <1>4
<1>6. QED
  BY <1>5 DEF OneBlankEnds

(* BodyOffset, of the offset that parse computes. *)
OffsetRight(r, n, o) ==
  LET rest == Len(r.lines) - FieldsRead(r.lines)
      line == r.lines[Len(r.lines)] IN
  /\ rest = 0 => o = 0
  /\ rest = 1 => (o = 0 <=> (line.length + 2) % (line.run + 4) = 0)
  /\ o \in -1 .. 2

(* By the number of lines of the head: none, or the blank line at its end is the only one. *)
LEMMA OffsetRightIs ==
  ASSUME NEW r \in Requests, NEW n \in 0 .. r.body, r.complete,
         Blanks(r, n) \subseteq Blanks(r, 0)
  PROVE  OffsetRight(r, n, Offset(r, n))
<1>1. PICK N, H, s, k : /\ N = Len(r.lines) /\ H = HeadLength(r) /\ s = Start(r)
                        /\ k = FieldsRead(r.lines)
  OBVIOUS
<1>2. /\ r.lines \in Seq(Lines) /\ r.body \in Nat /\ n \in Nat
      /\ N \in Nat /\ H \in Nat /\ k \in 0 .. N /\ s \in 0 .. H - 2
      /\ N > 0 => H >= 4
  BY <1>1, RequestIs, HeadIs
<1>3. PICK e : e = LineEnds(r.lines)
  OBVIOUS
<1>4. /\ e \in [0 .. N -> Nat] /\ e[0] = 0 /\ e[N] = H - 2 /\ s = e[k]
      /\ \A i \in 1 .. N : e[i] = e[i - 1] + r.lines[i].length + 2
  BY <1>1, <1>2, <1>3, LineEndsAre, HeadIs DEF Start
<1>5. PICK M \in Nat : M = H + n
  BY <1>2
<1>6. PICK step : step = Step(r, n)
  OBVIOUS
<1>7. Stepping(M, step) /\ \A p \in 0 .. M : step[p] = p <=> Ahead(r, n, p) = {}
  BY <1>1, <1>5, <1>6, StepForward
<1>8. PICK f : Jumps(0, M, step, f) /\ BytesRead(r, n) = f[s]
  BY <1>1, <1>5, <1>6, BytesReadIs
<1>9. Offset(r, n) = f[s] + 2 - H
  <2>1. H + n # 0
    BY <1>2
  <2>2. QED
    BY <2>1, <1>1, <1>8 DEF Offset
<1>10. ASSUME NEW b \in Blanks(r, 0)
       PROVE  N > 0 /\ b = [at |-> H - 4, run |-> r.lines[N].run]
  <2>1. CASE \E i \in {j \in {Len(r.lines)} : j > 0 /\ r.complete} :
               b = [at |-> HeadLength(r) - 4, run |-> r.lines[i].run]
    BY <2>1, <1>1
  <2>2. CASE \E x \in r.blanks : x.at + 4 <= 0 /\ b = [at |-> HeadLength(r) + x.at, run |-> x.run]
    <3>1. PICK x \in r.blanks : x.at + 4 <= 0
      BY <2>2
    <3>2. x.at \in Int /\ x.at >= -2
      BY RequestIs
    <3>3. QED
      BY <3>1, <3>2
  <2>3. QED
    BY <2>1, <2>2 DEF Blanks
<1>11. CASE N = 0
  <2>1. Blanks(r, n) = {}
    BY <1>10, <1>11
  <2>2. s = 0 /\ H = 2 /\ k = 0
    BY <1>2, <1>4, <1>11
  <2>3. 0 \in 0 .. M /\ Ahead(r, n, 0) = {}
    BY <2>1, <1>5 DEF Ahead
  <2>4. f[0] = 0
    BY <2>3, <1>7, <1>8 DEF Jumps
  <2>5. Offset(r, n) = 0
    BY <2>2, <2>4, <1>9
  <2>6. QED
    BY <2>2, <2>5, <1>1, <1>11 DEF OffsetRight
<1>12. CASE N > 0
  <2>1. PICK run \in Nat : run = r.lines[N].run
    BY <1>1, <1>2, <1>12, ElementsOfLines, SMTT(60)
  <2>2. PICK b : b = [at |-> H - 4, run |-> run]
    OBVIOUS
  <2>3. b.at = H - 4 /\ b.run = run /\ H >= 4 /\ H - 4 \in Nat
    BY <2>2, <1>2, <1>12
  <2>4. Blanks(r, n) = {b}
    <3>1. b \in Blanks(r, n)
      <4>1. b = [at |-> HeadLength(r) - 4, run |-> r.lines[Len(r.lines)].run]
        BY <1>1, <2>1, <2>2
      <4>2. Len(r.lines) \in {j \in {Len(r.lines)} : j > 0 /\ r.complete}
        BY <1>1, <1>12
      <4>3. QED
        BY <4>1, <4>2 DEF Blanks
    <3>2. \A x \in Blanks(r, n) : x = b
      BY <1>10, <2>1, <2>2
    <3>3. QED
      BY <3>1, <3>2
  <2>5. ASSUME NEW p \in 0 .. M
        PROVE  step[p] = IF p > H - 4 THEN p ELSE p + (IF run < H - 4 - p THEN run ELSE H - 4 - p) + 4
    <3>1. step[p] = IF Ahead(r, n, p) = {} THEN p ELSE p + MatchLength(p, Nearest(r, n, p))
      BY <1>1, <1>5, <1>6 DEF Step
    <3>2. CASE p > H - 4
      <4>1. Ahead(r, n, p) = {}
        BY <2>3, <2>4, <3>2 DEF Ahead
      <4>2. QED
        BY <3>1, <3>2, <4>1
    <3>3. CASE ~(p > H - 4)
      <4>1. Ahead(r, n, p) = {b}
        BY <2>3, <2>4, <3>3 DEF Ahead
      <4>2. Nearest(r, n, p) = b
        <5>1. Nearest(r, n, p) \in Ahead(r, n, p)
          BY <4>1, NearestIs
        <5>2. QED
          BY <4>1, <5>1
      <4>3. MatchLength(p, b) = (IF run < H - 4 - p THEN run ELSE H - 4 - p) + 4
        BY <2>3 DEF MatchLength
      <4>4. step[p] = p + ((IF run < H - 4 - p THEN run ELSE H - 4 - p) + 4)
        BY <3>1, <4>1, <4>2, <4>3
      <4>5. QED
        BY <3>3, <4>4, <2>3
    <3>4. QED
      BY <3>2, <3>3
  <2>6. \A d \in 0 .. H - 2 : /\ f[H - 2 - d] \in H - 3 .. H
                              /\ f[H - 2 - d] = H - 2 <=> d % (run + 4) = 0
    <3>1. OneBlankSteps(M, H, run, step)
      BY <2>5 DEF OneBlankSteps
    <3>2. OneBlankEnds(H, run, f)
      BY <3>1, <1>2, <1>5, <1>7, <1>8, <2>3, OneBlank
    <3>3. QED
      BY <3>2 DEF OneBlankEnds
  <2>7. PICK d : d = H - 2 - s
    OBVIOUS
  <2>8. d \in 0 .. H - 2 /\ s = H - 2 - d
    BY <2>7, <1>2
  <2>9. f[s] \in H - 3 .. H /\ (f[s] = H - 2 <=> d % (run + 4) = 0)
    BY <2>6, <2>8
  <2>10. Offset(r, n) \in -1 .. 2 /\ (Offset(r, n) = 0 <=> d % (run + 4) = 0)
    BY <2>9, <1>2, <1>9, SMTT(60)
  <2>11. N - k = 0 => Offset(r, n) = 0
    <3>1. ASSUME N - k = 0 PROVE Offset(r, n) = 0
      <4>1. k = N /\ d = 0 /\ run + 4 \in Nat /\ run + 4 > 0
        BY <3>1, <1>2, <1>4, <2>7
      <4>2. 0 % (run + 4) = 0
        BY <4>1, Remainders
      <4>3. QED
        BY <4>1, <4>2, <2>10
    <3>2. QED
      BY <3>1
  <2>12. N - k = 1 => d = r.lines[N].length + 2
    <3>1. ASSUME N - k = 1 PROVE d = r.lines[N].length + 2
      <4>1. k = N - 1 /\ N \in 1 .. N
        BY <3>1, <1>2
      <4>2. e[N] = e[N - 1] + r.lines[N].length + 2 /\ e[N - 1] \in Nat
        BY <4>1, <1>2, <1>4
      <4>3. r.lines[N].length \in Nat
        BY <4>1, <1>1, <1>2, ElementsOfLines
      <4>4. QED
        BY <4>1, <4>2, <4>3, <1>4, <2>7, SMTT(60)
    <3>2. QED
      BY <3>1
  <2>13. QED
    BY <2>1, <2>10, <2>11, <2>12, <1>1 DEF OffsetRight
<1>13. QED
  BY <1>2, <1>11, <1>12

-------------------------------------------------------------------------------
(***************************************************************************)
(* What was answered.  These definitions are RoundTrip, CodesTell and      *)
(* StoredExactly of one answer s, with the number i, after those in log.   *)
(***************************************************************************)
PutsIn(log, u, i) == {j \in 1 .. i - 1 : log[j].req.method = "PUT" /\ log[j].opened
                                           /\ log[j].req.uri = u}

LastOf(P, j) == j \in P /\ \A y \in P : y <= j

(* c is what the PUT e with the number j sent, if that is to be right.      *)
SentBy(c, e, j) ==
  e.code # 400 /\ FieldsRead(e.req.lines) > 0 =>
    \A n \in Announced(e.req) : Right(e, n) => c = Sent(e, j, n)

(* What a file holds before the request with number i: what it held first, *)
(* or what the last PUT that opened it stored.                             *)
Holds(log, c, u, i) ==
  /\ PutsIn(log, u, i) = {} => c = Content0[u]
  /\ \A j : LastOf(PutsIn(log, u, i), j) => SentBy(c, log[j], j)

Stored(c, s, i) ==
  s.req.method = "PUT" /\ s.code \in {200, 201} /\ FieldsRead(s.req.lines) > 0 =>
    \A n \in Announced(s.req) : c = Sent(s, i, n) <=> Right(s, n)

ReadBack(log, s, i) ==
  s.req.method = "GET" /\ s.code = 200 =>
    IF ~s.opened THEN s.body = <<Phrase>> /\ Kind0[s.req.uri] = "denied"
    ELSE Holds(log, s.body, s.req.uri, i)

Missing(log, u, i) == Kind0[u] \in {"absent", "uncreatable"} /\ PutsIn(log, u, i) = {}

CodeRight(log, s, i) ==
  /\ s.req.method = "PUT" => /\ s.code = 201 => Missing(log, s.req.uri, i)
                             /\ s.code = 200 => ~Missing(log, s.req.uri, i)
  /\ s.req.method = "GET" => /\ s.code = 404 => Missing(log, s.req.uri, i)
                             /\ s.code \in {200, 403} => ~Missing(log, s.req.uri, i)

Told(log, s, i) ==
  /\ s.req \in Requests /\ s.code \in Codes
  /\ s.req.method = "PUT" /\ s.opened =>
       s.code \in {200, 201, 400} /\ Kind0[s.req.uri] \in {"file", "absent"}
  /\ CodeRight(log, s, i) /\ ReadBack(log, s, i)

(* A PUT of u that opened it. *)
Overwrites(e, u) == e.req.method = "PUT" /\ e.opened /\ e.req.uri = u

(* One more answer does not change what the earlier ones said. *)
LEMMA EarlierKept ==
  ASSUME NEW log, NEW e, \E S : log \in Seq(S), NEW i \in 1 .. Len(log) + 1
  PROVE  /\ \A u : PutsIn(Append(log, e), u, i) = PutsIn(log, u, i)
         /\ \A c, u : Holds(log, c, u, i) => Holds(Append(log, e), c, u, i)
         /\ \A s : Told(log, s, i) => Told(Append(log, e), s, i)
<1>1. PICK L : L = Append(log, e)
  OBVIOUS
<1>2. Len(log) \in Nat /\ \A j \in 1 .. Len(log) : L[j] = log[j]
  BY <1>1, Appended
<1>3. \A j \in 1 .. i - 1 : L[j] = log[j]
  BY <1>2
<1>4. ASSUME NEW u PROVE PutsIn(L, u, i) = PutsIn(log, u, i)
  BY <1>3 DEF PutsIn
<1>5. ASSUME NEW c, NEW u, Holds(log, c, u, i) PROVE Holds(L, c, u, i)
  <2>1. \A j \in PutsIn(log, u, i) : L[j] = log[j]
    BY <1>3 DEF PutsIn
  <2>2. PutsIn(L, u, i) = PutsIn(log, u, i)
    BY <1>4
  <2>3. PICK P : P = PutsIn(log, u, i)
    OBVIOUS
  <2>4. PutsIn(L, u, i) = P /\ \A j \in P : L[j] = log[j]
    BY <2>1, <2>2, <2>3
  <2>5. P = {} => c = Content0[u]
    BY <1>5, <2>3 DEF Holds
  <2>6. ASSUME NEW j, LastOf(P, j) PROVE SentBy(c, L[j], j)
    <3>1. L[j] = log[j]
      BY <2>4, <2>6 DEF LastOf
    <3>2. SentBy(c, log[j], j)
      BY <1>5, <2>3, <2>6 DEF Holds
    <3>3. QED
      BY <3>1, <3>2
  <2>7. QED
    BY <2>4, <2>5, <2>6 DEF Holds
<1>6. ASSUME NEW s, Told(log, s, i) PROVE Told(L, s, i)
  <2>1. CodeRight(L, s, i)
    BY <1>4, <1>6 DEF Told, CodeRight, Missing
  <2>2. ReadBack(L, s, i)
    BY <1>5, <1>6 DEF Told, ReadBack
  <2>3. QED
    BY <1>6, <2>1, <2>2 DEF Told
<1>7. QED
  BY <1>1, <1>4, <1>5, <1>6

(* A PUT that opened the file is the last one, any other answer is none.   *)
LEMMA NextPuts ==
  ASSUME NEW log, NEW e, \E S : log \in Seq(S), NEW u
  PROVE  PutsIn(Append(log, e), u, Len(log) + 2)
           = PutsIn(log, u, Len(log) + 1) \cup (IF Overwrites(e, u) THEN {Len(log) + 1} ELSE {})
<1>1. PICK L : L = Append(log, e)
  OBVIOUS
<1>2. PICK N \in Nat : N = Len(log)
  BY Appended
<1>3. L[N + 1] = e /\ \A j \in 1 .. N : L[j] = log[j]
  BY <1>1, <1>2, Appended
<1>4. PutsIn(L, u, N + 2) = {j \in 1 .. N + 1 : Overwrites(L[j], u)}
  BY DEF PutsIn, Overwrites
<1>5. PutsIn(log, u, N + 1) = {j \in 1 .. N : Overwrites(log[j], u)}
  BY DEF PutsIn, Overwrites
<1>6. {j \in 1 .. N + 1 : Overwrites(L[j], u)}
        = {j \in 1 .. N : Overwrites(log[j], u)} \cup (IF Overwrites(e, u) THEN {N + 1} ELSE {})
  BY <1>3
<1>7. QED
  BY <1>1, <1>2, <1>4, <1>5, <1>6

(* What a file holds after one more answer. *)
LEMMA HoldsNext ==
  ASSUME NEW log, NEW e, \E S : log \in Seq(S), NEW u, NEW c,
         IF Overwrites(e, u)
           THEN e.code \in {200, 201, 400} /\ Stored(c, e, Len(log) + 1)
           ELSE Holds(log, c, u, Len(log) + 1)
  PROVE  Holds(Append(log, e), c, u, Len(log) + 2)
<1>1. PICK L : L = Append(log, e)
  OBVIOUS
<1>2. PICK N \in Nat : N = Len(log)
  BY Appended
<1>3. PICK P : P = PutsIn(L, u, N + 2)
  OBVIOUS
<1>4. CASE Overwrites(e, u)
  <2>1. P = PutsIn(log, u, N + 1) \cup {N + 1} /\ P \subseteq 1 .. N + 1
    <3>1. P \subseteq 1 .. N + 1
      BY <1>3 DEF PutsIn
    <3>2. QED
      BY <3>1, <1>1, <1>2, <1>3, <1>4, NextPuts
  <2>2. \A j : LastOf(P, j) => j = N + 1
    BY <2>1 DEF LastOf
  <2>3. L[N + 1] = e
    BY <1>1, <1>2, Appended
  <2>4. e.code # 400 => e.req.method = "PUT" /\ e.code \in {200, 201}
    BY <1>4 DEF Overwrites
  <2>5. Stored(c, e, N + 1)
    BY <1>2, <1>4
  <2>6. P # {}
    BY <2>1
  <2>7. ASSUME NEW j, LastOf(P, j) PROVE SentBy(c, L[j], j)
    <3>1. j = N + 1 /\ L[j] = e
      BY <2>2, <2>3, <2>7
    <3>2. SentBy(c, e, N + 1)
      BY <2>4, <2>5 DEF Stored, SentBy
    <3>3. QED
      BY <3>1, <3>2
  <2>8. Holds(L, c, u, N + 2)
    BY <1>3, <2>6, <2>7 DEF Holds
  <2>9. QED
    BY <1>1, <1>2, <2>8
<1>5. CASE ~Overwrites(e, u)
  <2>1. P = PutsIn(log, u, N + 1)
    BY <1>1, <1>2, <1>3, <1>5, NextPuts
  <2>2. Holds(log, c, u, N + 1)
    BY <1>2, <1>5
  <2>3. \A j \in P : L[j] = log[j]
    <3>1. \A j \in P : j \in 1 .. N
      BY <2>1 DEF PutsIn
    <3>2. QED
      BY <3>1, <1>1, <1>2, Appended
  <2>4. P = {} => c = Content0[u]
    BY <2>1, <2>2 DEF Holds
  <2>5. ASSUME NEW j, LastOf(P, j) PROVE SentBy(c, L[j], j)
    <3>1. L[j] = log[j]
      BY <2>3, <2>5 DEF LastOf
    <3>2. SentBy(c, log[j], j)
      BY <2>1, <2>2, <2>5 DEF Holds
    <3>3. QED
      BY <3>1, <3>2
  <2>6. Holds(L, c, u, N + 2)
    BY <1>3, <2>4, <2>5 DEF Holds
  <2>7. QED
    BY <1>1, <1>2, <2>6
<1>6. QED
  BY <1>4, <1>5

-------------------------------------------------------------------------------
(***************************************************************************)
(* The body of a PUT.                                                      *)
(***************************************************************************)
(* A function on 1..k is a sequence, empty when k is negative. *)
LEMMA SequenceOf ==
  ASSUME NEW k \in Int, NEW S, NEW b \in [1 .. k -> S]
  PROVE  b \in Seq(S) /\ Len(b) = (IF k < 0 THEN 0 ELSE k)
<1>1. PICK K \in Nat : K = IF k < 0 THEN 0 ELSE k
  OBVIOUS
<1>2. 1 .. k = 1 .. K
  BY <1>1
<1>3. b \in [1 .. K -> S]
  BY <1>2
<1>4. b \in Seq(S) /\ Len(b) = K
  BY <1>3
<1>5. QED
  BY <1>1, <1>4

(* A loop that writes bytes and does not fail has written all of them. *)
LEMMA WritingIs ==
  ASSUME NEW S, NEW b \in Seq(S), NEW out \in Writing(b)
  PROVE  out.bytes \in Seq(S) /\ out.failed \in BOOLEAN /\ (~out.failed => out.bytes = b)
<1>1. PICK m \in 0 .. Len(b) : out = [bytes |-> SubSeq(b, 1, m), failed |-> m < Len(b)]
  BY DEF Writing
<1>2. Len(b) \in Nat /\ SubSeq(b, 1, m) \in Seq(S)
  OBVIOUS
<1>3. m = Len(b) => SubSeq(b, 1, m) = b
  OBVIOUS
<1>4. out.bytes = SubSeq(b, 1, m) /\ out.failed \in BOOLEAN /\ (out.failed <=> m < Len(b))
  <2>1. PICK p \in BOOLEAN : p <=> m < Len(b)
    OBVIOUS
  <2>2. p = (m < Len(b))
    BY <2>1
  <2>3. out = [bytes |-> SubSeq(b, 1, m), failed |-> p]
    BY <1>1, <2>2, Zenon
  <2>4. out.bytes = SubSeq(b, 1, m) /\ out.failed = p
    BY <2>3
  <2>5. QED
    BY <2>1, <2>4
<1>5. m < Len(b) \/ m = Len(b)
  BY <1>2
<1>6. ~out.failed => m = Len(b)
  BY <1>4, <1>5
<1>7. QED
  BY <1>2, <1>3, <1>4, <1>6

(* Writing to a file that is empty. *)
LEMMA OverEmpty ==
  ASSUME NEW S, NEW b \in Seq(S)
  PROVE  Over(<< >>, b) = b
<1>1. PICK k : k = Len(b)
  OBVIOUS
<1>2. k \in Nat
  BY <1>1
<1>3. SubSeq(<< >>, k + 1, Len(<< >>)) = << >>
  BY <1>2
<1>4. b \o << >> = b
  OBVIOUS
<1>5. QED
  BY <1>1, <1>3, <1>4 DEF Over

(* The byte at position i of what write_all is given, and of what is left  *)
(* in the socket.                                                          *)
TextByte(i) == IF off + i <= 0 THEN InHead
               ELSE IF off + i <= got THEN <<Len(served) + 1, off + i>> ELSE Junk

Last(n) == IF got + n < req.body THEN got + n ELSE req.body
Rest(n) == [i \in 1 .. Last(n) - got |-> <<Len(served) + 1, got + i>>]

(* The bytes that write_all is given. *)
LEMMA TextIs ==
  ASSUME NEW n \in Int, off \in Int, got \in Nat, Len(served) + 1 \in 1 .. MaxRequests
  PROVE  /\ Text(off + 1, off + n) \in Seq(Bytes)
         /\ Len(Text(off + 1, off + n)) = IF n < 0 THEN 0 ELSE n
         /\ \A i \in 1 .. n : Text(off + 1, off + n)[i] = TextByte(i)
<1>1. off + n - (off + 1) + 1 = n
  OBVIOUS
<1>2. ASSUME NEW i \in 1 .. n
      PROVE  off + 1 + i - 1 = off + i /\ TextByte(i) \in Bytes
  <2>1. off + i <= got /\ off + i > 0 => <<Len(served) + 1, off + i>> \in Bytes
    BY DEF Bytes
  <2>2. InHead \in Bytes /\ Junk \in Bytes
    BY DEF Bytes
  <2>3. QED
    BY <2>1, <2>2 DEF TextByte
<1>3. Text(off + 1, off + n) = [i \in 1 .. n |-> TextByte(i)]
  BY <1>1, <1>2 DEF Text, TextByte
<1>4. [i \in 1 .. n |-> TextByte(i)] \in [1 .. n -> Bytes]
  BY <1>2
<1>5. QED
  BY <1>3, <1>4, SequenceOf

(* The bytes that are left in the socket. *)
LEMMA RestIs ==
  ASSUME NEW n \in Int, req \in Requests, got \in 0 .. req.body,
         Len(served) + 1 \in 1 .. MaxRequests
  PROVE  /\ Last(n) - got \in Int
         /\ Rest(n) \in Seq(Bytes)
         /\ Len(Rest(n)) = IF Last(n) < got THEN 0 ELSE Last(n) - got
         /\ \A i \in 1 .. Last(n) - got : Rest(n)[i] = <<Len(served) + 1, got + i>>
<1>1. req.body \in Nat /\ Last(n) \in Int /\ got \in Nat
  BY RequestIs DEF Last
<1>2. PICK k \in Int : k = Last(n) - got
  BY <1>1
<1>3. \A i \in 1 .. k : <<Len(served) + 1, got + i>> \in Bytes
  BY <1>1 DEF Bytes
<1>4. Rest(n) = [i \in 1 .. k |-> <<Len(served) + 1, got + i>>]
  BY <1>2 DEF Rest
<1>5. Rest(n) \in [1 .. k -> Bytes]
  BY <1>3, <1>4
<1>6. Rest(n) \in Seq(Bytes) /\ Len(Rest(n)) = IF k < 0 THEN 0 ELSE k
  BY <1>5, SequenceOf
<1>7. k < 0 <=> Last(n) < got
  BY <1>1, <1>2
<1>8. \A i \in 1 .. k : Rest(n)[i] = <<Len(served) + 1, got + i>>
  BY <1>4
<1>9. QED
  BY <1>2, <1>6, <1>7, <1>8

(* What either way of writing the body has written. *)
Moved(n) == IF InBuffer(n) THEN Text(off + 1, off + n) ELSE Rest(n)

(* Either loop writes bytes, and all of them if it does not fail. *)
LEMMA OutIs ==
  ASSUME req \in Requests, got \in 0 .. req.body, off \in Int,
         Len(served) + 1 \in 1 .. MaxRequests,
         NEW n \in Int, NEW out \in IF InBuffer(n) THEN WriteAll(n) ELSE PassBytes(n)
  PROVE  out.bytes \in Seq(Bytes) /\ out.failed \in BOOLEAN /\ (~out.failed => out.bytes = Moved(n))
<1>1. got \in Nat
  BY RequestIs
<1>2. CASE InBuffer(n)
  <2>1. out \in Writing(Text(off + 1, off + n)) /\ Text(off + 1, off + n) \in Seq(Bytes)
    BY <1>1, <1>2, TextIs DEF WriteAll
  <2>2. QED
    BY <2>1, <1>2, WritingIs DEF Moved
<1>3. CASE ~InBuffer(n)
  <2>1. Rest(n) \in Seq(Bytes)
    BY RestIs
  <2>2. out \in Writing(Rest(n))
          \cup {[bytes |-> Rest(n), failed |-> TRUE] : m \in {x \in {n} : x > Len(Rest(n))}}
    BY <1>3 DEF PassBytes, Rest, Last
  <2>3. CASE out \in Writing(Rest(n))
    BY <2>1, <2>3, <1>3, WritingIs DEF Moved
  <2>4. CASE out = [bytes |-> Rest(n), failed |-> TRUE]
    BY <2>1, <2>4
  <2>5. QED
    BY <2>2, <2>3, <2>4
<1>4. QED
  BY <1>2, <1>3

(* A sequence whose elements are known. *)
LEMMA SameSequence ==
  ASSUME NEW S, NEW b \in Seq(S), NEW K \in Nat, NEW N,
         Len(b) = K, \A i \in 1 .. K : b[i] = <<N, i>>
  PROVE  b = [i \in 1 .. K |-> <<N, i>>]
<1>1. b \in [1 .. K -> S]
  OBVIOUS
<1>2. b = [i \in 1 .. K |-> b[i]]
  BY <1>1
<1>3. QED
  BY <1>2

(***************************************************************************)
(* The offset is at most two more than what was read, and what was read    *)
(* less than 2^16: the 16-bit test of bufsize is the test for off = got.   *)
(***************************************************************************)
LEMMA SixteenBits ==
  ASSUME NEW d \in Int, d + 2 >= 0, d <= 65535
  PROVE  d % 65536 # 0 <=> d # 0
<1>1. ASSUME d >= 0 PROVE d % 65536 = d
  BY <1>1
<1>2. ASSUME d < 0 PROVE d % 65536 # 0
  BY <1>2
<1>3. QED
  BY <1>1, <1>2

(***************************************************************************)
(* The heart of StoredExactly: what was written is the body, up to n bytes *)
(* of it, exactly when n is 0, or the body's start was found and none or   *)
(* all of the n bytes had been read.                                       *)
(***************************************************************************)
LEMMA MovedIs ==
  ASSUME req \in Requests, got \in 0 .. req.body, off \in Int,
         Len(served) + 1 \in 1 .. MaxRequests, NEW n \in Nat,
         InBuffer(n) <=> got # off
  PROVE  Moved(n) = [j \in 1 .. (IF n < req.body THEN n ELSE req.body) |-> <<Len(served) + 1, j>>]
           <=> n = 0 \/ (off = 0 /\ (got = 0 \/ got >= n))
<1>1. PICK N : N = Len(served) + 1
  OBVIOUS
<1>2. N \in Nat /\ got \in Nat /\ req.body \in Nat /\ got <= req.body /\ n \in Int
  BY <1>1, RequestIs
<1>3. InBuffer(n) <=> got # off
  OBVIOUS
<1>0. (IF n < req.body THEN n ELSE req.body) \in Nat
  BY <1>2
<1>4. PICK K \in Nat : K = IF n < req.body THEN n ELSE req.body
  BY <1>0
<1>5. PICK sent : sent = [j \in 1 .. K |-> <<N, j>>]
  OBVIOUS
<1>6. sent \in Seq(Nat \X Nat) /\ Len(sent) = K /\ \A j \in 1 .. K : sent[j] = <<N, j>>
  <2>1. sent \in [1 .. K -> Nat \X Nat]
    BY <1>2, <1>5
  <2>2. QED
    BY <2>1, <1>5
<1>7. PICK b : b = Moved(n)
  OBVIOUS
<1>8. SUFFICES b = sent <=> n = 0 \/ (off = 0 /\ (got = 0 \/ got >= n))
  BY <1>1, <1>4, <1>5, <1>7
<1>9. b \in Seq(Bytes)
  <2>1. Text(off + 1, off + n) \in Seq(Bytes)
    BY <1>2, TextIs
  <2>2. Rest(n) \in Seq(Bytes)
    BY RestIs
  <2>3. QED
    BY <2>1, <2>2, <1>7 DEF Moved
<1>10. CASE got # off
  <2>1. Len(b) = n /\ \A i \in 1 .. n : b[i] = TextByte(i)
    <3>1. b = Text(off + 1, off + n)
      BY <1>3, <1>7, <1>10 DEF Moved
    <3>2. /\ Len(Text(off + 1, off + n)) = IF n < 0 THEN 0 ELSE n
          /\ \A i \in 1 .. n : Text(off + 1, off + n)[i] = TextByte(i)
      BY <1>2, TextIs
    <3>3. QED
      BY <3>1, <3>2
  <2>2. InHead \notin Nat \X Nat /\ Junk \notin Nat \X Nat
    BY FilesAssumption
  <2>3. CASE n = 0
    <3>1. K = 0
      BY <1>2, <1>4, <2>3
    <3>2. Len(b) = K /\ \A i \in 1 .. K : b[i] = <<N, i>>
      BY <2>1, <2>3, <3>1
    <3>3. QED
      BY <3>2, <2>3, <1>5, <1>9, SameSequence
  <2>4. CASE n > 0 /\ off # 0
    <3>1. b[1] = TextByte(1)
      BY <2>1, <2>4
    <3>2. TextByte(1) # <<N, 1>>
      <4>1. off + 1 # 1 /\ <<N, 1>> \in Nat \X Nat
        BY <1>2, <2>4
      <4>2. QED
        BY <4>1, <2>2, <1>1 DEF TextByte
    <3>3. b # sent
      <4>1. ASSUME b = sent PROVE FALSE
        <5>1. K = n
          BY <4>1, <2>1, <1>6
        <5>2. 1 \in 1 .. K
          BY <5>1, <2>4
        <5>3. sent[1] = <<N, 1>>
          BY <5>2, <1>6
        <5>4. QED
          BY <4>1, <5>3, <3>1, <3>2
      <4>2. QED
        BY <4>1
    <3>4. QED
      BY <3>3, <2>4
  <2>5. CASE n > 0 /\ off = 0 /\ got < n
    <3>1. b[n] = Junk /\ got # 0
      <4>1. off + n = n /\ ~(n <= 0) /\ ~(n <= got)
        BY <2>5, <1>2
      <4>2. TextByte(n) = Junk
        BY <4>1 DEF TextByte
      <4>3. n \in 1 .. n
        BY <2>5
      <4>4. QED
        BY <4>2, <4>3, <2>1, <2>5, <1>10
    <3>2. b # sent
      <4>1. ASSUME b = sent PROVE FALSE
        <5>1. K = n
          BY <4>1, <2>1, <1>6
        <5>2. sent[n] = <<N, n>> /\ <<N, n>> \in Nat \X Nat
          BY <5>1, <2>5, <1>2, <1>6
        <5>3. QED
          BY <4>1, <5>2, <3>1, <2>2
      <4>2. QED
        BY <4>1
    <3>3. QED
      BY <3>1, <3>2, <2>5, <1>2
  <2>6. CASE n > 0 /\ off = 0 /\ got >= n
    <3>1. K = n
      BY <1>2, <1>4, <2>6
    <3>2. ASSUME NEW i \in 1 .. K PROVE b[i] = <<N, i>>
      <4>1. i \in 1 .. n /\ off + i = i /\ ~(i <= 0) /\ i <= got
        BY <3>1, <2>6, <1>2
      <4>2. TextByte(i) = <<N, i>>
        BY <4>1, <1>1 DEF TextByte
      <4>3. QED
        BY <4>1, <4>2, <2>1
    <3>3. b = sent
      BY <3>1, <3>2, <2>1, <1>5, <1>9, SameSequence
    <3>4. QED
      BY <3>3, <2>6
  <2>7. QED
    BY <2>3, <2>4, <2>5, <2>6, <1>2
<1>11. CASE got = off
  <2>1. Last(n) - got \in Int /\ (Last(n) < got <=> FALSE) /\ Last(n) - got <= n
    BY <1>2 DEF Last
  <2>2. Len(b) = Last(n) - got /\ \A i \in 1 .. Last(n) - got : b[i] = <<N, got + i>>
    <3>1. b = Rest(n)
      BY <1>3, <1>7, <1>11 DEF Moved
    <3>2. /\ Len(Rest(n)) = IF Last(n) < got THEN 0 ELSE Last(n) - got
          /\ \A i \in 1 .. Last(n) - got : Rest(n)[i] = <<Len(served) + 1, got + i>>
      BY <1>2, RestIs
    <3>3. QED
      BY <3>1, <3>2, <2>1, <1>1
  <2>3. CASE n = 0
    <3>1. K = 0 /\ Last(n) - got = 0
      BY <2>3, <1>2, <1>4 DEF Last
    <3>2. Len(b) = K /\ \A i \in 1 .. K : b[i] = <<N, i>>
      BY <3>1, <2>2
    <3>3. QED
      BY <3>2, <2>3, <1>5, <1>9, SameSequence
  <2>4. CASE n > 0 /\ got = 0
    <3>1. Last(n) - got = K
      BY <2>4, <1>2, <1>4 DEF Last
    <3>2. \A i \in 1 .. K : got + i = i
      BY <2>4
    <3>3. Len(b) = K /\ \A i \in 1 .. K : b[i] = <<N, i>>
      BY <3>1, <3>2, <2>2
    <3>4. b = sent
      BY <3>3, <1>5, <1>9, SameSequence
    <3>5. QED
      BY <3>4, <2>4, <1>11
  <2>5. CASE n > 0 /\ got # 0
    <3>1. K >= 1
      BY <2>5, <1>2, <1>4
    <3>2. b # sent
      <4>1. ASSUME b = sent PROVE FALSE
        <5>1. Last(n) - got = K
          BY <4>1, <2>2, <1>6
        <5>2. b[1] = <<N, got + 1>>
          BY <5>1, <3>1, <2>2
        <5>3. sent[1] = <<N, 1>> /\ got + 1 # 1
          BY <3>1, <2>5, <1>2, <1>6
        <5>4. QED
          BY <4>1, <5>2, <5>3
      <4>2. QED
        BY <4>1
    <3>3. QED
      BY <3>2, <2>5, <1>11
  <2>6. QED
    BY <2>3, <2>4, <2>5
<1>12. QED
  BY <1>10, <1>11

-------------------------------------------------------------------------------
(***************************************************************************)
(* The inductive invariant: the descriptors, the request that is served,   *)
(* what was answered, and the files.                                       *)
(***************************************************************************)
Parsed == Serving \ {"parse"}

(* The answer that Respond gives, and its number. *)
Answer == [req |-> req, got |-> got, off |-> off, code |-> statcode, opened |-> infile > 0,
           body |-> IF SendsFile THEN content[req.uri] ELSE <<Phrase>>]
Number == Len(served) + 1

(* A status that says no error comes only with a request line that matches; *)
(* that of a PUT says whether it has a file.                               *)
RequestInv ==
  /\ req \in Requests \cup {NoRequest} /\ got \in Nat /\ off \in Int
  /\ sock \in -1 .. Client /\ statcode \in Codes \cup {INIT}
  /\ Len(served) <= MaxRequests
  /\ pc \in Serving \ {"close"} => Len(served) < MaxRequests
  /\ pc \in Serving => req \in Requests
  /\ pc \in Parsed => /\ got \in 0 .. req.body /\ HeadLength(req) + got <= ReadSize
                      /\ off = IF LineMatches(req) THEN Offset(req, got) ELSE 0
  /\ pc = "handle" => statcode \in {400, INIT} /\ (statcode = INIT => LineMatches(req))
  /\ pc = "put" => /\ req.method = "PUT" /\ LineMatches(req)
                   /\ statcode \in IF infile = -1 THEN {400} ELSE {200, 201}
  /\ pc \in {"respond", "close"} => statcode \in Codes

(* The answers that were given, the one that is prepared, and the one      *)
(* whose descriptors are to be closed.                                     *)
HistoryInv ==
  /\ \A i \in 1 .. Len(served) : Told(served, served[i], i)
  /\ pc \in {"put", "respond"} => Told(served, Answer, Number)
  /\ pc = "respond" => Stored(content[req.uri], Answer, Number)
  /\ pc = "close" => /\ served[Len(served)] = Answer
                     /\ Stored(content[req.uri], Answer, Len(served))

(* A PUT that has opened its file and is not answered yet. *)
Doing(u) == pc \in {"put", "respond"} /\ req.method = "PUT" /\ infile # -1 /\ req.uri = u

(* The files: one that was missing is there once a PUT has opened it.      *)
FileInv ==
  /\ kind \in [Uris -> Kinds] /\ DOMAIN content = Uris
  /\ \A u \in Uris : \A i \in DOMAIN content[u] : content[u][i] \in Bytes
  /\ pc # "killed" => \A u \in Uris :
       /\ kind[u] = IF Kind0[u] = "absent" /\ (PutsIn(served, u, Number) # {} \/ Doing(u))
                    THEN "file" ELSE Kind0[u]
       /\ Doing(u) => Kind0[u] \in {"file", "absent"}
       /\ Doing(u) /\ pc = "put" => content[u] = << >>
       /\ ~Doing(u) => Holds(served, content[u], u, Number)

IInv == FdInv /\ RequestInv /\ HistoryInv /\ FileInv

(* The files at the start, and the bounds. *)
LEMMA FilesAre ==
  /\ Kind0 \in [Uris -> Kinds] /\ DOMAIN Content0 = Uris
  /\ MaxRequests \in Nat /\ ReadSize \in Int /\ ReadSize <= 65535
<1>1. Kind0 \in [Uris -> Kinds]
  BY FilesAssumption, SMTT(60)
<1>2. DOMAIN Content0 = Uris
  BY FilesAssumption, SMTT(60)
<1>3. MaxRequests \in Nat
  BY SizesAssumption, SMTT(60)
<1>4. ReadSize \in Int /\ ReadSize <= 65535
  BY SizesAssumption, SMTT(60)
<1>5. QED
  BY <1>1, <1>2, <1>3, <1>4

(* The answers can be counted. *)
LEMMA LengthIs == FdInv => Len(served) \in Nat
<1>1. ASSUME FdInv PROVE \E S : served \in Seq(S)
  BY <1>1 DEF FdInv
<1>2. ASSUME NEW S, served \in Seq(S) PROVE Len(served) \in Nat
  BY <1>2
<1>3. QED
  BY <1>1, <1>2

(* The invariant at the start. *)
LEMMA StartsRight == Init => IInv
<1> SUFFICES ASSUME Init PROVE IInv
  OBVIOUS
<1>1. FdInv
  BY FdInit
<1>2. served = << >> /\ Len(served) = 0 /\ pc = "accept"
  BY DEF Init
<1>3. RequestInv
  <2>1. MaxRequests \in Nat
    BY SizesAssumption
  <2>2. 0 <= MaxRequests
    BY <2>1
  <2>3. QED
    BY <1>2, <2>2 DEF Init, RequestInv, Client, Listener, Serving, Parsed
<1>4. HistoryInv
  BY <1>2 DEF HistoryInv
<1>5. FileInv
  <2>0. Kind0 \in [Uris -> Kinds] /\ DOMAIN Content0 = Uris
    BY FilesAre
  <2>1. kind \in [Uris -> Kinds] /\ DOMAIN content = Uris /\ kind = Kind0 /\ content = Content0
    BY <2>0 DEF Init
  <2>2. ASSUME NEW u \in Uris, NEW i \in DOMAIN content[u] PROVE content[u][i] \in Bytes
    BY <2>1, <2>2 DEF Bytes
  <2>3. ASSUME NEW u \in Uris
        PROVE  PutsIn(served, u, Number) = {} /\ ~Doing(u) /\ Holds(served, content[u], u, Number)
    <3>1. Number = 1 /\ \A i \in 1 .. Number - 1 : FALSE
      BY <1>2 DEF Number
    <3>2. PutsIn(served, u, Number) = {}
      BY <3>1 DEF PutsIn
    <3>3. QED
      BY <1>2, <2>1, <3>2 DEF Holds, LastOf, Doing
  <2>4. QED
    BY <2>1, <2>2, <2>3 DEF FileInv
<1>6. QED
  BY <1>1, <1>3, <1>4, <1>5 DEF IInv

(* What follows from the invariant: the properties that the runs check.    *)
LEMMA PutsAre == \A u, i : Puts(u, i) = PutsIn(served, u, i)
  BY DEF Puts, PutsIn

(* The types. *)
LEMMA TypesFollow == IInv => TypeOK
<1> SUFFICES ASSUME IInv PROVE TypeOK
  OBVIOUS
<1>1. \A i \in 1 .. Len(served) : served[i].code \in Codes
  BY DEF IInv, HistoryInv, Told
<1>2. pc \in {"accept", "parse", "handle", "put", "respond", "close", "killed"}
  BY DEF IInv, FdInv, Serving
<1>3. infile \in -1 .. Listener + 2 /\ sock \in -1 .. Listener + 1
  BY DEF IInv, FdInv, RequestInv, File, Client, Listener
<1>4. fds \subseteq 0 .. Listener + 2
  BY <1>2 DEF IInv, FdInv, Fds, Serving, Base, File, Client, Listener
<1>5. QED
  BY <1>1, <1>2, <1>3, <1>4 DEF IInv, RequestInv, FileInv, TypeOK

(* When the descriptors are closed, the offset is still that of parse. *)
LEMMA BodyOffsetFollows == IInv => BodyOffset
<1> SUFFICES ASSUME IInv, pc = "close", LineMatches(req), req.complete,
                    Blanks(req, got) \subseteq Blanks(req, 0)
             PROVE  OffsetRight(req, got, off)
  BY DEF BodyOffset, OffsetRight
<1>1. req \in Requests /\ got \in 0 .. req.body /\ off = Offset(req, got)
  BY DEF IInv, RequestInv, Parsed, Serving
<1>2. QED
  BY <1>1, OffsetRightIs

(* The answer was Right when it was given. *)
LEMMA StoredFollows == IInv => StoredExactly
<1> SUFFICES ASSUME IInv, pc = "close", NEW i, i = Len(served), NEW s, s = served[i],
                    req.method = "PUT", s.code \in {200, 201}, FieldsRead(req.lines) > 0,
                    NEW n \in Announced(req)
             PROVE  content[req.uri] = Sent(s, i, n) <=> Right(s, n)
  BY DEF StoredExactly
<1>1. s = Answer /\ Stored(content[req.uri], Answer, i)
  BY DEF IInv, HistoryInv
<1>2. Answer.req = req
  BY DEF Answer
<1>3. Stored(content[req.uri], s, i) /\ s.req = req
  BY <1>1, <1>2
<1>4. QED
  BY <1>3 DEF Stored

(* A code is right of the PUTs before its answer. *)
LEMMA CodesFollow == IInv => CodesTell
<1> SUFFICES ASSUME IInv PROVE CodesTell
  OBVIOUS
<1>1. \A i \in 1 .. Len(served) : CodeRight(served, served[i], i)
  BY DEF IInv, HistoryInv, Told
<1>2. \A u, i : Missing(served, u, i) <=>
                 Kind0[u] \in {"absent", "uncreatable"} /\ Puts(u, i) = {}
  BY PutsAre DEF Missing
<1>3. QED
  BY <1>1, <1>2 DEF CodesTell, CodeRight

(* Numbers below a bound have a greatest. *)
LEMMA GreatestOf ==
  ASSUME NEW i \in Int, NEW P \in SUBSET (1 .. i - 1), P # {}
  PROVE  \E x \in P : \A y \in P : y <= x
<1>1. PICK Q : Q = {i - x : x \in P}
  OBVIOUS
<1>0. \A x \in P : i - x \in Nat
  OBVIOUS
<1>2. Q \in SUBSET Nat /\ Q # {}
  BY <1>0, <1>1
<1>3. PICK q \in Q : \A y \in Q : q <= y
  BY <1>2, LeastOf
<1>4. PICK x \in P : q = i - x
  BY <1>1, <1>3
<1>5. ASSUME NEW y \in P PROVE y <= x
  <2>1. i - y \in Q
    BY <1>1
  <2>2. i - x <= i - y
    BY <1>3, <1>4, <2>1
  <2>3. QED
    BY <2>2
<1>6. QED
  BY <1>5

(* Of the PUTs before a GET, the last one counts. *)
LEMMA RoundTripFollows == IInv => RoundTrip
<1> SUFFICES ASSUME IInv, NEW i \in 1 .. Len(served),
                    served[i].req.method = "GET", served[i].code = 200
             PROVE  LET s == served[i]
                        P == Puts(s.req.uri, i) IN
                    IF ~s.opened THEN s.body = <<Phrase>> /\ Kind0[s.req.uri] = "denied"
                    ELSE IF P = {} THEN s.body = Content0[s.req.uri]
                    ELSE LET j == CHOOSE x \in P : \A y \in P : y <= x
                             n == CHOOSE x \in Announced(served[j].req) : TRUE IN
                         served[j].code # 400 /\ FieldsRead(served[j].req.lines) > 0
                           /\ Right(served[j], n)
                           => s.body = Sent(served[j], j, n)
  BY DEF RoundTrip
<1> DEFINE s == served[i]
           P == Puts(s.req.uri, i)
<1>0. s = served[i] /\ P = Puts(s.req.uri, i) /\ s.req.method = "GET" /\ s.code = 200
  OBVIOUS
<1> HIDE DEF s, P
<1>1. ReadBack(served, s, i)
  BY <1>0 DEF IInv, HistoryInv, Told
<1>2. P = PutsIn(served, s.req.uri, i)
  BY <1>0, PutsAre
<1>3. s.opened => Holds(served, s.body, s.req.uri, i)
  BY <1>0, <1>1 DEF ReadBack
<1>4. CASE ~s.opened \/ P = {}
  <2>1. ~s.opened => s.body = <<Phrase>> /\ Kind0[s.req.uri] = "denied"
    BY <1>0, <1>1 DEF ReadBack
  <2>2. s.opened => s.body = Content0[s.req.uri]
    BY <1>2, <1>3, <1>4 DEF Holds
  <2>3. QED
    BY <1>4, <2>1, <2>2 DEF s, P
<1>5. CASE s.opened /\ P # {}
  <2>1. PICK j : j = CHOOSE x \in P : \A y \in P : y <= x
    OBVIOUS
  <2>2. P \in SUBSET (1 .. i - 1) /\ i \in Int
    BY <1>2, LengthIs DEF PutsIn, IInv
  <2>3. j \in P /\ \A y \in P : y <= j
    <3>1. \E x \in P : \A y \in P : y <= x
      BY <1>5, <2>2, GreatestOf
    <3>2. QED
      BY <2>1, <3>1
  <2>4. PICK n : n = CHOOSE x \in Announced(served[j].req) : TRUE
    OBVIOUS
  <2>5. SUFFICES ASSUME served[j].code # 400, FieldsRead(served[j].req.lines) > 0,
                        Right(served[j], n)
                 PROVE  s.body = Sent(served[j], j, n)
    BY <1>5, <2>1, <2>4 DEF s, P
  <2>6. n \in Announced(served[j].req)
    <3>1. PICK x : x = served[j].req.lines[FieldsRead(served[j].req.lines)].number
      OBVIOUS
    <3>2. Announced(served[j].req) = {x}
      BY <2>5, <3>1 DEF Announced
    <3>3. QED
      BY <2>4, <3>2
  <2>7. LastOf(PutsIn(served, s.req.uri, i), j)
    BY <1>2, <2>3 DEF LastOf
  <2>8. SentBy(s.body, served[j], j)
    BY <1>3, <1>5, <2>7 DEF Holds
  <2>9. QED
    BY <2>5, <2>6, <2>8 DEF SentBy
<1>6. QED
  BY <1>4, <1>5, SMTT(60)

-------------------------------------------------------------------------------
(***************************************************************************)
(* The steps.  Those that decide on a request: what handle_request says.   *)
(***************************************************************************)
LEMMA VerdictIs ==
  ASSUME statcode \in {400, INIT}, NEW r
  PROVE  /\ Verdict(r) \in {400, 501, 505, INIT}
         /\ Verdict(r) = INIT => statcode = INIT /\ r.method \in {"GET", "PUT"}
<1>1. INIT # 400
  BY DEF INIT
<1>2. CASE statcode = 400
  BY <1>1, <1>2 DEF Verdict
<1>3. CASE statcode # 400 /\ r.version = "HTTP/1.1"
  <2>1. Verdict(r) = IF r.method \in {"GET", "PUT"} THEN INIT ELSE 501
    BY <1>3 DEF Verdict
  <2>2. 501 # INIT /\ statcode = INIT
    BY <1>3 DEF INIT
  <2>3. QED
    BY <2>1, <2>2
<1>4. CASE statcode # 400 /\ r.version # "HTTP/1.1"
  <2>1. Verdict(r) = IF r.version = "HTTP/1.0" THEN 505 ELSE 400
    BY <1>4 DEF Verdict
  <2>2. 505 # INIT /\ 400 # INIT
    BY DEF INIT
  <2>3. QED
    BY <2>1, <2>2
<1>5. QED
  BY <1>2, <1>3, <1>4

(* RequestInv through every step. *)
LEMMA RequestKept == FdInv /\ RequestInv /\ [Next]_vars => RequestInv'
<1> USE DEF Serving, Parsed
<1> SUFFICES ASSUME FdInv, RequestInv, [Next]_vars PROVE RequestInv'
  OBVIOUS
<1>1. Len(served) \in Nat
  BY LengthIs
<1>2. CASE Accept
  <2>1. fds = 0 .. 5
    BY <1>2 DEF Accept, FdInv, Base, Listener
  <2>2. sock' = 6
    BY <1>2, <2>1, LowestIsNext, SMTT(60) DEF Accept
  <2>3. sock' \in -1 .. Client
    BY <2>2 DEF Client, Listener
  <2>4. Len(served) < MaxRequests
    BY <1>2 DEF Accept
  <2>5. QED
    BY <1>2, <2>3, <2>4 DEF Accept, RequestInv
<1>3. CASE ReadAndParse
  <2>1. req \in Requests
    BY <1>3 DEF ReadAndParse, RequestInv
  <2>2. /\ got' \in 0 .. req.body /\ HeadLength(req) + got' <= ReadSize
        /\ off' = IF LineMatches(req) THEN Offset(req, got') ELSE 0
        /\ pc = "parse" /\ pc' = "handle"
        /\ UNCHANGED <<sock, req, served>>
    BY <1>3 DEF ReadAndParse
  <2>3. got' \in Nat
    BY <2>1, <2>2, RequestIs
  <2>4. off' \in Int
    <3>1. PICK n : n = got'
      OBVIOUS
    <3>2. Offset(req, n) \in Int
      BY <2>1, <2>2, <3>1, OffsetIs
    <3>3. QED
      BY <2>2, <3>1, <3>2
  <2>5. PICK bad \in Malformed(req, off') : statcode' = IF bad THEN 400 ELSE INIT
    BY <1>3 DEF ReadAndParse
  <2>6. ~LineMatches(req) => bad = TRUE
    BY <2>5 DEF Malformed
  <2>7. statcode' \in {400, INIT} /\ (statcode' = INIT => LineMatches(req))
    BY <2>5, <2>6 DEF INIT
  <2>8. Len(served) < MaxRequests /\ sock \in -1 .. Client
    BY <2>2 DEF RequestInv
  <2>9. statcode' \in Codes \cup {INIT}
    BY <2>7 DEF Codes
  <2>10. LineMatches(req') <=> LineMatches(req)
    BY <2>2
  <2>11. HeadLength(req') + got' <= ReadSize /\ off' = IF LineMatches(req') THEN Offset(req', got') ELSE 0
    BY <2>2
  <2>12. QED
    BY <1>1, <2>1, <2>2, <2>3, <2>4, <2>7, <2>8, <2>9, <2>10, <2>11 DEF RequestInv
<1>4. CASE Refuse
  <2>1. pc = "handle" /\ pc' = "respond" /\ statcode' = Verdict(req)
        /\ UNCHANGED <<sock, req, got, off, served>>
    BY <1>4 DEF Refuse
  <2>2. statcode' \in Codes
    <3>1. statcode \in {400, INIT} /\ (Verdict(req) # INIT \/ req.method \notin {"GET", "PUT"})
      BY <1>4, <2>1 DEF Refuse, RequestInv
    <3>2. Verdict(req) \in {400, 501, 505}
      BY <3>1, VerdictIs
    <3>3. QED
      BY <2>1, <3>2 DEF Codes
  <2>3. QED
    BY <2>1, <2>2 DEF RequestInv
<1>5. CASE PutOpen
  <2>1. pc = "handle" /\ pc' = "put" /\ req.method = "PUT" /\ Verdict(req) = INIT
        /\ UNCHANGED <<sock, req, got, off, served>>
    BY <1>5 DEF PutOpen
  <2>2. IF kind[req.uri] \in {"file", "absent"}
          THEN infile' = Lowest /\ statcode' = PutCode(req.uri)
          ELSE infile' = infile /\ statcode' = 400
    BY <1>5 DEF PutOpen, Opens
  <2>3. statcode \in {400, INIT}
    BY <2>1 DEF RequestInv
  <2>4. LineMatches(req)
    BY <2>1, <2>3, VerdictIs DEF RequestInv
  <2>5. Lowest = 7 /\ infile = -1
    <3>1. fds = 0 .. 6 /\ infile = -1
      BY <2>1 DEF FdInv, Fds, Client, Listener
    <3>2. QED
      BY <3>1, LowestIsNext
  <2>7. statcode' \in IF infile' = -1 THEN {400} ELSE {200, 201}
    BY <2>2, <2>5 DEF PutCode
  <2>8. statcode' \in Codes
    BY <2>7 DEF Codes
  <2>9. QED
    BY <2>1, <2>4, <2>7, <2>8 DEF RequestInv
<1>6. CASE PutBody
  <2>1. pc = "put" /\ pc' = "respond" /\ UNCHANGED <<sock, req, got, off, served>>
        /\ statcode' \in {400, statcode}
    BY <1>6 DEF PutBody
  <2>2. statcode' \in Codes
    BY <2>1 DEF RequestInv, Codes
  <2>3. QED
    BY <2>1, <2>2 DEF RequestInv
<1>7. CASE Crash
  BY <1>7 DEF Crash, RequestInv
<1>8. CASE MethodGet
  <2>1. statcode' \in Codes
    BY <1>8 DEF MethodGet, GetCode, Codes
  <2>2. QED
    BY <1>8, <2>1 DEF MethodGet, RequestInv
<1>9. CASE Respond
  <2>1. pc = "respond" /\ pc' = "close"
        /\ UNCHANGED <<sock, req, got, off, statcode>> /\ Len(served') = Len(served) + 1
    <3>1. \E S : served \in Seq(S)
      BY DEF FdInv
    <3>2. served' = Append(served, Answer)
      BY <1>9 DEF Respond, Answer
    <3>3. QED
      BY <1>9, <3>1, <3>2, Appended DEF Respond
  <2>2. MaxRequests \in Nat
    BY FilesAre
  <2>3. Len(served') <= MaxRequests
    BY <1>1, <2>1, <2>2 DEF RequestInv
  <2>4. QED
    BY <2>1, <2>3 DEF RequestInv
<1>10. CASE ClientGone
  BY <1>10 DEF ClientGone, RequestInv
<1>11. CASE Close
  <2>1. 0 \in Nat /\ 0 \in Int /\ -1 \in -1 .. Client /\ INIT \in Codes \cup {INIT}
    BY DEF Client, Listener
  <2>2. QED
    BY <1>11, <2>1 DEF Close, RequestInv
<1>12. CASE UNCHANGED vars
  BY <1>12 DEF vars, RequestInv
<1>13. QED
  BY <1>2, <1>3, <1>4, <1>5, <1>6, <1>7, <1>8, <1>9, <1>10, <1>11, <1>12
     DEF Next, AcceptFails, Killed

(* The fields of an answer. *)
AnswerIs ==
  /\ Answer.req = req /\ Answer.got = got /\ Answer.off = off /\ Answer.code = statcode
  /\ Answer.opened <=> infile > 0
  /\ Answer.body = IF SendsFile THEN content[req.uri] ELSE <<Phrase>>

(* In this state and the next. *)
LEMMA AnswersAre == AnswerIs /\ AnswerIs'
<1>1. AnswerIs
  BY DEF AnswerIs, Answer
<1>2. AnswerIs'
  BY DEF AnswerIs, Answer
<1>3. QED
  BY <1>1, <1>2

(* An answer that is no success: nothing is said of the files. *)
LEMMA ToldOfFailure ==
  ASSUME NEW log, NEW s, NEW i, s.req \in Requests, s.code \in {400, 501, 505},
         s.req.method = "PUT" /\ s.opened => s.code = 400 /\ Kind0[s.req.uri] \in {"file", "absent"}
  PROVE  Told(log, s, i) /\ \A c : Stored(c, s, i)
<1>1. s.code \notin {200, 201, 403, 404}
  OBVIOUS
<1>2. s.code \in Codes
  BY DEF Codes
<1>3. CodeRight(log, s, i) /\ ReadBack(log, s, i) /\ \A c : Stored(c, s, i)
  BY <1>1 DEF CodeRight, ReadBack, Stored
<1>4. QED
  BY <1>2, <1>3 DEF Told

(* PutOpen does not change what was answered, and decides whether the      *)
(* request has a file: if it is one, or is missing and can be created.     *)
LEMMA PutOpens ==
  ASSUME FdInv, RequestInv, FileInv, PutOpen
  PROVE  /\ pc = "handle" /\ pc' = "put" /\ req.method = "PUT" /\ req \in Requests
         /\ infile = -1
         /\ UNCHANGED <<sock, req, got, off, served>>
         /\ IF kind[req.uri] \in {"file", "absent"}
              THEN /\ infile' = 7 /\ statcode' = PutCode(req.uri)
                   /\ kind' = [kind EXCEPT ![req.uri] = "file"]
                   /\ content' = [content EXCEPT ![req.uri] = << >>]
              ELSE infile' = -1 /\ statcode' = 400 /\ UNCHANGED <<kind, content>>
<1>1. pc = "handle" /\ pc' = "put" /\ req.method = "PUT"
      /\ UNCHANGED <<sock, req, got, off, served>>
  BY DEF PutOpen
<1>2. fds = 0 .. 6 /\ infile = -1
  BY <1>1 DEF FdInv, Fds, Client, Listener, Serving
<1>3. Lowest = 7
  BY <1>2, LowestIsNext
<1>4. req \in Requests
  BY <1>1 DEF RequestInv, Serving
<1>5. CASE kind[req.uri] \in {"file", "absent"}
  BY <1>1, <1>2, <1>3, <1>4, <1>5 DEF PutOpen, Opens, Truncated
<1>6. CASE kind[req.uri] \notin {"file", "absent"}
  BY <1>1, <1>2, <1>4, <1>6 DEF PutOpen, Opens
<1>7. QED
  BY <1>5, <1>6

(* What a request announces, and what atoi may make of something unset. *)
LEMMA AnnouncedIs ==
  ASSUME NEW r \in Requests
  PROVE  /\ Announced(r) \subseteq Int
         /\ FieldsRead(r.lines) > 0 => \E n \in Nat : Announced(r) = {n}
<1>1. PICK k : k = FieldsRead(r.lines)
  OBVIOUS
<1>2. CASE k > 0
  <2>1. k \in 1 .. Len(r.lines)
    BY <1>1, <1>2, RequestIs, FieldsReadIs
  <2>2. r.lines[k].number \in Nat
    BY <2>1, RequestIs, ElementsOfLines
  <2>3. Announced(r) = {r.lines[k].number}
    BY <1>1, <1>2 DEF Announced
  <2>4. QED
    BY <2>2, <2>3
<1>3. CASE ~(k > 0)
  <2>1. Announced(r) \subseteq Unset
    BY <1>1, <1>3 DEF Announced
  <2>2. Unset \subseteq Int
    BY SizesAssumption
  <2>3. QED
    BY <1>1, <1>3, <2>1, <2>2
<1>4. QED
  BY <1>2, <1>3

(***************************************************************************)
(* PutBody: without a file nothing is stored; with one, what was written   *)
(* is all that the file holds, and if nothing failed it is Moved.          *)
(***************************************************************************)
LEMMA PutBodies ==
  ASSUME FdInv, RequestInv, FileInv, PutBody
  PROVE  /\ pc = "put" /\ pc' = "respond" /\ req.method = "PUT" /\ req \in Requests
         /\ UNCHANGED <<fds, sock, infile, req, got, off, kind, served>>
         /\ statcode' \in {400, statcode}
         /\ IF infile = -1 THEN content' = content
            ELSE \E b \in Seq(Bytes) :
                   /\ content' = [content EXCEPT ![req.uri] = b]
                   /\ statcode' # 400 => \E n \in Announced(req) : b = Moved(n)
<1>1. pc = "put" /\ pc' = "respond" /\ UNCHANGED <<fds, sock, infile, req, got, off, kind, served>>
  BY DEF PutBody
<1>2. req.method = "PUT" /\ req \in Requests
  BY <1>1 DEF RequestInv, Serving
<1>3. PICK n \in Announced(req) :
        \E out \in IF InBuffer(n) THEN WriteAll(n) ELSE PassBytes(n) :
          /\ content' = IF infile = -1 THEN content
                        ELSE [content EXCEPT ![req.uri] = Over(@, out.bytes)]
          /\ statcode' = IF out.failed THEN 400 ELSE statcode
  BY DEF PutBody
<1>4. PICK out \in IF InBuffer(n) THEN WriteAll(n) ELSE PassBytes(n) :
          /\ content' = IF infile = -1 THEN content
                        ELSE [content EXCEPT ![req.uri] = Over(@, out.bytes)]
          /\ statcode' = IF out.failed THEN 400 ELSE statcode
  BY <1>3
<1>5. n \in Int
  BY <1>2, AnnouncedIs
<1>6. /\ got \in 0 .. req.body /\ off \in Int
      /\ Len(served) + 1 \in 1 .. MaxRequests
  <2>1. Len(served) \in Nat /\ Len(served) < MaxRequests /\ MaxRequests \in Nat
    BY <1>1, LengthIs, FilesAre DEF RequestInv, Serving
  <2>2. got \in 0 .. req.body /\ off \in Int
    BY <1>1 DEF RequestInv, Serving, Parsed
  <2>3. QED
    BY <2>1, <2>2
<1>7. out.bytes \in Seq(Bytes) /\ out.failed \in BOOLEAN /\ (~out.failed => out.bytes = Moved(n))
  BY <1>2, <1>4, <1>5, <1>6, OutIs
<1>8. CASE infile = -1
  BY <1>1, <1>2, <1>4, <1>8
<1>9. CASE infile # -1
  <2>1. content[req.uri] = << >>
    BY <1>1, <1>2, <1>9, RequestIs DEF FileInv, Doing
  <2>2. Over(<< >>, out.bytes) = out.bytes
    BY <1>7, OverEmpty
  <2>3. content' = [content EXCEPT ![req.uri] = out.bytes]
    BY <1>4, <1>9, <2>1, <2>2
  <2>4. statcode' # 400 => out.bytes = Moved(n)
    BY <1>4, <1>7
  <2>5. \E b \in Seq(Bytes) :
          /\ content' = [content EXCEPT ![req.uri] = b]
          /\ statcode' # 400 => \E m \in Announced(req) : b = Moved(m)
    <3> DEFINE Stores(b) == /\ content' = [content EXCEPT ![req.uri] = b]
                            /\ statcode' # 400 => \E m \in Announced(req) : b = Moved(m)
    <3>1. Stores(out.bytes)
      BY <2>3, <2>4
    <3> HIDE DEF Stores
    <3>2. \E b \in Seq(Bytes) : Stores(b)
      BY <1>7, <3>1
    <3>3. QED
      BY <3>2 DEF Stores
  <2>6. statcode' \in {400, statcode}
    BY <1>4
  <2>7. QED
    BY <1>1, <1>2, <1>9, <2>5, <2>6
<1>10. QED
  BY <1>8, <1>9

(* FileInv of one file, while main runs. *)
FileRight(u) ==
  /\ kind[u] = IF Kind0[u] = "absent" /\ (PutsIn(served, u, Number) # {} \/ Doing(u))
               THEN "file" ELSE Kind0[u]
  /\ Doing(u) => Kind0[u] \in {"file", "absent"}
  /\ Doing(u) /\ pc = "put" => content[u] = << >>
  /\ ~Doing(u) => Holds(served, content[u], u, Number)

(* FileInv through every step. *)
LEMMA FileKept == FdInv /\ RequestInv /\ HistoryInv /\ FileInv /\ [Next]_vars => FileInv'
<1> SUFFICES ASSUME FdInv, RequestInv, HistoryInv, FileInv, [Next]_vars PROVE FileInv'
  OBVIOUS
<1>1. /\ kind \in [Uris -> Kinds] /\ DOMAIN content = Uris
      /\ \A u \in Uris : \A i \in DOMAIN content[u] : content[u][i] \in Bytes
      /\ pc # "killed" => \A u \in Uris : FileRight(u)
  BY DEF FileInv, FileRight
<1>2. ASSUME kind' \in [Uris -> Kinds], DOMAIN content' = Uris,
             \A u \in Uris : \A i \in DOMAIN content'[u] : content'[u][i] \in Bytes,
             pc' # "killed" => \A u \in Uris : FileRight(u)'
      PROVE  FileInv'
  BY <1>2 DEF FileInv, FileRight
<1>3. ASSUME UNCHANGED <<kind, content, served>>, pc # "killed",
             \A u \in Uris : ~Doing(u) /\ ~Doing(u)'
      PROVE  FileInv'
  <2>1. ASSUME NEW u \in Uris PROVE FileRight(u)'
    <3>1. FileRight(u) /\ ~Doing(u) /\ ~Doing(u)'
      BY <1>1, <1>3
    <3>2. kind'[u] = kind[u] /\ content'[u] = content[u] /\ served' = served /\ Number' = Number
      BY <1>3 DEF Number
    <3>3. /\ kind[u] = IF Kind0[u] = "absent" /\ PutsIn(served, u, Number) # {}
                       THEN "file" ELSE Kind0[u]
          /\ Holds(served, content[u], u, Number)
      BY <3>1 DEF FileRight
    <3>4. QED
      BY <3>1, <3>2, <3>3 DEF FileRight
  <2>2. QED
    BY <1>1, <1>2, <1>3, <2>1
<1>4. ASSUME UNCHANGED <<kind, content>>, pc' = "killed" PROVE FileInv'
  BY <1>1, <1>2, <1>4
<1>5. CASE Accept
  BY <1>3, <1>5 DEF Accept, Doing
<1>6. CASE ReadAndParse
  BY <1>3, <1>6 DEF ReadAndParse, Doing
<1>7. CASE Refuse
  <2>1. infile = -1 /\ infile' = -1
    BY <1>7 DEF Refuse, FdInv
  <2>2. QED
    BY <1>3, <1>7, <2>1 DEF Refuse, Doing
<1>8. CASE PutOpen
  <2>1. PICK w \in Uris : w = req.uri
    BY <1>8, PutOpens, RequestIs
  <2>2. /\ pc = "handle" /\ pc' = "put" /\ req'.method = "PUT" /\ req'.uri = w
        /\ served' = served /\ Number' = Number
    BY <1>8, <2>1, PutOpens DEF Number
  <2>3. \A u \in Uris : FileRight(u) /\ ~Doing(u)
    BY <1>1, <2>2 DEF Doing
  <2>4. CASE kind[w] \in {"file", "absent"}
    <3>1. infile' # -1 /\ kind' = [kind EXCEPT ![w] = "file"]
          /\ content' = [content EXCEPT ![w] = << >>]
      BY <1>8, <2>1, <2>4, PutOpens
    <3>2. \A u \in Uris : Doing(u)' <=> u = w
      BY <2>2, <3>1 DEF Doing
    <3>3. "file" \in Kinds /\ kind' \in [Uris -> Kinds] /\ DOMAIN content' = Uris
      BY <1>1, <3>1 DEF Kinds
    <3>4. \A u \in Uris : \A i \in DOMAIN content'[u] : content'[u][i] \in Bytes
      <4>1. content'[w] = << >> /\ \A u \in Uris \ {w} : content'[u] = content[u]
        BY <1>1, <3>1
      <4>2. QED
        BY <1>1, <4>1
    <3>5. FileRight(w)'
      <4>1. kind'[w] = "file" /\ content'[w] = << >> /\ Doing(w)'
        BY <1>1, <2>1, <3>1, <3>2
      <4>2. Kind0[w] \in {"file", "absent"}
        BY <2>1, <2>3, <2>4 DEF FileRight
      <4>3. QED
        BY <4>1, <4>2 DEF FileRight
    <3>6. ASSUME NEW u \in Uris, u # w PROVE FileRight(u)'
      <4>1. kind'[u] = kind[u] /\ content'[u] = content[u] /\ ~Doing(u)'
        BY <1>1, <3>1, <3>2, <3>6
      <4>2. FileRight(u) /\ ~Doing(u)
        BY <2>3
      <4>3. QED
        BY <2>2, <4>1, <4>2 DEF FileRight
    <3>7. QED
      BY <1>2, <3>3, <3>4, <3>5, <3>6
  <2>5. CASE kind[w] \notin {"file", "absent"}
    <3>1. infile' = -1 /\ UNCHANGED <<kind, content>>
      BY <1>8, <2>1, <2>5, PutOpens
    <3>2. QED
      BY <1>3, <2>2, <2>3, <3>1 DEF Doing
  <2>6. QED
    BY <2>4, <2>5
<1>9. CASE PutBody
  <2>1. PICK w \in Uris : w = req.uri
    BY <1>9, PutBodies, RequestIs
  <2>2. /\ pc = "put" /\ pc' = "respond" /\ req.method = "PUT" /\ req' = req
        /\ infile' = infile /\ kind' = kind /\ served' = served /\ Number' = Number
    BY <1>9, <2>1, PutBodies DEF Number
  <2>3. \A u \in Uris : FileRight(u) /\ Doing(u)' = Doing(u) /\ (Doing(u) <=> infile # -1 /\ u = w)
    BY <1>1, <2>1, <2>2 DEF Doing
  <2>4. DOMAIN content' = Uris /\ \A u \in Uris \ {w} : content'[u] = content[u]
    BY <1>1, <1>9, <2>1, PutBodies
  <2>5. infile = -1 => content' = content
    BY <1>9, PutBodies
  <2>6. \A i \in DOMAIN content'[w] : content'[w][i] \in Bytes
    <3>1. CASE infile = -1
      BY <1>1, <2>5, <3>1
    <3>2. CASE infile # -1
      <4>1. PICK b \in Seq(Bytes) : content' = [content EXCEPT ![w] = b]
        BY <1>9, <2>1, <3>2, PutBodies
      <4>2. content'[w] = b
        BY <1>1, <4>1
      <4>3. \A i \in DOMAIN b : b[i] \in Bytes
        OBVIOUS
      <4>4. QED
        BY <4>2, <4>3
    <3>3. QED
      BY <3>1, <3>2
  <2>7. ASSUME NEW u \in Uris PROVE FileRight(u)'
    <3>1. CASE Doing(u)
      BY <2>2, <2>3, <3>1 DEF FileRight
    <3>2. CASE ~Doing(u)
      <4>1. content'[u] = content[u]
        BY <2>3, <2>4, <2>5, <3>2
      <4>2. QED
        BY <2>2, <2>3, <3>2, <4>1 DEF FileRight
    <3>3. QED
      BY <3>1, <3>2
  <2>8. QED
    BY <1>1, <1>2, <2>2, <2>4, <2>6, <2>7
<1>10. CASE Crash
  BY <1>4, <1>10 DEF Crash
<1>11. CASE MethodGet
  BY <1>3, <1>11 DEF MethodGet, Doing
<1>12. CASE Respond
  <2>1. /\ pc = "respond" /\ pc' = "close" /\ served' = Append(served, Answer)
        /\ UNCHANGED <<infile, req, kind, content>>
    BY <1>12 DEF Respond, Answer
  <2>2. \E S : served \in Seq(S)
    BY DEF FdInv
  <2>3. Number = Len(served) + 1 /\ Number' = Len(served) + 2
    <3>1. Len(served') = Len(served) + 1 /\ Len(served) \in Nat
      BY <2>1, <2>2, Appended
    <3>2. QED
      BY <3>1 DEF Number
  <2>4. Told(served, Answer, Number) /\ Stored(content[req.uri], Answer, Number)
    BY <2>1 DEF HistoryInv
  <2>5. ASSUME NEW u \in Uris PROVE FileRight(u)'
    <3>1. FileRight(u) /\ ~Doing(u)'
      BY <1>1, <2>1 DEF Doing
    <3>2. Overwrites(Answer, u) <=> Doing(u)
      <4>1. Answer.req = req /\ (Answer.opened <=> infile > 0)
        BY AnswersAre DEF AnswerIs
      <4>2. infile > 0 <=> infile # -1
        BY DEF FdInv, File, Listener
      <4>3. QED
        BY <2>1, <4>1, <4>2 DEF Overwrites, Doing
    <3>3. PutsIn(served', u, Number')
            = PutsIn(served, u, Number) \cup (IF Overwrites(Answer, u) THEN {Number} ELSE {})
      BY <2>1, <2>2, <2>3, NextPuts
    <3>4. PutsIn(served', u, Number') # {} <=> PutsIn(served, u, Number) # {} \/ Doing(u)
      BY <3>2, <3>3
    <3>5. Holds(served', content[u], u, Number')
      <4>1. CASE Doing(u)
        <5>1. u = req.uri /\ Overwrites(Answer, u)
          BY <4>1, <3>2 DEF Doing
        <5>2. Answer.code \in {200, 201, 400}
          BY <2>4, <5>1 DEF Told, Overwrites
        <5>3. Stored(content[u], Answer, Len(served) + 1)
          BY <2>3, <2>4, <5>1
        <5>4. QED
          BY <5>1, <5>2, <5>3, <2>1, <2>2, <2>3, HoldsNext
      <4>2. CASE ~Doing(u)
        <5>1. Holds(served, content[u], u, Len(served) + 1)
          BY <2>3, <3>1, <4>2 DEF FileRight
        <5>2. QED
          BY <5>1, <4>2, <3>2, <2>1, <2>2, <2>3, HoldsNext
      <4>3. QED
        BY <4>1, <4>2
    <3>6. QED
      BY <2>1, <3>1, <3>4, <3>5 DEF FileRight
  <2>6. QED
    BY <1>1, <1>2, <2>1, <2>5
<1>13. CASE ClientGone
  BY <1>4, <1>13 DEF ClientGone
<1>14. CASE Close
  BY <1>3, <1>14 DEF Close, Doing
<1>15. CASE UNCHANGED vars
  <2>1. \A u \in Uris : FileRight(u)' <=> FileRight(u)
    BY <1>15 DEF vars, FileRight, Doing, Number
  <2>2. QED
    BY <1>1, <1>2, <1>15, <2>1 DEF vars
<1>16. QED
  BY <1>5, <1>6, <1>7, <1>8, <1>9, <1>10, <1>11, <1>12, <1>13, <1>14, <1>15
     DEF Next, AcceptFails, Killed

(* What is to be shown of a step that answers nothing.                     *)
AnswerTold ==
  /\ pc \in {"put", "respond"} => Told(served, Answer, Number)
  /\ pc = "respond" => Stored(content[req.uri], Answer, Number)

(***************************************************************************)
(* HistoryInv through every step.  That an answer tells the truth follows  *)
(* from FileInv when its code is chosen, and nothing that can change it    *)
(* happens before it is given.                                             *)
(***************************************************************************)
LEMMA HistoryKept == FdInv /\ RequestInv /\ HistoryInv /\ FileInv /\ [Next]_vars => HistoryInv'
<1> SUFFICES ASSUME FdInv, RequestInv, HistoryInv, FileInv, [Next]_vars PROVE HistoryInv'
  OBVIOUS
<1>1. ASSUME served' = served, pc' # "close", AnswerTold' PROVE HistoryInv'
  <2>1. \A i \in 1 .. Len(served') : Told(served', served'[i], i)
    BY <1>1 DEF HistoryInv
  <2>2. QED
    BY <1>1, <2>1 DEF HistoryInv, AnswerTold
<1>2. ASSUME served' = served, pc' \in {"accept", "parse", "handle", "killed"} PROVE HistoryInv'
  BY <1>1, <1>2 DEF AnswerTold
<1>3. /\ Answer'.req = req' /\ Answer'.got = got' /\ Answer'.off = off'
      /\ Answer'.code = statcode' /\ (Answer'.opened <=> infile' > 0)
      /\ Answer'.body = IF SendsFile' THEN content'[req'.uri] ELSE <<Phrase>>
  BY AnswersAre DEF AnswerIs
<1>4. PICK a : a = Answer'
  OBVIOUS
<1>5. CASE Accept
  BY <1>2, <1>5 DEF Accept
<1>6. CASE ReadAndParse
  BY <1>2, <1>6 DEF ReadAndParse
<1>7. CASE Refuse
  <2>1. pc = "handle" /\ pc' = "respond" /\ statcode' = Verdict(req)
        /\ UNCHANGED <<infile, req, served>>
    BY <1>7 DEF Refuse
  <2>2. req \in Requests /\ infile = -1
    BY <2>1 DEF RequestInv, FdInv, Serving
  <2>3. statcode' \in {400, 501, 505}
    <3>1. statcode \in {400, INIT} /\ (Verdict(req) # INIT \/ req.method \notin {"GET", "PUT"})
      BY <1>7, <2>1 DEF Refuse, RequestInv
    <3>2. QED
      BY <2>1, <3>1, VerdictIs
  <2>4. a.req \in Requests /\ a.code \in {400, 501, 505} /\ ~a.opened
    BY <1>3, <1>4, <2>1, <2>2, <2>3
  <2>5. PICK i : i = Number'
    OBVIOUS
  <2>6. Told(served, a, i) /\ \A c : Stored(c, a, i)
    BY <2>4, ToldOfFailure
  <2>7. AnswerTold'
    BY <1>4, <2>1, <2>5, <2>6 DEF AnswerTold
  <2>8. QED
    BY <1>1, <2>1, <2>7
<1>8. ASSUME pc = "handle", UNCHANGED <<req, served>>, req \in Requests,
             NEW w \in Uris, w = req.uri
      PROVE  /\ Number' = Number
             /\ kind[w] = IF Kind0[w] = "absent" /\ PutsIn(served, w, Number) # {}
                          THEN "file" ELSE Kind0[w]
             /\ kind[w] \in Kinds
             /\ Missing(served, w, Number) <=> kind[w] \in {"absent", "uncreatable"}
             /\ Holds(served, content[w], w, Number)
  <2>1. FileRight(w) /\ ~Doing(w)
    BY <1>8 DEF FileInv, FileRight, Doing
  <2>2. kind[w] = IF Kind0[w] = "absent" /\ PutsIn(served, w, Number) # {}
                  THEN "file" ELSE Kind0[w]
    BY <2>1 DEF FileRight
  <2>3. ASSUME Kind0[w] = "uncreatable" PROVE PutsIn(served, w, Number) = {}
    <3>1. ASSUME NEW j \in PutsIn(served, w, Number) PROVE FALSE
      <4>1. j \in 1 .. Len(served)
        BY LengthIs DEF PutsIn, Number
      <4>2. served[j].req.method = "PUT" /\ served[j].opened /\ served[j].req.uri = w
        BY DEF PutsIn
      <4>3. Kind0[w] \in {"file", "absent"}
        BY <4>1, <4>2 DEF HistoryInv, Told
      <4>4. QED
        BY <2>3, <4>3
    <3>2. QED
      BY <3>1
  <2>4. kind[w] \in Kinds
    BY DEF FileInv
  <2>5. Holds(served, content[w], w, Number)
    BY <2>1 DEF FileRight
  <2>6. Missing(served, w, Number) <=> kind[w] \in {"absent", "uncreatable"}
    BY <2>2, <2>3 DEF Missing
  <2>7. Number' = Number
    BY <1>8 DEF Number
  <2>8. QED
    BY <2>2, <2>4, <2>5, <2>6, <2>7
<1>9. CASE PutOpen
  <2>1. /\ pc = "handle" /\ pc' = "put" /\ req.method = "PUT" /\ req \in Requests
        /\ UNCHANGED <<req, served>>
    BY <1>9, PutOpens
  <2>2. PICK w \in Uris : w = req.uri
    BY <2>1, RequestIs
  <2>3. PICK i : i = Number
    OBVIOUS
  <2>4. /\ Number' = i
        /\ kind[w] = IF Kind0[w] = "absent" /\ PutsIn(served, w, i) # {}
                     THEN "file" ELSE Kind0[w]
        /\ kind[w] \in Kinds
        /\ Missing(served, w, i) <=> kind[w] \in {"absent", "uncreatable"}
    BY <1>8, <2>1, <2>2, <2>3
  <2>5. a.req = req /\ a.code = statcode' /\ (a.opened <=> infile' > 0)
    BY <1>3, <1>4, <2>1
  <2>6. Told(served, a, i)
    <3>1. CASE kind[w] \in {"file", "absent"}
      <4>1. infile' = 7 /\ statcode' = PutCode(w)
        BY <1>9, <2>2, <3>1, PutOpens
      <4>2. Kind0[w] \in {"file", "absent"}
        BY <2>4, <3>1
      <4>3. a.code = IF kind[w] = "absent" THEN 201 ELSE 200
        BY <2>5, <3>1, <4>1 DEF PutCode, Exists
      <4>4. a.code \in {200, 201} /\ a.code \in Codes
        BY <4>3 DEF Codes
      <4>5. CodeRight(served, a, i) /\ ReadBack(served, a, i)
        BY <2>1, <2>2, <2>4, <2>5, <3>1, <4>3 DEF CodeRight, ReadBack
      <4>6. QED
        BY <2>1, <2>2, <2>5, <4>2, <4>4, <4>5 DEF Told
    <3>2. CASE kind[w] \notin {"file", "absent"}
      <4>1. infile' = -1 /\ statcode' = 400
        BY <1>9, <2>2, <3>2, PutOpens
      <4>2. a.code = 400 /\ ~a.opened
        BY <2>5, <4>1
      <4>3. QED
        BY <2>1, <2>5, <4>2, ToldOfFailure
    <3>3. QED
      BY <3>1, <3>2
  <2>7. AnswerTold'
    BY <1>4, <2>1, <2>4, <2>6 DEF AnswerTold
  <2>8. QED
    BY <1>1, <2>1, <2>7
<1>10. CASE PutBody
  <2>1. /\ pc = "put" /\ pc' = "respond" /\ req.method = "PUT" /\ req \in Requests
        /\ UNCHANGED <<infile, req, got, off, served>> /\ statcode' \in {400, statcode}
    BY <1>10, PutBodies
  <2>2. PICK w \in Uris : w = req.uri
    BY <2>1, RequestIs
  <2>3. PICK i : i = Number
    OBVIOUS
  <2>4. Number' = i
    BY <2>1, <2>3 DEF Number
  <2>5. /\ a.req = req /\ a.got = got /\ a.off = off /\ a.code = statcode'
        /\ (a.opened <=> infile > 0)
    BY <1>3, <1>4, <2>1
  <2>6. PICK b : b = Answer
    OBVIOUS
  <2>7. b.req = req /\ b.code = statcode /\ (b.opened <=> infile > 0) /\ Told(served, b, i)
    BY <2>1, <2>3, <2>6, AnswersAre DEF AnswerIs, HistoryInv
  <2>8. CASE statcode' = 400
    <3>1. Told(served, a, i) /\ \A c : Stored(c, a, i)
      <4>1. a.opened => Kind0[w] \in {"file", "absent"}
        BY <2>1, <2>2, <2>5, <2>7 DEF Told
      <4>2. QED
        BY <2>1, <2>2, <2>5, <2>8, <4>1, ToldOfFailure
    <3>2. AnswerTold'
      BY <1>4, <2>1, <2>4, <3>1 DEF AnswerTold
    <3>3. QED
      BY <1>1, <2>1, <3>2
  <2>9. CASE statcode' # 400
    <3>1. statcode' = statcode /\ infile # -1 /\ statcode \in {200, 201} /\ LineMatches(req)
      BY <2>1, <2>9 DEF RequestInv
    <3>2. Told(served, a, i)
      <4>1. CodeRight(served, a, i)
        BY <2>1, <2>5, <2>7, <3>1 DEF Told, CodeRight
      <4>2. ReadBack(served, a, i)
        BY <2>1, <2>5 DEF ReadBack
      <4>3. QED
        BY <2>5, <2>7, <3>1, <4>1, <4>2 DEF Told
    <3>3. PICK c \in Seq(Bytes) : /\ content' = [content EXCEPT ![w] = c]
                                  /\ \E n \in Announced(req) : c = Moved(n)
      BY <1>10, <2>2, <2>9, <3>1, PutBodies
    <3>4. content'[w] = c
      BY <3>3 DEF FileInv
    <3>5. Stored(c, a, i)
      <4>1. SUFFICES ASSUME FieldsRead(req.lines) > 0, NEW n \in Announced(req)
                     PROVE  c = Sent(a, i, n) <=> Right(a, n)
        BY <2>5 DEF Stored
      <4>2. n \in Nat /\ c = Moved(n)
        BY <2>1, <3>3, <4>1, AnnouncedIs
      <4>3. /\ got \in 0 .. req.body /\ off = Offset(req, got)
            /\ HeadLength(req) + got <= ReadSize
        BY <2>1, <3>1 DEF RequestInv, Parsed, Serving
      <4>4. off \in Int /\ got - off + 2 >= 0 /\ got - off <= 65535 /\ got \in Nat
        <5>1. /\ off \in Int /\ -2 <= got - off /\ got - off <= HeadLength(req) + got
          BY <2>1, <4>3, OffsetIs
        <5>2. HeadLength(req) \in Nat /\ req.body \in Nat
          BY <2>1, HeadIs, RequestIs
        <5>3. ReadSize \in Int /\ ReadSize <= 65535
          BY FilesAre
        <5>4. QED
          BY <4>3, <5>1, <5>2, <5>3
      <4>5. InBuffer(n) <=> got # off
        <5>1. PICK d \in Int : d = got - off
          BY <4>4
        <5>2. d % 65536 # 0 <=> d # 0
          BY <4>4, <5>1, SixteenBits
        <5>3. d # 0 <=> got # off
          BY <4>4, <5>1
        <5>4. QED
          BY <5>1, <5>2, <5>3 DEF InBuffer
      <4>6. i = Len(served) + 1 /\ i \in 1 .. MaxRequests
        <5>1. Len(served) \in Nat /\ Len(served) < MaxRequests /\ MaxRequests \in Nat
          BY <2>1, LengthIs, FilesAre DEF RequestInv, Serving
        <5>2. QED
          BY <2>3, <5>1 DEF Number
      <4>7. Moved(n) = [j \in 1 .. (IF n < req.body THEN n ELSE req.body) |-> <<Len(served) + 1, j>>]
              <=> n = 0 \/ (off = 0 /\ (got = 0 \/ got >= n))
        BY <2>1, <4>2, <4>3, <4>4, <4>5, <4>6, MovedIs, SMTT(60)
      <4>8. Sent(a, i, n) = [j \in 1 .. (IF n < req.body THEN n ELSE req.body) |-> <<Len(served) + 1, j>>]
        BY <2>5, <4>6 DEF Sent
      <4>9. Right(a, n) <=> n = 0 \/ (off = 0 /\ (got = 0 \/ got >= n))
        BY <2>5 DEF Right
      <4>10. QED
        BY <4>2, <4>7, <4>8, <4>9
    <3>6. AnswerTold'
      BY <1>4, <2>1, <2>2, <2>4, <3>2, <3>4, <3>5 DEF AnswerTold
    <3>7. QED
      BY <1>1, <2>1, <3>6
  <2>10. QED
    BY <2>8, <2>9
<1>11. CASE Crash
  BY <1>2, <1>11 DEF Crash
<1>12. CASE MethodGet
  <2>1. /\ pc = "handle" /\ pc' = "respond" /\ req.method = "GET" /\ statcode' = GetCode(req.uri)
        /\ UNCHANGED <<req, content, served>>
        /\ Opens(kind[req.uri] \in {"file", "dir"})
    BY <1>12 DEF MethodGet
  <2>2. req \in Requests
    BY <2>1 DEF RequestInv, Serving
  <2>3. PICK w \in Uris : w = req.uri
    BY <2>2, RequestIs
  <2>4. PICK i : i = Number
    OBVIOUS
  <2>5. /\ Number' = i
        /\ kind[w] = IF Kind0[w] = "absent" /\ PutsIn(served, w, i) # {}
                     THEN "file" ELSE Kind0[w]
        /\ kind[w] \in Kinds
        /\ Missing(served, w, i) <=> kind[w] \in {"absent", "uncreatable"}
        /\ Holds(served, content[w], w, i)
    BY <1>8, <2>1, <2>2, <2>3, <2>4
  <2>6. IF kind[w] \in {"file", "dir"} THEN infile' = 7 ELSE infile' = -1
    <3>1. fds = 0 .. 6 /\ infile = -1
      BY <2>1 DEF FdInv, Fds, Client, Listener, Serving
    <3>2. Lowest = 7
      BY <3>1, LowestIsNext
    <3>3. CASE kind[w] \in {"file", "dir"}
      BY <2>1, <2>3, <3>2, <3>3 DEF Opens
    <3>4. CASE kind[w] \notin {"file", "dir"}
      BY <2>1, <2>3, <3>1, <3>4 DEF Opens
    <3>5. QED
      BY <3>3, <3>4
  <2>7. statcode' = IF kind[w] \in {"absent", "uncreatable"} THEN 404
                    ELSE IF kind[w] = "dir" THEN 403 ELSE 200
    BY <2>1, <2>3 DEF GetCode, Exists
  <2>8. /\ a.req = req /\ a.code = statcode' /\ (a.opened <=> infile' > 0)
        /\ a.body = IF SendsFile' THEN content[w] ELSE <<Phrase>>
    BY <1>3, <1>4, <2>1, <2>3
  <2>9. SendsFile' <=> statcode' = 200 /\ infile' > 0
    BY <2>1 DEF SendsFile
  <2>10. a.code \in Codes /\ CodeRight(served, a, i)
    BY <2>1, <2>3, <2>5, <2>7, <2>8 DEF Codes, CodeRight
  <2>11. ReadBack(served, a, i)
    <3>1. SUFFICES ASSUME statcode' = 200
                   PROVE  IF ~a.opened THEN a.body = <<Phrase>> /\ Kind0[w] = "denied"
                          ELSE Holds(served, a.body, w, i)
      BY <2>3, <2>8 DEF ReadBack
    <3>2. kind[w] \in {"file", "denied"}
      BY <2>5, <2>7, <3>1 DEF Kinds
    <3>3. CASE kind[w] = "file"
      <4>1. a.opened /\ a.body = content[w]
        BY <2>6, <2>8, <2>9, <3>1, <3>3
      <4>2. QED
        BY <2>5, <4>1
    <3>4. CASE kind[w] = "denied"
      <4>1. ~a.opened /\ a.body = <<Phrase>>
        BY <2>6, <2>8, <2>9, <3>4
      <4>2. Kind0[w] = "denied"
        BY <2>5, <3>4
      <4>3. QED
        BY <4>1, <4>2
    <3>5. QED
      BY <3>2, <3>3, <3>4
  <2>12. Told(served, a, i)
    BY <2>1, <2>2, <2>8, <2>10, <2>11 DEF Told
  <2>13. Stored(content'[req'.uri], a, i)
    BY <2>1, <2>8 DEF Stored
  <2>14. AnswerTold'
    BY <1>4, <2>1, <2>5, <2>12, <2>13 DEF AnswerTold
  <2>15. QED
    BY <1>1, <2>1, <2>14
<1>13. CASE Respond
  <2>1. /\ pc = "respond" /\ pc' = "close" /\ served' = Append(served, Answer)
        /\ UNCHANGED <<infile, req, got, off, statcode, content>>
    BY <1>13 DEF Respond, Answer
  <2>2. \E S : served \in Seq(S)
    BY DEF FdInv
  <2>3. PICK N \in Nat : N = Len(served)
    BY LengthIs
  <2>4. Len(served') = N + 1 /\ served'[N + 1] = Answer
        /\ \A i \in 1 .. N : served'[i] = served[i]
    BY <2>1, <2>2, <2>3, Appended
  <2>5. Answer' = Answer
    BY <2>1 DEF Answer, SendsFile
  <2>6. Number = N + 1
    BY <2>3 DEF Number
  <2>7. ASSUME NEW i \in 1 .. N + 1 PROVE Told(served', served'[i], i)
    <3>1. PICK s : s = served'[i]
      OBVIOUS
    <3>2. Told(served, s, i)
      <4>1. CASE i = N + 1
        BY <2>1, <2>4, <2>6, <3>1, <4>1 DEF HistoryInv
      <4>2. CASE i \in 1 .. N
        BY <2>3, <2>4, <3>1, <4>2 DEF HistoryInv
      <4>3. QED
        BY <2>3, <4>1, <4>2
    <3>3. i \in 1 .. Len(served) + 1
      BY <2>3
    <3>4. Told(Append(served, Answer), s, i)
      BY <2>2, <3>2, <3>3, EarlierKept
    <3>5. QED
      BY <2>1, <3>1, <3>4
  <2>8. Stored(content'[req'.uri], Answer', Len(served'))
    BY <2>1, <2>4, <2>5, <2>6 DEF HistoryInv
  <2>9. served'[Len(served')] = Answer'
    BY <2>4, <2>5
  <2>10. QED
    BY <2>1, <2>4, <2>7, <2>8, <2>9 DEF HistoryInv
<1>14. CASE ClientGone
  BY <1>2, <1>14 DEF ClientGone
<1>15. CASE Close
  BY <1>2, <1>15 DEF Close
<1>16. CASE UNCHANGED vars
  <2>1. Answer' = Answer
    BY <1>16 DEF vars, Answer, SendsFile
  <2>2. QED
    BY <1>16, <2>1 DEF vars, HistoryInv, Number
<1>17. QED
  BY <1>5, <1>6, <1>7, <1>9, <1>10, <1>11, <1>12, <1>13, <1>14, <1>15, <1>16
     DEF Next, AcceptFails, Killed

-------------------------------------------------------------------------------
(* The invariant holds in every state that can be reached. *)
THEOREM Invariant == Spec => []IInv
<1>1. IInv /\ [Next]_vars => IInv'
  BY FdKept, RequestKept, HistoryKept, FileKept DEF IInv
<1>2. QED
  BY <1>1, StartsRight, PTL DEF Spec

(***************************************************************************)
(* The types, for any requests and files: every response has a code that   *)
(* there is a phrase for, and a file holds bytes of what was sent, of what *)
(* it held first, of a head, or of memory that was never written.          *)
(***************************************************************************)
THEOREM TypesCorrect == Spec => []TypeOK
  BY Invariant, TypesFollow, PTL

(***************************************************************************)
(* BodyOffset for requests of any shape and length, read in any two parts: *)
(* the recursion over the blank lines, followed to its end.                *)
(***************************************************************************)
THEOREM OffsetsExplained == Spec => []BodyOffset
  BY Invariant, BodyOffsetFollows, PTL

(***************************************************************************)
(* StoredExactly for all requests, wherever parse takes the body to start: *)
(* a PUT answered as a success has stored what was sent when the start was *)
(* found and none or all of the body was read with the head, and in no     *)
(* other case but that of an announced length of 0.                        *)
(***************************************************************************)
THEOREM StoresExplained == Spec => []StoredExactly
  BY Invariant, StoredFollows, PTL

(***************************************************************************)
(* RoundTrip for any sequence of requests and failures: a GET answered 200 *)
(* sends what the last PUT that opened the file left there.                *)
(***************************************************************************)
THEOREM ReadsBack == Spec => []RoundTrip
  BY Invariant, RoundTripFollows, PTL

(* CodesTell for any sequence of requests: the codes tell the history of a *)
(* file.                                                                   *)
THEOREM CodesExplained == Spec => []CodesTell
  BY Invariant, CodesFollow, PTL
===============================================================================
