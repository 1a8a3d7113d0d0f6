----------------------------- MODULE MemoryProofs -----------------------------
(***************************************************************************)
(* Proofs about Memory, for every input, every way to split it into reads  *)
(* and writes, and every file: the types, that the outcome depends on the  *)
(* input alone, and what a failure in the middle may leave behind.         *)
(***************************************************************************)
EXTENDS Memory, FiniteSetTheorems, SequenceTheorems, TLAPS

-------------------------------------------------------------------------------
(***************************************************************************)
(* Sequences of bytes.                                                     *)
(***************************************************************************)
Text == Seq(Bytes)

(* No byte of w is in stops. *)
Free(w, stops) == \A i \in 1 .. Len(w) : w[i] \notin stops

(* Two texts, one after the other. *)
LEMMA Joined ==
  ASSUME NEW s \in Text, NEW t \in Text
  PROVE  /\ s \o t \in Text /\ Len(s \o t) = Len(s) + Len(t)
         /\ Len(s) \in Nat /\ Len(t) \in Nat
         /\ \A i \in 1 .. Len(s) : (s \o t)[i] = s[i]
         /\ \A i \in 1 .. Len(t) : (s \o t)[Len(s) + i] = t[i]
         /\ s \o << >> = s /\ << >> \o s = s
  <1>1. /\ s \o t \in Text /\ Len(s \o t) = Len(s) + Len(t)
        /\ \A i \in 1 .. Len(s) + Len(t) : (s \o t)[i] = IF i <= Len(s) THEN s[i] ELSE t[i - Len(s)]
    BY ConcatProperties DEF Text
  <1>2. Len(s) \in Nat /\ Len(t) \in Nat
    BY LenProperties DEF Text
  <1>3. ASSUME NEW i \in 1 .. Len(t) PROVE (s \o t)[Len(s) + i] = t[i]
    <2>1. Len(s) + i \in 1 .. Len(s) + Len(t) /\ ~(Len(s) + i <= Len(s)) /\ (Len(s) + i) - Len(s) = i
      BY <1>2
    <2> QED BY <2>1, <1>1
  <1>4. \A i \in 1 .. Len(s) : (s \o t)[i] = s[i]
    BY <1>1, <1>2
  <1>5. s \o << >> = s /\ << >> \o s = s
    BY ConcatEmptySeq DEF Text
  <1> QED BY <1>1, <1>2, <1>3, <1>4, <1>5

(* Three texts are put together from either side.  The equation has a name *)
(* so that it is used for the texts at hand only.                          *)
Assoc(s, t, u) == (s \o t) \o u = s \o (t \o u)

LEMMA Associative == ASSUME NEW s \in Text, NEW t \in Text, NEW u \in Text PROVE Assoc(s, t, u)
  BY ConcatAssociative, SMTT(60) DEF Text, Assoc

(* A sequence is cut in two after its first n bytes. *)
LEMMA Cut ==
  ASSUME NEW s \in Text, NEW n \in 0 .. Len(s)
  PROVE  /\ SubSeq(s, 1, n) \in Text /\ SubSeq(s, n + 1, Len(s)) \in Text
         /\ Len(SubSeq(s, 1, n)) = n /\ Len(SubSeq(s, n + 1, Len(s))) = Len(s) - n
         /\ \A i \in 1 .. n : SubSeq(s, 1, n)[i] = s[i]
         /\ \A i \in 1 .. Len(s) - n : SubSeq(s, n + 1, Len(s))[i] = s[n + i]
         /\ s = SubSeq(s, 1, n) \o SubSeq(s, n + 1, Len(s))
  <1>1. Len(s) \in Nat /\ \A i \in 1 .. Len(s) : s[i] \in Bytes
    BY LenProperties, ElementOfSeq DEF Text
  <1>2. /\ SubSeq(s, 1, n) \in Text /\ Len(SubSeq(s, 1, n)) = IF 1 <= n THEN n - 1 + 1 ELSE 0
        /\ \A i \in 1 .. n - 1 + 1 : SubSeq(s, 1, n)[i] = s[1 + i - 1]
    <2>1. \A i \in 1 .. n : s[i] \in Bytes
      BY <1>1
    <2> QED BY <2>1, <1>1, SubSeqProperties DEF Text
  <1>3. /\ SubSeq(s, n + 1, Len(s)) \in Text
        /\ Len(SubSeq(s, n + 1, Len(s))) = IF n + 1 <= Len(s) THEN Len(s) - (n + 1) + 1 ELSE 0
    <2>1. \A i \in n + 1 .. Len(s) : s[i] \in Bytes
      BY <1>1
    <2> QED BY <2>1, <1>1, SubSeqProperties DEF Text
  <1>4. s = SubSeq(s, 1, n) \o SubSeq(s, n + 1, Len(s))
    <2>1. 1 \in 1 .. Len(s) + 1 /\ n \in 1 - 1 .. Len(s) /\ Len(s) \in n .. Len(s)
      BY <1>1
    <2>2. \A m \in 1 .. Len(s) + 1 : \A k \in m - 1 .. Len(s) : \A l \in k .. Len(s) :
            SubSeq(s, m, k) \o SubSeq(s, k + 1, l) = SubSeq(s, m, l)
      BY ConcatAdjacentSubSeq DEF Text
    <2>3. SubSeq(s, 1, n) \o SubSeq(s, n + 1, Len(s)) = SubSeq(s, 1, Len(s))
      BY <2>1, <2>2
    <2> QED BY <2>3, SubSeqFull DEF Text
  <1>5. \A i \in 1 .. n : SubSeq(s, 1, n)[i] = s[i]
    BY <1>1, <1>2
  <1>6. Len(SubSeq(s, 1, n)) = n
    BY <1>1, <1>2
  <1>7. Len(SubSeq(s, n + 1, Len(s))) = Len(s) - n
    BY <1>1, <1>3
  <1>8. \A i \in 1 .. Len(s) - n : SubSeq(s, n + 1, Len(s))[i] = s[n + i]
    <2> PICK a, b : a = SubSeq(s, 1, n) /\ b = SubSeq(s, n + 1, Len(s))
      OBVIOUS
    <2>1. \A i \in 1 .. Len(b) : (a \o b)[Len(a) + i] = b[i]
      BY <1>2, <1>3, Joined, ZenonT(60)
    <2> QED BY <2>1, <1>4, <1>6, <1>7
  <1> QED BY <1>2, <1>3, <1>4, <1>5, <1>6, <1>7, <1>8

(* The first part of a concatenation is a prefix, the second one a suffix. *)
LEMMA FirstIsPrefix ==
  ASSUME NEW s \in Text, NEW t \in Text
  PROVE  IsPrefix(s, s \o t)
  <1>1. /\ s \o t \in Text /\ Len(s \o t) = Len(s) + Len(t) /\ Len(s) \in Nat /\ Len(t) \in Nat
        /\ \A i \in 1 .. Len(s) : (s \o t)[i] = s[i]
    BY Joined
  <1>2. Len(s) \in 0 .. Len(s) /\ Len(s) \in 0 .. Len(s \o t)
    BY <1>1
  <1>3. /\ SubSeq(s, 1, Len(s)) \in Text /\ Len(SubSeq(s, 1, Len(s))) = Len(s)
        /\ \A i \in 1 .. Len(s) : SubSeq(s, 1, Len(s))[i] = s[i]
    BY <1>2, Cut
  <1>4. /\ SubSeq(s \o t, 1, Len(s)) \in Text /\ Len(SubSeq(s \o t, 1, Len(s))) = Len(s)
        /\ \A i \in 1 .. Len(s) : SubSeq(s \o t, 1, Len(s))[i] = (s \o t)[i]
    BY <1>1, <1>2, Cut
  <1>5. SubSeq(s, 1, Len(s)) = SubSeq(s \o t, 1, Len(s))
    BY <1>1, <1>3, <1>4, SeqEqual DEF Text
  <1> QED BY <1>1, <1>5 DEF IsPrefix

(* A text backwards. *)
LEMMA ReverseOf ==
  ASSUME NEW s \in Text
  PROVE  /\ Reverse(s) \in Text /\ Len(Reverse(s)) = Len(s)
         /\ \A i \in 1 .. Len(s) : Reverse(s)[i] = s[(Len(s) - i) + 1]
  <1>1. Len(s) \in Nat /\ \A i \in 1 .. Len(s) : s[i] \in Bytes
    BY LenProperties, ElementOfSeq DEF Text
  <1>2. \A i \in 1 .. Len(s) : (Len(s) - i) + 1 \in 1 .. Len(s)
    BY <1>1
  <1>3. Reverse(s) \in [1 .. Len(s) -> Bytes]
    BY <1>1, <1>2 DEF Reverse
  <1>4. Reverse(s) \in Text
    BY <1>1, <1>3, SeqDef DEF Text
  <1>5. Len(Reverse(s)) = Len(s)
    <2>1. DOMAIN Reverse(s) = 1 .. Len(s)
      BY DEF Reverse
    <2>2. DOMAIN Reverse(s) = 1 .. Len(Reverse(s)) /\ Len(Reverse(s)) \in Nat
      BY <1>4, LenProperties DEF Text
    <2>3. \A m, n \in Nat : 1 .. m = 1 .. n => m = n
      <3>1. \A m, n \in Nat : 1 .. m = 1 .. n => m <= n
        OBVIOUS
      <3> QED BY <3>1
    <2> QED BY <2>1, <2>2, <2>3, <1>1
  <1> QED BY <1>4, <1>5 DEF Reverse

(* A text ends with its second part. *)
LEMMA SecondIsSuffix ==
  ASSUME NEW s \in Text, NEW t \in Text
  PROVE  IsSuffix(t, s \o t)
  <1>1. /\ s \o t \in Text /\ Len(s \o t) = Len(s) + Len(t) /\ Len(s) \in Nat /\ Len(t) \in Nat
        /\ \A i \in 1 .. Len(t) : (s \o t)[Len(s) + i] = t[i]
    BY Joined
  <1> DEFINE r == Reverse(t)
             q == Reverse(s \o t)
  <1>2. /\ r \in Text /\ Len(r) = Len(t) /\ q \in Text /\ Len(q) = Len(s) + Len(t)
        /\ \A i \in 1 .. Len(t) : r[i] = t[(Len(t) - i) + 1]
        /\ \A i \in 1 .. Len(s) + Len(t) : q[i] = (s \o t)[((Len(s) + Len(t)) - i) + 1]
    <2> PICK u \in Text : u = s \o t
      BY <1>1
    <2>1. /\ Reverse(u) \in Text /\ Len(Reverse(u)) = Len(u)
          /\ \A i \in 1 .. Len(u) : Reverse(u)[i] = u[(Len(u) - i) + 1]
      BY ReverseOf
    <2>2. /\ r \in Text /\ Len(r) = Len(t)
          /\ \A i \in 1 .. Len(t) : r[i] = t[(Len(t) - i) + 1]
      BY ReverseOf
    <2> QED BY <2>1, <2>2, <1>1
  <1>3. ASSUME NEW i \in 1 .. Len(t) PROVE q[i] = r[i]
    <2>1. /\ (Len(t) - i) + 1 \in 1 .. Len(t) /\ i \in 1 .. Len(s) + Len(t)
          /\ ((Len(s) + Len(t)) - i) + 1 = Len(s) + ((Len(t) - i) + 1)
      BY <1>1
    <2> QED BY <2>1, <1>1, <1>2
  <1> HIDE DEF r, q
  <1>4. Len(r) \in 0 .. Len(r) /\ Len(r) \in 0 .. Len(q) /\ Len(r) <= Len(q)
    BY <1>1, <1>2
  <1>5. /\ SubSeq(r, 1, Len(r)) \in Text /\ Len(SubSeq(r, 1, Len(r))) = Len(r)
        /\ \A i \in 1 .. Len(r) : SubSeq(r, 1, Len(r))[i] = r[i]
    BY <1>2, <1>4, Cut
  <1>6. /\ SubSeq(q, 1, Len(r)) \in Text /\ Len(SubSeq(q, 1, Len(r))) = Len(r)
        /\ \A i \in 1 .. Len(r) : SubSeq(q, 1, Len(r))[i] = q[i]
    BY <1>2, <1>4, Cut
  <1>7. SubSeq(r, 1, Len(r)) = SubSeq(q, 1, Len(r))
    BY <1>2, <1>3, <1>5, <1>6, SeqEqual DEF Text
  <1> QED BY <1>4, <1>7 DEF IsSuffix, IsPrefix, r, q

-------------------------------------------------------------------------------
(***************************************************************************)
(* Split.  Either no byte of s is a stop and all of s is the word, or s is *)
(* the word, which has no stop, a stop and the rest.                       *)
(***************************************************************************)
(* Every set of natural numbers that is not empty has a least element. *)
LEMMA Least ==
  ASSUME NEW S \in SUBSET Nat, S # {}
  PROVE  Min(S) \in S /\ \A j \in S : Min(S) <= j
  <1>1. PICK i \in S : \A j \in S : ~(<<j, i>> \in OpToRel(<, Nat))
    BY NatLessThanWellFounded, WFMin
  <1>2. \A j \in S : j \in Nat /\ ~(j < i)
    BY <1>1 DEF OpToRel
  <1>3. \A j \in S : i <= j
    BY <1>2
  <1> QED BY <1>1, <1>3 DEF Min

(* Where the first stop in s is, and 0 if there is none. *)
FirstStop(s, stops) == SelectInSeq(s, LAMBDA b : b \in stops)

(* The first byte that strtok stops at, or 0. *)
LEMMA FirstStopIs ==
  ASSUME NEW s \in Text, NEW stops, NEW k, k = FirstStop(s, stops)
  PROVE  \/ k = 0 /\ Free(s, stops)
         \/ k \in 1 .. Len(s) /\ s[k] \in stops /\ \A j \in 1 .. k - 1 : s[j] \notin stops
  <1> DEFINE I == {i \in 1 .. Len(s) : s[i] \in stops}
  <1>1. Len(s) \in Nat
    BY LenProperties DEF Text
  <1>2. k = IF I # {} THEN Min(I) ELSE 0
    BY DEF FirstStop, SelectInSeq
  <1>3. \A i : i \in I <=> i \in 1 .. Len(s) /\ s[i] \in stops
    OBVIOUS
  <1> HIDE DEF I
  <1>4. CASE I = {}
    BY <1>2, <1>3, <1>4 DEF Free
  <1>5. CASE I # {}
    <2>1. I \in SUBSET Nat
      BY <1>1, <1>3
    <2>2. k \in I /\ \A j \in I : k <= j
      BY <1>2, <1>5, <2>1, Least
    <2>3. k \in 1 .. Len(s) /\ s[k] \in stops
      BY <2>2, <1>3
    <2>4. \A j \in 1 .. k - 1 : j \in 1 .. Len(s) /\ ~(k <= j)
      BY <2>3, <1>1
    <2>5. \A j \in 1 .. k - 1 : s[j] \notin stops
      BY <2>2, <2>4, <1>3
    <2> QED BY <2>3, <2>5
  <1> QED BY <1>4, <1>5

(* The parts of s in front of its k-th byte and behind it. *)
Before(s, k) == SubSeq(s, 1, k - 1)
Behind(s, k) == SubSeq(s, k + 1, Len(s))

(* The two cases of Split. *)
LEMMA SplitIs ==
  ASSUME NEW s, NEW stops, NEW k, k = FirstStop(s, stops)
  PROVE  /\ k = 0 => Split(s, stops) = [word |-> s, stop |-> Null, rest |-> << >>]
         /\ k # 0 => Split(s, stops) = [word |-> Before(s, k), stop |-> s[k], rest |-> Behind(s, k)]
  BY DEF Split, FirstStop, Before, Behind

(* The sequence of one byte. *)
One(b) == <<b>>

(* c is s, split at its first stop. *)
Parted(s, stops, c) ==
  /\ c.word \in Text /\ c.rest \in Text /\ Free(c.word, stops)
  /\ \/ c.stop = Null /\ c.word = s /\ c.rest = << >>
     \/ c.stop \in stops /\ c.stop # Null /\ s = c.word \o (One(c.stop) \o c.rest)

(* What strtok makes of any text. *)
LEMMA SplitText ==
  ASSUME NEW s \in Text, NEW stops \in SUBSET Bytes
  PROVE  Parted(s, stops, Split(s, stops))
  <1> PICK c : c = Split(s, stops)
    OBVIOUS
  <1> SUFFICES Parted(s, stops, c)
    OBVIOUS
  <1> PICK k : k = FirstStop(s, stops)
    OBVIOUS
  <1>1. Len(s) \in Nat
    BY LenProperties DEF Text
  <1>2. \/ k = 0 /\ Free(s, stops)
        \/ k \in 1 .. Len(s) /\ s[k] \in stops /\ \A j \in 1 .. k - 1 : s[j] \notin stops
    BY FirstStopIs
  <1>3. CASE k = 0
    <2>1. c = [word |-> s, stop |-> Null, rest |-> << >>]
      BY <1>3, SplitIs
    <2>2. << >> \in Text
      BY EmptySeq DEF Text
    <2>3. Free(s, stops)
      BY <1>2, <1>3
    <2> QED BY <2>1, <2>2, <2>3 DEF Parted
  <1>4. CASE k # 0
    <2>1. k \in 1 .. Len(s) /\ s[k] \in stops /\ \A j \in 1 .. k - 1 : s[j] \notin stops
      BY <1>2, <1>4
    <2>2. k \in 0 .. Len(s) /\ k - 1 \in 0 .. Len(s) /\ k - 1 + 1 = k
      BY <2>1, <1>1
    <2> PICK w, b, r : w = Before(s, k) /\ b = s[k] /\ r = Behind(s, k)
      OBVIOUS
    <2>3. c = [word |-> w, stop |-> b, rest |-> r]
      BY <1>4, SplitIs
    <2>4. /\ w \in Text /\ Len(w) = k - 1 /\ \A i \in 1 .. k - 1 : w[i] = s[i]
          /\ s = w \o SubSeq(s, k, Len(s))
      BY <2>2, Cut, ZenonT(60) DEF Before
    <2>5. r \in Text
      BY <2>2, Cut DEF Behind
    <2>6. SubSeq(s, k, Len(s)) = One(s[k]) \o r
      <3>1. Len(s) \in k .. Len(s)
        BY <2>1, <1>1
      <3> QED BY <2>1, <3>1, SubSeqRecursiveFirst DEF Text, Behind, One
    <2>7. Free(w, stops)
      BY <2>1, <2>4 DEF Free
    <2>8. s[k] # Null
      BY <2>1, MemoryAssumption
    <2>9. c.word = w /\ c.stop = b /\ c.rest = r
      BY <2>3
    <2>10. s = w \o (One(b) \o r)
      BY <2>4, <2>6
    <2> QED BY <2>1, <2>4, <2>5, <2>7, <2>8, <2>9, <2>10 DEF Parted
  <1> QED BY <1>3, <1>4

(* The first stop is where it is split. *)
LEMMA SplitAt ==
  ASSUME NEW stops \in SUBSET Bytes, NEW w \in Text, NEW b \in stops, NEW r \in Text,
         Free(w, stops)
  PROVE  Split(w \o (One(b) \o r), stops) = [word |-> w, stop |-> b, rest |-> r]
  <1>t. PICK t : One(b) \o r = t
    OBVIOUS
  <1>s. PICK s : w \o t = s
    OBVIOUS
  <1> PICK k : k = FirstStop(s, stops)
    OBVIOUS
  <1>o. PICK o : o = One(b)
    OBVIOUS
  <1>1. o \in Text /\ Len(o) = 1 /\ o[1] = b /\ 1 \in 1 .. Len(o)
    BY <1>o DEF Text, One
  <1>2. /\ t \in Text /\ Len(t) = 1 + Len(r) /\ Len(r) \in Nat
        /\ t[1] = b /\ \A i \in 1 .. Len(r) : t[1 + i] = r[i]
    <2>1. \A x \in Text : /\ x \o r \in Text /\ Len(x \o r) = Len(x) + Len(r) /\ Len(r) \in Nat
                          /\ \A i \in 1 .. Len(x) : (x \o r)[i] = x[i]
                          /\ \A i \in 1 .. Len(r) : (x \o r)[Len(x) + i] = r[i]
      BY Joined
    <2>2. /\ t \in Text /\ Len(t) = Len(o) + Len(r) /\ Len(r) \in Nat
          /\ \A i \in 1 .. Len(o) : t[i] = o[i]
          /\ \A i \in 1 .. Len(r) : t[Len(o) + i] = r[i]
      BY <2>1, <1>t, <1>o, <1>1, Zenon
    <2> QED BY <1>1, <2>2
  <1>3. /\ s \in Text /\ Len(s) = Len(w) + Len(t) /\ Len(w) \in Nat
        /\ \A i \in 1 .. Len(w) : s[i] = w[i]
        /\ \A i \in 1 .. Len(t) : s[Len(w) + i] = t[i]
    BY <1>s, <1>2, Joined
  <1>4. /\ Len(w) + 1 \in 1 .. Len(s) /\ s[Len(w) + 1] = b
        /\ Len(w) \in 0 .. Len(s) /\ Len(w) + 1 \in 0 .. Len(s)
    BY <1>2, <1>3
  <1>5. k = Len(w) + 1
    <2>1. \/ k = 0 /\ Free(s, stops)
          \/ k \in 1 .. Len(s) /\ s[k] \in stops /\ \A j \in 1 .. k - 1 : s[j] \notin stops
      BY <1>3, FirstStopIs
    <2>2. ~Free(s, stops)
      BY <1>4 DEF Free
    <2>3. k \in 1 .. Len(s) /\ s[k] \in stops
      BY <2>1, <2>2
    <2>4. k \notin 1 .. Len(w)
      BY <2>3, <1>3 DEF Free
    <2>5. ~(Len(w) + 1 \in 1 .. k - 1)
      BY <2>1, <2>2, <1>4
    <2> QED BY <2>3, <2>4, <2>5, <1>3
  <1>6. k # 0 /\ k - 1 = Len(w)
    BY <1>3, <1>5
  <1>7. Split(s, stops) = [word |-> Before(s, k), stop |-> s[k], rest |-> Behind(s, k)]
    BY <1>6, SplitIs
  <1>8. Before(s, k) = w
    <2>1. /\ SubSeq(s, 1, Len(w)) \in Text /\ Len(SubSeq(s, 1, Len(w))) = Len(w)
          /\ \A i \in 1 .. Len(w) : SubSeq(s, 1, Len(w))[i] = s[i]
      BY <1>3, <1>4, Cut
    <2>2. SubSeq(s, 1, Len(w)) = w
      BY <2>1, <1>3, SeqEqual DEF Text
    <2> QED BY <2>2, <1>6 DEF Before
  <1>9. Behind(s, k) = r
    <2> PICK u : u = Behind(s, k)
      OBVIOUS
    <2>1. u \in Text /\ Len(u) = Len(s) - k
      BY <1>3, <1>4, <1>5, Cut, ZenonT(60) DEF Behind
    <2>2. Len(u) = Len(r)
      BY <2>1, <1>2, <1>3, <1>5
    <2>3. \A i \in 1 .. Len(s) - k : u[i] = s[k + i]
      BY <1>3, <1>4, <1>5, Cut DEF Behind
    <2>4. \A i \in 1 .. Len(r) : /\ i \in 1 .. Len(s) - k
                                 /\ k + i = Len(w) + (1 + i) /\ 1 + i \in 1 .. Len(t)
      BY <1>2, <1>3, <1>5
    <2>5. \A i \in 1 .. Len(r) : u[i] = r[i]
      <3> SUFFICES ASSUME NEW i \in 1 .. Len(r) PROVE u[i] = r[i]
        OBVIOUS
      <3>1. u[i] = s[k + i] /\ k + i = Len(w) + (1 + i)
        BY <2>3, <2>4
      <3>2. s[Len(w) + (1 + i)] = t[1 + i]
        BY <2>4, <1>3
      <3> QED BY <3>1, <3>2, <1>2
    <2> QED BY <2>1, <2>2, <2>5, SeqEqual DEF Text
  <1>10. s[k] = b
    BY <1>4, <1>5
  <1>11. Split(s, stops) = [word |-> w, stop |-> b, rest |-> r]
    BY <1>7, <1>8, <1>9, <1>10
  <1> QED BY <1>s, <1>t, <1>11

(* Words that are joined have no stop if neither of them has one. *)
LEMMA FreeJoined ==
  ASSUME NEW s \in Text, NEW t \in Text, NEW stops, Free(s, stops), Free(t, stops)
  PROVE  Free(s \o t, stops)
  <1> SUFFICES ASSUME NEW i \in 1 .. Len(s \o t) PROVE (s \o t)[i] \notin stops
    BY DEF Free
  <1>1. /\ Len(s \o t) = Len(s) + Len(t) /\ Len(s) \in Nat /\ Len(t) \in Nat
        /\ \A j \in 1 .. Len(s) : (s \o t)[j] = s[j]
        /\ \A j \in 1 .. Len(t) : (s \o t)[Len(s) + j] = t[j]
    BY Joined
  <1>2. CASE i \in 1 .. Len(s)
    BY <1>1, <1>2 DEF Free
  <1>3. CASE i \notin 1 .. Len(s)
    <2>1. i - Len(s) \in 1 .. Len(t) /\ i = Len(s) + (i - Len(s))
      BY <1>1, <1>3
    <2> PICK j \in 1 .. Len(t) : i = Len(s) + j
      BY <2>1
    <2> QED BY <1>1 DEF Free
  <1> QED BY <1>2, <1>3

(***************************************************************************)
(* What a loop of main does with a piece of the input, when w is what the  *)
(* pieces before had of the word and more is still to come: it finds what  *)
(* is in all of them together.                                             *)
(***************************************************************************)
(* c is what is found in piece, and so in w \o (piece \o more). *)
Found(stops, w, piece, more, c) ==
  /\ c.word \in Text /\ c.rest \in Text
  /\ c.stop = Null => /\ Free(w \o c.word, stops)
                      /\ w \o (piece \o more) = (w \o c.word) \o (<< >> \o more)
  /\ c.stop # Null => /\ c.stop \in stops
                      /\ Split(w \o (piece \o more), stops)
                           = [word |-> w \o c.word, stop |-> c.stop, rest |-> c.rest \o more]

(* And of a text that is read piece after piece. *)
LEMMA SplitOn ==
  ASSUME NEW stops \in SUBSET Bytes, NEW w \in Text, Free(w, stops),
         NEW piece \in Text, NEW more \in Text
  PROVE  Found(stops, w, piece, more, Split(piece, stops))
  <1> PICK c : c = Split(piece, stops)
    OBVIOUS
  <1> SUFFICES Found(stops, w, piece, more, c)
    OBVIOUS
  <1>0. Parted(piece, stops, c)
    BY SplitText
  <1>1. /\ c.word \in Text /\ c.rest \in Text /\ Free(c.word, stops)
        /\ \/ c.stop = Null /\ c.word = piece /\ c.rest = << >>
           \/ c.stop \in stops /\ c.stop # Null /\ piece = c.word \o (One(c.stop) \o c.rest)
    BY <1>0 DEF Parted
  <1>t. PICK u : u = c.word
    OBVIOUS
  <1>b. PICK b : b = c.stop
    OBVIOUS
  <1>r. PICK r : r = c.rest
    OBVIOUS
  <1>2. /\ u \in Text /\ r \in Text /\ Free(u, stops) /\ w \o u \in Text /\ Free(w \o u, stops)
    BY <1>1, <1>t, <1>r, Joined, FreeJoined
  <1>3. CASE b = Null
    <2>1. piece = u
      BY <1>1, <1>3, <1>b, <1>t
    <2>2. (w \o u) \o more = w \o (u \o more)
      <3>1. Assoc(w, u, more)
        BY <1>2, Associative
      <3> QED BY <3>1 DEF Assoc
    <2>3. << >> \o more = more
      BY Joined, SMTT(60)
    <2> QED BY <1>1, <1>2, <1>3, <1>b, <1>t, <2>1, <2>2, <2>3 DEF Found
  <1>4. CASE b # Null
    <2>1. b \in stops /\ piece = u \o (One(b) \o r)
      BY <1>1, <1>4, <1>b, <1>t, <1>r
    <2>2. One(b) \in Text
      BY <2>1 DEF Text, One
    <2>3. PICK o \in Text : o = One(b)
      BY <2>2
    <2>4. r \o more \in Text /\ o \o r \in Text /\ o \o (r \o more) \in Text
      BY <1>2, Joined
    <2>5. piece \o more = u \o (o \o (r \o more))
      <3>1. piece = u \o (o \o r)
        BY <2>1, <2>3
      <3>2. Assoc(u, o \o r, more) /\ Assoc(o, r, more)
        BY <1>2, <2>4, Associative
      <3> QED BY <3>1, <3>2 DEF Assoc
    <2>6. w \o (piece \o more) = (w \o u) \o (One(b) \o (r \o more))
      <3>1. Assoc(w, u, o \o (r \o more))
        BY <1>2, <2>4, Associative
      <3> QED BY <2>5, <2>3, <3>1 DEF Assoc
    <2>7. Split((w \o u) \o (One(b) \o (r \o more)), stops)
            = [word |-> w \o u, stop |-> b, rest |-> r \o more]
      BY <2>1, <2>4, <1>2, SplitAt, ZenonT(60)
    <2>8. Split(w \o (piece \o more), stops) = [word |-> w \o u, stop |-> b, rest |-> r \o more]
      BY <2>6, <2>7
    <2> QED BY <2>1, <2>8, <1>1, <1>4, <1>b, <1>t, <1>r DEF Found
  <1> QED BY <1>3, <1>4

-------------------------------------------------------------------------------
(***************************************************************************)
(* The inductive invariant.  LineOf(p, more): what p has understood is     *)
(* what the whole input says, when p.rest and then more are still to be    *)
(* looked at; a command line is taken for malformed only if the input is   *)
(* neither a right set nor a right get.  LineInv: main is in this state    *)
(* between two reads.  SetInv, GetInv: once the file is open, what was     *)
(* written, what is in the buffer and what is still to be read are, one    *)
(* after the other, the new contents, or those of the file.                *)
(***************************************************************************)
Words    == Text \cup {Null}
Progress == [command : Words, filename : Words, tmp : Text, infile : {NoFd, Malformed}, rest : Text]

LineOf(p, more) ==
  /\ p.command = Null => p.filename = Null
  /\ p.filename = Null => p.infile = NoFd
  /\ p.command = Null => Free(p.tmp, {Space}) /\ given = p.tmp \o (p.rest \o more)
  /\ p.command # Null => Line.stop = Space /\ Line.word = p.command
  /\ p.command # Null /\ p.filename = Null =>
       Free(p.tmp, {Space, Newline}) /\ Line.rest = p.tmp \o (p.rest \o more)
  /\ p.filename # Null /\ p.infile = NoFd /\ p.command \in {GetWord, SetWord} =>
       Good /\ Name.rest = p.rest \o more
  /\ p.infile = Malformed => ~Sets /\ ~Gets

Sofar(rest) ==
  [command |-> command, filename |-> filename, tmp |-> tmp, infile |-> infile, rest |-> rest]

(* s is what a text ends with. *)
Ends(text, s) == \E u \in Text : text = u \o s

Kinds ==
  /\ given \in Inputs /\ file0 \in InitialFiles
  /\ stdin \in Text /\ Ends(given, stdin)
  /\ phase \in {"read", "write", "fetch", "show", "done"}
  /\ command \in Words /\ filename \in Words /\ tmp \in Text
  /\ infile \in {NoFd, Malformed, Fd} \cup (IF phase = "done" THEN {-1} ELSE {})
  /\ buffer \in Text /\ Len(buffer) <= BufferSize
  /\ offset \in Nat /\ stdout \in Text
  /\ message \in {"none", "OK", "Invalid Command", "Operation Failed"}

LineInv ==
  phase = "read" =>
    /\ buffer = << >> /\ stdout = << >> /\ offset = 0
    /\ infile # Fd => /\ LineOf(Sofar(<< >>), stdin) /\ file = file0
                      /\ filename # Null /\ command = SetWord => infile = Malformed

SetInv ==
  phase = "write" \/ (phase = "read" /\ infile = Fd) =>
    /\ infile = Fd /\ command = SetWord /\ command # Null /\ filename # Null
    /\ Sets /\ stdout = << >> /\ offset = 0
    /\ file \in Text /\ Name.rest = file \o (buffer \o stdin)

GetInv ==
  phase \in {"fetch", "show"} =>
    /\ infile = Fd /\ command = GetWord /\ command # Null /\ filename # Null
    /\ Gets /\ Readable /\ file = file0 /\ file0 \in Text /\ offset \in 0 .. Len(file0)
    /\ phase = "fetch" => buffer = << >>
    /\ file0 = stdout \o (buffer \o SubSeq(file0, offset + 1, Len(file0)))

IInv == Kinds /\ LineInv /\ SetInv /\ GetInv /\ FirstPart /\ ResultOfInput

-------------------------------------------------------------------------------
(***************************************************************************)
(* The two loops of main over a piece.                                     *)
(***************************************************************************)
(* Null is no sequence of bytes, and the input is one. *)
LEMMA Apart == /\ \A s \in Text : s # Null
               /\ \A b \in Bytes : b # Null
               /\ Space \in Bytes /\ Newline \in Bytes /\ Space # Newline
               /\ GetWord # SetWord /\ << >> \in Text
               /\ \A i \in Inputs : i \in Text
               /\ BufferSize \in Nat /\ BufferSize # 0
  <1>1. << >> \in Text
    BY EmptySeq DEF Text
  <1> QED BY <1>1, MemoryAssumption DEF Text

(* What is behind the first stop is not longer than the whole. *)
LEMMA RestShorter ==
  ASSUME NEW s \in Text, NEW stops \in SUBSET Bytes
  PROVE  Len(Split(s, stops).rest) <= Len(s)
  <1>1. PICK k : k = FirstStop(s, stops)
    OBVIOUS
  <1>2. Len(s) \in Nat
    BY LenProperties DEF Text
  <1>3. k = 0 \/ k \in 1 .. Len(s)
    BY <1>1, FirstStopIs
  <1>4. CASE k = 0
    <2>1. Split(s, stops).rest = << >>
      <3>1. Split(s, stops) = [word |-> s, stop |-> Null, rest |-> << >>]
        BY <1>1, <1>4, SplitIs
      <3> QED BY <3>1
    <2> QED BY <2>1, <1>2
  <1>5. CASE k \in 1 .. Len(s)
    <2>1. k \in 0 .. Len(s) /\ k # 0
      BY <1>2, <1>5
    <2>2. Split(s, stops).rest = Behind(s, k)
      BY <1>1, <2>1, SplitIs
    <2>3. Len(Behind(s, k)) = Len(s) - k
      BY <2>1, Cut DEF Behind
    <2> QED BY <2>1, <2>2, <2>3, <1>2
  <1> QED BY <1>3, <1>4, <1>5

(* A text without a stop is all word. *)
LEMMA FreeSplit ==
  ASSUME NEW s \in Text, NEW stops, Free(s, stops)
  PROVE  Split(s, stops).stop = Null
  <1>1. PICK k : k = FirstStop(s, stops)
    OBVIOUS
  <1>2. \/ k = 0
        \/ k \in 1 .. Len(s) /\ s[k] \in stops
    BY <1>1, FirstStopIs
  <1>3. k = 0
    BY <1>2 DEF Free
  <1>4. Split(s, stops) = [word |-> s, stop |-> Null, rest |-> << >>]
    BY <1>1, <1>3, SplitIs
  <1> QED BY <1>4

(* The loop that looks for the command. *)
LEMMA CommandUnderstood ==
  ASSUME NEW p \in Progress, NEW more \in Text, given \in Text, LineOf(p, more),
         NEW q, q = ParseCommand(p)
  PROVE  /\ q \in Progress /\ LineOf(q, more) /\ Len(q.rest) <= Len(p.rest)
         /\ q.command = Null => q.rest = << >>
  <1>1. p.tmp \in Text /\ p.rest \in Text
    BY DEF Progress
  <1>2. Len(p.rest) \in Nat
    BY <1>1, LenProperties DEF Text
  <1>3. CASE p.command # Null
    <2>1. q = p
      BY <1>3 DEF ParseCommand
    <2> QED BY <2>1, <1>2, <1>3
  <1>4. CASE p.command = Null
    <2>1. PICK c : c = Split(p.rest, {Space})
      OBVIOUS
    <2>2. /\ p.filename = Null /\ p.infile = NoFd
          /\ Free(p.tmp, {Space}) /\ given = p.tmp \o (p.rest \o more)
      BY <1>4 DEF LineOf
    <2>3. /\ c.word \in Text /\ c.rest \in Text
          /\ c.stop = Null => /\ Free(p.tmp \o c.word, {Space})
                              /\ p.tmp \o (p.rest \o more) = (p.tmp \o c.word) \o (<< >> \o more)
          /\ c.stop # Null => /\ c.stop \in {Space}
                              /\ Split(p.tmp \o (p.rest \o more), {Space})
                                   = [word |-> p.tmp \o c.word, stop |-> c.stop, rest |-> c.rest \o more]
      <3>1. {Space} \in SUBSET Bytes
        BY Apart
      <3>2. Found({Space}, p.tmp, p.rest, more, c)
        BY <3>1, <2>1, <2>2, <1>1, SplitOn
      <3> QED BY <3>2 DEF Found
    <2>4. PICK w : w = p.tmp \o c.word
      OBVIOUS
    <2>5. w \in Text
      BY <2>3, <2>4, <1>1, Joined
    <2>6. CASE c.stop = Null
      <3>1. q = [p EXCEPT !.tmp = w, !.rest = << >>]
        BY <1>4, <2>1, <2>4, <2>6 DEF ParseCommand, Word
      <3>2. /\ q.command = Null /\ q.filename = Null /\ q.tmp = w /\ q.infile = NoFd
            /\ q.rest = << >> /\ q \in Progress
        BY <3>1, <1>4, <2>2, <2>5, Apart DEF Progress
      <3>3. Free(w, {Space}) /\ given = w \o (<< >> \o more)
        BY <2>2, <2>3, <2>4, <2>6
      <3>4. LineOf(q, more)
        BY <3>2, <3>3 DEF LineOf, NoFd, Malformed
      <3> QED BY <3>2, <3>4, <1>2
    <2>7. CASE c.stop # Null
      <3>1. q = [p EXCEPT !.command = w, !.tmp = << >>, !.rest = c.rest]
        BY <1>4, <2>1, <2>4, <2>7 DEF ParseCommand, Word
      <3>2. /\ q.command = w /\ q.filename = Null /\ q.tmp = << >> /\ q.infile = NoFd
            /\ q.rest = c.rest /\ q \in Progress
        BY <3>1, <1>4, <2>2, <2>3, <2>5, Apart DEF Progress, Words
      <3>3. Line = [word |-> w, stop |-> Space, rest |-> c.rest \o more]
        BY <2>2, <2>3, <2>4, <2>7 DEF Line
      <3>4. PICK m : m = c.rest \o more
        OBVIOUS
      <3>5. << >> \o m = m
        <4>1. m \in Text
          BY <3>4, <2>3, Joined
        <4> QED BY <4>1, Joined
      <3>6. Free(<< >>, {Space, Newline})
        BY DEF Free
      <3>7. Line.stop = Space /\ Line.word = w /\ Line.rest = << >> \o (c.rest \o more)
        BY <3>3, <3>4, <3>5
      <3>8. w # Null
        BY <2>5, Apart
      <3>9. LineOf(q, more)
        BY <3>2, <3>6, <3>7, <3>8 DEF LineOf, NoFd, Malformed
      <3>10. Len(q.rest) <= Len(p.rest)
        <4>1. {Space} \in SUBSET Bytes
          BY Apart
        <4> QED BY <4>1, <3>2, <2>1, <1>1, RestShorter
      <3> QED BY <3>2, <3>8, <3>9, <3>10
    <2> QED BY <2>6, <2>7
  <1> QED BY <1>3, <1>4

(* The loop that looks for the name. *)
LEMMA NameUnderstood ==
  ASSUME NEW p \in Progress, NEW more \in Text, LineOf(p, more),
         p.command = Null => p.rest = << >>,
         NEW q, q = ParseName(p)
  PROVE  /\ q \in Progress /\ LineOf(q, more) /\ Len(q.rest) <= Len(p.rest)
         /\ q.filename = Null => q.rest = << >>
  <1>1. p.tmp \in Text /\ p.rest \in Text
    BY DEF Progress
  <1>2. Len(p.rest) \in Nat
    BY <1>1, LenProperties DEF Text
  <1>3. CASE p.command = Null \/ p.filename # Null
    <2>1. q = p
      BY <1>3 DEF ParseName
    <2>2. p.filename = Null => p.rest = << >>
      BY <1>3
    <2> QED BY <2>1, <2>2, <1>2
  <1>4. CASE p.command # Null /\ p.filename = Null
    <2>1. PICK n : n = Split(p.rest, {Space, Newline})
      OBVIOUS
    <2>2. /\ p.infile = NoFd /\ Line.stop = Space /\ Line.word = p.command
          /\ Free(p.tmp, {Space, Newline}) /\ Line.rest = p.tmp \o (p.rest \o more)
      BY <1>4 DEF LineOf
    <2>3. /\ n.word \in Text /\ n.rest \in Text
          /\ n.stop = Null => /\ Free(p.tmp \o n.word, {Space, Newline})
                              /\ p.tmp \o (p.rest \o more) = (p.tmp \o n.word) \o (<< >> \o more)
          /\ n.stop # Null => /\ n.stop \in {Space, Newline}
                              /\ Split(p.tmp \o (p.rest \o more), {Space, Newline})
                                   = [word |-> p.tmp \o n.word, stop |-> n.stop, rest |-> n.rest \o more]
      <3>1. {Space, Newline} \in SUBSET Bytes
        BY Apart
      <3>2. Found({Space, Newline}, p.tmp, p.rest, more, n)
        BY <3>1, <2>1, <2>2, <1>1, SplitOn
      <3> QED BY <3>2 DEF Found
    <2>4. PICK w : w = p.tmp \o n.word
      OBVIOUS
    <2>5. w \in Text
      BY <2>3, <2>4, <1>1, Joined
    <2>6. CASE n.stop = Null
      <3>1. q = [p EXCEPT !.tmp = w, !.rest = << >>]
        BY <1>4, <2>1, <2>4, <2>6 DEF ParseName, Word
      <3>2. /\ q.command = p.command /\ q.filename = Null /\ q.tmp = w /\ q.infile = NoFd
            /\ q.rest = << >> /\ q \in Progress
        BY <3>1, <1>4, <2>2, <2>5, Apart DEF Progress
      <3>3. Free(w, {Space, Newline}) /\ Line.rest = w \o (<< >> \o more)
        BY <2>2, <2>3, <2>4, <2>6
      <3>4. LineOf(q, more)
        BY <3>2, <3>3, <1>4, <2>2 DEF LineOf, NoFd, Malformed
      <3> QED BY <3>2, <3>4, <1>2
    <2>7. CASE n.stop # Null
      <3>1. PICK f \in {NoFd, Malformed} :
              f = IF n.stop = Newline /\ Valid(w) THEN NoFd ELSE Malformed
        OBVIOUS
      <3>2. q = [p EXCEPT !.filename = w, !.tmp = << >>, !.rest = n.rest, !.infile = f]
        BY <1>4, <2>1, <2>4, <2>7, <3>1 DEF ParseName, Word
      <3>3. /\ q.command = p.command /\ q.filename = w /\ q.tmp = << >> /\ q.infile = f
            /\ q.rest = n.rest /\ q \in Progress
        BY <3>2, <2>3, <2>5, Apart, ZenonT(60) DEF Progress, Words
      <3>4. Name = [word |-> w, stop |-> n.stop, rest |-> n.rest \o more]
        BY <2>2, <2>3, <2>4, <2>7 DEF Name
      <3>5. Name.word = w /\ Name.stop = n.stop /\ Name.rest = n.rest \o more
        BY <3>4
      <3>6. w # Null
        BY <2>5, Apart
      <3>7. f = NoFd => Good
        BY <3>1, <3>5, <2>2 DEF Good, NoFd, Malformed
      <3>8. f = Malformed => ~Sets /\ ~Gets
        BY <3>1, <3>5 DEF Good, Sets, Gets, NoFd, Malformed
      <3>9. LineOf(q, more)
        BY <3>3, <3>5, <3>6, <3>7, <3>8, <1>4, <2>2 DEF LineOf
      <3>10. Len(q.rest) <= Len(p.rest)
        <4>1. {Space, Newline} \in SUBSET Bytes
          BY Apart
        <4> QED BY <4>1, <3>3, <2>1, <1>1, RestShorter
      <3> QED BY <3>3, <3>6, <3>9, <3>10
    <2> QED BY <2>6, <2>7
  <1> QED BY <1>3, <1>4

-------------------------------------------------------------------------------
(***************************************************************************)
(* The steps.  What the whole input says stays as it is.                   *)
(***************************************************************************)
LEMMA SameInput ==
  ASSUME UNCHANGED world
  PROVE  /\ given' = given /\ file0' = file0
         /\ Line' = Line /\ Name' = Name /\ Good' = Good
         /\ Sets' = Sets /\ Gets' = Gets /\ Readable' = Readable
  BY DEF world, Line, Name, Good, Sets, Gets, Readable

(* The invariant at the start. *)
LEMMA InitIInv == Init => IInv
  <1> SUFFICES ASSUME Init PROVE IInv
    OBVIOUS
  <1>1. given \in Text /\ << >> \in Text
    BY Apart DEF Init
  <1>2. Len(<< >>) = 0 /\ BufferSize \in Nat
    BY Apart
  <1>3. Ends(given, stdin)
    <2>1. << >> \o given = given
      BY <1>1, Joined
    <2>2. Ends(given, given)
      BY <1>1, <2>1 DEF Ends
    <2> QED BY <2>2 DEF Init
  <1>4. Kinds
    BY <1>1, <1>2, <1>3 DEF Init, Kinds, Words, NoFd, Malformed, Fd
  <1>5. LineInv
    <2>1. Free(<< >>, {Space})
      BY DEF Free
    <2>2. << >> \o (<< >> \o given) = given
      <3>1. \A x \in Text : << >> \o x = x
        BY Joined
      <3> QED BY <3>1, <1>1
    <2>3. PICK z : z = Sofar(<< >>)
      OBVIOUS
    <2>4. /\ z.command = Null /\ z.filename = Null /\ z.tmp = << >> /\ z.infile = NoFd
          /\ z.rest = << >>
      BY <2>3 DEF Init, Sofar
    <2>5. LineOf(z, given)
      BY <2>1, <2>2, <2>4 DEF LineOf, NoFd, Malformed
    <2> QED BY <2>3, <2>5 DEF Init, LineInv
  <1>6. SetInv /\ GetInv /\ FirstPart /\ ResultOfInput
    BY DEF Init, SetInv, GetInv, FirstPart, ResultOfInput, NoFd, Fd
  <1> QED BY <1>4, <1>5, <1>6 DEF IInv

(* The part of the input that is still to be read stays one. *)
LEMMA StillSuffix ==
  ASSUME NEW g \in Text, NEW s \in Text, NEW n \in 0 .. Len(s), Ends(g, s)
  PROVE  Ends(g, SubSeq(s, n + 1, Len(s)))
  <1>1. PICK u \in Text : g = u \o s
    BY DEF Ends
  <1>2. PICK a, b : a = SubSeq(s, 1, n) /\ b = SubSeq(s, n + 1, Len(s))
    OBVIOUS
  <1>3. a \in Text /\ b \in Text /\ s = a \o b
    BY <1>2, Cut
  <1>4. (u \o a) \o b = u \o (a \o b)
    <2>1. Assoc(u, a, b)
      BY <1>1, <1>3, Associative
    <2> QED BY <2>1 DEF Assoc
  <1>5. u \o a \in Text
    BY <1>1, <1>3, Joined
  <1>6. g = (u \o a) \o b
    BY <1>1, <1>3, <1>4
  <1>7. Ends(g, b)
    BY <1>5, <1>6 DEF Ends
  <1> QED BY <1>2, <1>7

(* A piece that is all contents. *)
LEMMA ReadContentsKeeps == ASSUME IInv, NEW n \in 1 .. BufferSize, ReadContents(n) PROVE IInv'
  <1>1. /\ phase = "read" /\ infile = Fd /\ phase' = "write"
        /\ UNCHANGED <<given, file0, command, filename, tmp, infile, file, offset, stdout, message>>
        /\ n <= Len(stdin)
        /\ buffer' = SubSeq(stdin, 1, n) /\ stdin' = SubSeq(stdin, n + 1, Len(stdin))
    BY DEF ReadContents, world, parsed, Piece
  <1>2. /\ stdin \in Text /\ Ends(given, stdin) /\ given \in Text
        /\ BufferSize \in Nat /\ Len(stdin) \in Nat
    <2>1. stdin \in Text /\ given \in Inputs /\ Ends(given, stdin)
      BY DEF IInv, Kinds
    <2> QED BY <2>1, Apart, LenProperties DEF Text
  <1>3. n \in 0 .. Len(stdin)
    BY <1>1, <1>2
  <1>4. /\ buffer' \in Text /\ stdin' \in Text /\ Len(buffer') = n /\ stdin = buffer' \o stdin'
        /\ Ends(given', stdin')
    BY <1>1, <1>2, <1>3, Cut, StillSuffix
  <1>5. Kinds'
    <2>1. buffer' \in Text /\ stdin' \in Text /\ Len(buffer') <= BufferSize /\ Ends(given', stdin')
      BY <1>2, <1>4
    <2> QED BY <1>1, <2>1 DEF IInv, Kinds, Fd, NoFd, Malformed
  <1>6. /\ Line' = Line /\ Name' = Name /\ Sets' = Sets /\ Gets' = Gets /\ Readable' = Readable
    BY <1>1, SameInput DEF world
  <1>7. SetInv'
    <2>1. /\ infile = Fd /\ command = SetWord /\ command # Null /\ filename # Null
          /\ Sets /\ stdout = << >> /\ offset = 0
          /\ file \in Text /\ Name.rest = file \o (buffer \o stdin) /\ buffer = << >>
      BY <1>1 DEF IInv, SetInv, LineInv
    <2>2. << >> \o stdin = stdin
      BY <1>2, Joined
    <2>3. Name.rest = file \o (buffer' \o stdin')
      BY <1>4, <2>1, <2>2
    <2> QED BY <1>1, <1>6, <2>1, <2>3 DEF SetInv
  <1>8. LineInv' /\ GetInv' /\ ResultOfInput'
    BY <1>1 DEF LineInv, GetInv, ResultOfInput
  <1>9. FirstPart'
    BY <1>1, <1>6 DEF IInv, FirstPart
  <1> QED BY <1>5, <1>7, <1>8, <1>9 DEF IInv

(* What main knows after a piece with a part of the command line. *)
LEMMA ParseKeeps ==
  ASSUME Kinds, phase = "read", infile # Fd, LineOf(Sofar(<< >>), stdin),
         NEW n \in 1 .. Len(stdin), NEW p, p = Parse(SubSeq(stdin, 1, n)),
         NEW more, more = SubSeq(stdin, n + 1, Len(stdin))
  PROVE  /\ p \in Progress /\ LineOf(p, more) /\ Len(p.rest) <= n
         /\ p.filename = Null => p.rest = << >>
  <1>1. /\ stdin \in Text /\ Len(stdin) \in Nat /\ given \in Text
        /\ command \in Words /\ filename \in Words /\ tmp \in Text /\ infile \in {NoFd, Malformed}
    <2>1. /\ stdin \in Text /\ given \in Inputs
          /\ command \in Words /\ filename \in Words /\ tmp \in Text /\ infile \in {NoFd, Malformed}
      BY DEF Kinds
    <2> QED BY <2>1, Apart, LenProperties DEF Text
  <1>2. PICK piece : piece = SubSeq(stdin, 1, n)
    OBVIOUS
  <1>3. /\ piece \in Text /\ more \in Text /\ Len(piece) = n /\ stdin = piece \o more
    <2>1. n \in 0 .. Len(stdin)
      BY <1>1
    <2> QED BY <2>1, <1>1, <1>2, Cut
  <1>4. PICK o : o = Sofar(piece)
    OBVIOUS
  <1>5. /\ o \in Progress /\ o.command = command /\ o.filename = filename /\ o.tmp = tmp
        /\ o.infile = infile /\ o.rest = piece
    BY <1>1, <1>3, <1>4 DEF Sofar, Progress
  <1>6. LineOf(o, more)
    <2>1. << >> \o stdin = piece \o more
      <3>1. << >> \o stdin = stdin
        BY <1>1, Joined
      <3> QED BY <3>1, <1>3
    <2>2. PICK z : z = Sofar(<< >>)
      OBVIOUS
    <2>3. /\ z.command = command /\ z.filename = filename /\ z.tmp = tmp
          /\ z.infile = infile /\ z.rest = << >>
      BY <2>2 DEF Sofar
    <2>4. LineOf(z, stdin)
      BY <2>2
    <2> QED BY <2>1, <2>3, <2>4, <1>5 DEF LineOf
  <1>7. PICK q : q = ParseCommand(o)
    OBVIOUS
  <1>8. /\ q \in Progress /\ LineOf(q, more) /\ Len(q.rest) <= Len(o.rest)
        /\ q.command = Null => q.rest = << >>
    BY <1>1, <1>3, <1>5, <1>6, <1>7, CommandUnderstood
  <1>9. p = ParseName(q)
    BY <1>2, <1>4, <1>7 DEF Parse, Sofar
  <1>10. /\ p \in Progress /\ LineOf(p, more) /\ Len(p.rest) <= Len(q.rest)
         /\ p.filename = Null => p.rest = << >>
    BY <1>3, <1>8, <1>9, NameUnderstood
  <1>11. Len(p.rest) <= n
    <2>1. p.rest \in Text /\ q.rest \in Text
      BY <1>8, <1>10 DEF Progress
    <2>2. Len(p.rest) \in Nat /\ Len(q.rest) \in Nat
      BY <2>1, LenProperties DEF Text
    <2> QED BY <2>2, <1>3, <1>5, <1>8, <1>10
  <1> QED BY <1>10, <1>11

(* A piece with a part of the command line, or after an invalid one. *)
LEMMA ReadLineKeeps == ASSUME IInv, NEW n \in 1 .. BufferSize, ReadLine(n) PROVE IInv'
  <1>1. PICK p : p = Parse(SubSeq(stdin, 1, n))
    OBVIOUS
  <1>2. /\ phase = "read" /\ infile # Fd /\ n <= Len(stdin)
        /\ stdin' = SubSeq(stdin, n + 1, Len(stdin))
        /\ UNCHANGED <<given, file0, offset, stdout>>
    BY DEF ReadLine, world, Piece
  <1>3. /\ stdin \in Text /\ Ends(given, stdin) /\ given \in Text
        /\ BufferSize \in Nat /\ Len(stdin) \in Nat /\ << >> \in Text
    <2>1. stdin \in Text /\ given \in Inputs /\ Ends(given, stdin)
      BY DEF IInv, Kinds
    <2> QED BY <2>1, Apart, LenProperties DEF Text
  <1>4. n \in 0 .. Len(stdin) /\ n \in 1 .. Len(stdin)
    BY <1>2, <1>3
  <1>5. stdin' \in Text /\ Ends(given', stdin')
    BY <1>2, <1>3, <1>4, Cut, StillSuffix
  <1>6. /\ buffer = << >> /\ stdout = << >> /\ offset = 0 /\ file = file0
        /\ LineOf(Sofar(<< >>), stdin) /\ message \in {"none", "OK", "Invalid Command", "Operation Failed"}
        /\ given \in Inputs /\ file0 \in InitialFiles
    BY <1>2 DEF IInv, LineInv, Kinds
  <1>7. /\ p \in Progress /\ LineOf(p, stdin') /\ Len(p.rest) <= n
        /\ p.filename = Null => p.rest = << >>
    <2>1. Kinds
      BY DEF IInv
    <2>2. PICK more : more = SubSeq(stdin, n + 1, Len(stdin))
      OBVIOUS
    <2>3. /\ p \in Progress /\ LineOf(p, more) /\ Len(p.rest) <= n
          /\ p.filename = Null => p.rest = << >>
      BY <2>1, <2>2, <1>1, <1>2, <1>4, <1>6, ParseKeeps
    <2> QED BY <2>2, <2>3, <1>2
  <1>8. /\ p.command \in Words /\ p.filename \in Words /\ p.tmp \in Text
        /\ p.infile \in {NoFd, Malformed} /\ p.rest \in Text
    BY <1>7 DEF Progress
  <1>9. /\ Line' = Line /\ Name' = Name /\ Sets' = Sets /\ Gets' = Gets /\ Readable' = Readable
        /\ Good' = Good
    BY <1>2, SameInput DEF world
  <1>10. Len(p.rest) <= BufferSize /\ Len(<< >>) <= BufferSize
    <2>1. Len(p.rest) \in Nat
      BY <1>8, LenProperties DEF Text
    <2> QED BY <2>1, <1>3, <1>7
  <1> DEFINE ready == p.command # Null /\ p.filename # Null /\ p.infile # Malformed
             late  == ready /\ p.command = GetWord /\ p.rest # << >>
  <1>11. \/ /\ ready /\ p.command = SetWord
            /\ command' = p.command /\ filename' = p.filename /\ tmp' = p.tmp /\ infile' = Fd
            /\ file' = << >> /\ buffer' = p.rest /\ phase' = "write" /\ message' = message
         \/ /\ command' = p.command /\ filename' = p.filename /\ tmp' = p.tmp /\ infile' = -1
            /\ phase' = "done" /\ message' = "Operation Failed" /\ file' = file /\ buffer' = buffer
         \/ /\ ~(ready /\ p.command = SetWord)
            /\ command' = p.command /\ filename' = p.filename /\ tmp' = p.tmp
            /\ infile' = IF late THEN Malformed ELSE p.infile
            /\ file' = file /\ buffer' = buffer /\ phase' = phase /\ message' = message
    <2>1. \A x \in {Fd, -1, Malformed} :
            /\ [p EXCEPT !.infile = x].command = p.command
            /\ [p EXCEPT !.infile = x].filename = p.filename
            /\ [p EXCEPT !.infile = x].tmp = p.tmp
            /\ [p EXCEPT !.infile = x].infile = x
      BY <1>7 DEF Progress
    <2> QED BY <2>1, <1>1, ZenonT(60) DEF ReadLine, Understood, Exit
  <1>12. p.filename # Null => p.command # Null
    BY <1>7 DEF LineOf
  <1>13. /\ p.command # Null => Line.word = p.command
         /\ p.filename # Null /\ p.infile = NoFd /\ p.command \in {GetWord, SetWord} =>
              Good /\ Name.rest = p.rest \o stdin'
         /\ p.infile = Malformed => ~Sets /\ ~Gets
    BY <1>7 DEF LineOf
  <1>14. CASE /\ ready /\ p.command = SetWord
              /\ command' = p.command /\ filename' = p.filename /\ tmp' = p.tmp /\ infile' = Fd
              /\ file' = << >> /\ buffer' = p.rest /\ phase' = "write" /\ message' = message
    <2>1. Kinds'
      BY <1>14, <1>2, <1>3, <1>5, <1>6, <1>8, <1>10 DEF Kinds, Fd, NoFd, Malformed
    <2>2. Good /\ Name.rest = p.rest \o stdin'
      BY <1>14, <1>8, <1>13
    <2>3. Sets
      BY <2>2, <1>13, <1>14 DEF Sets
    <2>4. Name.rest = << >> \o (p.rest \o stdin')
      <3>1. PICK t : t = p.rest \o stdin'
        OBVIOUS
      <3>2. << >> \o t = t
        <4>1. t \in Text
          BY <3>1, <1>5, <1>8, Joined
        <4> QED BY <4>1, Joined
      <3> QED BY <3>1, <3>2, <2>2
    <2>5. IsPrefix(<< >>, Name.rest)
      <3>1. p.rest \o stdin' \in Text
        BY <1>5, <1>8, Joined
      <3>2. PICK t \in Text : t = p.rest \o stdin'
        BY <3>1
      <3>3. IsPrefix(<< >>, << >> \o t)
        BY <1>3, FirstIsPrefix
      <3> QED BY <3>2, <3>3, <2>4
    <2>6. SetInv'
      BY <1>14, <1>2, <1>3, <1>6, <1>9, <2>3, <2>4 DEF SetInv
    <2>7. LineInv' /\ GetInv' /\ ResultOfInput'
      BY <1>14 DEF LineInv, GetInv, ResultOfInput
    <2>8. FirstPart'
      BY <1>14, <1>2, <1>6, <1>9, <2>3, <2>5 DEF FirstPart
    <2> QED BY <2>1, <2>6, <2>7, <2>8 DEF IInv
  <1>15. CASE /\ command' = p.command /\ filename' = p.filename /\ tmp' = p.tmp /\ infile' = -1
              /\ phase' = "done" /\ message' = "Operation Failed" /\ file' = file /\ buffer' = buffer
    <2>1. Kinds'
      BY <1>15, <1>2, <1>3, <1>5, <1>6, <1>8, <1>10 DEF Kinds, Fd, NoFd, Malformed
    <2>2. LineInv' /\ SetInv' /\ GetInv' /\ ResultOfInput'
      BY <1>15 DEF LineInv, SetInv, GetInv, ResultOfInput
    <2>3. FirstPart'
      BY <1>15, <1>2, <1>6 DEF FirstPart
    <2> QED BY <2>1, <2>2, <2>3 DEF IInv
  <1>16. CASE /\ ~(ready /\ p.command = SetWord)
              /\ command' = p.command /\ filename' = p.filename /\ tmp' = p.tmp
              /\ infile' = IF late THEN Malformed ELSE p.infile
              /\ file' = file /\ buffer' = buffer /\ phase' = phase /\ message' = message
    <2>1. Kinds'
      BY <1>16, <1>2, <1>3, <1>5, <1>6, <1>8, <1>10 DEF Kinds, Fd, NoFd, Malformed
    <2>2. PICK z : z = [command |-> command', filename |-> filename', tmp |-> tmp',
                        infile |-> infile', rest |-> << >>]
      OBVIOUS
    <2>3. /\ z.command = p.command /\ z.filename = p.filename /\ z.tmp = p.tmp
          /\ z.infile = infile' /\ z.rest = << >>
      BY <2>2, <1>16
    <2>4. late => ~Sets /\ ~Gets
      <3> HAVE late
      <3>1. Line.word = GetWord /\ Good /\ Name.rest = p.rest \o stdin'
        BY <1>8, <1>13
      <3>2. Name.rest # << >>
        <4>1. Len(p.rest \o stdin') = Len(p.rest) + Len(stdin') /\ Len(p.rest) \in Nat /\ Len(stdin') \in Nat
          BY <1>5, <1>8, Joined
        <4>2. Len(p.rest) # 0
          BY <1>8, EmptySeq DEF Text
        <4>3. Len(Name.rest) # 0
          BY <3>1, <4>1, <4>2
        <4> QED BY <4>3
      <3> QED BY <3>1, <3>2, Apart DEF Sets, Gets
    <2>5. LineOf(z, stdin')
      <3>1. z.command = Null => z.filename = Null
        BY <2>3, <1>12
      <3>2. z.filename = Null => z.infile = NoFd
        BY <2>3, <1>7, <1>16 DEF LineOf
      <3>3. p.filename = Null => p.rest = z.rest
        BY <1>7, <2>3
      <3>4. z.command = Null => Free(z.tmp, {Space}) /\ given = z.tmp \o (z.rest \o stdin')
        BY <2>3, <3>1, <3>3, <1>7, Zenon DEF LineOf
      <3>5. z.command # Null => Line.stop = Space /\ Line.word = z.command
        BY <2>3, <1>7 DEF LineOf
      <3>6. z.command # Null /\ z.filename = Null =>
              Free(z.tmp, {Space, Newline}) /\ Line.rest = z.tmp \o (z.rest \o stdin')
        BY <2>3, <3>3, <1>7, Zenon DEF LineOf
      <3>7. z.filename # Null /\ z.infile = NoFd /\ z.command \in {GetWord, SetWord} =>
              Good /\ Name.rest = z.rest \o stdin'
        <4> HAVE z.filename # Null /\ z.infile = NoFd /\ z.command \in {GetWord, SetWord}
        <4>1. p.infile = NoFd /\ ~late
          BY <2>3, <1>16 DEF NoFd, Malformed
        <4>2. ready
          BY <2>3, <4>1, <1>12 DEF NoFd, Malformed
        <4>3. p.rest = z.rest
          BY <2>3, <4>1, <4>2, <1>16
        <4> QED BY <2>3, <4>1, <4>3, <1>13
      <3>8. z.infile = Malformed => ~Sets /\ ~Gets
        BY <2>3, <2>4, <1>13, <1>16
      <3> QED BY <3>1, <3>2, <3>4, <3>5, <3>6, <3>7, <3>8 DEF LineOf
    <2>6. LineOf(Sofar(<< >>), stdin)'
      <3>1. /\ z.command = Null => Free(z.tmp, {Space}) /\ given' = z.tmp \o (z.rest \o stdin')
        BY <2>5, <1>2 DEF LineOf
      <3> QED BY <2>2, <2>5, <3>1, <1>9 DEF LineOf, Sofar
    <2>7. filename' # Null /\ command' = SetWord => infile' = Malformed
      BY <1>16, <1>12
    <2>8. infile' # Fd
      BY <1>16, <1>8 DEF Fd, NoFd, Malformed
    <2>9. LineInv'
      BY <2>6, <2>7, <1>16, <1>2, <1>6 DEF LineInv
    <2>10. SetInv' /\ GetInv' /\ ResultOfInput'
      BY <2>8, <1>2, <1>16 DEF SetInv, GetInv, ResultOfInput
    <2>11. FirstPart'
      BY <1>16, <1>2, <1>6 DEF FirstPart
    <2> QED BY <2>1, <2>9, <2>10, <2>11 DEF IInv
  <1> QED BY <1>11, <1>14, <1>15, <1>16

(* What is written of the buffer is at the end of what was written before it. *)
Shifted(f, b, r, k) ==
  /\ f \o SubSeq(b, 1, k) \in Text
  /\ f \o (b \o r) = (f \o SubSeq(b, 1, k)) \o (SubSeq(b, k + 1, Len(b)) \o r)

(* Bytes that move from the front of one text to the end of another. *)
LEMMA Moved ==
  ASSUME NEW f \in Text, NEW b \in Text, NEW r \in Text, NEW k \in 0 .. Len(b)
  PROVE  Shifted(f, b, r, k)
  <1>1. PICK x, y : x = SubSeq(b, 1, k) /\ y = SubSeq(b, k + 1, Len(b))
    OBVIOUS
  <1>2. x \in Text /\ y \in Text /\ b = x \o y
    BY <1>1, Cut
  <1>3. y \o r \in Text /\ f \o x \in Text
    BY <1>2, Joined
  <1>4. Assoc(x, y, r) /\ Assoc(f, x, y \o r)
    BY <1>2, <1>3, Associative
  <1>5. f \o (b \o r) = (f \o x) \o (y \o r)
    BY <1>2, <1>4 DEF Assoc
  <1> QED BY <1>1, <1>3, <1>5 DEF Shifted

(* One write, of set or of get. *)
LEMMA WriteKeeps == ASSUME IInv, NEW k \in 0 .. BufferSize, Write(k) PROVE IInv'
  <1>k. k <= Len(buffer)
    BY DEF Write
  <1>1. /\ phase \in {"write", "show"}
        /\ Put(SubSeq(buffer, 1, k)) /\ buffer' = SubSeq(buffer, k + 1, Len(buffer))
        /\ phase' = IF k < Len(buffer) THEN phase ELSE IF phase = "write" THEN "read" ELSE "fetch"
        /\ UNCHANGED <<given, file0, stdin, command, filename, tmp, infile, offset, message>>
    BY DEF Write, Left, world, parsed
  <1>2. /\ buffer \in Text /\ Len(buffer) \in Nat /\ Len(buffer) <= BufferSize
        /\ stdin \in Text /\ Ends(given, stdin) /\ given \in Inputs /\ file0 \in InitialFiles
        /\ BufferSize \in Nat /\ infile = Fd /\ stdout \in Text /\ offset \in Nat
        /\ command \in Words /\ filename \in Words /\ tmp \in Text
        /\ message \in {"none", "OK", "Invalid Command", "Operation Failed"}
        /\ command # Null /\ filename # Null
    <2>1. /\ buffer \in Text /\ Len(buffer) <= BufferSize
          /\ stdin \in Text /\ Ends(given, stdin) /\ given \in Inputs /\ file0 \in InitialFiles
          /\ stdout \in Text /\ offset \in Nat
          /\ command \in Words /\ filename \in Words /\ tmp \in Text
          /\ message \in {"none", "OK", "Invalid Command", "Operation Failed"}
      BY DEF IInv, Kinds
    <2>2. infile = Fd /\ command # Null /\ filename # Null
      BY <1>1 DEF IInv, SetInv, GetInv
    <2> QED BY <2>1, <2>2, Apart, LenProperties DEF Text
  <1>n. Len(buffer) \in Nat /\ Len(buffer) <= BufferSize /\ BufferSize \in Nat
    BY <1>2
  <1>3. k \in 0 .. Len(buffer)
    BY <1>k, <1>n
  <1>4. /\ buffer' \in Text /\ Len(buffer') = Len(buffer) - k /\ SubSeq(buffer, 1, k) \in Text
    BY <1>1, <1>2, <1>3, Cut
  <1>5. ~(k < Len(buffer)) => buffer' = << >>
    <2> HAVE ~(k < Len(buffer))
    <2>1. Len(buffer') = 0
      BY <1>n, <1>3, <1>4
    <2> QED BY <2>1, <1>4, EmptySeq DEF Text
  <1>6. stdout' \in Text
    <2>1. CASE phase = "write"
      BY <1>1, <1>2, <2>1 DEF Put
    <2>2. CASE phase # "write"
      <3>1. stdout' = stdout \o SubSeq(buffer, 1, k)
        BY <1>1, <2>2 DEF Put
      <3>2. stdout \o SubSeq(buffer, 1, k) \in Text
        BY <1>2, <1>4, Joined
      <3> QED BY <3>1, <3>2, Zenon
    <2> QED BY <2>1, <2>2
  <1>7. Kinds'
    <2>1. Len(buffer') <= BufferSize
      BY <1>n, <1>3, <1>4
    <2>2. phase' \in {"read", "write", "fetch", "show"}
      BY <1>1
    <2>3. Ends(given', stdin')
      BY <1>1, <1>2
    <2>4. /\ given' = given /\ file0' = file0 /\ stdin' = stdin /\ command' = command
          /\ filename' = filename /\ tmp' = tmp /\ infile' = Fd /\ offset' = offset
          /\ message' = message
      BY <1>1, <1>2
    <2> QED BY <2>1, <2>2, <2>3, <2>4, <1>2, <1>4, <1>6 DEF Kinds
  <1>8. /\ Line' = Line /\ Name' = Name /\ Sets' = Sets /\ Gets' = Gets /\ Readable' = Readable
        /\ Good' = Good
    BY <1>1, SameInput DEF world
  <1>9. CASE phase = "write"
    <2>1. /\ command = SetWord /\ Sets /\ stdout = << >> /\ offset = 0
          /\ file \in Text /\ Name.rest = file \o (buffer \o stdin)
      BY <1>9 DEF IInv, SetInv
    <2>2. /\ file' = file \o SubSeq(buffer, 1, k) /\ stdout' = stdout
      BY <1>1, <1>9 DEF Put
    <2>3. /\ file \o SubSeq(buffer, 1, k) \in Text
          /\ file \o (buffer \o stdin)
               = (file \o SubSeq(buffer, 1, k)) \o (SubSeq(buffer, k + 1, Len(buffer)) \o stdin)
      <3>1. Shifted(file, buffer, stdin, k)
        BY <1>2, <1>3, <2>1, Moved
      <3> QED BY <3>1, Zenon DEF Shifted
    <2>4. file' \in Text /\ Name.rest = file' \o (buffer' \o stdin)
      BY <2>1, <2>2, <2>3, <1>1, Zenon
    <2>5. SetInv'
      <3>1. /\ command' = SetWord /\ command' # Null /\ filename' # Null /\ infile' = Fd
            /\ Sets' /\ stdout' = << >> /\ offset' = 0
        BY <2>1, <2>2, <1>1, <1>2, <1>8
      <3>2. file' \in Text /\ Name.rest' = file' \o (buffer' \o stdin')
        BY <2>4, <1>1, <1>8, Zenon
      <3> QED BY <3>1, <3>2, Zenon DEF SetInv
    <2>6. phase' \in {"read", "write"} /\ (phase' = "read" => buffer' = << >>)
      BY <1>1, <1>5, <1>9
    <2>7. LineInv'
      BY <2>1, <2>2, <2>6, <1>1, <1>2 DEF LineInv
    <2>8. GetInv' /\ ResultOfInput'
      BY <2>6 DEF GetInv, ResultOfInput
    <2>9. IsPrefix(file', Name.rest)
      <3>1. buffer' \o stdin \in Text
        BY <1>2, <1>4, Joined
      <3>2. IsPrefix(file', file' \o (buffer' \o stdin))
        BY <2>4, <3>1, FirstIsPrefix
      <3> QED BY <2>4, <3>2, Zenon
    <2>10. FirstPart'
      <3>1. Sets' /\ IsPrefix(file', Name.rest') /\ stdout' = << >>
        BY <2>1, <2>2, <2>9, <1>8, Zenon
      <3> QED BY <3>1, Zenon DEF FirstPart
    <2> QED BY <1>7, <2>5, <2>7, <2>8, <2>10 DEF IInv
  <1>10. CASE phase = "show"
    <2>1. /\ command = GetWord /\ Gets /\ Readable /\ file = file0 /\ file0 \in Text
          /\ offset \in 0 .. Len(file0)
          /\ file0 = stdout \o (buffer \o SubSeq(file0, offset + 1, Len(file0)))
      BY <1>10 DEF IInv, GetInv
    <2>2. /\ stdout' = stdout \o SubSeq(buffer, 1, k) /\ file' = file
      BY <1>1, <1>10 DEF Put
    <2>3. PICK r : r = SubSeq(file0, offset + 1, Len(file0))
      OBVIOUS
    <2>4. r \in Text
      BY <2>1, <2>3, Cut
    <2>5. /\ stdout \o SubSeq(buffer, 1, k) \in Text
          /\ stdout \o (buffer \o r)
               = (stdout \o SubSeq(buffer, 1, k)) \o (SubSeq(buffer, k + 1, Len(buffer)) \o r)
      <3>1. Shifted(stdout, buffer, r, k)
        BY <1>2, <1>3, <2>4, Moved
      <3> QED BY <3>1, Zenon DEF Shifted
    <2>6. file0 = stdout' \o (buffer' \o r)
      BY <2>1, <2>2, <2>3, <2>5, <1>1, Zenon
    <2>7. phase' \in {"show", "fetch"} /\ (phase' = "fetch" => buffer' = << >>)
      BY <1>1, <1>5, <1>10
    <2>8. GetInv'
      <3>1. /\ command' = GetWord /\ command' # Null /\ filename' # Null /\ infile' = Fd
            /\ Gets' /\ Readable' /\ file' = file0' /\ file0' \in Text /\ offset' \in 0 .. Len(file0')
        BY <2>1, <2>2, <1>1, <1>2, <1>8
      <3>2. file0' = stdout' \o (buffer' \o SubSeq(file0', offset' + 1, Len(file0')))
        BY <2>3, <2>6, <1>1, Zenon
      <3> QED BY <3>1, <3>2, <2>7, Zenon DEF GetInv
    <2>9. LineInv' /\ SetInv' /\ ResultOfInput'
      BY <2>7 DEF LineInv, SetInv, ResultOfInput
    <2>10. IsPrefix(stdout', file0)
      <3>1. buffer' \o r \in Text
        BY <1>4, <2>4, Joined
      <3>2. IsPrefix(stdout', stdout' \o (buffer' \o r))
        BY <1>6, <3>1, FirstIsPrefix
      <3> QED BY <2>6, <3>2, Zenon
    <2>11. FirstPart'
      <3>1. Gets' /\ Readable' /\ IsPrefix(stdout', file0') /\ file' = file0'
        BY <2>1, <2>2, <2>10, <1>1, <1>8
      <3> QED BY <3>1, Zenon DEF FirstPart
    <2> QED BY <1>7, <2>8, <2>9, <2>11 DEF IInv
  <1> QED BY <1>1, <1>9, <1>10

(* The end of the input of a set. *)
LEMMA EndSetKeeps == ASSUME IInv, EndSet PROVE IInv'
  <1>1. /\ phase = "read" /\ stdin = << >> /\ infile = Fd /\ phase' = "done" /\ message' = "OK"
        /\ UNCHANGED <<given, file0, stdin, command, filename, tmp, infile, buffer, file, offset, stdout>>
    BY DEF EndSet, Exit, world, parsed
  <1>2. Sets /\ stdout = << >> /\ file \in Text /\ Name.rest = file \o (buffer \o stdin) /\ buffer = << >>
    BY <1>1 DEF IInv, SetInv, LineInv
  <1>3. Name.rest = file
    <2>1. << >> \o << >> = << >> /\ file \o << >> = file
      BY <1>2, Apart, Joined
    <2> QED BY <2>1, <1>1, <1>2
  <1>4. /\ Line' = Line /\ Name' = Name /\ Sets' = Sets /\ Gets' = Gets /\ Readable' = Readable
    BY <1>1, SameInput DEF world
  <1>5. ~Gets
    BY <1>2, Apart DEF Sets, Gets
  <1>6. ResultOfInput'
    BY <1>1, <1>2, <1>3, <1>4, <1>5 DEF ResultOfInput
  <1>7. Kinds'
    BY <1>1 DEF IInv, Kinds
  <1>8. LineInv' /\ SetInv' /\ GetInv'
    BY <1>1 DEF LineInv, SetInv, GetInv
  <1>9. FirstPart'
    BY <1>1, <1>4 DEF IInv, FirstPart
  <1> QED BY <1>6, <1>7, <1>8, <1>9 DEF IInv

(* A get whose input is at its end opens the file. *)
LEMMA EndGetKeeps == ASSUME IInv, EndGet PROVE IInv'
  <1>1. /\ phase = "read" /\ stdin = << >> /\ infile # Malformed /\ command = GetWord
        /\ filename # Null /\ file \notin {Missing, Dir, Denied} /\ infile' = Fd /\ phase' = "fetch"
        /\ UNCHANGED <<given, file0, stdin, command, filename, tmp, buffer, file, offset, stdout, message>>
    BY DEF EndGet, Get, Opened, world
  <1>2. infile = NoFd
    <2>1. infile \in {NoFd, Malformed, Fd}
      BY <1>1 DEF IInv, Kinds
    <2>2. infile # Fd
      BY <1>1, Apart DEF IInv, SetInv
    <2> QED BY <2>1, <2>2, <1>1
  <1>3. /\ buffer = << >> /\ stdout = << >> /\ offset = 0 /\ file = file0
        /\ LineOf(Sofar(<< >>), stdin)
    BY <1>1, <1>2 DEF IInv, LineInv, NoFd, Fd
  <1>4. PICK z : z = Sofar(<< >>)
    OBVIOUS
  <1>5. /\ z.command = command /\ z.filename = filename /\ z.infile = infile /\ z.rest = << >>
    BY <1>4 DEF Sofar
  <1>6. LineOf(z, << >>)
    BY <1>1, <1>3, <1>4
  <1>7. command # Null /\ Line.word = command /\ Good /\ Name.rest = << >> \o << >>
    BY <1>1, <1>2, <1>5, <1>6 DEF LineOf
  <1>8. Gets
    <2>1. << >> \o << >> = << >>
      BY Apart, Joined
    <2> QED BY <2>1, <1>1, <1>7 DEF Gets
  <1>9. Readable /\ file0 \in Text
    <2>1. file0 \in InitialFiles
      BY DEF IInv, Kinds
    <2> QED BY <2>1, <1>1, <1>3, MemoryAssumption DEF Readable, Text
  <1>10. /\ Line' = Line /\ Name' = Name /\ Sets' = Sets /\ Gets' = Gets /\ Readable' = Readable
    BY <1>1, SameInput DEF world
  <1>11. file0 = << >> \o (<< >> \o SubSeq(file0, 1, Len(file0)))
    <2>1. SubSeq(file0, 1, Len(file0)) = file0
      BY <1>9, SubSeqFull DEF Text
    <2>2. << >> \o file0 = file0
      BY <1>9, Joined
    <2> QED BY <2>1, <2>2
  <1>12. GetInv'
    <2>1. /\ command' = GetWord /\ command' # Null /\ filename' # Null /\ infile' = Fd
          /\ Gets' /\ Readable' /\ file' = file0' /\ file0' \in Text /\ buffer' = << >>
      BY <1>1, <1>3, <1>7, <1>8, <1>9, <1>10
    <2>2. offset' \in 0 .. Len(file0')
      <3>1. Len(file0) \in Nat
        BY <1>9, LenProperties DEF Text
      <3> QED BY <3>1, <1>1, <1>3
    <2>3. file0' = stdout' \o (buffer' \o SubSeq(file0', offset' + 1, Len(file0')))
      <3>1. offset' + 1 = 1
        BY <1>1, <1>3
      <3> QED BY <3>1, <1>1, <1>3, <1>11, Zenon
    <2> QED BY <2>1, <2>2, <2>3, Zenon DEF GetInv
  <1>13. Kinds'
    BY <1>1 DEF IInv, Kinds, Fd
  <1>14. LineInv' /\ SetInv' /\ ResultOfInput'
    BY <1>1 DEF LineInv, SetInv, ResultOfInput
  <1>15. FirstPart'
    BY <1>1, <1>10 DEF IInv, FirstPart
  <1> QED BY <1>12, <1>13, <1>14, <1>15 DEF IInv

(* Input that ends and is neither a right set nor a get of a file that opens. *)
LEMMA EndInvalidKeeps == ASSUME IInv, EndInvalid PROVE IInv'
  <1>1. /\ phase = "read" /\ stdin = << >> /\ infile # Fd
        /\ ~(infile # Malformed /\ command = GetWord /\ filename # Null /\ file \notin {Missing, Dir, Denied})
        /\ phase' = "done" /\ message' = "Invalid Command"
        /\ UNCHANGED <<given, file0, stdin, command, filename, tmp, infile, buffer, file, offset, stdout>>
    BY DEF EndInvalid, Get, Opened, Exit, world, parsed
  <1>2. /\ buffer = << >> /\ stdout = << >> /\ offset = 0 /\ file = file0
        /\ LineOf(Sofar(<< >>), stdin)
        /\ filename # Null /\ command = SetWord => infile = Malformed
    BY <1>1 DEF IInv, LineInv
  <1>3. infile \in {NoFd, Malformed} /\ tmp \in Text /\ << >> \in Text
    BY <1>1, Apart DEF IInv, Kinds
  <1>4. PICK z : z = Sofar(<< >>)
    OBVIOUS
  <1>5. /\ z.command = command /\ z.filename = filename /\ z.tmp = tmp /\ z.infile = infile
        /\ z.rest = << >>
    BY <1>4 DEF Sofar
  <1>6. LineOf(z, << >>)
    BY <1>1, <1>2, <1>4
  <1>7. tmp \o (<< >> \o << >>) = tmp
    <2>1. << >> \o << >> = << >> /\ tmp \o << >> = tmp
      BY <1>3, Joined
    <2> QED BY <2>1
  <1>8. ~Sets /\ ~(Gets /\ Readable)
    <2>1. CASE infile = Malformed
      BY <2>1, <1>5, <1>6 DEF LineOf
    <2>2. CASE command = Null
      <3>1. Free(tmp, {Space}) /\ given = tmp \o (<< >> \o << >>)
        BY <2>2, <1>5, <1>6 DEF LineOf
      <3>2. given = tmp
        BY <3>1, <1>7
      <3>3. Line.stop = Null
        BY <3>1, <3>2, <1>3, FreeSplit DEF Line
      <3> QED BY <3>3, Apart DEF Sets, Gets, Good
    <2>3. CASE command # Null /\ filename = Null
      <3>1. Free(tmp, {Space, Newline}) /\ Line.rest = tmp \o (<< >> \o << >>)
        BY <2>3, <1>5, <1>6 DEF LineOf
      <3>2. Line.rest = tmp
        BY <3>1, <1>7
      <3>3. Name.stop = Null
        BY <3>1, <3>2, <1>3, FreeSplit DEF Name
      <3> QED BY <3>3, Apart DEF Sets, Gets, Good
    <2>4. CASE infile = NoFd /\ command # Null /\ filename # Null
      <3>1. Line.word = command
        BY <2>4, <1>5, <1>6 DEF LineOf
      <3>2. command # SetWord
        BY <2>4, <1>2 DEF NoFd, Malformed
      <3>3. command = GetWord => ~Readable
        <4>1. infile # Malformed
          BY <2>4 DEF NoFd, Malformed
        <4>2. command = GetWord => file \in {Missing, Dir, Denied}
          BY <4>1, <2>4, <1>1, Zenon
        <4> QED BY <4>2, <1>2, Zenon DEF Readable
      <3> QED BY <3>1, <3>2, <3>3 DEF Sets, Gets
    <2> QED BY <2>1, <2>2, <2>3, <2>4, <1>3
  <1>9. /\ Line' = Line /\ Name' = Name /\ Sets' = Sets /\ Gets' = Gets /\ Readable' = Readable
    BY <1>1, SameInput DEF world
  <1>10. ResultOfInput'
    BY <1>1, <1>2, <1>8, <1>9 DEF ResultOfInput
  <1>11. Kinds'
    BY <1>1 DEF IInv, Kinds
  <1>12. LineInv' /\ SetInv' /\ GetInv'
    BY <1>1 DEF LineInv, SetInv, GetInv
  <1>13. FirstPart'
    BY <1>1, <1>9 DEF IInv, FirstPart
  <1> QED BY <1>10, <1>11, <1>12, <1>13 DEF IInv

(* One read of the file in get. *)
LEMMA FetchKeeps == ASSUME IInv, NEW n \in 1 .. BufferSize, Fetch(n) PROVE IInv'
  <1>1. /\ phase = "fetch" /\ phase' = "show" /\ offset' = offset + n
        /\ UNCHANGED <<given, file0, stdin, command, filename, tmp, infile, file, stdout, message>>
    BY DEF Fetch, world, parsed
  <1>2. offset + n <= Len(file) /\ buffer' = SubSeq(file, offset + 1, offset + n)
    BY DEF Fetch
  <1>3. /\ infile = Fd /\ command = GetWord /\ command # Null /\ filename # Null
        /\ Gets /\ Readable /\ file = file0 /\ file0 \in Text /\ offset \in 0 .. Len(file0)
        /\ buffer = << >>
    BY <1>1 DEF IInv, GetInv
  <1>4. Len(file0) \in Nat /\ BufferSize \in Nat
    BY <1>3, Apart, LenProperties DEF Text
  <1>5. offset \in Nat /\ offset + n \in 0 .. Len(file0) /\ offset <= offset + n
    BY <1>2, <1>3, <1>4
  <1>6. PICK t : t = SubSeq(file0, offset + 1, Len(file0))
    OBVIOUS
  <1>7. PICK r : r = SubSeq(file0, (offset + n) + 1, Len(file0))
    OBVIOUS
  <1>8. PICK b : b = SubSeq(file0, offset + 1, offset + n)
    OBVIOUS
  <1>9. t \in Text /\ r \in Text
    BY <1>3, <1>5, <1>6, <1>7, Cut
  <1>10. b \in Text /\ Len(b) = n
    <2>1. \A i \in 1 .. Len(file0) : file0[i] \in Bytes
      BY <1>3, ElementOfSeq DEF Text
    <2>2. \A i \in offset + 1 .. offset + n : file0[i] \in Bytes
      BY <2>1, <1>4, <1>5
    <2>3. /\ SubSeq(file0, offset + 1, offset + n) \in Text
          /\ Len(SubSeq(file0, offset + 1, offset + n))
               = IF offset + 1 <= offset + n THEN (offset + n) - (offset + 1) + 1 ELSE 0
      BY <2>2, <1>5, SubSeqProperties DEF Text
    <2>4. (IF offset + 1 <= offset + n THEN (offset + n) - (offset + 1) + 1 ELSE 0) = n
      BY <1>5
    <2> QED BY <2>3, <2>4, <1>8, Zenon
  <1>11. t = b \o r
    <2>1. \A m \in 1 .. Len(file0) + 1 : \A k \in m - 1 .. Len(file0) : \A l \in k .. Len(file0) :
            SubSeq(file0, m, k) \o SubSeq(file0, k + 1, l) = SubSeq(file0, m, l)
      BY <1>3, ConcatAdjacentSubSeq DEF Text
    <2>2. /\ offset + 1 \in 1 .. Len(file0) + 1 /\ offset + n \in (offset + 1) - 1 .. Len(file0)
          /\ Len(file0) \in offset + n .. Len(file0)
      BY <1>4, <1>5
    <2>3. SubSeq(file0, offset + 1, offset + n) \o SubSeq(file0, (offset + n) + 1, Len(file0))
            = SubSeq(file0, offset + 1, Len(file0))
      BY <2>1, <2>2
    <2> QED BY <2>3, <1>6, <1>7, <1>8
  <1>12. /\ Line' = Line /\ Name' = Name /\ Sets' = Sets /\ Gets' = Gets /\ Readable' = Readable
    BY <1>1, SameInput DEF world
  <1>13. file0 = stdout \o (b \o r)
    <2>1. file0 = stdout \o (<< >> \o t)
      BY <1>1, <1>3, <1>6 DEF IInv, GetInv
    <2>2. << >> \o t = t
      BY <1>9, Joined
    <2> QED BY <2>1, <2>2, <1>11
  <1>14. buffer' = b
    BY <1>2, <1>3, <1>8
  <1>15. GetInv'
    <2>1. /\ command' = GetWord /\ command' # Null /\ filename' # Null /\ infile' = Fd
          /\ Gets' /\ Readable' /\ file' = file0' /\ file0' \in Text /\ phase' # "fetch"
      BY <1>1, <1>3, <1>12
    <2>2. offset' \in 0 .. Len(file0')
      BY <1>1, <1>5
    <2>3. file0' = stdout' \o (buffer' \o SubSeq(file0', offset' + 1, Len(file0')))
      BY <1>1, <1>7, <1>13, <1>14, Zenon
    <2> QED BY <2>1, <2>2, <2>3, Zenon DEF GetInv
  <1>16. Kinds'
    <2>1. buffer' \in Text /\ Len(buffer') <= BufferSize
      BY <1>4, <1>10, <1>14
    <2>2. offset' \in Nat
      BY <1>1, <1>5
    <2>3. /\ given' = given /\ file0' = file0 /\ stdin' = stdin /\ command' = command
          /\ filename' = filename /\ tmp' = tmp /\ infile' = Fd /\ stdout' = stdout
          /\ message' = message /\ phase' = "show"
      BY <1>1, <1>3
    <2> QED BY <2>1, <2>2, <2>3 DEF IInv, Kinds
  <1>17. LineInv' /\ SetInv' /\ ResultOfInput'
    BY <1>1 DEF LineInv, SetInv, ResultOfInput
  <1>18. FirstPart'
    BY <1>1, <1>12 DEF IInv, FirstPart
  <1> QED BY <1>15, <1>16, <1>17, <1>18 DEF IInv

(* All of the file is printed. *)
LEMMA FetchedKeeps == ASSUME IInv, Fetched PROVE IInv'
  <1>1. /\ phase = "fetch" /\ offset = Len(file) /\ phase' = "done" /\ message' = "none"
        /\ UNCHANGED <<given, file0, stdin, command, filename, tmp, infile, buffer, file, offset, stdout>>
    BY DEF Fetched, Exit, world, parsed
  <1>2. /\ Gets /\ Readable /\ file = file0 /\ file0 \in Text /\ buffer = << >>
        /\ file0 = stdout \o (buffer \o SubSeq(file0, offset + 1, Len(file0)))
    BY <1>1 DEF IInv, GetInv
  <1>3. stdout \in Text /\ << >> \in Text
    BY Apart DEF IInv, Kinds
  <1>4. stdout = file0
    <2>1. SubSeq(file0, offset + 1, Len(file0)) = << >>
      <3>1. Len(file0) \in 0 .. Len(file0) /\ Len(file0) - Len(file0) = 0
        BY <1>2, LenProperties DEF Text
      <3>2. /\ SubSeq(file0, Len(file0) + 1, Len(file0)) \in Text
            /\ Len(SubSeq(file0, Len(file0) + 1, Len(file0))) = 0
        BY <3>1, <1>2, Cut
      <3> QED BY <3>2, <1>1, <1>2, EmptySeq DEF Text
    <2>2. << >> \o << >> = << >> /\ stdout \o << >> = stdout
      BY <1>3, Joined
    <2> QED BY <2>1, <2>2, <1>2
  <1>5. /\ Line' = Line /\ Name' = Name /\ Sets' = Sets /\ Gets' = Gets /\ Readable' = Readable
    BY <1>1, SameInput DEF world
  <1>6. ~Sets
    BY <1>2, Apart DEF Sets, Gets
  <1>7. ResultOfInput'
    BY <1>1, <1>2, <1>4, <1>5, <1>6 DEF ResultOfInput
  <1>8. Kinds'
    BY <1>1 DEF IInv, Kinds
  <1>9. LineInv' /\ SetInv' /\ GetInv'
    BY <1>1 DEF LineInv, SetInv, GetInv
  <1>10. FirstPart'
    BY <1>1, <1>5 DEF IInv, FirstPart
  <1> QED BY <1>7, <1>8, <1>9, <1>10 DEF IInv

(* A read or a write fails. *)
LEMMA FailKeeps == ASSUME IInv, Fail PROVE IInv'
  <1>1. /\ phase' = "done" /\ message' = "Operation Failed"
        /\ UNCHANGED <<given, file0, stdin, command, filename, tmp, infile, buffer, file, offset, stdout>>
    BY DEF Fail, Exit, world, parsed
  <1>2. Kinds'
    BY <1>1 DEF IInv, Kinds
  <1>3. LineInv' /\ SetInv' /\ GetInv' /\ ResultOfInput'
    BY <1>1 DEF LineInv, SetInv, GetInv, ResultOfInput
  <1>4. /\ Line' = Line /\ Name' = Name /\ Sets' = Sets /\ Gets' = Gets /\ Readable' = Readable
    BY <1>1, SameInput DEF world
  <1>5. FirstPart'
    BY <1>1, <1>4 DEF IInv, FirstPart
  <1> QED BY <1>2, <1>3, <1>5 DEF IInv

(* When nothing changes. *)
LEMMA StutterKeeps == ASSUME IInv, UNCHANGED vars PROVE IInv'
  <1>1. UNCHANGED <<given, file0, stdin, phase, command, filename, tmp, infile, buffer, file,
                    offset, stdout, message>>
    BY DEF vars, world, parsed
  <1>2. /\ Line' = Line /\ Name' = Name /\ Sets' = Sets /\ Gets' = Gets /\ Readable' = Readable
        /\ Good' = Good
    BY <1>1, SameInput DEF world
  <1>3. Kinds' /\ FirstPart' /\ ResultOfInput' /\ SetInv' /\ GetInv'
    BY <1>1, <1>2 DEF IInv, Kinds, FirstPart, ResultOfInput, SetInv, GetInv
  <1>4. LineOf(Sofar(<< >>), stdin)' <=> LineOf(Sofar(<< >>), stdin)
    BY <1>1, <1>2 DEF LineOf, Sofar
  <1>5. LineInv'
    BY <1>1, <1>4 DEF IInv, LineInv
  <1> QED BY <1>3, <1>5 DEF IInv

(* The invariant through every step. *)
LEMMA NextKeeps == IInv /\ [Next]_vars => IInv'
  <1> SUFFICES ASSUME IInv, [Next]_vars PROVE IInv'
    OBVIOUS
  <1>1. CASE \E n \in 1 .. BufferSize : ReadContents(n) \/ ReadLine(n) \/ Fetch(n)
    BY <1>1, ReadContentsKeeps, ReadLineKeeps, FetchKeeps
  <1>2. CASE \E k \in 0 .. BufferSize : Write(k)
    BY <1>2, WriteKeeps
  <1>3. CASE EndSet
    BY <1>3, EndSetKeeps
  <1>4. CASE EndGet
    BY <1>4, EndGetKeeps
  <1>5. CASE EndInvalid
    BY <1>5, EndInvalidKeeps
  <1>6. CASE Fetched
    BY <1>6, FetchedKeeps
  <1>7. CASE Fail
    BY <1>7, FailKeeps
  <1>8. CASE Terminated
    BY <1>8, StutterKeeps DEF Terminated
  <1>9. CASE UNCHANGED vars
    BY <1>9, StutterKeeps
  <1> QED BY <1>1, <1>2, <1>3, <1>4, <1>5, <1>6, <1>7, <1>8, <1>9 DEF Next

(* Every state satisfies the inductive invariant. *)
THEOREM Invariant == Spec => []IInv
  <1>1. Init => IInv
    BY InitIInv
  <1>2. IInv /\ [Next]_vars => IInv'
    BY NextKeeps
  <1> QED BY <1>1, <1>2, PTL DEF Spec

-------------------------------------------------------------------------------
(***************************************************************************)
(* What is proved of the program, for every input, every file, every size  *)
(* of the buffer, every way read() splits the input and write() what is    *)
(* written, and wherever an operation fails.                               *)
(***************************************************************************)
(* The types: what is to be read is an end of the input, and the file is   *)
(* open, with the command and the name known, whenever there is something  *)
(* to write or to fetch.                                                   *)
THEOREM TypesCorrect == Spec => []TypeOK
  <1>1. IInv => TypeOK
    <2> SUFFICES ASSUME IInv PROVE TypeOK
      OBVIOUS
    <2>1. Kinds
      BY DEF IInv
    <2>2. IsSuffix(stdin, given)
      <3>1. stdin \in Text /\ Ends(given, stdin)
        BY <2>1 DEF Kinds
      <3>2. PICK u \in Text : given = u \o stdin
        BY <3>1 DEF Ends
      <3>3. IsSuffix(stdin, u \o stdin)
        BY <3>1, SecondIsSuffix
      <3> QED BY <3>2, <3>3, Zenon
    <2>3. phase \in {"write", "fetch", "show"} => infile = Fd /\ command # Null /\ filename # Null
      BY DEF IInv, SetInv, GetInv
    <2> QED BY <2>1, <2>2, <2>3 DEF Kinds, TypeOK
  <1> QED BY <1>1, Invariant, PTL

(* However the input is split into pieces and the output into writes, a    *)
(* run that no operation fails ends with the verdict, the file and the     *)
(* output that the input read as one piece asks for.                       *)
THEOREM OutcomeOfInput == Spec => []ResultOfInput
  <1>1. IInv => ResultOfInput
    BY DEF IInv
  <1> QED BY <1>1, Invariant, PTL

(* At any time, and so after a failure too, the file is untouched or holds *)
(* a first part of the new contents, and the output is a first part of the *)
(* file: nothing is written twice, left out or mixed with the command.     *)
THEOREM NothingElse == Spec => []FirstPart
  <1>1. IInv => FirstPart
    BY DEF IInv
  <1> QED BY <1>1, Invariant, PTL
===============================================================================
