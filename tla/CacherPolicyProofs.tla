-------------------------- MODULE CacherPolicyProofs --------------------------
(***************************************************************************)
(* Proofs about the three policies of Cacher: the answers of FIFO and LRU  *)
(* are those the input explains, and CLOCK implements the second-chance    *)
(* queue, for every set of items and every size of the cache.              *)
(***************************************************************************)
EXTENDS CacherProofs

(* The text in a slot. *)
At(i) == text[list[i].data]

(* Reading the texts of the slots instead of the pointers. *)
LEMMA ContainsAt ==
  ASSUME NEW x
  PROVE  Contains(x) <=> \E i \in Used : At(i) = x
  BY DEF Contains, Found, Used, At

(* No item is cached twice. *)
LEMMA DifferentTexts ==
  ASSUME IInv
  PROVE  \A i, j \in Used : At(i) = At(j) => i = j
  BY DEF IInv, TextInv, PlaceInv, InCache, Used, At

(* What is cached is allocated. *)
LEMMA CachedLive ==
  ASSUME IInv, phase = "read"
  PROVE  \A i \in Used : list[i].data \in live
  BY Owned DEF InCache, Used

(* A miss under FIFO or LRU, seen in the texts. *)
LEMMA MissAt ==
  ASSUME IInv, NEW x, Miss(x)
  PROVE  /\ count < Size => /\ count' = count + 1 /\ At(count - 1)' = x
                            /\ \A i \in Used : At(i)' = At(i)
         /\ count = Size => /\ count' = count /\ At(count - 1)' = x
                            /\ \A i \in 0 .. count - 2 : At(i)' = At(i + 1)
  <1>1. text'[Fresh] = x /\ \A p \in live : text'[p] = text[p]
    BY NewString DEF Miss, Read
  <1>2. \A i \in Used : list[i].data \in live
    BY CachedLive DEF Miss, Read
  <1>3. count \in Nat
    BY DEF IInv, TypeOK
  <1>4. CASE count < Size
    <2>1. /\ count' = count + 1 /\ list'[count].data = Fresh
          /\ \A i \in Used : list'[i].data = list[i].data
      BY <1>4, MissFacts
    <2>2. count # Size
      BY <1>3, <1>4, CacherAssumption
    <2>3. text'[list'[count].data] = x /\ \A i \in Used : text'[list'[i].data] = text[list[i].data]
      BY <2>1, <1>1, <1>2
    <2>4. count' - 1 = count
      BY <2>1, <1>3
    <2> QED BY <2>1, <2>2, <2>3, <2>4 DEF At
  <1>5. CASE count = Size
    <2>1. /\ count' = count /\ list'[count - 1].data = Fresh
          /\ \A i \in 0 .. count - 2 : list'[i].data = list[i + 1].data
      BY <1>5, MissFacts
    <2>2. \A i \in 0 .. count - 2 : i + 1 \in Used
      BY <1>3 DEF Used
    <2>3. /\ text'[list'[count - 1].data] = x
          /\ \A i \in 0 .. count - 2 : text'[list'[i].data] = text[list[i + 1].data]
      BY <2>1, <2>2, <1>1, <1>2
    <2> QED BY <1>3, <1>5, <2>1, <2>3, CacherAssumption DEF At
  <1> QED BY <1>3, <1>4, <1>5


-------------------------------------------------------------------------------
(***************************************************************************)
(* FIFO.  MissesAfter(m) are the misses that came after position m of the  *)
(* input.  The slots hold, in order, the last items that missed: the item  *)
(* in slot i came in with the miss after which count - 1 - i others came.  *)
(***************************************************************************)
MissesAfter(m) == {k \in m + 1 .. Len(answers) : answers[k] = "MISS"}
Since(m) == Cardinality(MissesAfter(m))

FIFOInv == policy = "FIFO" =>
  /\ \A m \in 1 .. Len(answers) : answers[m] = "MISS" /\ Since(m) < Size
        => Since(m) < count /\ At(count - 1 - Since(m)) = history[m]
  /\ \A i \in Used : \E m \in 1 .. Len(answers) : answers[m] = "MISS" /\ Since(m) = count - 1 - i

(* What the input says of position n of the answers. *)
RecentMiss(n, m) ==
  /\ history[m] = history[n] /\ answers[m] = "MISS"
  /\ Cardinality({k \in m + 1 .. n - 1 : answers[k] = "MISS"}) < Size

(* One more answer counts for all positions before it. *)
LEMMA SinceGrows ==
  ASSUME TypeOK, NEW a \in {"HIT", "MISS"}, answers' = Append(answers, a)
  PROVE  /\ Len(answers) \in Nat /\ Len(answers') = Len(answers) + 1
         /\ \A m \in 1 .. Len(answers) :
              /\ answers'[m] = answers[m] /\ Since(m) \in Nat
              /\ Since(m)' = Since(m) + (IF a = "MISS" THEN 1 ELSE 0)
         /\ answers'[Len(answers) + 1] = a
         /\ \A n : n = Len(answers) + 1 => Since(n)' = 0
  <1>1. /\ Len(answers) \in Nat /\ Len(answers') = Len(answers) + 1
        /\ \A i \in 1 .. Len(answers) : answers'[i] = answers[i]
        /\ answers'[Len(answers) + 1] = a
    BY DEF TypeOK
  <1>2. ASSUME NEW m \in 1 .. Len(answers)
        PROVE  /\ Since(m) \in Nat
               /\ Since(m)' = Since(m) + (IF a = "MISS" THEN 1 ELSE 0)
    <2>1. m + 1 .. Len(answers') = (m + 1 .. Len(answers)) \cup {Len(answers) + 1}
      BY <1>1
    <2>2. \A k \in m + 1 .. Len(answers) : answers'[k] = answers[k]
      BY <1>1
    <2>3. IsFiniteSet(MissesAfter(m))
      <3>1. IsFiniteSet(m + 1 .. Len(answers))
        BY <1>1, FS_Interval
      <3> QED BY <3>1, FS_Subset DEF MissesAfter
    <2>4. Since(m) \in Nat
      BY <2>3, FS_CardinalityType DEF Since
    <2>5. CASE a = "MISS"
      <3>1. MissesAfter(m)' = MissesAfter(m) \cup {Len(answers) + 1}
        BY <1>1, <2>1, <2>2, <2>5 DEF MissesAfter
      <3>2. Len(answers) + 1 \notin MissesAfter(m)
        BY <1>1 DEF MissesAfter
      <3>3. Cardinality(MissesAfter(m)') = Cardinality(MissesAfter(m)) + 1
        BY <2>3, <3>1, <3>2, FS_AddElement
      <3> QED BY <2>4, <2>5, <3>3 DEF Since
    <2>6. CASE a = "HIT"
      <3>1. MissesAfter(m)' = MissesAfter(m)
        BY <1>1, <2>1, <2>2, <2>6 DEF MissesAfter
      <3> QED BY <2>4, <2>6, <3>1 DEF Since
    <2> QED BY <2>5, <2>6
  <1>3. ASSUME NEW n, n = Len(answers) + 1 PROVE Since(n)' = 0
    <2>1. MissesAfter(n)' = {}
      BY <1>1, <1>3 DEF MissesAfter
    <2> QED BY <2>1, FS_EmptySet DEF Since
  <1> QED BY <1>1, <1>2, <1>3

(* The answers that were given stay explained, and the last one has to be. *)
LEMMA FIFOExplainedStep ==
  ASSUME TypeOK, Len(history) = Len(answers), FIFOExplained, policy' = policy,
         NEW x, history' = Append(history, x),
         NEW a \in {"HIT", "MISS"}, answers' = Append(answers, a),
         policy = "FIFO" => (a = "HIT" <=> \E m \in 1 .. Len(answers) :
                                /\ history[m] = x /\ answers[m] = "MISS" /\ Since(m) < Size)
  PROVE  FIFOExplained'
  <1> SUFFICES ASSUME policy = "FIFO", NEW n \in 1 .. Len(answers')
               PROVE  answers'[n] = "HIT" <=> \E m \in 1 .. n - 1 : RecentMiss(n, m)'
    BY DEF FIFOExplained, RecentMiss
  <1>1. /\ Len(answers) \in Nat /\ Len(answers') = Len(answers) + 1
        /\ \A i \in 1 .. Len(answers) : answers'[i] = answers[i] /\ history'[i] = history[i]
        /\ answers'[Len(answers) + 1] = a /\ history'[Len(answers) + 1] = x
    BY DEF TypeOK
  <1>2. CASE n \in 1 .. Len(answers)
    <2>1. ASSUME NEW m \in 1 .. n - 1 PROVE RecentMiss(n, m)' <=> RecentMiss(n, m)
      <3>1. m \in 1 .. Len(answers) /\ \A k \in m + 1 .. n - 1 : k \in 1 .. Len(answers)
        BY <1>1, <1>2
      <3>2. {k \in m + 1 .. n - 1 : answers'[k] = "MISS"} = {k \in m + 1 .. n - 1 : answers[k] = "MISS"}
        BY <1>1, <3>1
      <3>3. history'[m] = history[m] /\ history'[n] = history[n] /\ answers'[m] = answers[m]
        BY <1>1, <1>2, <3>1
      <3> QED BY <3>2, <3>3 DEF RecentMiss
    <2>2. answers[n] = "HIT" <=> \E m \in 1 .. n - 1 : RecentMiss(n, m)
      BY <1>2 DEF FIFOExplained, RecentMiss
    <2> QED BY <2>1, <2>2, <1>1, <1>2
  <1>3. CASE n = Len(answers) + 1
    <2>1. n - 1 = Len(answers)
      BY <1>1, <1>3
    <2>2. ASSUME NEW m \in 1 .. Len(answers)
          PROVE  RecentMiss(n, m)' <=> /\ history[m] = x /\ answers[m] = "MISS" /\ Since(m) < Size
      <3>1. \A k \in m + 1 .. Len(answers) : answers'[k] = answers[k]
        BY <1>1
      <3>2. {k \in m + 1 .. n - 1 : answers'[k] = "MISS"} = MissesAfter(m)
        BY <2>1, <3>1 DEF MissesAfter
      <3> QED BY <3>2, <1>1, <1>3 DEF RecentMiss, Since
    <2> QED BY <2>1, <2>2, <1>1, <1>3
  <1> QED BY <1>1, <1>2, <1>3

(* A hit under FIFO moves nothing. *)
LEMMA FIFOHit ==
  ASSUME IInv, FIFOInv, FIFOExplained, NEW x \in Items, HitFIFO(x)
  PROVE  FIFOInv' /\ FIFOExplained'
  <1>1. /\ TypeOK /\ policy = "FIFO" /\ policy' = policy /\ Contains(x)
        /\ Len(history) = Len(answers)
        /\ list' = list /\ count' = count /\ text' = text
        /\ history' = Append(history, x) /\ answers' = Append(answers, "HIT")
    BY DEF IInv, PhaseInv, HitFIFO, Hit, Read, heap, TypeOK
  <1>2. /\ Len(answers) \in Nat /\ Len(answers') = Len(answers) + 1
        /\ \A m \in 1 .. Len(answers) :
             answers'[m] = answers[m] /\ Since(m) \in Nat /\ Since(m)' = Since(m)
        /\ answers'[Len(answers) + 1] = "HIT"
    BY <1>1, SinceGrows
  <1>3. \A m \in 1 .. Len(answers) : history'[m] = history[m]
    BY <1>1, <1>2 DEF TypeOK
  <1>4. Used' = Used /\ \A i : At(i)' = At(i)
    BY <1>1 DEF Used, At
  <1>5. FIFOInv'
    <2>1. ASSUME NEW m \in 1 .. Len(answers'), answers'[m] = "MISS", Since(m)' < Size
          PROVE  Since(m)' < count' /\ At(count - 1 - Since(m))' = history'[m]
      <3>1. m \in 1 .. Len(answers)
        BY <1>2, <2>1
      <3>2. Since(m) < count /\ At(count - 1 - Since(m)) = history[m]
        BY <1>1, <1>2, <2>1, <3>1 DEF FIFOInv
      <3> QED BY <1>1, <1>2, <1>3, <3>1, <3>2 DEF At
    <2>2. ASSUME NEW i \in Used'
          PROVE  \E m \in 1 .. Len(answers') : answers'[m] = "MISS" /\ Since(m)' = count' - 1 - i
      <3>1. PICK m \in 1 .. Len(answers) : answers[m] = "MISS" /\ Since(m) = count - 1 - i
        BY <1>1, <1>4, <2>2 DEF FIFOInv
      <3> QED BY <1>1, <1>2, <3>1
    <2> QED BY <2>1, <2>2 DEF FIFOInv
  <1>6. \E m \in 1 .. Len(answers) : history[m] = x /\ answers[m] = "MISS" /\ Since(m) < Size
    <2>1. PICK i \in Used : At(i) = x
      BY <1>1, ContainsAt
    <2>2. PICK m \in 1 .. Len(answers) : answers[m] = "MISS" /\ Since(m) = count - 1 - i
      BY <1>1, <2>1 DEF FIFOInv
    <2>3. Since(m) < Size /\ count - 1 - Since(m) = i
      BY <1>1, <2>1, <2>2, CacherAssumption DEF Used, TypeOK
    <2>4. At(i) = history[m]
      BY <1>1, <2>2, <2>3 DEF FIFOInv
    <2> QED BY <2>1, <2>2, <2>3, <2>4
  <1>7. FIFOExplained'
    BY <1>1, <1>6, FIFOExplainedStep
  <1> QED BY <1>5, <1>7

(* A miss pushes all of them towards the exit. *)
LEMMA FIFOMiss ==
  ASSUME IInv, FIFOInv, FIFOExplained, NEW x \in Items, Miss(x)
  PROVE  FIFOInv' /\ FIFOExplained'
  <1>1. /\ TypeOK /\ policy' = policy /\ ~Contains(x)
        /\ Len(history) = Len(answers)
        /\ history' = Append(history, x) /\ answers' = Append(answers, "MISS")
    BY DEF IInv, PhaseInv, Miss, Read, TypeOK
  <1>2. /\ Len(answers) \in Nat /\ Len(answers') = Len(answers) + 1
        /\ \A m \in 1 .. Len(answers) :
             answers'[m] = answers[m] /\ Since(m) \in Nat /\ Since(m)' = Since(m) + 1
        /\ answers'[Len(answers) + 1] = "MISS"
        /\ \A n : n = Len(answers) + 1 => Since(n)' = 0
    BY <1>1, SinceGrows
  <1>3. /\ \A m \in 1 .. Len(answers) : history'[m] = history[m]
        /\ history'[Len(answers) + 1] = x
    BY <1>1, <1>2 DEF TypeOK
  <1>4. count \in 0 .. Size /\ Size \in Nat \ {0}
    BY <1>1, CacherAssumption DEF TypeOK
  <1>5. /\ At(count - 1)' = x
        /\ \/ count < Size /\ count' = count + 1 /\ \A i \in Used : At(i)' = At(i)
           \/ count = Size /\ count' = count /\ \A i \in 0 .. count - 2 : At(i)' = At(i + 1)
    BY <1>4, MissAt
  <1>6. ASSUME policy = "FIFO"
        PROVE  FIFOInv'
    <2>1. ASSUME NEW m \in 1 .. Len(answers'), answers'[m] = "MISS", Since(m)' < Size
          PROVE  Since(m)' < count' /\ At(count - 1 - Since(m))' = history'[m]
      <3>1. CASE m = Len(answers) + 1
        <4>1. Since(m)' = 0 /\ history'[m] = x /\ count' > 0
          BY <3>1, <1>2, <1>3, <1>4, <1>5
        <4>2. count' - 1 - Since(m)' = count' - 1
          BY <4>1, <1>4, <1>5
        <4> QED BY <4>1, <4>2, <1>5 DEF At
      <3>2. CASE m \in 1 .. Len(answers)
        <4>1. /\ answers[m] = "MISS" /\ Since(m) \in Nat /\ Since(m)' = Since(m) + 1
              /\ history'[m] = history[m] /\ Since(m) < Size
          BY <3>2, <2>1, <1>2, <1>3, <1>4
        <4>2. Since(m) < count /\ At(count - 1 - Since(m)) = history[m]
          BY <4>1, <3>2, <1>6 DEF FIFOInv
        <4> DEFINE i == count - 1 - Since(m)
        <4>3. CASE count < Size
          <5>1. count' - 1 - Since(m)' = i /\ i \in Used /\ Since(m)' < count' /\ count' = count + 1
            BY <4>1, <4>2, <4>3, <1>4, <1>5 DEF Used
          <5>2. text'[list'[i].data] = At(i)
            BY <5>1, <4>3, <1>4, <1>5 DEF At
          <5> QED BY <5>1, <5>2, <4>1, <4>2 DEF At
        <4>4. CASE count = Size
          <5>1. /\ count' = count /\ count' - 1 - Since(m)' = i - 1 /\ i - 1 \in 0 .. count - 2
                /\ (i - 1) + 1 = i /\ Since(m)' < count'
            BY <4>1, <4>2, <4>4, <2>1, <1>4, <1>5
          <5>2. text'[list'[i - 1].data] = At(i)
            <6>1. \A j \in 0 .. count - 2 : text'[list'[j].data] = At(j + 1)
              BY <4>4, <1>4, <1>5 DEF At
            <6> HIDE DEF i
            <6> QED BY <5>1, <6>1
          <5> QED BY <5>1, <5>2, <4>1, <4>2 DEF At
        <4> QED BY <4>3, <4>4, <1>4
      <3> QED BY <3>1, <3>2, <2>1, <1>2
    <2>2. ASSUME NEW i \in Used'
          PROVE  \E m \in 1 .. Len(answers') : answers'[m] = "MISS" /\ Since(m)' = count' - 1 - i
      <3>1. i \in 0 .. count' - 1
        BY <2>2 DEF Used
      <3>2. CASE i = count' - 1
        <4> PICK n : n = Len(answers) + 1
          OBVIOUS
        <4>1. n \in 1 .. Len(answers') /\ answers'[n] = "MISS" /\ Since(n)' = 0
          BY <1>2
        <4>2. count' - 1 - i = 0
          BY <3>1, <3>2, <1>4, <1>5
        <4> QED BY <4>1, <4>2
      <3>3. CASE i # count' - 1
        <4> DEFINE j == IF count < Size THEN i ELSE i + 1
        <4>1. j \in Used /\ count - 1 - j + 1 = count' - 1 - i
          BY <3>1, <3>3, <1>4, <1>5 DEF Used
        <4>2. PICK m \in 1 .. Len(answers) : answers[m] = "MISS" /\ Since(m) = count - 1 - j
          BY <4>1, <1>6 DEF FIFOInv
        <4>3. m \in 1 .. Len(answers') /\ answers'[m] = "MISS" /\ Since(m)' = count' - 1 - i
          BY <4>1, <4>2, <1>2
        <4> QED BY <4>3
      <3> QED BY <3>2, <3>3
    <2> QED BY <2>1, <2>2 DEF FIFOInv
  <1>7. policy = "FIFO" =>
           ~ \E m \in 1 .. Len(answers) : history[m] = x /\ answers[m] = "MISS" /\ Since(m) < Size
    <2> SUFFICES ASSUME policy = "FIFO", NEW m \in 1 .. Len(answers),
                        history[m] = x, answers[m] = "MISS", Since(m) < Size
                 PROVE  FALSE
      OBVIOUS
    <2>1. Since(m) < count /\ At(count - 1 - Since(m)) = x
      BY DEF FIFOInv
    <2>2. count - 1 - Since(m) \in Used
      BY <2>1, <1>2, <1>4 DEF Used
    <2> QED BY <2>1, <2>2, <1>1, ContainsAt
  <1>8. FIFOExplained'
    BY <1>1, <1>7, FIFOExplainedStep
  <1>9. policy # "FIFO" => FIFOInv'
    BY <1>1 DEF FIFOInv
  <1> QED BY <1>6, <1>8, <1>9

(* Finish and stuttering concern neither the slots nor the answers. *)
LEMMA EndFacts ==
  ASSUME Finish \/ UNCHANGED vars
  PROVE  UNCHANGED <<policy, list, count, text, hand, data, history, answers>>
  BY DEF Finish, vars, cache, heap

(* The steps that only CLOCK takes. *)
LEMMA ClockSteps ==
  ASSUME IInv, Sweep \/ \E x \in Items : HitCLOCK(x) \/ MissCLOCK(x)
  PROVE  policy = "CLOCK" /\ policy' = policy
  BY DEF IInv, PhaseInv, Sweep, HitCLOCK, Hit, MissCLOCK, ClockPasses, ClockReplaces, ClockFills

(***************************************************************************)
(* insert_FIFO: an access hits exactly when fewer than Size misses came    *)
(* since the miss that brought the item in, whatever hits were in between. *)
(***************************************************************************)
THEOREM FIFOAnswers == Spec => []FIFOExplained
  <1>1. Init => FIFOInv /\ FIFOExplained
    <2> SUFFICES ASSUME Init PROVE FIFOInv /\ FIFOExplained
      OBVIOUS
    <2>1. 1 .. Len(answers) = {} /\ Used = {}
      BY DEF Init, CacheCreate, Used
    <2> QED BY <2>1 DEF FIFOInv, FIFOExplained
  <1>2. IInv /\ FIFOInv /\ FIFOExplained /\ [Next]_vars => FIFOInv' /\ FIFOExplained'
    <2> SUFFICES ASSUME IInv, FIFOInv, FIFOExplained, [Next]_vars
                 PROVE  FIFOInv' /\ FIFOExplained'
      OBVIOUS
    <2>1. ASSUME policy # "FIFO", policy' = policy PROVE FIFOInv' /\ FIFOExplained'
      BY <2>1 DEF FIFOInv, FIFOExplained
    <2>2. ASSUME NEW x \in Items, HitLRU(x) PROVE FIFOInv' /\ FIFOExplained'
      BY <2>1, <2>2 DEF HitLRU, Hit
    <2>3. CASE Sweep \/ \E x \in Items : HitCLOCK(x) \/ MissCLOCK(x)
      BY <2>1, <2>3, ClockSteps
    <2>4. CASE Finish \/ UNCHANGED vars
      <3>1. UNCHANGED <<policy, list, count, text, history, answers>>
        BY <2>4, EndFacts
      <3>2. FIFOExplained'
        BY <3>1, ZenonT(60) DEF FIFOExplained
      <3>3. \A m : Since(m)' = Since(m) /\ At(m)' = At(m)
        BY <3>1 DEF Since, MissesAfter, At
      <3>4. FIFOInv'
        BY <3>1, <3>3 DEF FIFOInv, Used, At
      <3> QED BY <3>2, <3>4
    <2> QED BY <2>2, <2>3, <2>4, FIFOHit, FIFOMiss DEF Next, Terminated
  <1> QED BY <1>1, <1>2, Inductive, PTL DEF Spec

-------------------------------------------------------------------------------
(***************************************************************************)
(* LRU.  The slots hold the items in the order of their last use: between  *)
(* the last use of the item in slot i and now, exactly the items in the    *)
(* slots behind it were used.  And of an item that is not cached, every    *)
(* use is followed by at least Size other items.                           *)
(***************************************************************************)
Between(m) == {history[k] : k \in m + 1 .. Len(history)}
After(i)   == {At(j) : j \in i + 1 .. count - 1}

UsedSince == \A m \in 1 .. Len(history), i \in Used :
  history[m] = At(i) => After(i) \subseteq Between(m)
LastUse == \A i \in Used : \E m \in 1 .. Len(history) :
  history[m] = At(i) /\ Between(m) \subseteq After(i)
LongAgo == \A m \in 1 .. Len(history) :
  ~Contains(history[m]) => Cardinality(Between(m)) >= Size

LRUInv == policy = "LRU" => UsedSince /\ LastUse /\ LongAgo

(* What the input says of position n of the answers. *)
RecentUse(n, m) ==
  /\ history[m] = history[n]
  /\ Cardinality({history[k] : k \in m + 1 .. n - 1}) < Size

(* One more access is between all positions before it and the end. *)
LEMMA BetweenGrows ==
  ASSUME TypeOK, NEW x \in Items, history' = Append(history, x)
  PROVE  /\ Len(history) \in Nat /\ Len(history') = Len(history) + 1
         /\ \A m \in 1 .. Len(history) :
              history'[m] = history[m] /\ Between(m)' = Between(m) \cup {x}
         /\ history'[Len(history) + 1] = x
         /\ \A n : n = Len(history) + 1 => Between(n)' = {}
  <1>1. /\ Len(history) \in Nat /\ Len(history') = Len(history) + 1
        /\ \A i \in 1 .. Len(history) : history'[i] = history[i]
        /\ history'[Len(history) + 1] = x
    BY DEF TypeOK
  <1>2. ASSUME NEW m \in 1 .. Len(history) PROVE Between(m)' = Between(m) \cup {x}
    <2>1. m + 1 .. Len(history') = (m + 1 .. Len(history)) \cup {Len(history) + 1}
      BY <1>1
    <2>2. \A k \in m + 1 .. Len(history) : history'[k] = history[k]
      BY <1>1
    <2>3. \A y : y \in Between(m) <=> \E k \in m + 1 .. Len(history) : history[k] = y
      BY DEF Between
    <2>4. \A y : y \in Between(m)' <=> \E k \in m + 1 .. Len(history') : history'[k] = y
      BY DEF Between
    <2> QED BY <2>1, <2>2, <2>3, <2>4, <1>1
  <1>3. ASSUME NEW n, n = Len(history) + 1 PROVE Between(n)' = {}
    BY <1>1, <1>3 DEF Between
  <1> QED BY <1>1, <1>2, <1>3

(* What was accessed in between is a finite set. *)
LEMMA BetweenFinite ==
  ASSUME IInv, NEW m \in Nat
  PROVE  IsFiniteSet(Between(m)) /\ Cardinality(Between(m)) \in Nat
  <1>1. IsFiniteSet(Accessed)
    BY DEF IInv, CountInv
  <1>2. Between(m) \subseteq Accessed
    BY DEF Between, Accessed, IInv, TypeOK
  <1>3. IsFiniteSet(Between(m))
    BY <1>1, <1>2, FS_Subset
  <1> QED BY <1>3, FS_CardinalityType

(* As many different texts are behind a slot as there are slots. *)
LEMMA AfterSize ==
  ASSUME IInv, NEW i \in Used
  PROVE  IsFiniteSet(After(i)) /\ Cardinality(After(i)) = count - 1 - i
  <1>1. count \in Nat /\ i \in 0 .. count - 1
    BY DEF IInv, TypeOK, Used
  <1> DEFINE S == i + 1 .. count - 1
             f == [j \in S |-> At(j)]
  <1>2. IsFiniteSet(S) /\ Cardinality(S) = count - 1 - i
    <2>1. i + 1 \in Int /\ count - 1 \in Int
      BY <1>1
    <2>2. IsFiniteSet(S) /\ Cardinality(S) = IF i + 1 > count - 1 THEN 0 ELSE count - 1 - (i + 1) + 1
      BY <2>1, FS_Interval
    <2> HIDE DEF S
    <2> QED BY <2>2, <1>1
  <1>3. S \subseteq Used
    BY <1>1 DEF Used
  <1>4. \A a, b \in S : f[a] = f[b] => a = b
    BY <1>3, DifferentTexts
  <1>5. After(i) = {f[j] : j \in S}
    BY DEF After
  <1> HIDE DEF S, f
  <1> QED BY <1>2, <1>4, <1>5, ImageSize

(* The answers that were given stay explained, and the last one has to be. *)
LEMMA LRUExplainedStep ==
  ASSUME TypeOK, Len(history) = Len(answers), LRUExplained, policy' = policy,
         NEW x, history' = Append(history, x),
         NEW a \in {"HIT", "MISS"}, answers' = Append(answers, a),
         policy = "LRU" => (a = "HIT" <=> \E m \in 1 .. Len(history) :
                               history[m] = x /\ Cardinality(Between(m)) < Size)
  PROVE  LRUExplained'
  <1> SUFFICES ASSUME policy = "LRU", NEW n \in 1 .. Len(answers')
               PROVE  answers'[n] = "HIT" <=> \E m \in 1 .. n - 1 : RecentUse(n, m)'
    BY DEF LRUExplained, RecentUse
  <1>1. /\ Len(answers) \in Nat /\ Len(answers') = Len(answers) + 1
        /\ \A i \in 1 .. Len(answers) : answers'[i] = answers[i] /\ history'[i] = history[i]
        /\ answers'[Len(answers) + 1] = a /\ history'[Len(answers) + 1] = x
    BY DEF TypeOK
  <1>2. ASSUME NEW m \in 1 .. Len(answers), NEW b \in 0 .. Len(answers)
        PROVE  {history'[k] : k \in m + 1 .. b} = {history[k] : k \in m + 1 .. b}
    <2>1. \A k \in m + 1 .. b : history'[k] = history[k]
      BY <1>1
    <2> QED BY <2>1
  <1>3. CASE n \in 1 .. Len(answers)
    <2>1. ASSUME NEW m \in 1 .. n - 1 PROVE RecentUse(n, m)' <=> RecentUse(n, m)
      <3>1. m \in 1 .. Len(answers) /\ n - 1 \in 0 .. Len(answers)
        BY <1>1, <1>3
      <3>2. history'[m] = history[m] /\ history'[n] = history[n]
        BY <1>1, <1>3, <3>1
      <3>3. {history'[k] : k \in m + 1 .. n - 1} = {history[k] : k \in m + 1 .. n - 1}
        BY <3>1, <1>2
      <3> QED BY <3>2, <3>3 DEF RecentUse
    <2>2. answers[n] = "HIT" <=> \E m \in 1 .. n - 1 : RecentUse(n, m)
      BY <1>3 DEF LRUExplained, RecentUse
    <2> QED BY <2>1, <2>2, <1>1, <1>3
  <1>4. CASE n = Len(answers) + 1
    <2>1. n - 1 = Len(answers) /\ Len(answers) \in 0 .. Len(answers)
      BY <1>1, <1>4
    <2>2. ASSUME NEW m \in 1 .. Len(answers)
          PROVE  RecentUse(n, m)' <=> history[m] = x /\ Cardinality(Between(m)) < Size
      <3>1. {history'[k] : k \in m + 1 .. n - 1} = Between(m)
        BY <2>1, <1>2 DEF Between
      <3> QED BY <3>1, <1>1, <1>4 DEF RecentUse
    <2> QED BY <2>1, <2>2, <1>1, <1>4
  <1> QED BY <1>1, <1>3, <1>4

(* The last slot in use, and what is behind it. *)
LEMMA LastSlot ==
  \A n \in Nat \ {0} : /\ \A i \in 0 .. n - 1 : i \in 0 .. n - 2 \/ i = n - 1
                       /\ (n - 1) + 1 .. n - 1 = {}
  OBVIOUS

(* An access puts its item behind all others: the texts in front of it were *)
(* in a slot before, that is o[i], with the same texts behind it.           *)
LEMMA ToTheEnd ==
  ASSUME TypeOK, UsedSince, LastUse, NEW x \in Items, history' = Append(history, x),
         count' \in Nat \ {0}, At(count - 1)' = x, NEW o,
         \A i \in 0 .. count' - 2 : /\ o[i] \in Used /\ At(o[i]) # x /\ At(i)' = At(o[i])
                                    /\ After(i)' = After(o[i]) \cup {x}
  PROVE  UsedSince' /\ LastUse'
  <1>1. /\ Len(history) \in Nat /\ Len(history') = Len(history) + 1
        /\ \A m \in 1 .. Len(history) :
             history'[m] = history[m] /\ Between(m)' = Between(m) \cup {x}
        /\ history'[Len(history) + 1] = x
        /\ \A n : n = Len(history) + 1 => Between(n)' = {}
    BY BetweenGrows
  <1>2. ASSUME NEW i \in Used' PROVE i \in 0 .. count' - 2 \/ i = count' - 1
    <2>1. i \in 0 .. count' - 1
      BY <1>2 DEF Used
    <2> QED BY <2>1, LastSlot, Zenon
  <1>3. ASSUME NEW i, i = count' - 1 PROVE After(i)' = {} /\ At(i)' = x
    <2>1. (count' - 1) + 1 .. count' - 1 = {}
      BY LastSlot, Zenon
    <2> QED BY <2>1, <1>3 DEF After, At
  <1>4. ASSUME NEW m \in 1 .. Len(history'), NEW i \in Used', history'[m] = At(i)'
        PROVE  After(i)' \subseteq Between(m)'
    <2>1. CASE i \in 0 .. count' - 2
      <3>1. o[i] \in Used /\ At(o[i]) # x /\ At(i)' = At(o[i]) /\ After(i)' = After(o[i]) \cup {x}
        BY <2>1
      <3>2. m \in 1 .. Len(history)
        BY <3>1, <1>1, <1>4
      <3>3. After(o[i]) \subseteq Between(m)
        BY <3>1, <3>2, <1>1, <1>4 DEF UsedSince
      <3> QED BY <3>1, <3>2, <3>3, <1>1
    <2>2. CASE i = count' - 1
      BY <2>2, <1>3
    <2> QED BY <2>1, <2>2, <1>2
  <1>5. ASSUME NEW i \in Used'
        PROVE  \E m \in 1 .. Len(history') : history'[m] = At(i)' /\ Between(m)' \subseteq After(i)'
    <2>1. CASE i \in 0 .. count' - 2
      <3>1. o[i] \in Used /\ At(i)' = At(o[i]) /\ After(i)' = After(o[i]) \cup {x}
        BY <2>1
      <3>2. PICK m \in 1 .. Len(history) : history[m] = At(o[i]) /\ Between(m) \subseteq After(o[i])
        BY <3>1 DEF LastUse
      <3>3. m \in 1 .. Len(history') /\ history'[m] = At(i)' /\ Between(m)' = Between(m) \cup {x}
        BY <3>1, <3>2, <1>1
      <3> QED BY <3>1, <3>2, <3>3
    <2>2. CASE i = count' - 1
      <3> PICK n : n = Len(history) + 1
        OBVIOUS
      <3>1. n \in 1 .. Len(history') /\ history'[n] = x /\ Between(n)' = {}
        BY <1>1
      <3> QED BY <3>1, <2>2, <1>3
    <2> QED BY <2>1, <2>2, <1>2
  <1>6. UsedSince'
    BY <1>4 DEF UsedSince
  <1> QED BY <1>5, <1>6 DEF LastUse

(* LongAgo in the next state, seen in the pointers. *)
LEMMA LongAgoNext ==
  ASSUME \A m \in 1 .. Len(history') :
           ~(\E q \in InCache' : text'[q] = history'[m]) => Cardinality(Between(m)') >= Size
  PROVE  LongAgo'
  BY DEF LongAgo, Contains, Found, InCache

(* A hit under LRU. *)
LEMMA LRUHit ==
  ASSUME IInv, LRUInv, LRUExplained, NEW x \in Items, HitLRU(x)
  PROVE  LRUInv' /\ LRUExplained'
  <1>1. /\ TypeOK /\ policy = "LRU" /\ policy' = policy /\ Contains(x)
        /\ Len(history) = Len(answers)
        /\ history' = Append(history, x) /\ answers' = Append(answers, "HIT") /\ text' = text
    BY DEF IInv, PhaseInv, HitLRU, Hit, Read, heap, TypeOK
  <1>2. UsedSince /\ LastUse /\ LongAgo
    BY <1>1 DEF LRUInv
  <1> PICK p : p = Position(x)
    OBVIOUS
  <1>3. /\ p \in Used /\ At(p) = x
        /\ \A a \in Used : list'[a].data = list[Origin(p, a)].data
        /\ count' = count
    BY HitLRUFacts DEF At
  <1>4. count \in Nat \ {0} /\ p \in 0 .. count - 1 /\ Used = 0 .. count - 1
    BY <1>1, <1>3 DEF TypeOK, Used
  <1>5. \A a \in Used : At(a)' = At(Origin(p, a))
    BY <1>1, <1>3 DEF At
  <1> DEFINE o == [i \in 0 .. count - 2 |-> Origin(p, i)]
  <1>6. ASSUME NEW i \in 0 .. count - 2
        PROVE  /\ o[i] \in Used /\ At(o[i]) # x /\ At(i)' = At(o[i])
               /\ After(i)' = After(o[i]) \cup {x}
    <2>1. o[i] = IF i < p THEN i ELSE i + 1
      BY <1>4 DEF Origin
    <2>2. o[i] \in Used /\ o[i] # p /\ i \in Used /\ o[i] = Origin(p, i)
      BY <2>1, <1>4
    <2>3. At(o[i]) # x /\ At(i)' = At(o[i])
      BY <2>2, <1>3, <1>5, DifferentTexts
    <2>4. \A y : y \in After(i)' <=> \E j \in i + 1 .. count - 1 : At(Origin(p, j)) = y
      <3>1. \A j \in i + 1 .. count - 1 : j \in Used /\ At(j)' = At(Origin(p, j))
        BY <1>4, <1>5
      <3>2. \A y : y \in After(i)' <=> \E j \in i + 1 .. count' - 1 : At(j)' = y
        BY DEF After
      <3> QED BY <3>1, <3>2, <1>3
    <2>5. \A y : y \in After(o[i]) <=> \E j \in o[i] + 1 .. count - 1 : At(j) = y
      BY DEF After
    <2>6. ASSUME NEW y \in After(i)' PROVE y \in After(o[i]) \cup {x}
      <3>1. PICK j \in i + 1 .. count - 1 : At(Origin(p, j)) = y
        BY <2>4
      <3>2. Origin(p, j) = p \/ Origin(p, j) \in o[i] + 1 .. count - 1
        BY <3>1, <2>1, <1>4 DEF Origin
      <3> QED BY <3>1, <3>2, <2>5, <1>3
    <2>7. ASSUME NEW y \in After(o[i]) PROVE y \in After(i)'
      <3>1. PICK j \in o[i] + 1 .. count - 1 : At(j) = y
        BY <2>5
      <3> DEFINE k == IF j < p THEN j ELSE IF j = p THEN count - 1 ELSE j - 1
      <3>2. k \in i + 1 .. count - 1 /\ Origin(p, k) = j
        BY <3>1, <2>1, <1>4 DEF Origin
      <3> HIDE DEF k
      <3> QED BY <3>1, <3>2, <2>4
    <2>8. x \in After(i)'
      <3>1. count - 1 \in i + 1 .. count - 1 /\ Origin(p, count - 1) = p
        BY <1>4 DEF Origin
      <3> QED BY <3>1, <2>4, <1>3
    <2> QED BY <2>2, <2>3, <2>6, <2>7, <2>8
  <1>7. At(count - 1)' = x
    <2>1. count' - 1 = count - 1 /\ count - 1 \in Used /\ Origin(p, count - 1) = p
      BY <1>3, <1>4 DEF Origin
    <2> QED BY <2>1, <1>1, <1>3 DEF At
  <1>8. UsedSince' /\ LastUse'
    <2> HIDE DEF o
    <2> QED BY <1>1, <1>2, <1>3, <1>4, <1>6, <1>7, ToTheEnd
  <1>9. LongAgo'
    <2>1. \A y : Contains(y) <=> \E q \in InCache' : text'[q] = y
      BY <1>1, HitLRUPlaces, ContainsText
    <2>2. ASSUME NEW m \in 1 .. Len(history'), ~Contains(history'[m])
          PROVE  Cardinality(Between(m)') >= Size
      <3>1. m \in 1 .. Len(history) /\ history'[m] = history[m] /\ Between(m)' = Between(m) \cup {x}
        BY <2>2, <1>1, BetweenGrows
      <3>2. Cardinality(Between(m)) >= Size
        BY <2>2, <3>1, <1>2 DEF LongAgo
      <3>3. IsFiniteSet(Between(m)) /\ Cardinality(Between(m)) \in Nat
        BY <3>1, <1>1, BetweenFinite DEF TypeOK
      <3>4. Cardinality(Between(m)') = IF x \in Between(m) THEN Cardinality(Between(m))
                                                          ELSE Cardinality(Between(m)) + 1
        BY <3>1, <3>3, FS_AddElement
      <3> QED BY <3>2, <3>3, <3>4, CacherAssumption
    <2> QED BY <2>1, <2>2, LongAgoNext
  <1>10. \E m \in 1 .. Len(history) : history[m] = x /\ Cardinality(Between(m)) < Size
    <2>1. PICK m \in 1 .. Len(history) : history[m] = x /\ Between(m) \subseteq After(p)
      BY <1>2, <1>3 DEF LastUse
    <2>2. IsFiniteSet(After(p)) /\ Cardinality(After(p)) = count - 1 - p
      BY <1>3, AfterSize
    <2>3. Cardinality(Between(m)) <= count - 1 - p
      BY <2>1, <2>2, FS_Subset
    <2>4. Cardinality(Between(m)) \in Nat
      BY <1>1, BetweenFinite DEF TypeOK
    <2> QED BY <2>1, <2>3, <2>4, <1>1, <1>4, CacherAssumption DEF TypeOK
  <1>11. LRUExplained'
    BY <1>1, <1>10, LRUExplainedStep
  <1> QED BY <1>8, <1>9, <1>11 DEF LRUInv

(* A miss under LRU. *)
LEMMA LRUMiss ==
  ASSUME IInv, LRUInv, LRUExplained, NEW x \in Items, Miss(x)
  PROVE  LRUInv' /\ LRUExplained'
  <1>1. /\ TypeOK /\ phase = "read" /\ policy' = policy /\ ~Contains(x)
        /\ Len(history) = Len(answers)
        /\ history' = Append(history, x) /\ answers' = Append(answers, "MISS")
    BY DEF IInv, PhaseInv, Miss, Read, TypeOK
  <1>2. /\ Len(history) \in Nat /\ Len(history') = Len(history) + 1
        /\ \A m \in 1 .. Len(history) :
             history'[m] = history[m] /\ Between(m)' = Between(m) \cup {x}
        /\ history'[Len(history) + 1] = x
    BY <1>1, BetweenGrows
  <1>3. count \in 0 .. Size /\ Size \in Nat \ {0} /\ Used = 0 .. count - 1
    BY <1>1, CacherAssumption DEF TypeOK, Used
  <1>4. /\ At(count - 1)' = x
        /\ \/ count < Size /\ count' = count + 1 /\ \A i \in Used : At(i)' = At(i)
           \/ count = Size /\ count' = count /\ \A i \in 0 .. count - 2 : At(i)' = At(i + 1)
    BY <1>3, MissAt
  <1>5. count' \in Nat \ {0}
    BY <1>3, <1>4
  <1>6. ASSUME policy = "LRU" PROVE UsedSince' /\ LastUse'
    <2>1. UsedSince /\ LastUse
      BY <1>6 DEF LRUInv
    <2> DEFINE o == [i \in 0 .. count' - 2 |-> IF count < Size THEN i ELSE i + 1]
    <2>2. ASSUME NEW i \in 0 .. count' - 2
          PROVE  /\ o[i] \in Used /\ At(o[i]) # x /\ At(i)' = At(o[i])
                 /\ After(i)' = After(o[i]) \cup {x}
      <3>1. o[i] = IF count < Size THEN i ELSE i + 1
        OBVIOUS
      <3> HIDE DEF o
      <3>2. o[i] \in Used
        BY <3>1, <1>3, <1>4
      <3>3. At(o[i]) # x
        BY <3>2, <1>1, ContainsAt
      <3> PICK z : z = count' - 1
        OBVIOUS
      <3>4. At(z)' = x /\ z \in i + 1 .. z
        <4>1. z \in i + 1 .. z
          BY <2>2, <1>3, <1>4
        <4> QED BY <4>1, <1>4 DEF At
      <3>5. \A y : y \in After(i)' <=> \E j \in i + 1 .. z : At(j)' = y
        BY DEF After
      <3>6. \A y : y \in After(o[i]) <=> \E j \in o[i] + 1 .. count - 1 : At(j) = y
        BY DEF After
      <3>7. CASE count < Size
        <4>1. o[i] = i /\ z = count /\ \A j \in Used : At(j)' = At(j)
          BY <3>1, <3>7, <1>3, <1>4
        <4>2. \A j \in i + 1 .. z : j = z \/ (j \in o[i] + 1 .. count - 1 /\ j \in Used)
          BY <4>1, <1>3
        <4>3. \A j \in o[i] + 1 .. count - 1 : j \in i + 1 .. z /\ j \in Used
          BY <4>1, <1>3
        <4>4. At(i)' = At(o[i])
          BY <4>1, <3>2
        <4>5. \A y : y \in After(i)' => y \in After(o[i]) \cup {x}
          BY <4>1, <4>2, <3>4, <3>5, <3>6
        <4>6. \A y : y \in After(o[i]) \cup {x} => y \in After(i)'
          BY <4>1, <4>3, <3>4, <3>5, <3>6
        <4> QED BY <3>2, <3>3, <4>4, <4>5, <4>6
      <3>8. CASE count = Size
        <4>1. o[i] = i + 1 /\ z = count - 1 /\ \A j \in 0 .. count - 2 : At(j)' = At(j + 1)
          BY <3>1, <3>8, <1>3, <1>4
        <4>2. \A j \in i + 1 .. z : j = z \/ (j + 1 \in o[i] + 1 .. count - 1 /\ j \in 0 .. count - 2)
          BY <4>1, <1>3
        <4>3. \A j \in o[i] + 1 .. count - 1 : j - 1 \in i + 1 .. z /\ j - 1 \in 0 .. count - 2 /\ (j - 1) + 1 = j
          BY <4>1, <1>3
        <4>4. At(i)' = At(o[i])
          <5>1. i \in 0 .. count - 2
            BY <3>8, <1>3, <1>4
          <5> QED BY <5>1, <4>1
        <4>5. \A y : y \in After(i)' => y \in After(o[i]) \cup {x}
          BY <4>1, <4>2, <3>4, <3>5, <3>6
        <4>6. ASSUME NEW y \in After(o[i]) PROVE y \in After(i)'
          <5>1. PICK j \in o[i] + 1 .. count - 1 : At(j) = y
            BY <3>6
          <5>2. PICK k \in 0 .. count - 2 : k \in i + 1 .. z /\ k + 1 = j
            BY <5>1, <4>3
          <5> QED BY <5>1, <5>2, <4>1, <3>5
        <4>7. x \in After(i)'
          BY <3>4, <3>5
        <4> QED BY <3>2, <3>3, <4>4, <4>5, <4>6, <4>7
      <3> QED BY <3>7, <3>8, <1>3
    <2> HIDE DEF o
    <2> QED BY <2>1, <2>2, <1>1, <1>4, <1>5, ToTheEnd
  <1>7. ASSUME policy = "LRU" PROVE LongAgo'
    <2>1. UsedSince /\ LongAgo
      BY <1>7 DEF LRUInv
    <2>2. /\ Fresh \notin live /\ text'[Fresh] = x /\ \A p \in live : text'[p] = text[p]
          /\ live = InCache \cup InSet
      BY <1>1, NewString, Owned DEF Miss, Read
    <2>3. ASSUME NEW m \in 1 .. Len(history'), ~(\E q \in InCache' : text'[q] = history'[m])
          PROVE  Cardinality(Between(m)') >= Size
      <3>1. Fresh \in InCache' /\ (count < Size => InCache \subseteq InCache')
            /\ (count = Size => InCache \ {list[0].data} \subseteq InCache')
        BY <1>3, MissPlaces
      <3>2. m \in 1 .. Len(history)
        BY <2>2, <2>3, <3>1, <1>2
      <3>3. history'[m] = history[m] /\ Between(m)' = Between(m) \cup {x}
        BY <3>2, <1>2
      <3>4. IsFiniteSet(Between(m)) /\ Cardinality(Between(m)) \in Nat
        BY <3>2, <1>2, BetweenFinite
      <3>5. /\ IsFiniteSet(Between(m)')
            /\ Cardinality(Between(m)') = IF x \in Between(m) THEN Cardinality(Between(m))
                                                              ELSE Cardinality(Between(m)) + 1
        BY <3>3, <3>4, FS_AddElement
      <3>6. CASE ~Contains(history[m])
        <4>1. Cardinality(Between(m)) >= Size
          BY <3>2, <3>6, <2>1 DEF LongAgo
        <4> QED BY <4>1, <3>4, <3>5, <1>3
      <3>7. CASE Contains(history[m])
        <4>1. PICK i \in Used : At(i) = history[m]
          BY <3>7, ContainsAt
        <4>2. list[i].data \in InCache /\ text'[list[i].data] = history[m]
          BY <4>1, <2>2 DEF InCache, Used, At
        <4>3. list[i].data \notin InCache'
          BY <4>2, <3>3, <2>3
        <4>4. count = Size /\ list[i].data = list[0].data
          BY <4>2, <4>3, <3>1, <1>3
        <4>5. 0 \in Used /\ At(0) = history[m]
          BY <4>1, <4>4, <1>3 DEF At
        <4>6. IsFiniteSet(After(0)) /\ Cardinality(After(0)) = Size - 1
          <5>1. IsFiniteSet(After(0)) /\ Cardinality(After(0)) = count - 1 - 0
            BY <4>5, AfterSize
          <5> QED BY <5>1, <4>4, <1>3
        <4>7. x \notin After(0)
          <5>1. \A j \in 0 + 1 .. count - 1 : j \in Used
            BY <1>3
          <5> QED BY <5>1, <1>1, ContainsAt DEF After
        <4>8. After(0) \cup {x} \subseteq Between(m)'
          BY <4>5, <3>2, <3>3, <2>1 DEF UsedSince
        <4>9. Cardinality(After(0) \cup {x}) = Size
          <5>1. Cardinality(After(0) \cup {x}) = Cardinality(After(0)) + 1
            BY <4>6, <4>7, FS_AddElement
          <5> QED BY <5>1, <4>6, <1>3
        <4>10. Cardinality(After(0) \cup {x}) <= Cardinality(Between(m)')
          BY <4>8, <3>5, FS_Subset
        <4>11. Cardinality(Between(m)') \in Nat
          BY <3>5, FS_CardinalityType
        <4> QED BY <4>9, <4>10, <4>11, <1>3
      <3> QED BY <3>6, <3>7
    <2> QED BY <2>3, LongAgoNext
  <1>8. policy = "LRU" =>
           ~ \E m \in 1 .. Len(history) : history[m] = x /\ Cardinality(Between(m)) < Size
    <2> SUFFICES ASSUME policy = "LRU", NEW m \in 1 .. Len(history),
                        history[m] = x, Cardinality(Between(m)) < Size
                 PROVE  FALSE
      OBVIOUS
    <2>1. Cardinality(Between(m)) >= Size
      BY <1>1 DEF LRUInv, LongAgo
    <2>2. Cardinality(Between(m)) \in Nat
      BY <1>2, BetweenFinite
    <2> QED BY <2>1, <2>2, <1>3
  <1>9. LRUExplained'
    BY <1>1, <1>8, LRUExplainedStep
  <1>10. LRUInv'
    BY <1>1, <1>6, <1>7 DEF LRUInv
  <1> QED BY <1>9, <1>10

(***************************************************************************)
(* insert_LRU: an access hits exactly when fewer than Size other items     *)
(* were accessed since the last access of the same item.                   *)
(***************************************************************************)
THEOREM LRUAnswers == Spec => []LRUExplained
  <1>1. Init => LRUInv /\ LRUExplained
    <2> SUFFICES ASSUME Init PROVE LRUInv /\ LRUExplained
      OBVIOUS
    <2>1. 1 .. Len(answers) = {} /\ 1 .. Len(history) = {} /\ Used = {}
      BY DEF Init, CacheCreate, Used
    <2> QED BY <2>1 DEF LRUInv, UsedSince, LastUse, LongAgo, LRUExplained
  <1>2. IInv /\ LRUInv /\ LRUExplained /\ [Next]_vars => LRUInv' /\ LRUExplained'
    <2> SUFFICES ASSUME IInv, LRUInv, LRUExplained, [Next]_vars
                 PROVE  LRUInv' /\ LRUExplained'
      OBVIOUS
    <2>1. ASSUME policy # "LRU", policy' = policy PROVE LRUInv' /\ LRUExplained'
      BY <2>1 DEF LRUInv, LRUExplained
    <2>2. ASSUME NEW x \in Items, HitFIFO(x) PROVE LRUInv' /\ LRUExplained'
      BY <2>1, <2>2 DEF HitFIFO, Hit
    <2>3. CASE Sweep \/ \E x \in Items : HitCLOCK(x) \/ MissCLOCK(x)
      BY <2>1, <2>3, ClockSteps
    <2>4. CASE Finish \/ UNCHANGED vars
      <3>1. UNCHANGED <<policy, list, count, text, history, answers>>
        BY <2>4, EndFacts
      <3>2. LRUExplained'
        <4>1. \A n, m : RecentUse(n, m)' <=> RecentUse(n, m)
          <5>1. \A n, m : {history'[k] : k \in m + 1 .. n - 1} = {history[k] : k \in m + 1 .. n - 1}
            BY <3>1
          <5> QED BY <5>1, <3>1 DEF RecentUse
        <4>2. LRUExplained <=> (policy = "LRU" => \A n \in 1 .. Len(answers) :
                 answers[n] = "HIT" <=> \E m \in 1 .. n - 1 : RecentUse(n, m))
          BY DEF LRUExplained, RecentUse
        <4>3. LRUExplained' <=> (policy' = "LRU" => \A n \in 1 .. Len(answers') :
                 answers'[n] = "HIT" <=> \E m \in 1 .. n - 1 : RecentUse(n, m)')
          BY DEF LRUExplained, RecentUse
        <4> QED BY <4>1, <4>2, <4>3, <3>1
      <3>3. \A i : After(i)' = After(i) /\ Between(i)' = Between(i) /\ At(i)' = At(i)
        BY <3>1 DEF After, Between, At
      <3>4. UsedSince => UsedSince'
        BY <3>1, <3>3 DEF UsedSince, Used, At
      <3>5. LastUse => LastUse'
        BY <3>1, <3>3 DEF LastUse, Used, At
      <3>6. LongAgo => LongAgo'
        BY <3>1, <3>3 DEF LongAgo, Contains, Found
      <3> QED BY <3>1, <3>2, <3>4, <3>5, <3>6 DEF LRUInv
    <2> QED BY <2>2, <2>3, <2>4, LRUHit, LRUMiss DEF Next, Terminated
  <1> QED BY <1>1, <1>2, Inductive, PTL DEF Spec

-------------------------------------------------------------------------------
(***************************************************************************)
(* CLOCK.  The hand is at the first free slot as long as there is one.     *)
(***************************************************************************)
HandInv == policy = "CLOCK" /\ count < Size => hand = count

(* The i-th slot from hand h on. *)
Around(h, i) == (h + i - 1) % Size

(* The remainder, on a ring: at most one turn is taken off. *)
LEMMA AroundValue ==
  ASSUME NEW h \in Slots, NEW i \in 1 .. Size
  PROVE  Around(h, i) = IF h + i - 1 < Size THEN h + i - 1 ELSE h + i - 1 - Size
  <1>1. \A a \in Nat : a < 2 * Size => a % Size = IF a < Size THEN a ELSE a - Size
    BY CacherAssumption
  <1>2. h + i - 1 \in Nat /\ h + i - 1 < 2 * Size /\ h \in Int /\ Size \in Int
    BY CacherAssumption DEF Slots
  <1>3. (h + i - 1) % Size = IF h + i - 1 < Size THEN h + i - 1 ELSE h + i - 1 - Size
    <2> PICK a \in Nat : a = h + i - 1
      BY <1>2
    <2>1. a % Size = IF a < Size THEN a ELSE a - Size
      BY <1>1, <1>2
    <2> QED BY <2>1, <1>2
  <1> QED BY <1>3 DEF Around

(* Once around, every slot is met once, the one at the hand first. *)
LEMMA OnceAround ==
  ASSUME NEW h \in Slots
  PROVE  /\ \A i \in 1 .. Size : Around(h, i) \in Slots
         /\ \A i, j \in 1 .. Size : Around(h, i) = Around(h, j) => i = j
         /\ \A s \in Slots : \E i \in 1 .. Size : Around(h, i) = s
         /\ Around(h, 1) = h
  <1>1. \A i \in 1 .. Size : Around(h, i) = IF h + i - 1 < Size THEN h + i - 1 ELSE h + i - 1 - Size
    BY AroundValue
  <1>2. Size \in Nat \ {0} /\ h \in 0 .. Size - 1 /\ Slots = 0 .. Size - 1
    BY CacherAssumption DEF Slots
  <1>3. \A i \in 1 .. Size : Around(h, i) \in Slots
    BY <1>1, <1>2
  <1>4. \A i, j \in 1 .. Size : Around(h, i) = Around(h, j) => i = j
    BY <1>1, <1>2
  <1>5. ASSUME NEW s \in Slots PROVE \E i \in 1 .. Size : Around(h, i) = s
    <2>1. CASE s >= h
      <3>1. s - h + 1 \in 1 .. Size /\ Around(h, s - h + 1) = s
        BY <2>1, <1>1, <1>2
      <3> QED BY <3>1
    <2>2. CASE s < h
      <3>1. s - h + 1 + Size \in 1 .. Size /\ Around(h, s - h + 1 + Size) = s
        BY <2>2, <1>1, <1>2
      <3> QED BY <3>1
    <2> QED BY <2>1, <2>2, <1>2
  <1>6. Around(h, 1) = h
    BY <1>1, <1>2
  <1> QED BY <1>3, <1>4, <1>5, <1>6

(* Moving the hand on renumbers the slots; the one it was at is the last. *)
LEMMA HandOn ==
  ASSUME NEW h \in Slots, NEW n, n = (h + 1) % Size
  PROVE  /\ n \in Slots /\ Around(n, Size) = h
         /\ \A i \in 1 .. Size - 1 : Around(n, i) = Around(h, i + 1)
  <1>1. Size \in Nat \ {0} /\ h \in 0 .. Size - 1 /\ Slots = 0 .. Size - 1
    BY CacherAssumption DEF Slots
  <1>2. n = IF h + 1 < Size THEN h + 1 ELSE 0
    <2>1. \A a \in 0 .. Size : a % Size = IF a < Size THEN a ELSE 0
      BY <1>1
    <2>2. h + 1 \in 0 .. Size
      BY <1>1
    <2> QED BY <2>1, <2>2, <1>1
  <1>3. n \in Slots
    BY <1>1, <1>2
  <1>4. \A i \in 1 .. Size :
          /\ Around(h, i) = IF h + i - 1 < Size THEN h + i - 1 ELSE h + i - 1 - Size
          /\ Around(n, i) = IF n + i - 1 < Size THEN n + i - 1 ELSE n + i - 1 - Size
    BY <1>3, AroundValue
  <1>5. Around(n, Size) = h
    BY <1>1, <1>2, <1>4
  <1>6. ASSUME NEW i \in 1 .. Size - 1 PROVE Around(n, i) = Around(h, i + 1)
    <2>1. i \in 1 .. Size /\ i + 1 \in 1 .. Size
      BY <1>1
    <2>2. Around(n, i) = IF n + i - 1 < Size THEN n + i - 1 ELSE n + i - 1 - Size
      BY <2>1, <1>4
    <2>3. Around(h, i + 1) = IF h + (i + 1) - 1 < Size THEN h + (i + 1) - 1
                                                       ELSE h + (i + 1) - 1 - Size
      BY <2>1, <1>4
    <2> QED BY <2>2, <2>3, <1>1, <1>2
  <1> QED BY <1>3, <1>5, <1>6

(* The hand is preserved in its place. *)
LEMMA NextHand ==
  ASSUME IInv, HandInv, [Next]_vars
  PROVE  HandInv'
  <1>1. TypeOK /\ PlaceInv /\ count \in 0 .. Size /\ Size \in Nat \ {0} /\ hand \in Slots
    BY CacherAssumption DEF IInv, TypeOK
  <1>2. ASSUME NEW x \in Items, HitFIFO(x) \/ HitLRU(x) \/ HitCLOCK(x) PROVE HandInv'
    BY <1>2 DEF HitFIFO, HitLRU, HitCLOCK, Hit, HandInv
  <1>3. ASSUME NEW x \in Items, Miss(x) PROVE HandInv'
    BY <1>3 DEF Miss, HandInv
  <1>4. ASSUME NEW x \in Items, MissCLOCK(x) PROVE HandInv'
    BY <1>4 DEF MissCLOCK, HandInv, cache
  <1>5. ASSUME policy = "CLOCK", hand \in Used, count' = count PROVE HandInv'
    BY <1>1, <1>5 DEF HandInv, Used
  <1>6. CASE ClockPasses \/ ClockReplaces
    <2>1. policy = "CLOCK" /\ count' = count /\ hand \in Used
      BY <1>1, <1>6, HandUsed DEF ClockPasses, ClockReplaces, IInv, PhaseInv
    <2> QED BY <2>1, <1>5
  <1>7. CASE ClockFills
    <2>1. policy = "CLOCK" /\ policy' = policy /\ hand' = (hand + 1) % Size
      BY <1>7, ClockSteps DEF Sweep, ClockFills, Inserted, HandMoved
    <2>2. count < Size /\ count' = count + 1
      BY <1>7, FillsFacts
    <2>3. hand = count
      BY <2>1, <2>2 DEF HandInv
    <2>4. \A a \in 0 .. Size - 1 : a % Size = a
      BY <1>1
    <2> QED BY <2>1, <2>2, <2>3, <2>4, <1>1 DEF HandInv
  <1>8. CASE Finish \/ UNCHANGED vars
    BY <1>8, EndFacts DEF HandInv
  <1> QED BY <1>2, <1>3, <1>4, <1>6, <1>7, <1>8 DEF Next, Sweep, Terminated

-------------------------------------------------------------------------------
(***************************************************************************)
(* The ring as a queue: position i is the i-th slot from the hand on.      *)
(***************************************************************************)
Entries == [item : Items \cup {NoItem}, bit : {0, 1}]
Entry(i) == [item |-> At(i), bit |-> list[i].refBit]
Nth(i)   == IF count < Size THEN i - 1 ELSE Around(hand, i)

(* Every slot in use is at one position of the queue. *)
LEMMA Positions ==
  ASSUME TypeOK
  PROVE  /\ \A i \in 1 .. count : Nth(i) \in Used
         /\ \A i, j \in 1 .. count : Nth(i) = Nth(j) => i = j
         /\ \A s \in Used : \E i \in 1 .. count : Nth(i) = s
  <1>1. count \in 0 .. Size /\ Size \in Nat \ {0} /\ hand \in Slots /\ Used = 0 .. count - 1
    BY CacherAssumption DEF TypeOK, Used
  <1>2. CASE count < Size
    <2>1. \A i : Nth(i) = i - 1
      BY <1>2 DEF Nth
    <2>2. ASSUME NEW s \in Used PROVE \E i \in 1 .. count : Nth(i) = s
      <3>1. s + 1 \in 1 .. count /\ Nth(s + 1) = s
        BY <2>1, <1>1
      <3> QED BY <3>1
    <2> QED BY <2>1, <2>2, <1>1
  <1>3. CASE count = Size
    <2>1. (\A i : Nth(i) = Around(hand, i)) /\ Used = Slots
      BY <1>1, <1>3 DEF Nth, Slots
    <2>2. /\ \A i \in 1 .. Size : Around(hand, i) \in Slots
          /\ \A i, j \in 1 .. Size : Around(hand, i) = Around(hand, j) => i = j
          /\ \A s \in Slots : \E i \in 1 .. Size : Around(hand, i) = s
      BY <1>1, OnceAround
    <2> QED BY <2>1, <2>2, <1>3
  <1> QED BY <1>1, <1>2, <1>3

ClockOK ==
  /\ Clock \in Seq(Entries) /\ Len(Clock) = count
  /\ \A i \in 1 .. count : Clock[i] = Entry(Nth(i))

(* The refinement mapping is a queue as long as there are items cached. *)
LEMMA ClockIsQueue == IInv => ClockOK
  <1> SUFFICES ASSUME IInv PROVE ClockOK
    OBVIOUS
  <1>1. TypeOK /\ PlaceInv /\ count \in Nat
    BY CacherAssumption DEF IInv, TypeOK
  <1>2. \A i \in 1 .. count : Clock[i] = Entry(Nth(i))
    BY DEF Clock, Entry, At, Nth, Around
  <1>3. ASSUME NEW i \in 1 .. count PROVE Entry(Nth(i)) \in Entries
    <2>1. Nth(i) \in Used
      BY <1>1, Positions
    <2>2. list[Nth(i)] \in Cell
      BY <2>1, <1>1, UsedCells
    <2>3. list[Nth(i)].data \in Ptrs /\ list[Nth(i)].refBit \in {0, 1}
      BY <2>2 DEF Cell
    <2>4. At(Nth(i)) \in Items \cup {NoItem}
      BY <2>3, <1>1 DEF At, TypeOK
    <2> QED BY <2>3, <2>4 DEF Entry, Entries
  <1>4. Clock \in [1 .. count -> Entries]
    <2>1. DOMAIN Clock = 1 .. count /\ Clock = [i \in 1 .. count |-> Clock[i]]
      BY DEF Clock
    <2>2. \A i \in 1 .. count : Clock[i] \in Entries
      BY <1>2, <1>3
    <2> HIDE DEF Clock
    <2> QED BY <2>1, <2>2
  <1>5. Clock \in Seq(Entries)
    BY <1>1, <1>4, SeqDef, SMTT(60)
  <1>6. Len(Clock) = count
    <2>1. DOMAIN Clock = 1 .. Len(Clock) /\ Len(Clock) \in Nat
      BY <1>5, LenProperties
    <2>2. DOMAIN Clock = 1 .. count
      BY DEF Clock
    <2>3. \A m, n \in Nat : 1 .. m = 1 .. n => m = n
      <3>1. \A m, n \in Nat : 1 .. m = 1 .. n => m <= n
        OBVIOUS
      <3> QED BY <3>1
    <2> HIDE DEF Clock
    <2> QED BY <1>1, <2>1, <2>2, <2>3
  <1> QED BY <1>2, <1>5, <1>6 DEF ClockOK

(* The same in the next state. *)
LEMMA ClockIsQueueNext == IInv' => ClockOK'
  BY ClockIsQueue, PTL

(* When the cache is full and the hand moves on, the entry at the front of *)
(* the queue leaves it and another one comes to the back.                  *)
LEMMA Turned ==
  ASSUME IInv, IInv', count = Size, count' = count, hand' = HandMoved, NEW e,
         \A s \in Slots : Entry(s)' = IF s = hand THEN e ELSE Entry(s)
  PROVE  /\ Len(Clock) = Size /\ Head(Clock) = Entry(hand)
         /\ Clock' = Append(Tail(Clock), e)
  <1>1. TypeOK /\ Size \in Nat \ {0} /\ hand \in Slots /\ hand' \in Slots
    BY CacherAssumption DEF IInv, TypeOK
  <1>2. /\ Clock \in Seq(Entries) /\ Len(Clock) = Size
        /\ \A i \in 1 .. Size : Clock[i] = Entry(Around(hand, i))
    BY ClockIsQueue DEF ClockOK, Nth
  <1>3. /\ Clock' \in Seq(Entries) /\ Len(Clock') = Size
        /\ \A i \in 1 .. Size : Clock'[i] = Entry(Around(hand, i))'
    BY ClockIsQueueNext DEF ClockOK, Nth
  <1>4. Clock # << >>
    BY <1>1, <1>2
  <1>5. Head(Clock) = Entry(hand)
    <2>1. 1 \in 1 .. Size /\ Around(hand, 1) = hand
      BY <1>1, OnceAround
    <2> QED BY <2>1, <1>2, <1>4
  <1>6. /\ Tail(Clock) \in Seq(Entries) /\ Len(Tail(Clock)) = Size - 1
        /\ \A i \in 1 .. Size - 1 : Tail(Clock)[i] = Clock[i + 1]
    BY <1>2, <1>4, HeadTailProperties
  <1> PICK n : n = hand'
    OBVIOUS
  <1>7. /\ n \in Slots /\ Around(n, Size) = hand
        /\ \A i \in 1 .. Size - 1 : Around(n, i) = Around(hand, i + 1)
    BY <1>1, HandOn DEF HandMoved
  <1>8. \A i \in 1 .. Size : Clock'[i] = (LET s == Around(n, i) IN IF s = hand THEN e ELSE Entry(s))
    <2> SUFFICES ASSUME NEW i \in 1 .. Size, NEW s, s = Around(n, i)
                 PROVE  Clock'[i] = IF s = hand THEN e ELSE Entry(s)
      OBVIOUS
    <2>1. s \in Slots
      BY <1>7, OnceAround
    <2>2. Clock'[i] = Entry(s)'
      BY <1>3 DEF Entry, At, Around
    <2> QED BY <2>1, <2>2
  <1>9. \A i \in 1 .. Size - 1 : Clock'[i] = Tail(Clock)[i]
    <2> SUFFICES ASSUME NEW i \in 1 .. Size - 1 PROVE Clock'[i] = Tail(Clock)[i]
      OBVIOUS
    <2>1. i \in 1 .. Size /\ i + 1 \in 1 .. Size /\ i + 1 # 1 /\ 1 \in 1 .. Size
      BY <1>1
    <2>2. Around(hand, i + 1) # hand
      BY <2>1, <1>1, OnceAround
    <2>3. Clock'[i] = Entry(Around(hand, i + 1))
      BY <2>1, <2>2, <1>7, <1>8
    <2> QED BY <2>1, <2>3, <1>2, <1>6
  <1>10. Clock'[Size] = e
    <2>1. Size \in 1 .. Size
      BY <1>1
    <2> QED BY <2>1, <1>7, <1>8
  <1>11. e \in Entries
    <2>1. Size \in 1 .. Len(Clock')
      BY <1>1, <1>3
    <2>2. Clock'[Size] \in Entries
      BY <2>1, <1>3, ElementOfSeq
    <2> QED BY <2>2, <1>10
  <1>12. Clock' = Append(Tail(Clock), e)
    <2> DEFINE q == Append(Tail(Clock), e)
    <2>1. /\ q \in Seq(Entries) /\ Len(q) = Size
          /\ \A i \in 1 .. Size - 1 : q[i] = Tail(Clock)[i]
          /\ q[Size] = e
      <3>1. /\ q \in Seq(Entries) /\ Len(q) = (Size - 1) + 1
            /\ \A i \in 1 .. Size - 1 : q[i] = Tail(Clock)[i]
            /\ q[(Size - 1) + 1] = e
        BY <1>6, <1>11, AppendProperties
      <3>2. (Size - 1) + 1 = Size
        BY <1>1
      <3> QED BY <3>1, <3>2
    <2> HIDE DEF q
    <2>2. \A i \in 1 .. Size : i \in 1 .. Size - 1 \/ i = Size
      BY <1>1
    <2>3. \A i \in 1 .. Size : Clock'[i] = q[i]
      <3> SUFFICES ASSUME NEW i \in 1 .. Size PROVE Clock'[i] = q[i]
        OBVIOUS
      <3>1. CASE i = Size
        BY <3>1, <2>1, <1>10
      <3>2. CASE i \in 1 .. Size - 1
        BY <3>2, <2>1, <1>9
      <3> QED BY <3>1, <3>2, <2>2
    <2>4. Clock' = q
      BY <2>1, <2>3, <1>3, SeqEqual
    <2> QED BY <2>4 DEF q
  <1> QED BY <1>2, <1>5, <1>12

-------------------------------------------------------------------------------
(***************************************************************************)
(* Each step of the cache is a step of the queue, or changes nothing there. *)
(***************************************************************************)
LEMMA InitRefines == Init => Abstract!Init
  <1> SUFFICES ASSUME Init PROVE Abstract!Init
    OBVIOUS
  <1>1. IInv /\ count = 0 /\ phase = "read"
    BY InitIInv DEF Init, CacheCreate
  <1>2. Clock = << >>
    BY <1>1, ClockIsQueue, EmptySeq DEF ClockOK
  <1> QED BY <1>1, <1>2 DEF Abstract!Init

(* The item on its way in is one that was read. *)
LEMMA WantedIsItem ==
  ASSUME IInv, phase = "sweep"
  PROVE  text[data] \in Items /\ text[data] # NoItem
  <1>1. data \in live /\ Accessed = Texts
    BY DEF IInv, LiveInv, Moving, TextInv
  <1>2. text[data] \in Accessed
    BY <1>1 DEF Texts
  <1>3. \A x \in Accessed : x \in Items
    BY DEF Accessed, IInv, TypeOK
  <1> QED BY <1>2, <1>3, CacherAssumption

(* A miss of CLOCK only reads the item: nothing that is cached changes. *)
LEMMA MissCLOCKRefines ==
  ASSUME IInv, IInv', NEW x \in Items, MissCLOCK(x)
  PROVE  Abstract!Miss(x)
  <1>1. /\ policy = "CLOCK" /\ policy' = policy /\ phase = "read" /\ phase' = "sweep"
        /\ ~Contains(x) /\ list' = list /\ count' = count /\ hand' = hand /\ data' = Fresh
        /\ Len(history) < MaxRequests /\ text' = [text EXCEPT ![Fresh] = x]
    BY DEF MissCLOCK, Read, cache
  <1>2. text'[Fresh] = x /\ \A p \in live : text'[p] = text[p]
    BY <1>1, NewString
  <1>3. TypeOK /\ count \in 0 .. Size
    BY DEF IInv, TypeOK
  <1>4. \A i \in 1 .. count : Nth(i)' = Nth(i) /\ Nth(i) \in Used
    BY <1>1, <1>3, Positions DEF Nth, Around
  <1>5. \A s \in Used : Entry(s)' = Entry(s) /\ Entry(s).item # x
    <2>1. \A s \in Used : list[s].data \in live
      BY <1>1, CachedLive
    <2>2. \A s \in Used : At(s)' = At(s) /\ At(s) # x
      BY <2>1, <1>1, <1>2, ContainsAt DEF At
    <2> QED BY <2>2, <1>1 DEF Entry
  <1>6. /\ Clock \in Seq(Entries) /\ Len(Clock) = count
        /\ \A i \in 1 .. count : Clock[i] = Entry(Nth(i))
    BY ClockIsQueue DEF ClockOK
  <1>7. /\ Clock' \in Seq(Entries) /\ Len(Clock') = count
        /\ \A i \in 1 .. count : Clock'[i] = Entry(Nth(i))'
    BY <1>1, ClockIsQueueNext DEF ClockOK
  <1>8. Clock' = Clock
    <2>1. ASSUME NEW i \in 1 .. count PROVE Clock'[i] = Clock[i]
      <3> PICK s \in Used : s = Nth(i)
        BY <1>4
      <3>1. Nth(i)' = s
        BY <1>4
      <3>2. Entry(Nth(i))' = Entry(s)'
        BY <3>1 DEF Entry, At
      <3> QED BY <3>2, <1>5, <1>6, <1>7
    <2> QED BY <2>1, <1>6, <1>7, SeqEqual
  <1>9. \A i \in 1 .. Len(Clock) : Clock[i].item # x
    BY <1>4, <1>5, <1>6
  <1> QED BY <1>1, <1>2, <1>8, <1>9 DEF Abstract!Miss, Abstract!Cached

(* A hit of CLOCK sets the bit of one entry. *)
LEMMA HitCLOCKRefines ==
  ASSUME IInv, IInv', NEW x \in Items, HitCLOCK(x)
  PROVE  Abstract!Hit(x)
  <1> DEFINE n == Position(x)
  <1>1. /\ policy = "CLOCK" /\ policy' = policy /\ phase = "read" /\ phase' = "read"
        /\ Contains(x) /\ list' = [list EXCEPT ![n].refBit = 1]
        /\ count' = count /\ hand' = hand /\ text' = text /\ data' = data
    BY DEF HitCLOCK, Hit, Read, heap
  <1>2. TypeOK /\ PlaceInv /\ count \in 0 .. Size
    BY DEF IInv, TypeOK
  <1>3. n \in Used /\ At(n) = x
    BY <1>1, <1>2, PositionFound DEF At
  <1> HIDE DEF n
  <1>4. n \in Slots /\ list[n] \in Cell /\ list \in Array
    BY <1>2, <1>3, UsedCells DEF TypeOK, Array, Cell
  <1>5. /\ list'[n] = [list[n] EXCEPT !.refBit = 1]
        /\ \A s \in Slots \ {n} : list'[s] = list[s]
    BY <1>1, <1>4 DEF Array
  <1>6. ASSUME NEW s \in Used
        PROVE  /\ Entry(s)' = IF Entry(s).item = x THEN [Entry(s) EXCEPT !.bit = 1] ELSE Entry(s)
    <2>1. s \in Slots
      BY <1>2, UsedCells
    <2>2. CASE s = n
      <3>1. list'[s].data = list[s].data /\ list'[s].refBit = 1
        BY <2>2, <1>4, <1>5 DEF Cell
      <3> QED BY <2>2, <3>1, <1>1, <1>3 DEF Entry, At
    <2>3. CASE s # n
      <3>1. list'[s] = list[s] /\ At(s) # x
        BY <2>1, <2>3, <1>3, <1>5, DifferentTexts
      <3> QED BY <3>1, <1>1 DEF Entry, At
    <2> QED BY <2>2, <2>3
  <1>7. \A i \in 1 .. count : Nth(i)' = Nth(i) /\ Nth(i) \in Used
    BY <1>1, <1>2, Positions DEF Nth, Around
  <1>8. /\ Clock \in Seq(Entries) /\ Len(Clock) = count
        /\ \A i \in 1 .. count : Clock[i] = Entry(Nth(i))
    BY ClockIsQueue DEF ClockOK
  <1>9. /\ Clock' \in Seq(Entries) /\ Len(Clock') = count
        /\ \A i \in 1 .. count : Clock'[i] = Entry(Nth(i))'
    BY <1>1, ClockIsQueueNext DEF ClockOK
  <1>10. ASSUME NEW i \in 1 .. count
         PROVE  Clock'[i] = IF Clock[i].item = x THEN [Clock[i] EXCEPT !.bit = 1] ELSE Clock[i]
    <2> PICK s \in Used : s = Nth(i)
      BY <1>7
    <2>1. Nth(i)' = s
      BY <1>7
    <2>2. Entry(Nth(i))' = Entry(s)'
      BY <2>1 DEF Entry, At
    <2> QED BY <2>2, <1>6, <1>8, <1>9
  <1>11. Clock' = [i \in 1 .. Len(Clock) |->
                     IF Clock[i].item = x THEN [Clock[i] EXCEPT !.bit = 1] ELSE Clock[i]]
    <2>1. Clock' = [i \in 1 .. count |-> Clock'[i]]
      BY <1>1 DEF Clock
    <2> QED BY <2>1, <1>8, <1>10
  <1>12. Abstract!Cached(x)
    <2>1. PICK i \in 1 .. count : Nth(i) = n
      BY <1>2, <1>3, Positions
    <2>2. Clock[i].item = x
      BY <2>1, <1>3, <1>8 DEF Entry
    <2> QED BY <2>1, <2>2, <1>1, <1>8 DEF Abstract!Cached
  <1> QED BY <1>1, <1>11, <1>12 DEF Abstract!Hit

(* The steps of the loop. *)
LEMMA ClockPassesRefines ==
  ASSUME IInv, IInv', HandInv, ClockPasses
  PROVE  Abstract!SecondLife
  <1>1. /\ phase = "sweep" /\ phase' = phase /\ policy = "CLOCK" /\ policy' = policy
        /\ list' = [list EXCEPT ![hand].refBit = 0] /\ list[hand].refBit = 1
        /\ count' = count /\ text' = text /\ data' = data /\ hand' = HandMoved
        /\ hand \in Used
    BY HandUsed DEF ClockPasses, BitCleared, heap, IInv, PhaseInv
  <1>2. TypeOK /\ PlaceInv /\ count \in 0 .. Size /\ Size \in Nat \ {0}
    BY CacherAssumption DEF IInv, TypeOK
  <1>3. count = Size
    BY <1>1, <1>2 DEF HandInv, Used
  <1>4. hand \in Slots /\ list[hand] \in Cell /\ list \in Array
    BY <1>1, <1>2, UsedCells DEF TypeOK, Array, Cell
  <1>5. /\ list'[hand] = [list[hand] EXCEPT !.refBit = 0]
        /\ \A s \in Slots \ {hand} : list'[s] = list[s]
    BY <1>1, <1>4 DEF Array
  <1> DEFINE e == [Entry(hand) EXCEPT !.bit = 0]
  <1>6. ASSUME NEW s \in Slots PROVE Entry(s)' = IF s = hand THEN e ELSE Entry(s)
    <2>1. CASE s = hand
      <3>1. list'[s].data = list[s].data /\ list'[s].refBit = 0
        BY <2>1, <1>4, <1>5 DEF Cell
      <3> QED BY <2>1, <3>1, <1>1 DEF Entry, At
    <2>2. CASE s # hand
      BY <2>2, <1>1, <1>5 DEF Entry, At
    <2> QED BY <2>1, <2>2
  <1>7. /\ Len(Clock) = Size /\ Head(Clock) = Entry(hand)
        /\ Clock' = Append(Tail(Clock), e)
    <2> PICK f : f = e
      OBVIOUS
    <2>1. \A s \in Slots : Entry(s)' = IF s = hand THEN f ELSE Entry(s)
      BY <1>6
    <2> HIDE DEF e
    <2>2. /\ Len(Clock) = Size /\ Head(Clock) = Entry(hand)
          /\ Clock' = Append(Tail(Clock), f)
      BY <2>1, <1>1, <1>3, Turned
    <2> QED BY <2>2
  <1>8. text[data] # NoItem /\ Head(Clock).bit = 1
    BY <1>1, <1>7, WantedIsItem DEF Entry
  <1> QED BY <1>1, <1>7, <1>8 DEF Abstract!SecondLife

(* Replacing a string puts the item behind all others: its slot is now the last. *)
LEMMA ClockReplacesRefines ==
  ASSUME IInv, IInv', HandInv, ClockReplaces
  PROVE  Abstract!Place
  <1>1. /\ phase = "sweep" /\ phase' = "read" /\ policy = "CLOCK" /\ policy' = policy
        /\ list[hand].refBit = 0 /\ text' = text /\ data' = data /\ hand' = HandMoved
    BY DEF ClockReplaces, Inserted, IInv, PhaseInv
  <1>2. /\ hand \in Used /\ data \in Ptrs /\ list'[hand] = Item(data)
        /\ \A s \in Slots \ {hand} : list'[s] = list[s]
        /\ count' = count
    BY ReplacesFacts
  <1>3. TypeOK /\ PlaceInv /\ count \in 0 .. Size /\ Size \in Nat \ {0}
    BY CacherAssumption DEF IInv, TypeOK
  <1>4. count = Size
    BY <1>1, <1>2, <1>3 DEF HandInv, Used
  <1> PICK e : e = [item |-> text[data], bit |-> 0]
    OBVIOUS
  <1>5. \A s \in Slots : Entry(s)' = IF s = hand THEN e ELSE Entry(s)
    BY <1>1, <1>2, ItemIsCell DEF Entry, At
  <1>6. /\ Len(Clock) = Size /\ Head(Clock) = Entry(hand)
        /\ Clock' = Append(Tail(Clock), e)
    BY <1>1, <1>2, <1>4, <1>5, Turned
  <1>7. text[data] # NoItem /\ Head(Clock).bit = 0
    BY <1>1, <1>6, WantedIsItem DEF Entry
  <1> QED BY <1>1, <1>6, <1>7 DEF Abstract!Place

(* As long as the cache is not full, the hand is where the next item goes. *)
LEMMA ClockFillsRefines ==
  ASSUME IInv, IInv', HandInv, ClockFills
  PROVE  Abstract!Place
  <1>1. /\ phase = "sweep" /\ phase' = "read" /\ policy = "CLOCK" /\ policy' = policy
        /\ text' = text /\ data' = data /\ hand' = HandMoved
    BY DEF ClockFills, Inserted, heap, IInv, PhaseInv
  <1>2. /\ count < Size /\ count \in Slots /\ count' = count + 1 /\ data \in Ptrs
        /\ list'[count] = Item(data)
        /\ \A s \in Slots \ {count} : list'[s] = list[s]
    BY FillsFacts
  <1>3. TypeOK /\ count \in 0 .. Size /\ Size \in Nat \ {0} /\ hand = count
    BY <1>1, <1>2, CacherAssumption DEF IInv, TypeOK, HandInv
  <1> DEFINE e == [item |-> text[data], bit |-> 0]
  <1>4. ASSUME NEW s \in 0 .. count
        PROVE  Entry(s)' = IF s = count THEN e ELSE Entry(s)
    <2>1. s \in Slots
      BY <1>2, <1>3 DEF Slots
    <2> QED BY <2>1, <1>1, <1>2, ItemIsCell DEF Entry, At
  <1>5. /\ Clock \in Seq(Entries) /\ Len(Clock) = count
        /\ \A i \in 1 .. count : Clock[i] = Entry(i - 1)
    BY <1>2, ClockIsQueue DEF ClockOK, Nth
  <1>6. \A i \in 1 .. count + 1 : Nth(i)' = i - 1
    <2>1. CASE count + 1 < Size
      BY <2>1, <1>2 DEF Nth
    <2>2. CASE count + 1 = Size
      <3>1. hand' = 0
        <4>1. (count + 1) % Size = 0
          BY <2>2, <1>3
        <4> QED BY <4>1, <1>1, <1>3 DEF HandMoved
      <3>2. 0 \in Slots /\ \A i \in 1 .. Size : 0 + i - 1 = i - 1 /\ i - 1 < Size
        BY <1>3 DEF Slots
      <3>3. \A i \in 1 .. Size : Around(0, i) = i - 1
        BY <3>2, AroundValue
      <3>4. ~(count' < Size)
        BY <2>2, <1>2, <1>3
      <3>5. \A i : Nth(i)' = Around(0, i)
        BY <3>1, <3>4 DEF Nth, Around
      <3> QED BY <2>2, <3>3, <3>5
    <2> QED BY <2>1, <2>2, <1>2, <1>3
  <1>7. /\ Clock' \in Seq(Entries) /\ Len(Clock') = count + 1
        /\ \A i \in 1 .. count + 1 : Clock'[i] = Entry(i - 1)'
    <2>1. /\ Clock' \in Seq(Entries) /\ Len(Clock') = count + 1
          /\ \A i \in 1 .. count + 1 : Clock'[i] = Entry(Nth(i))'
      BY <1>2, ClockIsQueueNext DEF ClockOK
    <2>2. ASSUME NEW i \in 1 .. count + 1 PROVE Entry(Nth(i))' = Entry(i - 1)'
      <3>1. Nth(i)' = i - 1
        BY <1>6
      <3> QED BY <3>1 DEF Entry, At
    <2> QED BY <2>1, <2>2
  <1>8. \A i \in 1 .. count + 1 : Clock'[i] = IF i = count + 1 THEN e ELSE Clock[i]
    <2> SUFFICES ASSUME NEW i \in 1 .. count + 1
                 PROVE  Clock'[i] = IF i = count + 1 THEN e ELSE Clock[i]
      OBVIOUS
    <2>1. i - 1 \in 0 .. count /\ (i - 1 = count <=> i = count + 1)
      BY <1>3
    <2>2. i # count + 1 => i \in 1 .. count
      BY <1>3
    <2>3. Clock'[i] = Entry(i - 1)'
      BY <1>7
    <2>4. Entry(i - 1)' = IF i - 1 = count THEN e ELSE Entry(i - 1)
      <3> PICK s \in 0 .. count : s = i - 1
        BY <2>1
      <3>1. Entry(s)' = IF s = count THEN e ELSE Entry(s)
        BY <1>4
      <3> QED BY <3>1 DEF Entry, At
    <2> QED BY <2>1, <2>2, <2>3, <2>4, <1>5
  <1>9. text[data] \in Items /\ text[data] # NoItem
    BY <1>1, WantedIsItem
  <1>10. e \in Entries
    BY <1>9 DEF Entries
  <1> HIDE DEF e
  <1>11. Clock' = Append(Clock, e)
    <2> DEFINE q == Append(Clock, e)
    <2>1. /\ q \in Seq(Entries) /\ Len(q) = count + 1
          /\ \A i \in 1 .. count : q[i] = Clock[i]
          /\ q[count + 1] = e
      BY <1>5, <1>10, AppendProperties
    <2> HIDE DEF q
    <2>2. \A i \in 1 .. count + 1 : i \in 1 .. count \/ i = count + 1
      BY <1>3
    <2>3. \A i \in 1 .. count + 1 : Clock'[i] = q[i]
      BY <2>1, <2>2, <1>8
    <2>4. Clock' = q
      BY <2>1, <2>3, <1>7, SeqEqual
    <2> QED BY <2>4 DEF q
  <1> QED BY <1>1, <1>2, <1>5, <1>9, <1>11 DEF Abstract!Place, e

(* Under the other policies, and at the end, the queue stays as it is. *)
LEMMA OthersRefine ==
  ASSUME IInv,
         \/ \E x \in Items : HitFIFO(x) \/ HitLRU(x) \/ Miss(x)
         \/ Finish \/ UNCHANGED vars
  PROVE  UNCHANGED <<IF policy = "CLOCK" THEN Clock ELSE << >>,
                     IF phase = "sweep" THEN text[data] ELSE NoItem>>
  <1>1. ASSUME NEW x \in Items, HitFIFO(x) \/ HitLRU(x) \/ Miss(x)
        PROVE  policy # "CLOCK" /\ policy' = policy /\ phase = "read" /\ phase' = phase
    BY <1>1 DEF HitFIFO, HitLRU, Hit, Miss, Read
  <1>2. CASE Finish \/ UNCHANGED vars
    <2>1. UNCHANGED <<policy, list, count, text, hand, data>>
      BY <1>2, EndFacts
    <2>2. Clock' = Clock
      BY <2>1 DEF Clock
    <2>3. phase = "sweep" <=> phase' = "sweep"
      BY <1>2 DEF Finish, vars
    <2> QED BY <2>1, <2>2, <2>3
  <1> QED BY <1>1, <1>2

(* Every step is a step of the second-chance queue, or does not change it. *)
LEMMA NextRefines ==
  ASSUME IInv, IInv', HandInv, [Next]_vars
  PROVE  Abstract!Next \/ UNCHANGED <<IF policy = "CLOCK" THEN Clock ELSE << >>,
                                      IF phase = "sweep" THEN text[data] ELSE NoItem>>
  <1>1. ASSUME NEW x \in Items, HitCLOCK(x) \/ MissCLOCK(x) PROVE Abstract!Next
    BY <1>1, HitCLOCKRefines, MissCLOCKRefines DEF Abstract!Next
  <1>2. CASE Sweep
    BY <1>2, ClockPassesRefines, ClockReplacesRefines, ClockFillsRefines DEF Sweep, Abstract!Next
  <1> QED BY <1>1, <1>2, OthersRefine DEF Next, Terminated

(***************************************************************************)
(* insert_CLOCK implements the second-chance queue: whatever was accessed, *)
(* the next victim is the first item from the hand on whose bit is clear,  *)
(* the items passed over go behind all others, and a hit only sets a bit.  *)
(***************************************************************************)
THEOREM SecondChances == Spec => ImplementsSecondChance
  <1>1. Init => HandInv
    BY CacherAssumption DEF Init, CacheCreate, HandInv
  <1>2. IInv /\ HandInv /\ [Next]_vars => HandInv'
    BY NextHand
  <1>3. IInv /\ IInv' /\ HandInv /\ [Next]_vars =>
          [Abstract!Next]_<<IF policy = "CLOCK" THEN Clock ELSE << >>,
                            IF phase = "sweep" THEN text[data] ELSE NoItem>>
    BY NextRefines
  <1> QED BY <1>1, <1>2, <1>3, InitRefines, Inductive, PTL
          DEF Spec, ImplementsSecondChance, Abstract!Spec
===============================================================================
