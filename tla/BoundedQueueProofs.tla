-------------------------- MODULE BoundedQueueProofs --------------------------
(***************************************************************************)
(* Proofs about BoundedQueue, for every number of threads, every size of   *)
(* the ring and every set of elements.                                     *)
(***************************************************************************)
EXTENDS BoundedQueue, FiniteSetTheorems, SequenceTheorems, TLAPS

(***************************************************************************)
(* The inductive invariant.  MutexInv: a thread is in its critical section *)
(* exactly when it owns the mutex.  SideInv: a thread is only ever in the  *)
(* calls it may make, and only a thread inside a call is blocked.  RingInv *)
(* relates the three counters; SlotInv says that a slot in use, and the    *)
(* argument of a push under way, hold an element and not junk.             *)
(***************************************************************************)
MutexInv == \A t \in Threads : pc[t] \in {"push_locked", "pop_locked"} <=> lock = t

SideInv ==
  /\ \A t \in Threads : /\ pc[t] \in {"push_lock", "push_locked", "push_signal"}
                             => t \in Producers /\ elem[t] \in Items
                        /\ pc[t] \in {"pop_lock", "pop_locked", "pop_signal"}
                             => t \in Consumers
  /\ \A t \in full  : pc[t] = "push_lock"
  /\ \A t \in empty : pc[t] = "pop_lock"

RingInv == in = (out + count) % Size
SlotInv == \A i \in 1 .. count : buffer[(out + i - 1) % Size] \in Items

IInv == TypeOK /\ MutexInv /\ SideInv /\ RingInv /\ SlotInv

-------------------------------------------------------------------------------
(***************************************************************************)
(* Indices that wrap around at Size.                                       *)
(***************************************************************************)
LEMMA ModBasic ==
  \A a \in Nat : a < 2 * Size => a % Size = IF a < Size THEN a ELSE a - Size
  BY QueueAssumption

(* The slot a push writes is none of the slots in use. *)
LEMMA FreshSlot ==
  ASSUME NEW o \in Slots, NEW n \in 0 .. Size - 1, NEW i \in 1 .. n
  PROVE  (o + i - 1) % Size # (o + n) % Size
  <1>1. (o + i - 1) % Size = IF o + i - 1 < Size THEN o + i - 1 ELSE o + i - 1 - Size
    BY ModBasic, QueueAssumption DEF Slots
  <1>2. (o + n) % Size = IF o + n < Size THEN o + n ELSE o + n - Size
    BY ModBasic, QueueAssumption DEF Slots
  <1> QED BY <1>1, <1>2, QueueAssumption DEF Slots

(* Advancing the front by one renumbers the slots in use. *)
LEMMA Renumber ==
  ASSUME NEW o \in Slots, NEW i \in 1 .. Size
  PROVE  (((o + 1) % Size) + i - 1) % Size = (o + i) % Size
  <1>1. (o + 1) % Size = IF o + 1 < Size THEN o + 1 ELSE 0
    BY ModBasic, QueueAssumption DEF Slots
  <1>2. (o + i) % Size = IF o + i < Size THEN o + i ELSE o + i - Size
    BY ModBasic, QueueAssumption DEF Slots
  <1>3. CASE o + 1 < Size
    <2>1. ((o + 1) % Size) + i - 1 = o + i
      BY <1>1, <1>3 DEF Slots
    <2> QED BY <2>1
  <1>4. CASE o + 1 >= Size
    <2>1. o = Size - 1 /\ ((o + 1) % Size) + i - 1 = i - 1
      BY <1>1, <1>4, QueueAssumption DEF Slots
    <2>2. (i - 1) % Size = i - 1
      BY ModBasic, QueueAssumption
    <2> QED BY <1>2, <2>1, <2>2, QueueAssumption
  <1> QED BY <1>3, <1>4, QueueAssumption DEF Slots

(* Advancing the slot to write keeps it right behind the slots in use. *)
LEMMA AdvanceIn ==
  ASSUME NEW o \in Slots, NEW n \in 0 .. Size - 1
  PROVE  (((o + n) % Size) + 1) % Size = (o + (n + 1)) % Size
  <1>1. CASE o + n < Size
    <2>1. (o + n) % Size = o + n
      BY <1>1, ModBasic, QueueAssumption DEF Slots
    <2> QED BY <2>1 DEF Slots
  <1>2. CASE o + n >= Size
    <2>1. (o + n) % Size = o + n - Size
      BY <1>2, ModBasic, QueueAssumption DEF Slots
    <2>2. ((o + n) % Size) + 1 \in 0 .. Size - 1
      BY <1>2, <2>1, QueueAssumption DEF Slots
    <2>3. (((o + n) % Size) + 1) % Size = ((o + n) % Size) + 1
      BY <2>2, ModBasic, QueueAssumption
    <2>4. (o + (n + 1)) % Size = o + (n + 1) - Size
      BY <1>2, <2>1, <2>2, ModBasic, QueueAssumption, SMTT(60) DEF Slots
    <2>5. ((o + n) % Size) + 1 = o + (n + 1) - Size
      BY <2>1, QueueAssumption DEF Slots
    <2> QED BY <2>3, <2>4, <2>5
  <1> QED BY <1>1, <1>2, QueueAssumption DEF Slots

(* The successor of a slot is a slot. *)
LEMMA SuccSlot ==
  ASSUME NEW a \in Slots
  PROVE  (a + 1) % Size \in Slots /\ ((a + 1) % Size) % Size = (a + 1) % Size
  <1>1. (a + 1) % Size = IF a + 1 < Size THEN a + 1 ELSE a + 1 - Size
    BY ModBasic, QueueAssumption DEF Slots
  <1>2. (a + 1) % Size \in 0 .. Size - 1
    BY <1>1, QueueAssumption DEF Slots
  <1> QED BY <1>2, ModBasic, QueueAssumption DEF Slots

-------------------------------------------------------------------------------
(* The initial states satisfy the inductive invariant. *)
LEMMA InitIInv == Init => IInv
  <1> SUFFICES ASSUME Init PROVE IInv
    OBVIOUS
  <1>1. TypeOK
    BY QueueAssumption DEF Init, TypeOK, Slots, Labels, Threads
  <1>2. MutexInv /\ SideInv
    BY QueueAssumption DEF Init, MutexInv, SideInv, Threads
  <1>3. RingInv /\ SlotInv
    BY ModBasic, QueueAssumption DEF Init, RingInv, SlotInv
  <1> QED BY <1>1, <1>2, <1>3 DEF IInv

(***************************************************************************)
(* A step that leaves the ring alone keeps the two facts about it.         *)
(***************************************************************************)
LEMMA RingUnchanged ==
  ASSUME IInv, UNCHANGED ring
  PROVE  RingInv' /\ SlotInv'
  BY DEF IInv, ring, RingInv, SlotInv

(* Entering a function or acquiring the mutex preserves the invariant. *)
LEMMA CallsAndLocks ==
  ASSUME IInv, NEW t \in Threads,
         \/ t \in Producers /\ \E x \in Items : PushCall(t, x)
         \/ t \in Consumers /\ PopCall(t)
         \/ Lock(t)
  PROVE  IInv'
  <1> USE DEF IInv, Goto, Acquire
  <1>1. CASE t \in Producers /\ \E x \in Items : PushCall(t, x)
    <2> PICK x \in Items : PushCall(t, x)
      BY <1>1
    <2>1. TypeOK'
      BY <1>1 DEF PushCall, TypeOK, Labels, ring, Threads
    <2>2. MutexInv' /\ SideInv'
      BY <1>1 DEF PushCall, TypeOK, MutexInv, SideInv, Labels, Threads
    <2> QED BY <2>1, <2>2, RingUnchanged DEF PushCall
  <1>2. CASE t \in Consumers /\ PopCall(t)
    <2>1. TypeOK'
      BY <1>2 DEF PopCall, TypeOK, Labels, ring
    <2>2. MutexInv' /\ SideInv'
      BY <1>2 DEF PopCall, TypeOK, MutexInv, SideInv, Labels, Threads
    <2> QED BY <1>2, <2>1, <2>2, RingUnchanged DEF PopCall
  <1>3. CASE t \in Producers /\ PushLock(t)
    <2>1. TypeOK'
      BY <1>3 DEF PushLock, TypeOK, Labels, ring
    <2>2. MutexInv' /\ SideInv'
      BY <1>3, QueueAssumption DEF PushLock, TypeOK, MutexInv, SideInv, Labels, Threads
    <2> QED BY <1>3, <2>1, <2>2, RingUnchanged DEF PushLock
  <1>4. CASE t \in Consumers /\ PopLock(t)
    <2>1. TypeOK'
      BY <1>4 DEF PopLock, TypeOK, Labels, ring
    <2>2. MutexInv' /\ SideInv'
      BY <1>4, QueueAssumption DEF PopLock, TypeOK, MutexInv, SideInv, Labels, Threads
    <2> QED BY <1>4, <2>1, <2>2, RingUnchanged DEF PopLock
  <1> QED BY <1>1, <1>2, <1>3, <1>4 DEF Lock

(* So do the waits, the signals and spurious wakeups. *)
LEMMA WaitsAndSignals ==
  ASSUME IInv, NEW t \in Threads,
         \/ t \in Producers /\ (PushWait(t) \/ PushSignal(t))
         \/ t \in Consumers /\ (PopWait(t) \/ PopSignal(t))
         \/ SpuriousWakeup(t)
  PROVE  IInv'
  <1> USE DEF IInv, Goto
  <1>0. ASSUME NEW S, NEW T \in Signal(S)
        PROVE  T \subseteq S
    BY <1>0 DEF Signal
  <1>1. CASE t \in Producers /\ PushWait(t)
    <2>1. TypeOK'
      BY <1>1 DEF PushWait, TypeOK, Labels, ring
    <2>2. MutexInv' /\ SideInv'
      BY <1>1, QueueAssumption DEF PushWait, TypeOK, MutexInv, SideInv, Labels, Threads
    <2> QED BY <1>1, <2>1, <2>2, RingUnchanged DEF PushWait
  <1>2. CASE t \in Producers /\ PushSignal(t)
    <2>0. empty' \subseteq empty
      BY <1>0, <1>2 DEF PushSignal
    <2>1. TypeOK'
      BY <1>2, <2>0 DEF PushSignal, TypeOK, Labels, ring
    <2>2. MutexInv' /\ SideInv'
      BY <1>2, <2>0 DEF PushSignal, TypeOK, MutexInv, SideInv, Labels, Threads
    <2> QED BY <1>2, <2>1, <2>2, RingUnchanged DEF PushSignal
  <1>3. CASE t \in Consumers /\ PopWait(t)
    <2>1. TypeOK'
      BY <1>3 DEF PopWait, TypeOK, Labels, ring
    <2>2. MutexInv' /\ SideInv'
      BY <1>3, QueueAssumption DEF PopWait, TypeOK, MutexInv, SideInv, Labels, Threads
    <2> QED BY <1>3, <2>1, <2>2, RingUnchanged DEF PopWait
  <1>4. CASE t \in Consumers /\ PopSignal(t)
    <2>0. full' \subseteq full
      BY <1>0, <1>4 DEF PopSignal
    <2>1. TypeOK'
      BY <1>4, <2>0 DEF PopSignal, TypeOK, Labels, ring
    <2>2. MutexInv' /\ SideInv'
      BY <1>4, <2>0 DEF PopSignal, TypeOK, MutexInv, SideInv, Labels, Threads
    <2> QED BY <1>4, <2>1, <2>2, RingUnchanged DEF PopSignal
  <1>5. CASE SpuriousWakeup(t)
    <2>1. TypeOK'
      BY <1>5 DEF SpuriousWakeup, TypeOK, ring
    <2>2. MutexInv' /\ SideInv'
      BY <1>5 DEF SpuriousWakeup, TypeOK, MutexInv, SideInv
    <2> QED BY <1>5, <2>1, <2>2, RingUnchanged DEF SpuriousWakeup
  <1> QED BY <1>1, <1>2, <1>3, <1>4, <1>5


(* The critical section of a push: lines 57-59. *)
LEMMA StoreInv ==
  ASSUME IInv, NEW t \in Producers, PushStore(t)
  PROVE  IInv'
  <1> USE QueueAssumption DEF IInv
  <1>1. t \in Threads /\ elem[t] \in Items /\ count \in 0 .. Size - 1
    BY DEF PushStore, Goto, SideInv, TypeOK, Threads
  <1>2. in' \in Slots
    BY SuccSlot DEF PushStore, TypeOK
  <1>3. TypeOK'
    BY <1>1, <1>2 DEF PushStore, Goto, TypeOK, Labels
  <1>4. MutexInv' /\ SideInv'
    BY <1>1 DEF PushStore, Goto, TypeOK, MutexInv, SideInv, Labels, Threads
  <1>5. RingInv'
    <2>1. (((out + count) % Size) + 1) % Size = (out + (count + 1)) % Size
      BY <1>1, AdvanceIn DEF TypeOK
    <2> QED BY <2>1 DEF PushStore, RingInv
  <1>6. SlotInv'
    <2> SUFFICES ASSUME NEW i \in 1 .. count + 1
                 PROVE  buffer'[(out + i - 1) % Size] \in Items
      BY DEF PushStore, SlotInv
    <2>1. CASE i \in 1 .. count
      <3>1. (out + i - 1) % Size # in
        BY <1>1, <2>1, FreshSlot DEF TypeOK, RingInv
      <3> QED BY <2>1, <3>1, <1>1 DEF PushStore, SlotInv, TypeOK
    <2>2. CASE i = count + 1
      <3>1. (out + i - 1) % Size = in
        BY <1>1, <2>2 DEF TypeOK, RingInv, Slots
      <3> QED BY <3>1, <1>1 DEF PushStore, TypeOK
    <2> QED BY <1>1, <2>1, <2>2
  <1> QED BY <1>3, <1>4, <1>5, <1>6

(* The critical section of a pop: lines 73-75. *)
LEMMA TakeInv ==
  ASSUME IInv, NEW t \in Consumers, PopTake(t)
  PROVE  IInv'
  <1> USE QueueAssumption DEF IInv
  <1>1. t \in Threads /\ count \in 1 .. Size
    BY DEF PopTake, TypeOK, Threads
  <1>2. out' \in Slots /\ buffer[out] \in Items \cup {Junk}
    BY SuccSlot DEF PopTake, TypeOK
  <1>3. TypeOK'
    BY <1>1, <1>2 DEF PopTake, Goto, TypeOK, Labels
  <1>4. MutexInv' /\ SideInv'
    BY <1>1 DEF PopTake, Goto, TypeOK, MutexInv, SideInv, Labels, Threads
  <1>5. \A i \in 1 .. Size : (out' + i - 1) % Size = (out + i) % Size
    BY Renumber DEF PopTake, TypeOK
  <1>6. RingInv'
    <2>1. (out' + count') % Size = (out + count) % Size
      <3>1. CASE count = 1
        <4>1. out' + count' = (out + 1) % Size /\ out + count = out + 1
          BY <1>2, <3>1 DEF PopTake, TypeOK, Slots
        <4>2. ((out + 1) % Size) % Size = (out + 1) % Size
          BY SuccSlot DEF TypeOK
        <4> QED BY <4>1, <4>2
      <3>2. CASE count > 1
        <4>1. count' + 1 \in 1 .. Size
          BY <1>1 DEF PopTake
        <4>2. (out' + (count' + 1) - 1) % Size = (out + (count' + 1)) % Size
          BY <1>5, <4>1
        <4> QED BY <1>1, <1>2, <4>2 DEF PopTake, TypeOK, Slots
      <3> QED BY <1>1, <3>1, <3>2
    <2> QED BY <2>1 DEF PopTake, RingInv
  <1>7. SlotInv'
    <2> SUFFICES ASSUME NEW i \in 1 .. count - 1
                 PROVE  buffer[(out' + i - 1) % Size] \in Items
      BY DEF PopTake, SlotInv
    <2>1. (out' + i - 1) % Size = (out + (i + 1) - 1) % Size
      BY <1>1, <1>5 DEF TypeOK, Slots
    <2>2. i + 1 \in 1 .. count
      BY <1>1
    <2> QED BY <2>1, <2>2 DEF SlotInv
  <1> QED BY <1>3, <1>4, <1>6, <1>7

(* Every step preserves the invariant. *)
LEMMA NextIInv == IInv /\ [Next]_vars => IInv'
  <1> SUFFICES ASSUME IInv, [Next]_vars PROVE IInv'
    OBVIOUS
  <1>1. CASE UNCHANGED vars
    BY <1>1 DEF IInv, vars, TypeOK, MutexInv, SideInv, RingInv, SlotInv
  <1>2. ASSUME NEW p \in Producers, NEW x \in Items, PushCall(p, x)
        PROVE  IInv'
    BY <1>2, CallsAndLocks DEF Threads
  <1>3. ASSUME NEW c \in Consumers, PopCall(c)
        PROVE  IInv'
    BY <1>3, CallsAndLocks DEF Threads
  <1>4. ASSUME NEW t \in Threads, Lock(t)
        PROVE  IInv'
    BY <1>4, CallsAndLocks
  <1>5. ASSUME NEW t \in Threads, Proceed(t)
        PROVE  IInv'
    BY <1>5, WaitsAndSignals, StoreInv, TakeInv DEF Proceed
  <1>6. ASSUME NEW t \in Threads, SpuriousWakeup(t)
        PROVE  IInv'
    BY <1>6, WaitsAndSignals
  <1> QED BY <1>1, <1>2, <1>3, <1>4, <1>5, <1>6 DEF Next

(* The invariant holds in every reachable state. *)
LEMMA Inductive == Spec => []IInv
  BY InitIInv, NextIInv, PTL DEF Spec

-------------------------------------------------------------------------------
(***************************************************************************)
(* Type correctness of every reachable state: in particular the indices    *)
(* stay inside the ring and the counter within its size.                   *)
(***************************************************************************)
THEOREM TypeCorrect == Spec => []TypeOK
  <1>1. IInv => TypeOK
    BY DEF IInv
  <1> QED BY Inductive, <1>1, PTL

-------------------------------------------------------------------------------
(***************************************************************************)
(* Counting the threads on their way to an element or to a free slot.      *)
(***************************************************************************)
LEMMA ThreadsFinite == IsFiniteSet(Threads)
  BY QueueAssumption, FS_Union DEF Threads

(* How many threads two sets have, when they differ in one or two threads. *)
LEMMA Counting ==
  ASSUME NEW A \in SUBSET Threads, NEW B \in SUBSET Threads
  PROVE  /\ Cardinality(A) \in Nat
         /\ A \subseteq B => Cardinality(A) <= Cardinality(B)
         /\ \A t \in B \ A : A \subseteq B => Cardinality(A) + 1 <= Cardinality(B)
         /\ \A t : A \ {t} \subseteq B => Cardinality(A) - 1 <= Cardinality(B)
         /\ \A t \in A, w \in B \ A :
              A \ {t} \subseteq B => Cardinality(A) <= Cardinality(B)
  <1>1. /\ IsFiniteSet(A) /\ IsFiniteSet(B)
        /\ Cardinality(A) \in Nat /\ Cardinality(B) \in Nat
    BY ThreadsFinite, FS_Subset, FS_CardinalityType
  <1>2. A \subseteq B => Cardinality(A) <= Cardinality(B)
    BY <1>1, FS_Subset
  <1>3. ASSUME NEW t \in B \ A, A \subseteq B
        PROVE  Cardinality(A) + 1 <= Cardinality(B)
    <2>1. IsFiniteSet(A \cup {t}) /\ Cardinality(A \cup {t}) = Cardinality(A) + 1
      BY <1>1, FS_AddElement
    <2>2. A \cup {t} \subseteq B
      BY <1>3
    <2> QED BY <1>1, <2>1, <2>2, FS_Subset
  <1>4. ASSUME NEW t, A \ {t} \subseteq B
        PROVE  Cardinality(A) - 1 <= Cardinality(B)
    <2>1. /\ Cardinality(A \ {t}) \in Nat
          /\ Cardinality(A) - 1 <= Cardinality(A \ {t})
      <3>1. CASE t \in A
        <4>1. /\ IsFiniteSet(A \ {t})
              /\ Cardinality(A \ {t}) = Cardinality(A) - 1
          BY <1>1, <3>1, FS_RemoveElement
        <4>2. Cardinality(A \ {t}) \in Nat
          BY <4>1, FS_CardinalityType
        <4> QED BY <1>1, <4>1, <4>2
      <3>2. CASE t \notin A
        <4>1. A \ {t} = A
          BY <3>2
        <4> QED BY <1>1, <4>1
      <3> QED BY <3>1, <3>2
    <2>2. Cardinality(A \ {t}) <= Cardinality(B)
      BY <1>1, <1>4, FS_Subset
    <2> QED BY <1>1, <2>1, <2>2
  <1>5. ASSUME NEW t \in A, NEW w \in B \ A, A \ {t} \subseteq B
        PROVE  Cardinality(A) <= Cardinality(B)
    <2>1. /\ IsFiniteSet(A \ {t})
          /\ Cardinality(A \ {t}) = Cardinality(A) - 1
      BY <1>1, FS_RemoveElement
    <2>2. /\ IsFiniteSet((A \ {t}) \cup {w})
          /\ Cardinality((A \ {t}) \cup {w}) = Cardinality(A \ {t}) + 1
      BY <2>1, FS_AddElement
    <2>3. (A \ {t}) \cup {w} \subseteq B
      BY <1>5
    <2> QED BY <1>1, <2>1, <2>2, <2>3, FS_Subset
  <1> QED BY <1>1, <1>2, <1>3, <1>4, <1>5

(***************************************************************************)
(* The two halves of NoLostWakeup.  Each action adds at most one thread to *)
(* a set of threads on their way, or takes at most one away; PushSignal    *)
(* and PopSignal replace the signalling thread by the one they wake.       *)
(***************************************************************************)
ElementsSide == empty # {} => count <= Cardinality(TowardsElements)
SlotsSide    == full # {} => Size - count <= Cardinality(TowardsSlots)

(* At the start no thread is blocked. *)
LEMMA InitNoLostWakeup == Init => ElementsSide /\ SlotsSide
  BY DEF Init, ElementsSide, SlotsSide

(* A bound n on a set that changes from A to B, in the ways the actions do. *)
LEMMA Moving ==
  ASSUME NEW n \in Int, NEW m \in Int,
         NEW A \in SUBSET Threads, NEW B \in SUBSET Threads,
         n <= Cardinality(A),
         \/ m <= n /\ A \subseteq B
         \/ m <= n + 1 /\ A \subseteq B /\ \E t \in B : t \notin A
         \/ m <= n - 1 /\ \E t : A \ {t} \subseteq B
         \/ m <= n /\ \E t \in A, w \in B \ A : A \ {t} \subseteq B
  PROVE  m <= Cardinality(B)
  <1>1. Cardinality(A) \in Nat /\ Cardinality(B) \in Nat
    BY Counting
  <1>2. CASE m <= n /\ A \subseteq B
    BY <1>1, <1>2, Counting
  <1>3. CASE m <= n + 1 /\ A \subseteq B /\ \E t \in B : t \notin A
    <2>1. Cardinality(A) + 1 <= Cardinality(B)
      BY <1>3, Counting
    <2> QED BY <1>1, <1>3, <2>1
  <1>4. CASE m <= n - 1 /\ \E t : A \ {t} \subseteq B
    <2>1. Cardinality(A) - 1 <= Cardinality(B)
      BY <1>4, Counting
    <2> QED BY <1>1, <1>4, <2>1
  <1>5. CASE m <= n /\ \E t \in A, w \in B \ A : A \ {t} \subseteq B
    <2>1. Cardinality(A) <= Cardinality(B)
      BY <1>5, Counting
    <2> QED BY <1>1, <1>5, <2>1
  <1> QED BY <1>2, <1>3, <1>4, <1>5

(* Every step keeps enough threads on their way to the elements. *)
LEMMA ElementsStep ==
  ASSUME IInv, IInv', ElementsSide, [Next]_vars
  PROVE  ElementsSide'
  <1> USE DEF IInv, TypeOK
  <1> SUFFICES ASSUME empty' # {} PROVE count' <= Cardinality(TowardsElements')
    BY DEF ElementsSide
  <1>1. /\ TowardsElements \in SUBSET Threads /\ TowardsElements' \in SUBSET Threads
        /\ count \in Int /\ count' \in Int
    BY QueueAssumption DEF TowardsElements
  <1> DEFINE A == TowardsElements
             B == TowardsElements'
  <1>2. CASE UNCHANGED vars
    BY <1>2 DEF vars, ElementsSide, TowardsElements
  <1>3. ASSUME NEW t \in Threads, PopWait(t)
        PROVE  count' <= Cardinality(TowardsElements')
    BY <1>1, <1>3, Counting DEF PopWait, ring
  <1>4. ASSUME empty # {},
               \/ count' <= count /\ A \subseteq B
               \/ count' <= count + 1 /\ A \subseteq B /\ \E t \in B : t \notin A
               \/ count' <= count - 1 /\ \E t : A \ {t} \subseteq B
               \/ count' <= count /\ \E t \in A, w \in B \ A : A \ {t} \subseteq B
        PROVE  count' <= Cardinality(TowardsElements')
    BY <1>1, <1>4, Moving DEF ElementsSide
  <1>5. ASSUME NEW p \in Producers, NEW x \in Items, PushCall(p, x)
        PROVE  count' <= Cardinality(TowardsElements')
    <2>1. A \subseteq B
      BY <1>5 DEF PushCall, Goto, TowardsElements
    <2> QED BY <1>1, <1>4, <1>5, <2>1 DEF PushCall, ring
  <1>6. ASSUME NEW c \in Consumers, PopCall(c)
        PROVE  count' <= Cardinality(TowardsElements')
    <2>1. A \subseteq B
      BY <1>6 DEF PopCall, Goto, TowardsElements
    <2> QED BY <1>1, <1>4, <1>6, <2>1 DEF PopCall, ring
  <1>7. ASSUME NEW t \in Threads, Lock(t)
        PROVE  count' <= Cardinality(TowardsElements')
    <2>1. A \subseteq B
      BY <1>7 DEF Lock, PushLock, PopLock, Goto, TowardsElements
    <2> QED BY <1>1, <1>4, <1>7, <2>1 DEF Lock, PushLock, PopLock, ring
  <1>8. ASSUME NEW t \in Producers, PushWait(t)
        PROVE  count' <= Cardinality(TowardsElements')
    <2>1. A \subseteq B
      BY <1>8 DEF PushWait, Goto, TowardsElements
    <2> QED BY <1>1, <1>4, <1>8, <2>1 DEF PushWait, ring
  <1>9. ASSUME NEW t \in Producers, PushStore(t)
        PROVE  count' <= Cardinality(TowardsElements')
    <2>1. A \subseteq B /\ t \in B /\ t \notin A
      BY <1>9 DEF PushStore, Goto, TowardsElements, Threads
    <2> QED BY <1>1, <1>4, <1>9, <2>1 DEF PushStore
  <1>10. ASSUME NEW t \in Producers, PushSignal(t)
         PROVE  count' <= Cardinality(TowardsElements')
    <2>1. PICK w \in empty : empty' = empty \ {w}
      BY <1>10 DEF PushSignal, Signal
    <2>2. t \in A /\ w \in B /\ w \notin A
      BY <1>10, <2>1 DEF PushSignal, Goto, SideInv, TowardsElements, Threads
    <2>3. A \ {t} \subseteq B
      BY <1>10, <2>1 DEF PushSignal, Goto, TowardsElements
    <2> QED BY <1>1, <1>4, <1>10, <2>1, <2>2, <2>3 DEF PushSignal, ring
  <1>11. ASSUME NEW t \in Consumers, PopTake(t)
         PROVE  count' <= Cardinality(TowardsElements')
    <2>1. A \ {t} \subseteq B
      BY <1>11 DEF PopTake, Goto, TowardsElements
    <2> QED BY <1>1, <1>4, <1>11, <2>1 DEF PopTake
  <1>12. ASSUME NEW t \in Consumers, PopSignal(t)
         PROVE  count' <= Cardinality(TowardsElements')
    <2>1. A \subseteq B
      BY <1>12 DEF PopSignal, Goto, TowardsElements
    <2> QED BY <1>1, <1>4, <1>12, <2>1 DEF PopSignal, ring
  <1>13. ASSUME NEW t \in Threads, SpuriousWakeup(t)
         PROVE  count' <= Cardinality(TowardsElements')
    <2>1. A \subseteq B /\ empty' \subseteq empty
      BY <1>13 DEF SpuriousWakeup, TowardsElements
    <2> QED BY <1>1, <1>4, <1>13, <2>1 DEF SpuriousWakeup, ring
  <1> QED BY <1>2, <1>3, <1>5, <1>6, <1>7, <1>8, <1>9, <1>10, <1>11, <1>12, <1>13
          DEF Next, Proceed, Threads

(* Every step keeps enough threads on their way to the free slots. *)
LEMMA SlotsStep ==
  ASSUME IInv, IInv', SlotsSide, [Next]_vars
  PROVE  SlotsSide'
  <1> USE DEF IInv, TypeOK
  <1> SUFFICES ASSUME full' # {} PROVE Size - count' <= Cardinality(TowardsSlots')
    BY DEF SlotsSide
  <1>1. /\ TowardsSlots \in SUBSET Threads /\ TowardsSlots' \in SUBSET Threads
        /\ Size - count \in Int /\ Size - count' \in Int
        /\ Size \in Nat /\ count \in Int /\ count' \in Int
    BY QueueAssumption DEF TowardsSlots
  <1> DEFINE A == TowardsSlots
             B == TowardsSlots'
             n == Size - count
             m == Size - count'
  <1>2. CASE UNCHANGED vars
    BY <1>2 DEF vars, SlotsSide, TowardsSlots
  <1>3. ASSUME full # {},
               \/ m <= n /\ A \subseteq B
               \/ m <= n + 1 /\ A \subseteq B /\ \E t \in B : t \notin A
               \/ m <= n - 1 /\ \E t : A \ {t} \subseteq B
               \/ m <= n /\ \E t \in A, w \in B \ A : A \ {t} \subseteq B
        PROVE  m <= Cardinality(B)
    BY <1>1, <1>3, Moving DEF SlotsSide
  <1>4. ASSUME count' = count PROVE m <= n
    BY <1>1, <1>4
  <1>5. ASSUME NEW p \in Producers, NEW x \in Items, PushCall(p, x)
        PROVE  m <= Cardinality(B)
    <2>1. A \subseteq B
      BY <1>5 DEF PushCall, Goto, TowardsSlots
    <2> QED BY <1>3, <1>4, <1>5, <2>1 DEF PushCall, ring
  <1>6. ASSUME NEW c \in Consumers, PopCall(c)
        PROVE  m <= Cardinality(B)
    <2>1. A \subseteq B
      BY <1>6 DEF PopCall, Goto, TowardsSlots
    <2> QED BY <1>3, <1>4, <1>6, <2>1 DEF PopCall, ring
  <1>7. ASSUME NEW t \in Threads, Lock(t)
        PROVE  m <= Cardinality(B)
    <2>1. A \subseteq B
      BY <1>7 DEF Lock, PushLock, PopLock, Goto, TowardsSlots
    <2> QED BY <1>3, <1>4, <1>7, <2>1 DEF Lock, PushLock, PopLock, ring
  <1>8. ASSUME NEW t \in Producers, PushWait(t)
        PROVE  m <= Cardinality(B)
    <2>1. m = 0
      BY <1>1, <1>8 DEF PushWait, ring
    <2>2. Cardinality(B) \in Nat
      BY <1>1, Counting
    <2> QED BY <2>1, <2>2
  <1>9. ASSUME NEW t \in Producers, PushStore(t)
        PROVE  m <= Cardinality(B)
    <2>1. A \ {t} \subseteq B
      BY <1>9 DEF PushStore, Goto, TowardsSlots
    <2>2. m <= n - 1
      BY <1>1, <1>9 DEF PushStore
    <2> QED BY <1>3, <1>9, <2>1, <2>2 DEF PushStore
  <1>10. ASSUME NEW t \in Producers, PushSignal(t)
         PROVE  m <= Cardinality(B)
    <2>1. A \subseteq B
      BY <1>10 DEF PushSignal, Goto, TowardsSlots
    <2> QED BY <1>3, <1>4, <1>10, <2>1 DEF PushSignal, ring
  <1>11. ASSUME NEW t \in Consumers, PopWait(t)
         PROVE  m <= Cardinality(B)
    <2>1. A \subseteq B
      BY <1>11 DEF PopWait, Goto, TowardsSlots
    <2> QED BY <1>3, <1>4, <1>11, <2>1 DEF PopWait, ring
  <1>12. ASSUME NEW t \in Consumers, PopTake(t)
         PROVE  m <= Cardinality(B)
    <2>1. A \subseteq B /\ t \in B /\ t \notin A
      BY <1>12 DEF PopTake, Goto, TowardsSlots, Threads
    <2>2. m <= n + 1
      BY <1>1, <1>12 DEF PopTake
    <2> QED BY <1>3, <1>12, <2>1, <2>2 DEF PopTake
  <1>13. ASSUME NEW t \in Consumers, PopSignal(t)
         PROVE  m <= Cardinality(B)
    <2>1. PICK w \in full : full' = full \ {w}
      BY <1>13 DEF PopSignal, Signal
    <2>2. t \in A /\ w \in B /\ w \notin A
      BY <1>13, <2>1 DEF PopSignal, Goto, SideInv, TowardsSlots, Threads
    <2>3. A \ {t} \subseteq B
      BY <1>13, <2>1 DEF PopSignal, Goto, TowardsSlots
    <2> QED BY <1>3, <1>4, <1>13, <2>1, <2>2, <2>3 DEF PopSignal, ring
  <1>14. ASSUME NEW t \in Threads, SpuriousWakeup(t)
         PROVE  m <= Cardinality(B)
    <2>1. A \subseteq B /\ full' \subseteq full
      BY <1>14 DEF SpuriousWakeup, TowardsSlots
    <2> QED BY <1>3, <1>4, <1>14, <2>1 DEF SpuriousWakeup, ring
  <1> QED BY <1>2, <1>5, <1>6, <1>7, <1>8, <1>9, <1>10, <1>11, <1>12, <1>13, <1>14
          DEF Next, Proceed, Threads

(***************************************************************************)
(* No wakeup is lost, for any number of threads and any size of the ring.  *)
(* The signals of lines 61 and 77, sent after the mutex is released, are   *)
(* enough to keep a blocked thread from sleeping beside work for it.       *)
(***************************************************************************)
THEOREM WakeupsSuffice == Spec => []NoLostWakeup
  <1>1. Init => ElementsSide /\ SlotsSide
    BY InitNoLostWakeup
  <1>2. /\ IInv /\ IInv' /\ ElementsSide /\ SlotsSide /\ [Next]_vars
        => ElementsSide' /\ SlotsSide'
    BY ElementsStep, SlotsStep
  <1>3. ElementsSide /\ SlotsSide => NoLostWakeup
    BY DEF ElementsSide, SlotsSide, NoLostWakeup
  <1> QED BY <1>1, <1>2, <1>3, Inductive, PTL DEF Spec

-------------------------------------------------------------------------------
(***************************************************************************)
(* Refinement.  The slots in use, read from the front, form a sequence of  *)
(* elements; a push appends to it, a pop takes its head.                   *)
(***************************************************************************)
ContentsOK ==
  /\ Contents \in Seq(Items)
  /\ Len(Contents) = count
  /\ \A i \in 1 .. count : Contents[i] = buffer[(out + i - 1) % Size]

(* The refinement mapping is a sequence of items as long as count says. *)
LEMMA ContentsSeq == IInv => ContentsOK
  <1> SUFFICES ASSUME IInv PROVE ContentsOK
    OBVIOUS
  <1>1. count \in Nat
    BY QueueAssumption DEF IInv, TypeOK
  <1>2. Contents \in [1 .. count -> Items]
    BY DEF IInv, SlotInv, Contents
  <1>3. Contents \in Seq(Items)
    BY <1>1, <1>2, SeqDef
  <1>4. Len(Contents) = count
    <2>1. DOMAIN Contents = 1 .. Len(Contents) /\ Len(Contents) \in Nat
      BY <1>3, LenProperties
    <2>2. 1 .. Len(Contents) = 1 .. count
      BY <2>1 DEF Contents
    <2>3. \A m, n \in Nat : 1 .. m = 1 .. n => m = n
      <3>1. \A m, n \in Nat : 1 .. m = 1 .. n => m <= n
        OBVIOUS
      <3> QED BY <3>1
    <2>4. Len(Contents) \in Nat
      BY <2>1
    <2> HIDE DEF Contents
    <2> QED BY <1>1, <2>2, <2>3, <2>4
  <1> QED BY <1>3, <1>4 DEF ContentsOK, Contents

(* The same in the next state. *)
LEMMA ContentsSeqNext == IInv' => ContentsOK'
  BY ContentsSeq, PTL

(* The empty ring is the empty queue. *)
LEMMA InitRefines == Init => Abstract!Init
  <1> SUFFICES ASSUME Init PROVE Abstract!Init
    OBVIOUS
  <1>1. Contents = << >>
    <2>1. IInv
      BY InitIInv
    <2>2. Contents \in Seq(Items) /\ Len(Contents) = 0
      BY <2>1, ContentsSeq DEF Init, ContentsOK
    <2> QED BY <2>2, EmptySeq
  <1> QED BY <1>1 DEF Abstract!Init, Init

(* A push takes effect in PushStore. *)
LEMMA StoreRefines ==
  ASSUME IInv, IInv', NEW p \in Producers, PushStore(p)
  PROVE  Abstract!Enqueue(elem[p])
  <1>1. /\ p \in Threads /\ elem[p] \in Items /\ count \in 0 .. Size - 1
        /\ count' = count + 1 /\ out' = out
    BY QueueAssumption DEF IInv, PushStore, Goto, SideInv, TypeOK, Threads
  <1>2. Len(Contents) < Size
    BY <1>1, ContentsSeq, QueueAssumption DEF ContentsOK
  <1>3. Contents' = Append(Contents, elem[p])
    <2>1. /\ Append(Contents, elem[p]) \in Seq(Items)
          /\ Len(Append(Contents, elem[p])) = count + 1
          /\ \A i \in 1 .. count : Append(Contents, elem[p])[i] = Contents[i]
          /\ Append(Contents, elem[p])[count + 1] = elem[p]
      BY <1>1, ContentsSeq, AppendProperties DEF ContentsOK
    <2>2. /\ Contents' \in Seq(Items)
          /\ Len(Contents') = count + 1
          /\ \A i \in 1 .. count + 1 : Contents'[i] = buffer'[(out + i - 1) % Size]
      BY <1>1, ContentsSeqNext DEF ContentsOK
    <2>3. buffer' = [buffer EXCEPT ![in] = elem[p]] /\ buffer \in [Slots -> Items \cup {Junk}]
      BY DEF PushStore, IInv, TypeOK
    <2>4. ASSUME NEW i \in 1 .. count PROVE Contents'[i] = Contents[i]
      <3>1. (out + i - 1) % Size # in
        BY <1>1, FreshSlot DEF IInv, TypeOK, RingInv
      <3>2. (out + i - 1) % Size \in Slots
        BY QueueAssumption DEF IInv, TypeOK, Slots
      <3>3. i \in 1 .. count + 1
        BY <1>1
      <3>4. Contents'[i] = buffer'[(out + i - 1) % Size]
        BY <2>2, <3>3
      <3>5. buffer'[(out + i - 1) % Size] = buffer[(out + i - 1) % Size]
        BY <2>3, <3>1, <3>2
      <3> QED BY <3>4, <3>5, ContentsSeq DEF ContentsOK
    <2>5. Contents'[count + 1] = elem[p]
      <3>1. (out + (count + 1) - 1) % Size = in
        BY <1>1, QueueAssumption DEF IInv, TypeOK, RingInv, Slots
      <3>2. in \in Slots
        BY DEF IInv, TypeOK
      <3> QED BY <1>1, <2>2, <2>3, <3>1, <3>2
    <2>6. \A i \in 1 .. count + 1 : Contents'[i] = Append(Contents, elem[p])[i]
      BY <1>1, <2>1, <2>4, <2>5
    <2> QED BY <2>1, <2>2, <2>6, SeqEqual
  <1> QED BY <1>2, <1>3 DEF Abstract!Enqueue, PushStore

(* A pop takes effect in PopTake. *)
LEMMA TakeRefines ==
  ASSUME IInv, IInv', NEW c \in Consumers, PopTake(c)
  PROVE  Abstract!Dequeue(c)
  <1>1. /\ count \in 1 .. Size /\ count' = count - 1
        /\ out \in Slots /\ out' = (out + 1) % Size /\ buffer' = buffer
    BY QueueAssumption DEF IInv, PopTake, TypeOK
  <1>2. Contents \in Seq(Items) /\ Len(Contents) = count /\ Contents # << >>
    BY <1>1, ContentsSeq, EmptySeq DEF ContentsOK
  <1>3. Contents' = Tail(Contents)
    <2>1. /\ Tail(Contents) \in Seq(Items)
          /\ Len(Tail(Contents)) = count - 1
          /\ \A i \in 1 .. count - 1 : Tail(Contents)[i] = Contents[i + 1]
      BY <1>2, HeadTailProperties
    <2>2. /\ Contents' \in Seq(Items)
          /\ Len(Contents') = count - 1
          /\ \A i \in 1 .. count - 1 : Contents'[i] = buffer[(out' + i - 1) % Size]
      BY <1>1, ContentsSeqNext DEF ContentsOK
    <2>3. ASSUME NEW i \in 1 .. count - 1 PROVE Contents'[i] = Contents[i + 1]
      <3>1. i \in 1 .. Size /\ i + 1 \in 1 .. count
        BY <1>1, QueueAssumption
      <3>2. (out' + i - 1) % Size = (out + i) % Size
        BY <1>1, <3>1, Renumber
      <3>3. (out + (i + 1) - 1) % Size = (out + i) % Size
        BY <1>1 DEF Slots
      <3> QED BY <2>2, <3>1, <3>2, <3>3, ContentsSeq DEF ContentsOK
    <2> QED BY <2>1, <2>2, <2>3, SeqEqual
  <1>4. got' = [got EXCEPT ![c] = Head(Contents)]
    <2>1. Head(Contents) = Contents[1]
      BY <1>2
    <2>2. Contents[1] = buffer[(out + 1 - 1) % Size]
      BY <1>1, ContentsSeq DEF ContentsOK
    <2>3. (out + 1 - 1) % Size = out
      BY <1>1, ModBasic, QueueAssumption DEF Slots
    <2> QED BY <2>1, <2>2, <2>3 DEF PopTake
  <1> QED BY <1>2, <1>3, <1>4 DEF Abstract!Dequeue

(* Every step is a step of the abstract queue or changes nothing in it. *)
LEMMA NextRefines ==
  ASSUME IInv, IInv', [Next]_vars
  PROVE  Abstract!Next \/ UNCHANGED <<Contents, got>>
  <1>1. CASE UNCHANGED vars
    BY <1>1 DEF vars, Contents
  <1>2. ASSUME NEW t \in Producers, PushStore(t)
        PROVE  Abstract!Next
    <2>1. elem[t] \in Items
      BY <1>2 DEF IInv, PushStore, Goto, SideInv, Threads
    <2> QED BY <1>2, <2>1, StoreRefines DEF Abstract!Next
  <1>3. ASSUME NEW t \in Consumers, PopTake(t)
        PROVE  Abstract!Next
    BY <1>3, TakeRefines DEF Abstract!Next
  <1>4. ASSUME NEW t \in Threads,
               \/ \E x \in Items : PushCall(t, x)
               \/ PopCall(t) \/ Lock(t) \/ SpuriousWakeup(t)
               \/ PushWait(t) \/ PushSignal(t) \/ PopWait(t) \/ PopSignal(t)
        PROVE  UNCHANGED <<Contents, got>>
    BY <1>4 DEF PushCall, PopCall, Lock, PushLock, PopLock, SpuriousWakeup,
                PushWait, PushSignal, PopWait, PopSignal, ring, Contents
  <1> QED BY <1>1, <1>2, <1>3, <1>4 DEF Next, Proceed, Threads

(***************************************************************************)
(* The queue of asgn3/queue.c implements the atomic FIFO queue: whatever   *)
(* the interleaving, the elements popped are those pushed, in order, each  *)
(* once, and a call takes effect at one point inside its critical section. *)
(***************************************************************************)
THEOREM Refinement == Spec => ImplementsFifo
  <1>1. IInv /\ IInv' /\ [Next]_vars => [Abstract!Next]_<<Contents, got>>
    BY NextRefines
  <1> QED BY <1>1, InitRefines, Inductive, PTL DEF Spec, ImplementsFifo, Abstract!Spec

===============================================================================
