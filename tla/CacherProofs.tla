----------------------------- MODULE CacherProofs -----------------------------
(***************************************************************************)
(* Proofs about Cacher, for every set of items, every size of the cache,   *)
(* every set of policies and every number of accesses: the types, who owns *)
(* each string, and the two counters of misses.                            *)
(***************************************************************************)
EXTENDS Cacher, FiniteSetTheorems, FunctionTheorems, SequenceTheorems, TLAPS

(***************************************************************************)
(* The inductive invariant.  PhaseInv: only CLOCK is ever in the middle of *)
(* an insertion, and then it has printed one answer less than it has read. *)
(* PlaceInv: the slots in use are those below count, and no string is in   *)
(* two places.  LiveInv: the strings allocated are those in the places,    *)
(* never more than there were accesses, so that one more can be allocated. *)
(* TextInv: no two slots hold the same text, nor does the item on its way  *)
(* in; and the texts that are allocated are those that were accessed,      *)
(* which is why looking in the set of evicted items is enough to tell a    *)
(* compulsory miss.  CountInv is about the counters.                       *)
(***************************************************************************)
Used    == 0 .. count - 1
Evicted == 1 .. Len(reqItems)
Texts   == {text[p] : p \in live}
Missed  == {n \in 1 .. Len(answers) : answers[n] = "MISS"}

PhaseInv ==
  /\ phase = "sweep" => policy = "CLOCK" /\ data \in Ptrs
  /\ Len(history) = Len(answers) + (IF phase = "sweep" THEN 1 ELSE 0)

PlaceInv ==
  /\ \A i \in Slots : IsItem(list[i]) <=> i < count
  /\ \A i, j \in Used : list[i].data = list[j].data => i = j
  /\ \A i, j \in Evicted : reqItems[i] = reqItems[j] => i = j
  /\ InCache \cap InSet = {} /\ Moving \cap (InCache \cup InSet) = {}

LiveInv ==
  /\ live = IF phase = "done" THEN {} ELSE InCache \cup InSet \cup Moving
  /\ IsFiniteSet(live) /\ Cardinality(live) <= Len(history)

TextInv ==
  /\ \A p, q \in InCache : text[p] = text[q] => p = q
  /\ phase = "sweep" => \A p \in InCache : text[p] # text[data]
  /\ phase # "done" => Accessed = Texts

CountInv ==
  /\ IsFiniteSet(Accessed) /\ comMiss = Cardinality(Accessed)
  /\ comMiss + capMiss = Cardinality(Missed) + (IF phase = "sweep" THEN 1 ELSE 0)

IInv == TypeOK /\ PhaseInv /\ PlaceInv /\ LiveInv /\ TextInv /\ CountInv

-------------------------------------------------------------------------------
(***************************************************************************)
(* The slots.                                                              *)
(***************************************************************************)
Cell  == [data : Ptrs, refBit : {0, 1}]
Array == [Slots -> {Null} \cup Cell]

(* A struct is not NULL. *)
LEMMA CellIsItem == \A c \in Cell : IsItem(c)
  <1> SUFFICES ASSUME NEW c \in Cell PROVE c # Null
    BY DEF IsItem
  <1>1. "data" \in DOMAIN c /\ "data" \notin DOMAIN Null
    BY DEF Cell, Null
  <1> QED BY <1>1

(* create_item's result. *)
LEMMA ItemIsCell == \A p \in Ptrs : Item(p) \in Cell /\ Item(p).data = p /\ Item(p).refBit = 0
  BY DEF Item, Cell

(* The slots in use hold structs with a string. *)
LEMMA UsedCells ==
  ASSUME TypeOK, PlaceInv
  PROVE  \A i \in Used : i \in Slots /\ list[i] \in Cell /\ list[i].data \in Ptrs
  <1> SUFFICES ASSUME NEW i \in Used
               PROVE  i \in Slots /\ list[i] \in Cell /\ list[i].data \in Ptrs
    OBVIOUS
  <1>1. i \in Slots /\ i < count
    BY CacherAssumption DEF Used, Slots, TypeOK
  <1>2. list[i] \in Cell
    BY <1>1 DEF PlaceInv, IsItem, TypeOK, Cell
  <1> QED BY <1>1, <1>2 DEF Cell

(* Storing a new struct changes one slot. *)
LEMMA StoredAt ==
  ASSUME NEW slots \in Array, NEW n \in Slots, NEW p \in Ptrs
  PROVE  /\ Stored(slots, n, p) \in Array
         /\ Stored(slots, n, p)[n] = Item(p)
         /\ \A j \in Slots \ {n} : Stored(slots, n, p)[j] = slots[j]
  BY ItemIsCell DEF Stored, Array

(* remove_first and cache_append: the slots behind the one removed move up. *)
LEMMA MovedUp ==
  ASSUME TypeOK, PlaceInv, NEW i \in Used, NEW p \in Ptrs, NEW new,
         new = Stored(Without(i), count - 1, p)
  PROVE  /\ new \in Array
         /\ \A j \in Slots : IsItem(new[j]) <=> j < count
         /\ \A j \in 0 .. i - 1 : new[j] = list[j]
         /\ \A j \in i .. count - 2 : new[j] = list[j + 1]
         /\ new[count - 1] = Item(p)
  <1>1. count \in 1 .. Size /\ i \in Slots /\ count - 1 \in Slots
    BY CacherAssumption DEF Used, TypeOK, Slots
  <1>2. list \in Array
    BY DEF TypeOK, Array, Cell
  <1>3. Without(i) \in Array
    BY <1>1, <1>2, CacherAssumption DEF Without, Array, Slots
  <1>4. \A j \in Slots : Without(i)[j] = IF j \in i .. count - 2 THEN list[j + 1] ELSE list[j]
    BY DEF Without
  <1>5. /\ new \in Array /\ new[count - 1] = Item(p)
        /\ \A j \in Slots \ {count - 1} : new[j] = Without(i)[j]
    BY <1>1, <1>3, StoredAt
  <1>6. \A j \in 0 .. i - 1 : new[j] = list[j]
    BY <1>1, <1>4, <1>5, CacherAssumption DEF Used, Slots
  <1>7. \A j \in i .. count - 2 : new[j] = list[j + 1]
    BY <1>1, <1>4, <1>5, CacherAssumption DEF Used, Slots
  <1>8. ASSUME NEW j \in Slots PROVE IsItem(new[j]) <=> j < count
    <2>1. CASE j = count - 1
      BY <2>1, <1>1, <1>5, ItemIsCell, CellIsItem DEF Slots
    <2>2. CASE j \in 0 .. i - 1
      BY <2>2, <1>1, <1>6 DEF PlaceInv, Slots, Used
    <2>3. CASE j \in i .. count - 2
      <3>1. j + 1 \in Slots /\ j + 1 < count /\ j < count
        BY <2>3, <1>1, CacherAssumption DEF Slots
      <3> QED BY <3>1, <2>3, <1>7 DEF PlaceInv
    <2>4. CASE j >= count
      <3>1. new[j] = list[j]
        BY <2>4, <1>1, <1>4, <1>5 DEF Slots
      <3> QED BY <3>1 DEF PlaceInv
    <2> QED BY <2>1, <2>2, <2>3, <2>4, <1>1, CacherAssumption DEF Slots, Used
  <1> QED BY <1>5, <1>6, <1>7, <1>8


-------------------------------------------------------------------------------
(***************************************************************************)
(* What the code looks up, and what strdup returns.                        *)
(***************************************************************************)
(* Every set of natural numbers that is not empty has a least element. *)
LEMMA Least ==
  ASSUME NEW S \in SUBSET Nat, S # {}
  PROVE  \E i \in S : \A j \in S : i <= j
  <1>1. PICK i \in S : \A j \in S : ~(<<j, i>> \in OpToRel(<, Nat))
    BY NatLessThanWellFounded, WFMin
  <1>2. \A j \in S : j \in Nat /\ ~(j < i)
    BY <1>1 DEF OpToRel
  <1> QED BY <1>2

(* The position of an item that is in the cache is a slot that holds it. *)
LEMMA PositionFound ==
  ASSUME TypeOK, NEW x, Contains(x)
  PROVE  Position(x) \in Used /\ text[list[Position(x)].data] = x
  <1>1. Found(x) \in SUBSET Nat /\ Found(x) # {}
    BY DEF Found, Contains, TypeOK
  <1>2. \E i \in Found(x) : \A j \in Found(x) : i <= j
    BY <1>1, Least
  <1>3. Position(x) \in Found(x)
    BY <1>2 DEF Position
  <1> QED BY <1>3 DEF Found, Used

(* As long as accesses are read, there is an address that is not in use. *)
LEMMA FreshFree ==
  ASSUME TypeOK, LiveInv, Len(history) < MaxRequests
  PROVE  Fresh \in Ptrs /\ Fresh \notin live
  <1>1. live \in SUBSET Ptrs /\ Len(history) \in Nat
    BY DEF TypeOK
  <1>2. Cardinality(live) \in Nat /\ Cardinality(Ptrs) \in Nat
    BY FS_CardinalityType, CacherAssumption DEF LiveInv
  <1>3. Cardinality(live) < Cardinality(Ptrs)
    BY <1>1, <1>2, CacherAssumption DEF LiveInv
  <1>4. \E p \in Ptrs : p \notin live
    <2>1. live # Ptrs
      BY <1>2, <1>3
    <2> QED BY <2>1, <1>1
  <1> QED BY <1>4 DEF Fresh

(* The hand stays within the array. *)
LEMMA HandInSlots == hand \in Slots => HandMoved \in Slots
  BY CacherAssumption DEF HandMoved, Slots

-------------------------------------------------------------------------------
(***************************************************************************)
(* Initially.                                                              *)
(***************************************************************************)
LEMMA InitIInv == Init => IInv
  <1> SUFFICES ASSUME Init PROVE IInv
    OBVIOUS
  <1>1. count = 0 /\ reqItems = << >> /\ live = {} /\ phase = "read"
        /\ history = << >> /\ answers = << >> /\ comMiss = 0 /\ capMiss = 0
    BY DEF Init, CacheCreate
  <1>2. TypeOK
    BY <1>1, CacherAssumption DEF Init, CacheCreate, TypeOK, Slots
  <1>3. Used = {} /\ Evicted = {} /\ Accessed = {} /\ Missed = {} /\ Texts = {}
    BY <1>1 DEF Used, Evicted, Accessed, Missed, Texts
  <1>4. InCache = {} /\ InSet = {} /\ Moving = {}
    BY <1>1 DEF InCache, InSet, Moving
  <1>5. PhaseInv
    BY <1>1 DEF PhaseInv
  <1>6. PlaceInv
    BY <1>1, <1>3, CacherAssumption DEF PlaceInv, Init, CacheCreate, IsItem, Slots
  <1>7. LiveInv
    BY <1>1, <1>4, FS_EmptySet DEF LiveInv
  <1>8. TextInv
    BY <1>1, <1>3, <1>4 DEF TextInv
  <1>9. CountInv
    BY <1>1, <1>3, FS_EmptySet DEF CountInv
  <1> QED BY <1>2, <1>5, <1>6, <1>7, <1>8, <1>9 DEF IInv

-------------------------------------------------------------------------------
(***************************************************************************)
(* The types.                                                              *)
(***************************************************************************)
LEMMA SetAddTypes ==
  ASSUME TypeOK, NEW v \in Ptrs, NEW new \in SUBSET Ptrs, SetAdd(v, new)
  PROVE  reqItems' \in Seq(Ptrs) /\ live' \subseteq Ptrs
  <1>1. live \subseteq Ptrs /\ reqItems \in Seq(Ptrs)
    BY DEF TypeOK
  <1>2. CASE SetContains(text[v])
    BY <1>1, <1>2 DEF SetAdd
  <1>3. CASE ~SetContains(text[v])
    <2>1. Append(reqItems, v) \in Seq(Ptrs)
      BY <1>1
    <2> QED BY <1>1, <1>3, <2>1 DEF SetAdd
  <1> QED BY <1>2, <1>3

(* CountMiss counts one more miss, one way or the other. *)
LEMMA OneMore ==
  ASSUME TypeOK, NEW x, CountMiss(x)
  PROVE  comMiss' \in Nat /\ capMiss' \in Nat /\ comMiss' + capMiss' = comMiss + capMiss + 1
  <1>1. CASE SetContains(x)
    BY <1>1 DEF CountMiss, TypeOK
  <1>2. CASE ~SetContains(x)
    BY <1>2 DEF CountMiss, TypeOK
  <1> QED BY <1>1, <1>2

(* The types are preserved by every step, in a state that satisfies the    *)
(* invariant.                                                              *)
LEMMA NextTypes ==
  ASSUME IInv, [Next]_vars
  PROVE  TypeOK'
  <1>0. TypeOK /\ PlaceInv /\ LiveInv /\ PhaseInv
    BY DEF IInv
  <1>1. list \in Array
    BY <1>0 DEF TypeOK, Array, Cell
  <1> DEFINE Rest == /\ policy' \in Policies /\ phase' \in {"read", "sweep", "done"}
                     /\ count' \in 0 .. Size /\ hand' \in Slots /\ data' \in Ptrs \cup {0}
                     /\ comMiss' \in Nat /\ capMiss' \in Nat
                     /\ reqItems' \in Seq(Ptrs)
                     /\ text' \in [Ptrs -> Items \cup {NoItem}] /\ live' \subseteq Ptrs
                     /\ history' \in Seq(Items) /\ answers' \in Seq({"HIT", "MISS"})
  <1> SUFFICES list' \in Array /\ Rest
    BY DEF TypeOK, Array, Cell
  <1>2. ASSUME NEW x \in Items, NEW p, NEW slots \in Array, Hit(x, p, slots)
        PROVE  list' \in Array /\ Rest
    BY <1>0, <1>2 DEF Hit, Read, TypeOK, misses, heap
  <1>3. ASSUME NEW x \in Items, HitFIFO(x) PROVE list' \in Array /\ Rest
    BY <1>1, <1>2, <1>3 DEF HitFIFO
  <1>4. ASSUME NEW x \in Items, HitLRU(x) PROVE list' \in Array /\ Rest
    <2>1. Contains(x)
      BY <1>4 DEF HitLRU, Hit
    <2>2. Position(x) \in Used /\ list[Position(x)].data \in Ptrs
      BY <2>1, <1>0, PositionFound, UsedCells
    <2>3. MovedToEnd(x) \in Array
      BY <2>2, <1>0, MovedUp DEF MovedToEnd
    <2> QED BY <2>3, <1>2, <1>4 DEF HitLRU
  <1>5. ASSUME NEW x \in Items, HitCLOCK(x) PROVE list' \in Array /\ Rest
    <2>1. Contains(x)
      BY <1>5 DEF HitCLOCK, Hit
    <2>2. Position(x) \in Slots /\ list[Position(x)] \in Cell
      BY <2>1, <1>0, PositionFound, UsedCells
    <2>3. [list EXCEPT ![Position(x)].refBit = 1] \in Array
      BY <2>2, <1>1 DEF Array, Cell
    <2> QED BY <2>3, <1>2, <1>5 DEF HitCLOCK
  <1>6. ASSUME NEW x \in Items, Miss(x) PROVE list' \in Array /\ Rest
    <2>1. Fresh \in Ptrs
      BY <1>0, <1>6, FreshFree DEF Miss, Read
    <2>2. comMiss' \in Nat /\ capMiss' \in Nat
      BY <1>0, <1>6, OneMore DEF Miss
    <2>3. text' \in [Ptrs -> Items \cup {NoItem}]
      BY <1>0, <1>6, <2>1 DEF Miss, TypeOK
    <2>4. CASE count = Size
      <3>1. 0 \in Used /\ list[0].data \in Ptrs
        BY <1>0, <2>4, UsedCells, CacherAssumption DEF Used
      <3>2. list' \in Array
        BY <3>1, <2>1, <2>4, <1>0, <1>6, MovedUp DEF Miss
      <3>3. reqItems' \in Seq(Ptrs) /\ live' \subseteq Ptrs
        BY <3>1, <2>1, <2>4, <1>0, <1>6, SetAddTypes DEF Miss
      <3> QED BY <3>2, <3>3, <2>2, <2>3, <2>4, <1>0, <1>6 DEF Miss, Read, TypeOK
    <2>5. CASE count # Size
      <3>1. count \in Slots /\ count + 1 \in 0 .. Size
        BY <1>0, <2>5, CacherAssumption DEF TypeOK, Slots
      <3>2. list' \in Array
        BY <3>1, <2>1, <2>5, <1>1, <1>6, StoredAt DEF Miss
      <3> QED BY <3>1, <3>2, <2>1, <2>2, <2>3, <2>5, <1>0, <1>6 DEF Miss, Read, TypeOK
    <2> QED BY <2>4, <2>5
  <1>7. ASSUME NEW x \in Items, MissCLOCK(x) PROVE list' \in Array /\ Rest
    <2>1. Fresh \in Ptrs
      BY <1>0, <1>7, FreshFree DEF MissCLOCK, Read
    <2>2. comMiss' \in Nat /\ capMiss' \in Nat
      BY <1>0, <1>7, OneMore DEF MissCLOCK
    <2>3. text' \in [Ptrs -> Items \cup {NoItem}]
      BY <1>0, <1>7, <2>1 DEF MissCLOCK, TypeOK
    <2> QED BY <2>1, <2>2, <2>3, <1>0, <1>1, <1>7 DEF MissCLOCK, Read, TypeOK, cache
  <1>8. CASE ClockPasses
    <2>1. list[hand] \in Cell /\ hand \in Slots
      BY <1>0, <1>8 DEF ClockPasses, TypeOK, IsItem, Cell
    <2>2. list' \in Array
      BY <1>1, <1>8, <2>1 DEF ClockPasses, BitCleared, Array, Cell
    <2> QED BY <2>2, <1>0, <1>8, HandInSlots DEF ClockPasses, TypeOK, misses, heap
  <1>9. ASSUME Inserted, TypeOK, phase = "sweep"
        PROVE  hand' \in Slots /\ phase' = "read" /\ answers' \in Seq({"HIT", "MISS"})
    BY <1>9, HandInSlots DEF Inserted, TypeOK
  <1>10. CASE ClockReplaces
    <2>1. list[hand] \in Cell /\ hand \in Slots /\ data \in Ptrs
      BY <1>0, <1>10 DEF ClockReplaces, TypeOK, IsItem, Cell, PhaseInv
    <2>2. list' \in Array
      BY <1>1, <1>10, <2>1, ItemIsCell DEF ClockReplaces, Array
    <2>3. list[hand].data \in Ptrs
      BY <2>1 DEF Cell
    <2>4. reqItems' \in Seq(Ptrs) /\ live' \subseteq Ptrs
      BY <1>0, <1>10, <2>3, SetAddTypes DEF ClockReplaces
    <2> QED BY <2>2, <2>4, <1>0, <1>9, <1>10 DEF ClockReplaces, TypeOK, misses
  <1>11. CASE ClockFills
    <2>1. hand \in Slots /\ data \in Ptrs
      BY <1>0, <1>11 DEF ClockFills, TypeOK, PhaseInv
    <2>2. count' \in 0 .. Size /\ list' \in Array
      <3>1. CASE count = Size
        BY <3>1, <1>0, <1>1, <1>11 DEF ClockFills, TypeOK, cache
      <3>2. CASE count # Size
        <4>1. count \in Slots /\ count + 1 \in 0 .. Size
          BY <1>0, <3>2, CacherAssumption DEF TypeOK, Slots
        <4> QED BY <4>1, <3>2, <2>1, <1>1, <1>11, StoredAt DEF ClockFills
      <3> QED BY <3>1, <3>2
    <2> QED BY <2>2, <1>0, <1>9, <1>11 DEF ClockFills, TypeOK, misses, heap
  <1>12. CASE Finish
    BY <1>0, <1>1, <1>12 DEF Finish, TypeOK, cache, misses
  <1>13. CASE UNCHANGED vars
    BY <1>0, <1>1, <1>13 DEF vars, TypeOK, cache, misses, heap
  <1> QED BY <1>3, <1>4, <1>5, <1>6, <1>7, <1>8, <1>10, <1>11, <1>12, <1>13 DEF Next, Sweep, Terminated

-------------------------------------------------------------------------------
(***************************************************************************)
(* What the steps do to the places that hold strings.                      *)
(***************************************************************************)
SameStrings ==
  /\ \A i \in Slots : IsItem(list'[i]) <=> IsItem(list[i])
  /\ \A i \in Used : list'[i].data = list[i].data
  /\ UNCHANGED <<count, reqItems, data>>

(* Setting or clearing a reference bit leaves the strings where they are. *)
LEMMA BitOnly ==
  ASSUME TypeOK, PlaceInv, NEW i \in Used, NEW b \in {0, 1},
         list' = [list EXCEPT ![i].refBit = b], UNCHANGED <<count, reqItems, data>>
  PROVE  SameStrings
  <1>1. i \in Slots /\ list[i] \in Cell /\ list \in Array
    BY UsedCells DEF TypeOK, Array, Cell
  <1>2. \A j \in Slots \ {i} : list'[j] = list[j]
    BY <1>1 DEF Array
  <1>3. list'[i] = [list[i] EXCEPT !.refBit = b]
    BY <1>1 DEF Array
  <1>4. list'[i] \in Cell /\ list'[i].data = list[i].data
    BY <1>1, <1>3 DEF Cell
  <1>5. IsItem(list'[i]) /\ IsItem(list[i])
    BY <1>1, <1>4, CellIsItem
  <1>6. \A j \in Used : j \in Slots
    BY UsedCells
  <1> QED BY <1>2, <1>4, <1>5, <1>6 DEF SameStrings

(* The slots in use when the hand is at one that is. *)
LEMMA HandUsed ==
  ASSUME TypeOK, PlaceInv
  PROVE  /\ IsItem(list[hand]) => hand \in Used
         /\ ~IsItem(list[hand]) => count < Size /\ count \in Slots
  BY CacherAssumption DEF TypeOK, PlaceInv, Used, Slots

(* A hit of FIFO moves nothing. *)
LEMMA HitFIFOFacts == ASSUME IInv, NEW x, HitFIFO(x) PROVE SameStrings
  BY DEF HitFIFO, Hit, SameStrings

(* A hit of CLOCK sets a bit, and no string. *)
LEMMA HitCLOCKFacts == ASSUME IInv, NEW x, HitCLOCK(x) PROVE SameStrings
  <1>1. Position(x) \in Used
    BY PositionFound DEF HitCLOCK, Hit, IInv
  <1> QED BY <1>1, BitOnly DEF HitCLOCK, Hit, IInv

(* The hand clears a bit, and moves no string. *)
LEMMA ClockPassesFacts == ASSUME IInv, ClockPasses PROVE SameStrings
  <1>1. hand \in Used
    BY HandUsed DEF ClockPasses, IInv
  <1> QED BY <1>1, BitOnly DEF ClockPasses, BitCleared, IInv

(* Where the string that is in slot a after a move was before it. *)
Origin(i, a) == IF a < i THEN a ELSE IF a < count - 1 THEN a + 1 ELSE i

(* A hit under LRU permutes the strings in the slots. *)
LEMMA HitLRUFacts ==
  ASSUME IInv, NEW x, HitLRU(x)
  PROVE  /\ Position(x) \in Used /\ text[list[Position(x)].data] = x
         /\ \A i \in Slots : IsItem(list'[i]) <=> i < count
         /\ \A a \in Used : list'[a].data = list[Origin(Position(x), a)].data
         /\ UNCHANGED <<count, reqItems, data>>
  <1>1. Position(x) \in Used /\ text[list[Position(x)].data] = x
    BY PositionFound DEF HitLRU, Hit, IInv
  <1> DEFINE i == Position(x)
             p == list[i].data
  <1>2. p \in Ptrs /\ TypeOK /\ PlaceInv
    BY <1>1, UsedCells DEF IInv
  <1>3. list' = Stored(Without(i), count - 1, p)
    BY DEF HitLRU, Hit, MovedToEnd
  <1>4. /\ \A j \in Slots : IsItem(list'[j]) <=> j < count
        /\ \A j \in 0 .. i - 1 : list'[j] = list[j]
        /\ \A j \in i .. count - 2 : list'[j] = list[j + 1]
        /\ list'[count - 1] = Item(p)
    <2> HIDE DEF i, p
    <2> QED BY <1>1, <1>2, <1>3, MovedUp DEF i
  <1>5. count \in Nat /\ i \in 0 .. count - 1
    BY <1>1, <1>2 DEF TypeOK, Used
  <1>6. ASSUME NEW a \in Used PROVE list'[a].data = list[Origin(i, a)].data
    <2>1. a \in 0 .. i - 1 \/ a \in i .. count - 2 \/ a = count - 1
      BY <1>5 DEF Used
    <2>2. CASE a = count - 1
      BY <2>2, <1>2, <1>4, <1>5, ItemIsCell DEF Origin
    <2>3. CASE a # count - 1
      BY <2>1, <2>3, <1>4, <1>5 DEF Origin
    <2> QED BY <2>2, <2>3
  <1> QED BY <1>1, <1>4, <1>6 DEF HitLRU, Hit

(* Such a move loses no slot and doubles none. *)
LEMMA OriginPermutes ==
  ASSUME TypeOK, NEW i \in Used
  PROVE  /\ \A a \in Used : Origin(i, a) \in Used
         /\ \A a, b \in Used : Origin(i, a) = Origin(i, b) => a = b
         /\ \A b \in Used : \E a \in Used : Origin(i, a) = b
  <1>1. count \in Nat /\ i \in 0 .. count - 1
    BY DEF TypeOK, Used
  <1>2. \A a \in Used : Origin(i, a) \in Used
    BY <1>1 DEF Used, Origin
  <1>3. \A a, b \in Used : Origin(i, a) = Origin(i, b) => a = b
    BY <1>1 DEF Used, Origin
  <1>4. ASSUME NEW b \in Used PROVE \E a \in Used : Origin(i, a) = b
    <2> DEFINE a == IF b < i THEN b ELSE IF b = i THEN count - 1 ELSE b - 1
    <2>1. a \in Used /\ Origin(i, a) = b
      BY <1>1 DEF Used, Origin
    <2> QED BY <2>1
  <1> QED BY <1>2, <1>3, <1>4

(* A miss reads a new string into memory that was free. *)
LEMMA NewString ==
  ASSUME IInv, NEW x, Len(history) < MaxRequests, text' = [text EXCEPT ![Fresh] = x]
  PROVE  /\ Fresh \in Ptrs /\ Fresh \notin live /\ text'[Fresh] = x
         /\ \A p \in live : text'[p] = text[p]
  <1>1. Fresh \in Ptrs /\ Fresh \notin live
    BY FreshFree DEF IInv
  <1> QED BY <1>1 DEF IInv, TypeOK

(* Under FIFO and LRU it goes to the end, and when the cache is full the   *)
(* first string goes to the set and the others move up.                    *)
LEMMA MissFacts ==
  ASSUME IInv, NEW x, Miss(x)
  PROVE  /\ \A i \in Slots : IsItem(list'[i]) <=> i < count'
         /\ count < Size =>
              /\ count' = count + 1 /\ list'[count].data = Fresh
              /\ \A i \in Used : list'[i].data = list[i].data
              /\ reqItems' = reqItems /\ live' = live \cup {Fresh}
         /\ count = Size =>
              /\ count' = count /\ list'[count - 1].data = Fresh
              /\ \A i \in 0 .. count - 2 : list'[i].data = list[i + 1].data
              /\ SetAdd(list[0].data, {Fresh})
  <1>1. Fresh \in Ptrs /\ TypeOK /\ PlaceInv
    BY FreshFree DEF IInv, Miss, Read
  <1>2. CASE count = Size
    <2>1. 0 \in Used
      BY <1>1, <1>2, CacherAssumption DEF Used
    <2>2. list' = Stored(Without(0), count - 1, Fresh) /\ count' = count
          /\ SetAdd(list[0].data, {Fresh})
      BY <1>2 DEF Miss
    <2>3. /\ \A j \in Slots : IsItem(list'[j]) <=> j < count
          /\ \A j \in 0 .. count - 2 : list'[j] = list[j + 1]
          /\ list'[count - 1] = Item(Fresh)
      BY <2>1, <2>2, <1>1, MovedUp
    <2>4. list'[count - 1].data = Fresh
      BY <1>1, <2>3, ItemIsCell
    <2>5. \A j \in 0 .. count - 2 : list'[j].data = list[j + 1].data
      BY <2>3
    <2> QED BY <1>2, <2>2, <2>3, <2>4, <2>5, CacherAssumption
  <1>3. CASE count # Size
    <2>1. count \in Slots /\ count < Size
      BY <1>1, <1>3, CacherAssumption DEF TypeOK, Slots
    <2>2. list' = Stored(list, count, Fresh) /\ count' = count + 1
          /\ live' = live \cup {Fresh} /\ reqItems' = reqItems
      BY <1>3 DEF Miss
    <2>3. list \in Array
      BY <1>1 DEF TypeOK, Array, Cell
    <2>4. list'[count] = Item(Fresh) /\ \A j \in Slots \ {count} : list'[j] = list[j]
      BY <2>1, <2>2, <2>3, <1>1, StoredAt
    <2>5. ASSUME NEW i \in Slots PROVE IsItem(list'[i]) <=> i < count'
      <3>1. CASE i = count
        BY <3>1, <2>1, <2>2, <2>4, <1>1, ItemIsCell, CellIsItem DEF Slots
      <3>2. CASE i # count
        BY <3>2, <2>1, <2>2, <2>4, <1>1, CacherAssumption DEF PlaceInv, Slots
      <3> QED BY <3>1, <3>2
    <2>6. \A i \in Used : i \in Slots /\ i # count
      BY <1>1, UsedCells DEF Used, TypeOK
    <2>7. list'[count].data = Fresh
      BY <1>1, <2>4, ItemIsCell
    <2>8. \A i \in Used : list'[i].data = list[i].data
      BY <2>4, <2>6
    <2> QED BY <1>3, <2>1, <2>2, <2>5, <2>7, <2>8
  <1> QED BY <1>2, <1>3

(* The item that was on its way in takes the slot of its victim. *)
LEMMA ReplacesFacts ==
  ASSUME IInv, ClockReplaces
  PROVE  /\ hand \in Used /\ data \in Ptrs
         /\ \A i \in Slots : IsItem(list'[i]) <=> IsItem(list[i])
         /\ list'[hand] = Item(data) /\ list'[hand].data = data
         /\ \A i \in Slots \ {hand} : list'[i] = list[i]
         /\ count' = count /\ SetAdd(list[hand].data, {})
  <1>1. hand \in Used /\ data \in Ptrs /\ TypeOK /\ PlaceInv
    BY HandUsed DEF ClockReplaces, IInv, PhaseInv
  <1>2. hand \in Slots /\ list[hand] \in Cell
    BY <1>1, UsedCells
  <1>3. list'[hand] = Item(data) /\ \A i \in Slots \ {hand} : list'[i] = list[i]
    BY <1>1, <1>2 DEF ClockReplaces, TypeOK
  <1> QED BY <1>1, <1>2, <1>3, ItemIsCell, CellIsItem DEF ClockReplaces

(* Or the first free one, as long as there is one. *)
LEMMA FillsFacts ==
  ASSUME IInv, ClockFills
  PROVE  /\ count < Size /\ count \in Slots /\ count' = count + 1 /\ data \in Ptrs
         /\ \A i \in Slots : IsItem(list'[i]) <=> i < count'
         /\ list'[count] = Item(data) /\ list'[count].data = data
         /\ \A i \in Slots \ {count} : list'[i] = list[i]
         /\ UNCHANGED <<reqItems, live>>
  <1>1. count < Size /\ count \in Slots /\ data \in Ptrs /\ TypeOK /\ PlaceInv
    BY HandUsed DEF ClockFills, IInv, PhaseInv
  <1>2. list \in Array
    BY <1>1 DEF TypeOK, Array, Cell
  <1>3. list' = Stored(list, count, data) /\ count' = count + 1 /\ UNCHANGED <<reqItems, live>>
    <2>1. count # Size
      BY <1>1, CacherAssumption DEF Slots
    <2> QED BY <2>1 DEF ClockFills, heap
  <1>4. list'[count] = Item(data) /\ \A j \in Slots \ {count} : list'[j] = list[j]
    BY <1>1, <1>2, <1>3, StoredAt
  <1>5. ASSUME NEW i \in Slots PROVE IsItem(list'[i]) <=> i < count'
    <2>1. CASE i = count
      BY <2>1, <1>1, <1>3, <1>4, ItemIsCell, CellIsItem DEF Slots
    <2>2. CASE i # count
      BY <2>2, <1>1, <1>3, <1>4, CacherAssumption DEF PlaceInv, Slots
    <2> QED BY <2>1, <2>2
  <1> QED BY <1>1, <1>3, <1>4, <1>5, ItemIsCell

-------------------------------------------------------------------------------
(***************************************************************************)
(* Every string has one place.                                             *)
(***************************************************************************)
Owners == live = IF phase = "done" THEN {} ELSE InCache \cup InSet \cup Moving

(* set_add: the victim goes to the end of the set, or it is freed.         *)
LEMMA EvictedFacts ==
  ASSUME TypeOK, PlaceInv, NEW v \in InCache, v \in Ptrs, NEW new, SetAdd(v, new)
  PROVE  /\ \A i, j \in Evicted' : reqItems'[i] = reqItems'[j] => i = j
         /\ \/ /\ SetContains(text[v]) /\ InSet' = InSet
               /\ live' = (live \cup new) \ {v}
            \/ /\ ~SetContains(text[v]) /\ InSet' = InSet \cup {v}
               /\ live' = live \cup new
  <1>1. CASE SetContains(text[v])
    BY <1>1 DEF SetAdd, PlaceInv, Evicted, InSet
  <1>2. CASE ~SetContains(text[v])
    <2>1. reqItems' = Append(reqItems, v) /\ live' = live \cup new
      BY <1>2 DEF SetAdd
    <2>2. /\ Len(reqItems) \in Nat /\ Len(reqItems') = Len(reqItems) + 1
          /\ \A i \in Evicted : reqItems'[i] = reqItems[i]
          /\ reqItems'[Len(reqItems) + 1] = v
      BY <2>1 DEF TypeOK, Evicted
    <2>3. Evicted' = Evicted \cup {Len(reqItems) + 1}
      BY <2>2 DEF Evicted
    <2>4. InSet' = InSet \cup {v}
      <3>1. \A p : p \in InSet' <=> \E i \in Evicted' : reqItems'[i] = p
        BY DEF InSet, Evicted
      <3>2. \A p : p \in InSet <=> \E i \in Evicted : reqItems[i] = p
        BY DEF InSet, Evicted
      <3> QED BY <3>1, <3>2, <2>2, <2>3
    <2>5. \A i \in Evicted : reqItems[i] # v
      BY DEF PlaceInv, InSet, Evicted
    <2>6. \A i, j \in Evicted' : reqItems'[i] = reqItems'[j] => i = j
      BY <2>2, <2>3, <2>5 DEF PlaceInv
    <2> QED BY <1>2, <2>1, <2>4, <2>6
  <1> QED BY <1>1, <1>2

(* A step that leaves all strings where they are. *)
LEMMA SamePlaces ==
  ASSUME IInv, SameStrings, UNCHANGED <<phase, live>>
  PROVE  PlaceInv' /\ Owners' /\ InCache' = InCache /\ InSet' = InSet
  <1>1. Used' = Used /\ Evicted' = Evicted
    BY DEF SameStrings, Used, Evicted
  <1>2. InCache' = InCache
    <2>1. InCache = {list[i].data : i \in Used} /\ InCache' = {list'[i].data : i \in Used}
      BY <1>1 DEF InCache, Used
    <2>2. \A i \in Used : list'[i].data = list[i].data
      BY DEF SameStrings
    <2> QED BY <2>1, <2>2
  <1>3. InSet' = InSet /\ Moving' = Moving
    BY DEF SameStrings, InSet, Moving
  <1>4. PlaceInv'
    BY <1>1, <1>2, <1>3 DEF IInv, PlaceInv, SameStrings
  <1>5. Owners'
    BY <1>2, <1>3 DEF IInv, LiveInv, Owners
  <1> QED BY <1>2, <1>3, <1>4, <1>5

(* A hit under LRU: the strings change places among themselves. *)
LEMMA HitLRUPlaces ==
  ASSUME IInv, NEW x, HitLRU(x)
  PROVE  PlaceInv' /\ Owners' /\ InCache' = InCache /\ InSet' = InSet
  <1> DEFINE i == Position(x)
  <1>1. /\ i \in Used /\ TypeOK /\ PlaceInv
        /\ \A j \in Slots : IsItem(list'[j]) <=> j < count
        /\ \A a \in Used : list'[a].data = list[Origin(i, a)].data
        /\ count' = count /\ reqItems' = reqItems /\ data' = data
    BY HitLRUFacts DEF IInv
  <1>2. phase' = phase /\ live' = live
    BY DEF HitLRU, Hit, heap
  <1> HIDE DEF i
  <1>3. Used' = Used /\ Evicted' = Evicted
    BY <1>1 DEF Used, Evicted
  <1>4. InCache' = InCache
    <2>1. \A p : p \in InCache <=> \E b \in Used : list[b].data = p
      BY DEF InCache, Used
    <2>2. \A p : p \in InCache' <=> \E a \in Used : list'[a].data = p
      BY <1>3 DEF InCache, Used
    <2>3. /\ \A a \in Used : Origin(i, a) \in Used
          /\ \A b \in Used : \E a \in Used : Origin(i, a) = b
      BY <1>1, OriginPermutes
    <2>4. \A p : p \in InCache <=> p \in InCache'
      BY <2>1, <2>2, <2>3, <1>1
    <2> QED BY <2>4
  <1>5. InSet' = InSet /\ Moving' = Moving
    BY <1>1, <1>2 DEF InSet, Moving
  <1>6. \A a, b \in Used : list'[a].data = list'[b].data => a = b
    BY <1>1, OriginPermutes DEF PlaceInv
  <1>7. PlaceInv'
    BY <1>1, <1>3, <1>4, <1>5, <1>6 DEF PlaceInv
  <1>8. Owners'
    BY <1>2, <1>4, <1>5 DEF IInv, LiveInv, Owners
  <1> QED BY <1>4, <1>5, <1>7, <1>8

(* A miss under FIFO or LRU, with the strings that change places. *)
LEMMA MissPlaces ==
  ASSUME IInv, NEW x, Miss(x)
  PROVE  /\ PlaceInv' /\ Owners' /\ live' \subseteq live \cup {Fresh}
         /\ count < Size => InCache' = InCache \cup {Fresh} /\ InSet' = InSet
         /\ count = Size => InCache' = (InCache \ {list[0].data}) \cup {Fresh}
  <1>1. TypeOK /\ PlaceInv /\ Owners /\ phase = "read" /\ phase' = "read"
    BY DEF IInv, LiveInv, Owners, Miss, Read
  <1>2. Fresh \in Ptrs /\ Fresh \notin live
    BY NewString DEF Miss, Read
  <1>3. InCache \cap InSet = {} /\ live = InCache \cup InSet /\ Moving' = {} /\ Moving = {}
    BY <1>1 DEF PlaceInv, Owners, Moving
  <1>4. count \in 0 .. Size /\ Size \in Nat \ {0}
    BY <1>1, CacherAssumption DEF TypeOK
  <1>5. \A i \in Slots : IsItem(list'[i]) <=> i < count'
    BY MissFacts
  <1>6. \A p : p \in InCache <=> \E i \in Used : list[i].data = p
    BY DEF InCache, Used
  <1>7. \A p : p \in InCache' <=> \E i \in Used' : list'[i].data = p
    BY DEF InCache, Used
  <1>8. \A i, j \in Used : list[i].data = list[j].data => i = j
    BY <1>1 DEF PlaceInv
  <1>9. CASE count < Size
    <2>1. /\ count' = count + 1 /\ list'[count].data = Fresh
          /\ \A i \in Used : list'[i].data = list[i].data
          /\ reqItems' = reqItems /\ live' = live \cup {Fresh}
      BY <1>9, MissFacts
    <2>2. Used' = Used \cup {count} /\ Evicted' = Evicted
      BY <2>1, <1>4 DEF Used, Evicted
    <2>3. InCache' = InCache \cup {Fresh}
      BY <2>1, <2>2, <1>6, <1>7
    <2>4. InSet' = InSet
      BY <2>1 DEF InSet
    <2>5. \A i, j \in Used' : list'[i].data = list'[j].data => i = j
      <3>1. \A i \in Used : list[i].data # Fresh
        BY <1>2, <1>3, <1>6
      <3> QED BY <3>1, <2>1, <2>2, <1>8
    <2>6. PlaceInv'
      BY <2>1, <2>2, <2>3, <2>4, <2>5, <1>1, <1>2, <1>3, <1>5 DEF PlaceInv
    <2>7. Owners'
      BY <2>1, <2>3, <2>4, <1>1, <1>3 DEF Owners
    <2>8. live' \subseteq live \cup {Fresh}
      BY <2>1
    <2>9. count # Size
      BY <1>4, <1>9
    <2> QED BY <2>3, <2>4, <2>6, <2>7, <2>8, <2>9
  <1>10. CASE count = Size
    <2> DEFINE v == list[0].data
    <2>1. /\ count' = count /\ list'[count - 1].data = Fresh
          /\ \A i \in 0 .. count - 2 : list'[i].data = list[i + 1].data
          /\ SetAdd(v, {Fresh})
      BY <1>10, MissFacts
    <2>2. Used' = Used /\ 0 \in Used /\ count - 1 \in Used
      BY <2>1, <1>4, <1>10 DEF Used
    <2>3. v \in InCache /\ v \in Ptrs
      BY <2>2, <1>1, <1>6, UsedCells
    <2>4. /\ \A i, j \in Evicted' : reqItems'[i] = reqItems'[j] => i = j
          /\ \/ InSet' = InSet /\ live' = (live \cup {Fresh}) \ {v}
             \/ InSet' = InSet \cup {v} /\ live' = live \cup {Fresh}
      BY <2>1, <2>3, <1>1, EvictedFacts
    <2> HIDE DEF v
    <2>5. \A i \in Used : i = count - 1 \/ (i \in 0 .. count - 2 /\ i + 1 \in Used /\ i + 1 # 0)
      BY <1>4, <1>10 DEF Used
    <2>6. \A i \in Used : i = 0 \/ (i - 1 \in 0 .. count - 2 /\ i - 1 \in Used /\ i - 1 + 1 = i)
      BY <1>4, <1>10 DEF Used
    <2>7. InCache' = (InCache \ {v}) \cup {Fresh}
      <3>1. ASSUME NEW p \in InCache' PROVE p \in (InCache \ {v}) \cup {Fresh}
        BY <2>1, <2>2, <2>5, <1>6, <1>7, <1>8 DEF v
      <3>2. ASSUME NEW p \in InCache, p # v PROVE p \in InCache'
        <4>1. PICK i \in Used : list[i].data = p
          BY <1>6
        <4>2. i # 0
          BY <4>1, <3>2 DEF v
        <4>3. list'[i - 1].data = p /\ i - 1 \in Used
          BY <4>1, <4>2, <2>1, <2>6
        <4> QED BY <4>3, <2>2, <1>7
      <3>3. Fresh \in InCache'
        BY <2>1, <2>2, <1>7
      <3> QED BY <3>1, <3>2, <3>3
    <2>8. \A i, j \in Used' : list'[i].data = list'[j].data => i = j
      <3>1. \A i \in Used : list[i].data # Fresh
        BY <1>2, <1>3, <1>6
      <3>2. ASSUME NEW i \in Used, NEW j \in Used, list'[i].data = list'[j].data PROVE i = j
        <4>1. i = count - 1 <=> j = count - 1
          BY <3>1, <3>2, <2>1, <2>5
        <4>2. CASE i # count - 1
          <5>1. list[i + 1].data = list[j + 1].data /\ i + 1 \in Used /\ j + 1 \in Used
            BY <4>1, <4>2, <3>2, <2>1, <2>5
          <5>2. i + 1 = j + 1
            BY <5>1, <1>8
          <5> QED BY <5>2, <1>4 DEF Used
        <4> QED BY <4>1, <4>2
      <3> QED BY <3>2, <2>2
    <2>9. InCache' \cap InSet' = {}
      BY <2>3, <2>4, <2>7, <1>2, <1>3
    <2>10. PlaceInv'
      BY <2>4, <2>8, <2>9, <1>3, <1>5 DEF PlaceInv
    <2>11. live' = InCache' \cup InSet'
      BY <2>3, <2>4, <2>7, <1>2, <1>3
    <2>12. Owners'
      BY <2>11, <1>1, <1>3 DEF Owners
    <2>13. live' \subseteq live \cup {Fresh}
      BY <2>4
    <2>14. ~(count < Size)
      BY <1>4, <1>10
    <2> QED BY <2>7, <2>10, <2>12, <2>13, <2>14 DEF v
  <1> QED BY <1>4, <1>9, <1>10

(* A miss under CLOCK: the new string is on its way in. *)
LEMMA MissCLOCKPlaces ==
  ASSUME IInv, NEW x, MissCLOCK(x)
  PROVE  /\ PlaceInv' /\ Owners' /\ live' = live \cup {Fresh}
         /\ InCache' = InCache /\ InSet' = InSet
  <1>1. /\ PlaceInv /\ Owners /\ phase = "read" /\ phase' = "sweep" /\ data' = Fresh
        /\ UNCHANGED <<list, count, reqItems>> /\ live' = live \cup {Fresh}
    BY DEF IInv, LiveInv, Owners, MissCLOCK, Read, cache
  <1>2. Fresh \notin live
    BY NewString DEF MissCLOCK, Read
  <1>3. InCache' = InCache /\ InSet' = InSet /\ Used' = Used /\ Evicted' = Evicted
    BY <1>1 DEF InCache, InSet, Used, Evicted
  <1>4. Moving' = {Fresh} /\ live = InCache \cup InSet
    BY <1>1 DEF Moving, Owners
  <1>5. PlaceInv'
    BY <1>1, <1>2, <1>3, <1>4 DEF PlaceInv
  <1>6. Owners'
    BY <1>1, <1>3, <1>4 DEF Owners
  <1> QED BY <1>1, <1>3, <1>5, <1>6

(* It takes the place of its victim. *)
LEMMA ReplacesPlaces ==
  ASSUME IInv, ClockReplaces
  PROVE  /\ PlaceInv' /\ Owners' /\ live' \subseteq live
         /\ InCache' = (InCache \ {list[hand].data}) \cup {data}
  <1>1. /\ TypeOK /\ PlaceInv /\ Owners /\ phase = "sweep" /\ phase' = "read"
    BY DEF IInv, LiveInv, Owners, ClockReplaces, Inserted
  <1> DEFINE v == list[hand].data
  <1>2. /\ hand \in Used /\ data \in Ptrs
        /\ \A i \in Slots : IsItem(list'[i]) <=> IsItem(list[i])
        /\ list'[hand].data = data /\ \A i \in Slots \ {hand} : list'[i] = list[i]
        /\ count' = count /\ SetAdd(v, {})
    BY ReplacesFacts
  <1>3. /\ InCache \cap InSet = {} /\ data \notin InCache \cup InSet
        /\ live = InCache \cup InSet \cup {data} /\ Moving' = {}
    BY <1>1 DEF PlaceInv, Owners, Moving
  <1>4. v \in InCache /\ v \in Ptrs /\ Used' = Used /\ \A i \in Used : i \in Slots
    BY <1>1, <1>2, UsedCells DEF InCache, Used
  <1>5. /\ \A i, j \in Evicted' : reqItems'[i] = reqItems'[j] => i = j
        /\ \/ InSet' = InSet /\ live' = live \ {v}
           \/ InSet' = InSet \cup {v} /\ live' = live
    <2>1. \A S : S \cup {} = S
      OBVIOUS
    <2> QED BY <1>1, <1>2, <1>4, <2>1, EvictedFacts, ZenonT(60)
  <1> HIDE DEF v
  <1>6. \A p : p \in InCache <=> \E i \in Used : list[i].data = p
    BY DEF InCache, Used
  <1>7. \A p : p \in InCache' <=> \E i \in Used : list'[i].data = p
    BY <1>4 DEF InCache, Used
  <1>8. \A i \in Used : list'[i].data = IF i = hand THEN data ELSE list[i].data
    BY <1>2, <1>4
  <1>9. \A i, j \in Used : list[i].data = list[j].data => i = j
    BY <1>1 DEF PlaceInv
  <1>10. InCache' = (InCache \ {v}) \cup {data}
    BY <1>2, <1>6, <1>7, <1>8, <1>9 DEF v
  <1>11. \A i, j \in Used' : list'[i].data = list'[j].data => i = j
    <2>1. \A i \in Used : list[i].data # data
      BY <1>3, <1>6
    <2> QED BY <2>1, <1>4, <1>8, <1>9
  <1>12. InCache' \cap InSet' = {}
    BY <1>3, <1>4, <1>5, <1>10
  <1>13. PlaceInv'
    BY <1>1, <1>2, <1>3, <1>5, <1>11, <1>12 DEF PlaceInv
  <1>14. live' = InCache' \cup InSet'
    BY <1>3, <1>4, <1>5, <1>10
  <1>15. Owners'
    BY <1>14, <1>1, <1>3 DEF Owners
  <1>16. live' \subseteq live
    BY <1>5
  <1> QED BY <1>10, <1>13, <1>15, <1>16 DEF v

(* Or a place that was free. *)
LEMMA FillsPlaces ==
  ASSUME IInv, ClockFills
  PROVE  /\ PlaceInv' /\ Owners' /\ live' = live
         /\ InCache' = InCache \cup {data} /\ InSet' = InSet
  <1>1. TypeOK /\ PlaceInv /\ Owners /\ phase = "sweep" /\ phase' = "read"
    BY DEF IInv, LiveInv, Owners, ClockFills, Inserted
  <1>2. /\ count < Size /\ count \in Slots /\ count' = count + 1
        /\ \A i \in Slots : IsItem(list'[i]) <=> i < count'
        /\ list'[count].data = data /\ \A i \in Slots \ {count} : list'[i] = list[i]
        /\ reqItems' = reqItems /\ live' = live
    BY FillsFacts
  <1>3. /\ InCache \cap InSet = {} /\ data \notin InCache \cup InSet
        /\ live = InCache \cup InSet \cup {data} /\ Moving' = {}
    BY <1>1 DEF PlaceInv, Owners, Moving
  <1>4. Used' = Used \cup {count} /\ count \notin Used /\ Evicted' = Evicted /\ InSet' = InSet
    BY <1>2, CacherAssumption DEF Used, Evicted, InSet, Slots
  <1>5. \A i \in Used : list'[i].data = list[i].data
    BY <1>1, <1>2, <1>4, UsedCells
  <1>6. \A p : p \in InCache <=> \E i \in Used : list[i].data = p
    BY DEF InCache, Used
  <1>7. \A p : p \in InCache' <=> \E i \in Used' : list'[i].data = p
    BY DEF InCache, Used
  <1>8. InCache' = InCache \cup {data}
    BY <1>2, <1>4, <1>5, <1>6, <1>7
  <1>9. \A i, j \in Used' : list'[i].data = list'[j].data => i = j
    <2>1. \A i \in Used : list[i].data # data
      BY <1>3, <1>6
    <2> QED BY <2>1, <1>1, <1>2, <1>4, <1>5 DEF PlaceInv
  <1>10. PlaceInv'
    BY <1>1, <1>2, <1>3, <1>4, <1>8, <1>9 DEF PlaceInv
  <1>11. Owners'
    BY <1>1, <1>2, <1>3, <1>4, <1>8 DEF Owners
  <1> QED BY <1>2, <1>4, <1>8, <1>10, <1>11

(* main frees every string that is still allocated. *)
LEMMA FinishPlaces ==
  ASSUME IInv, Finish
  PROVE  PlaceInv' /\ Owners' /\ live' = {} /\ InCache' = InCache
  <1>1. /\ TypeOK /\ PlaceInv /\ Owners /\ phase = "read" /\ phase' = "done"
        /\ UNCHANGED <<list, count, reqItems, data>>
        /\ live' = live \ (CacheDestroy \cup SetDestroy)
    BY DEF IInv, LiveInv, Owners, Finish, cache
  <1>2. InCache' = InCache /\ InSet' = InSet /\ Used' = Used /\ Evicted' = Evicted
    BY <1>1 DEF InCache, InSet, Used, Evicted
  <1>3. Moving' = {} /\ live = InCache \cup InSet /\ SetDestroy = InSet
    BY <1>1 DEF Moving, Owners, SetDestroy, InSet
  <1>4. InCache \subseteq CacheDestroy
    <2> SUFFICES ASSUME NEW i \in Used PROVE list[i].data \in CacheDestroy
      BY DEF InCache, Used
    <2>1. i \in Slots /\ IsItem(list[i])
      BY <1>1, UsedCells, CellIsItem
    <2> QED BY <2>1 DEF CacheDestroy
  <1>5. live' = {}
    BY <1>1, <1>3, <1>4
  <1>6. PlaceInv'
    BY <1>1, <1>2, <1>3 DEF PlaceInv
  <1>7. Owners'
    BY <1>1, <1>5 DEF Owners
  <1> QED BY <1>2, <1>5, <1>6, <1>7

(* Every step leaves every string with one owner, and allocates at most    *)
(* one, when it reads an access.                                           *)
LEMMA NextPlaces ==
  ASSUME IInv, [Next]_vars
  PROVE  PlaceInv' /\ LiveInv'
  <1>1. /\ TypeOK /\ IsFiniteSet(live) /\ Cardinality(live) <= Len(history)
        /\ Len(history) \in Nat
    BY DEF IInv, LiveInv, TypeOK
  <1> DEFINE Bound == IsFiniteSet(live') /\ Cardinality(live') <= Len(history')
  <1>2. ASSUME live' \subseteq live, history' = history PROVE Bound
    <2>1. IsFiniteSet(live') /\ Cardinality(live') <= Cardinality(live)
      BY <1>1, <1>2, FS_Subset
    <2>2. Cardinality(live') \in Nat /\ Cardinality(live) \in Nat
      BY <1>1, <2>1, FS_CardinalityType
    <2> QED BY <1>1, <1>2, <2>1, <2>2
  <1>3. ASSUME NEW x \in Items, NEW p, live' \subseteq live \cup {p}, history' = Append(history, x)
        PROVE  Bound
    <2>0. Cardinality(live) \in Nat
      BY <1>1, FS_CardinalityType
    <2>1. /\ IsFiniteSet(live \cup {p})
          /\ Cardinality(live \cup {p}) <= Cardinality(live) + 1
      <3>1. /\ IsFiniteSet(live \cup {p})
            /\ Cardinality(live \cup {p}) = IF p \in live THEN Cardinality(live)
                                                           ELSE Cardinality(live) + 1
        BY <1>1, FS_AddElement
      <3> QED BY <3>1, <2>0
    <2>2. IsFiniteSet(live') /\ Cardinality(live') <= Cardinality(live \cup {p})
      BY <2>1, <1>3, FS_Subset
    <2>3. Cardinality(live') \in Nat /\ Cardinality(live \cup {p}) \in Nat
      BY <2>1, <2>2, FS_CardinalityType
    <2>4. Len(history') = Len(history) + 1
      BY <1>1, <1>3 DEF TypeOK
    <2> QED BY <1>1, <2>0, <2>1, <2>2, <2>3, <2>4
  <1> HIDE DEF Bound
  <1> SUFFICES PlaceInv' /\ Owners' /\ Bound
    BY DEF Owners, LiveInv, Bound
  <1>4. ASSUME NEW x \in Items, HitFIFO(x) \/ HitCLOCK(x) PROVE PlaceInv' /\ Owners' /\ Bound
    <2>1. UNCHANGED <<phase, live>> /\ history' = Append(history, x)
      BY <1>4 DEF HitFIFO, HitCLOCK, Hit, Read, heap
    <2> QED BY <2>1, <1>3, <1>4, HitFIFOFacts, HitCLOCKFacts, SamePlaces
  <1>5. ASSUME NEW x \in Items, HitLRU(x) PROVE PlaceInv' /\ Owners' /\ Bound
    <2>1. live' = live /\ history' = Append(history, x)
      BY <1>5 DEF HitLRU, Hit, Read, heap
    <2> QED BY <2>1, <1>3, <1>5, HitLRUPlaces
  <1>6. ASSUME NEW x \in Items, Miss(x) PROVE PlaceInv' /\ Owners' /\ Bound
    <2>1. history' = Append(history, x)
      BY <1>6 DEF Miss, Read
    <2> QED BY <2>1, <1>3, <1>6, MissPlaces
  <1>7. ASSUME NEW x \in Items, MissCLOCK(x) PROVE PlaceInv' /\ Owners' /\ Bound
    <2>1. history' = Append(history, x)
      BY <1>7 DEF MissCLOCK, Read
    <2> QED BY <2>1, <1>3, <1>7, MissCLOCKPlaces
  <1>8. CASE ClockPasses
    <2>1. UNCHANGED <<phase, live, history>>
      BY <1>8 DEF ClockPasses, heap
    <2> QED BY <2>1, <1>2, <1>8, ClockPassesFacts, SamePlaces
  <1>9. CASE ClockReplaces
    BY <1>2, <1>9, ReplacesPlaces DEF ClockReplaces
  <1>10. CASE ClockFills
    BY <1>2, <1>10, FillsPlaces DEF ClockFills
  <1>11. CASE Finish
    BY <1>2, <1>11, FinishPlaces DEF Finish
  <1>12. CASE UNCHANGED vars
    <2>1. UNCHANGED <<phase, list, count, reqItems, data, live, history>>
      BY <1>12 DEF vars, cache, heap
    <2>2. SameStrings
      BY <2>1 DEF SameStrings
    <2> QED BY <2>1, <2>2, <1>2, SamePlaces
  <1> QED BY <1>4, <1>5, <1>6, <1>7, <1>8, <1>9, <1>10, <1>11, <1>12 DEF Next, Sweep, Terminated

-------------------------------------------------------------------------------
(***************************************************************************)
(* The texts: what was accessed, what is cached and what was evicted.      *)
(***************************************************************************)
(* cache_contains and set_contains compare texts. *)
LEMMA ContainsText ==
  ASSUME NEW x
  PROVE  /\ Contains(x) <=> \E p \in InCache : text[p] = x
         /\ SetContains(x) <=> \E p \in InSet : text[p] = x
  BY DEF Contains, Found, InCache, SetContains, InSet

(* One more access, and one more answer. *)
LEMMA OneAccess ==
  ASSUME TypeOK, NEW x \in Items, history' = Append(history, x)
  PROVE  Accessed' = Accessed \cup {x} /\ Len(history') = Len(history) + 1
  <1>1. /\ Len(history) \in Nat /\ Len(history') = Len(history) + 1
        /\ \A i \in 1 .. Len(history) : history'[i] = history[i]
        /\ history'[Len(history) + 1] = x
    BY DEF TypeOK
  <1>2. 1 .. Len(history') = (1 .. Len(history)) \cup {Len(history) + 1}
    BY <1>1
  <1>3. \A y : y \in Accessed <=> \E i \in 1 .. Len(history) : history[i] = y
    BY DEF Accessed
  <1>4. \A y : y \in Accessed' <=> \E i \in 1 .. Len(history') : history'[i] = y
    BY DEF Accessed
  <1> QED BY <1>1, <1>2, <1>3, <1>4

(* One more answer is one more miss, or none. *)
LEMMA OneAnswer ==
  ASSUME TypeOK, NEW a \in {"HIT", "MISS"}, answers' = Append(answers, a)
  PROVE  /\ Len(answers') = Len(answers) + 1
         /\ Cardinality(Missed) \in Nat
         /\ Cardinality(Missed') = Cardinality(Missed) + (IF a = "MISS" THEN 1 ELSE 0)
  <1>1. /\ Len(answers) \in Nat /\ Len(answers') = Len(answers) + 1
        /\ \A i \in 1 .. Len(answers) : answers'[i] = answers[i]
        /\ answers'[Len(answers) + 1] = a
    BY DEF TypeOK
  <1>2. 1 .. Len(answers') = (1 .. Len(answers)) \cup {Len(answers) + 1}
    BY <1>1
  <1>3. IsFiniteSet(Missed)
    <2>1. IsFiniteSet(1 .. Len(answers))
      BY <1>1, FS_Interval
    <2> QED BY <2>1, FS_Subset DEF Missed
  <1>4. Cardinality(Missed) \in Nat
    BY <1>3, FS_CardinalityType
  <1>5. CASE a = "MISS"
    <2>1. Missed' = Missed \cup {Len(answers) + 1}
      BY <1>1, <1>2, <1>5 DEF Missed
    <2>2. Len(answers) + 1 \notin Missed
      BY <1>1 DEF Missed
    <2>3. Cardinality(Missed') = Cardinality(Missed) + 1
      BY <2>1, <2>2, <1>3, FS_AddElement
    <2> QED BY <2>3, <1>1, <1>4, <1>5
  <1>6. CASE a = "HIT"
    <2>1. Missed' = Missed
      BY <1>1, <1>2, <1>6 DEF Missed
    <2> QED BY <2>1, <1>1, <1>4, <1>6
  <1> QED BY <1>5, <1>6

(* The pointers that are allocated, in the middle of an insertion or not.  *)
LEMMA Owned ==
  ASSUME IInv
  PROVE  /\ phase = "read" => live = InCache \cup InSet
         /\ phase = "sweep" => live = InCache \cup InSet \cup {data}
  BY DEF IInv, LiveInv, Moving

(* An item that misses the cache was accessed before exactly when it is in *)
(* the set of evicted items.                                               *)
LEMMA EvictedBefore ==
  ASSUME IInv, phase = "read", NEW x, ~Contains(x)
  PROVE  SetContains(x) <=> x \in Accessed
  <1>1. Accessed = Texts /\ live = InCache \cup InSet
    BY Owned DEF IInv, TextInv
  <1> QED BY <1>1, ContainsText DEF Texts

(* After set_add(v) the text of v is still that of an allocated string:    *)
(* v's own, or the one because of which v was freed.                       *)
LEMMA TextStays ==
  ASSUME IInv, phase # "done", NEW v \in InCache, NEW new, SetAdd(v, new)
  PROVE  /\ live' \subseteq live \cup new
         /\ \A p \in (live \cup new) \ {v} : p \in live'
         /\ \E q \in live : q \in live' /\ text[q] = text[v]
  <1>1. InCache \subseteq live /\ InSet \subseteq live /\ InCache \cap InSet = {}
    BY DEF IInv, LiveInv, PlaceInv
  <1>2. CASE SetContains(text[v])
    <2>1. PICK q \in InSet : text[q] = text[v]
      BY <1>2, ContainsText
    <2>2. live' = (live \cup new) \ {v}
      BY <1>2 DEF SetAdd
    <2>3. q # v /\ q \in live
      BY <2>1, <1>1
    <2> QED BY <2>1, <2>2, <2>3
  <1>3. CASE ~SetContains(text[v])
    <2>1. live' = live \cup new
      BY <1>3 DEF SetAdd
    <2> QED BY <2>1, <1>1
  <1> QED BY <1>2, <1>3

(* A hit, which moves strings around at most. *)
LEMMA HitTexts ==
  ASSUME IInv, TypeOK, NEW x \in Items, NEW p, NEW slots, Hit(x, p, slots), InCache' = InCache
  PROVE  PhaseInv' /\ TextInv' /\ CountInv'
  <1>1. /\ phase = "read" /\ phase' = "read" /\ text' = text /\ live' = live
        /\ history' = Append(history, x) /\ answers' = Append(answers, "HIT")
        /\ comMiss' = comMiss /\ capMiss' = capMiss
    BY DEF Hit, Read, heap, misses
  <1>2. Accessed' = Accessed \cup {x} /\ Len(history') = Len(history) + 1
    BY <1>1, OneAccess
  <1>3. PICK q \in InCache : text[q] = x
    BY ContainsText DEF Hit
  <1>4. q \in live /\ Accessed = Texts
    BY <1>1, <1>3, Owned DEF IInv, TextInv
  <1>5. x \in Accessed /\ Texts' = Texts
    BY <1>1, <1>3, <1>4 DEF Texts
  <1>6. Accessed' = Accessed
    BY <1>2, <1>5
  <1>7. TextInv'
    BY <1>1, <1>4, <1>5, <1>6 DEF IInv, TextInv
  <1>8. Len(answers') = Len(answers) + 1 /\ Cardinality(Missed') = Cardinality(Missed)
    BY <1>1, OneAnswer
  <1>9. PhaseInv'
    BY <1>1, <1>2, <1>8 DEF IInv, PhaseInv
  <1>10. CountInv'
    BY <1>1, <1>6, <1>8 DEF IInv, CountInv
  <1> QED BY <1>7, <1>9, <1>10

(* A miss is counted once, as compulsory when the item is new. *)
LEMMA MissCounted ==
  ASSUME IInv, TypeOK, NEW x \in Items, Read(x), ~Contains(x), CountMiss(x)
  PROVE  /\ IsFiniteSet(Accessed') /\ comMiss' = Cardinality(Accessed')
         /\ comMiss' + capMiss' = Cardinality(Missed) + 1
         /\ Accessed' = Accessed \cup {x} /\ Len(history') = Len(history) + 1
  <1>1. Accessed' = Accessed \cup {x} /\ Len(history') = Len(history) + 1
    BY OneAccess DEF Read
  <1>2. SetContains(x) <=> x \in Accessed
    BY EvictedBefore DEF Read
  <1>3. IsFiniteSet(Accessed) /\ comMiss = Cardinality(Accessed)
        /\ comMiss + capMiss = Cardinality(Missed)
    <2>1. phase = "read" /\ Cardinality(Missed) \in Nat
      <3>1. Len(answers) \in Nat /\ IsFiniteSet(1 .. Len(answers))
        BY FS_Interval DEF TypeOK
      <3>2. IsFiniteSet(Missed)
        BY <3>1, FS_Subset DEF Missed
      <3> QED BY <3>2, FS_CardinalityType DEF Read
    <2> QED BY <2>1 DEF IInv, CountInv
  <1>4. IsFiniteSet(Accessed') /\ comMiss' = Cardinality(Accessed')
    <2>1. CASE SetContains(x)
      <3>1. Accessed' = Accessed
        BY <2>1, <1>1, <1>2
      <3> QED BY <3>1, <2>1, <1>3 DEF CountMiss
    <2>2. CASE ~SetContains(x)
      <3>1. IsFiniteSet(Accessed') /\ Cardinality(Accessed') = Cardinality(Accessed) + 1
        BY <2>2, <1>1, <1>2, <1>3, FS_AddElement
      <3> QED BY <3>1, <2>2, <1>3 DEF CountMiss
    <2> QED BY <2>1, <2>2
  <1>5. comMiss' + capMiss' = comMiss + capMiss + 1
    BY OneMore
  <1> QED BY <1>1, <1>3, <1>4, <1>5

(* A miss under FIFO or LRU. *)
LEMMA MissTexts ==
  ASSUME IInv, NEW x \in Items, Miss(x)
  PROVE  PhaseInv' /\ TextInv' /\ CountInv'
  <1>1. /\ phase = "read" /\ phase' = "read" /\ Read(x) /\ ~Contains(x) /\ CountMiss(x)
        /\ answers' = Append(answers, "MISS")
    BY DEF Miss, Read
  <1>2. TypeOK
    BY DEF IInv
  <1>3. /\ Fresh \in Ptrs /\ Fresh \notin live /\ text'[Fresh] = x
        /\ \A p \in live : text'[p] = text[p]
    BY NewString DEF Miss, Read
  <1>4. /\ IsFiniteSet(Accessed') /\ comMiss' = Cardinality(Accessed')
        /\ comMiss' + capMiss' = Cardinality(Missed) + 1
        /\ Accessed' = Accessed \cup {x} /\ Len(history') = Len(history) + 1
    BY <1>1, <1>2, MissCounted
  <1>5. /\ Len(answers') = Len(answers) + 1 /\ Cardinality(Missed') = Cardinality(Missed) + 1
        /\ Cardinality(Missed) \in Nat
    BY <1>1, <1>2, OneAnswer
  <1>6. live = InCache \cup InSet /\ Accessed = Texts
    BY <1>1, Owned DEF IInv, TextInv
  <1>7. InCache' \subseteq InCache \cup {Fresh}
    BY <1>2, MissPlaces, CacherAssumption DEF TypeOK
  <1>8. \A p, q \in InCache' : text'[p] = text'[q] => p = q
    <2>1. \A p \in InCache : text'[p] = text[p] /\ text[p] # x
      BY <1>1, <1>3, <1>6, ContainsText
    <2> QED BY <2>1, <1>3, <1>7 DEF IInv, TextInv
  <1>9. Texts' = Texts \cup {x}
    <2>1. /\ live' \subseteq live \cup {Fresh} /\ Fresh \in live'
          /\ \A p \in live : \E q \in live : q \in live' /\ text[q] = text[p]
      <3>1. CASE count < Size
        BY <3>1, MissFacts
      <3>2. CASE count = Size
        <4>1. list[0].data \in InCache
          BY <3>2, CacherAssumption DEF InCache
        <4>2. SetAdd(list[0].data, {Fresh})
          BY <3>2, MissFacts
        <4>3. /\ live' \subseteq live \cup {Fresh}
              /\ \A p \in (live \cup {Fresh}) \ {list[0].data} : p \in live'
              /\ \E q \in live : q \in live' /\ text[q] = text[list[0].data]
          BY <4>1, <4>2, <1>1, TextStays
        <4> QED BY <4>1, <4>3, <1>3, <1>6
      <3> QED BY <3>1, <3>2, <1>2, CacherAssumption DEF TypeOK
    <2>2. \A y : y \in Texts' <=> \E p \in live' : text'[p] = y
      BY DEF Texts
    <2>3. \A y : y \in Texts <=> \E p \in live : text[p] = y
      BY DEF Texts
    <2>4. \A y : y \in Texts' => y \in Texts \cup {x}
      BY <2>1, <2>2, <2>3, <1>3
    <2>5. \A y : y \in Texts \cup {x} => y \in Texts'
      <3>1. x \in Texts'
        BY <2>1, <2>2, <1>3
      <3>2. ASSUME NEW p \in live PROVE text[p] \in Texts'
        <4>1. PICK q \in live : q \in live' /\ text[q] = text[p]
          BY <2>1
        <4> QED BY <4>1, <2>2, <1>3
      <3> QED BY <3>1, <3>2, <2>3
    <2> QED BY <2>4, <2>5
  <1>10. TextInv'
    BY <1>1, <1>4, <1>6, <1>8, <1>9 DEF TextInv
  <1>11. PhaseInv'
    BY <1>1, <1>4, <1>5 DEF IInv, PhaseInv
  <1>12. CountInv'
    BY <1>1, <1>4, <1>5 DEF CountInv
  <1> QED BY <1>10, <1>11, <1>12

(* A miss under CLOCK; its answer is printed later. *)
LEMMA MissCLOCKTexts ==
  ASSUME IInv, NEW x \in Items, MissCLOCK(x)
  PROVE  PhaseInv' /\ TextInv' /\ CountInv'
  <1>1. /\ phase = "read" /\ phase' = "sweep" /\ policy' = policy /\ policy = "CLOCK"
        /\ Read(x) /\ ~Contains(x) /\ CountMiss(x)
        /\ data' = Fresh /\ answers' = answers
    BY DEF MissCLOCK, Read
  <1>2. TypeOK
    BY DEF IInv
  <1>3. /\ Fresh \in Ptrs /\ Fresh \notin live /\ text'[Fresh] = x
        /\ \A p \in live : text'[p] = text[p]
    BY NewString DEF MissCLOCK, Read
  <1>4. /\ IsFiniteSet(Accessed') /\ comMiss' = Cardinality(Accessed')
        /\ comMiss' + capMiss' = Cardinality(Missed) + 1
        /\ Accessed' = Accessed \cup {x} /\ Len(history') = Len(history) + 1
    BY <1>1, <1>2, MissCounted
  <1>5. live' = live \cup {Fresh} /\ InCache' = InCache /\ InCache \subseteq live
        /\ Accessed = Texts
    BY <1>1, MissCLOCKPlaces, Owned DEF IInv, TextInv
  <1>6. \A p \in InCache : text'[p] = text[p] /\ text[p] # x
    BY <1>1, <1>3, <1>5, ContainsText
  <1>7. Texts' = Texts \cup {x}
    BY <1>3, <1>5 DEF Texts
  <1>8. TextInv'
    BY <1>1, <1>3, <1>4, <1>5, <1>6, <1>7 DEF IInv, TextInv
  <1>9. PhaseInv'
    BY <1>1, <1>3, <1>4 DEF IInv, PhaseInv
  <1>10. CountInv'
    <2>1. Missed' = Missed
      BY <1>1 DEF Missed
    <2> QED BY <2>1, <1>1, <1>4 DEF CountInv
  <1> QED BY <1>8, <1>9, <1>10

(* The end of an insertion under CLOCK. *)
LEMMA InsertedTexts ==
  ASSUME IInv, phase = "sweep", Inserted, InCache' \subseteq InCache \cup {data}, Texts' = Texts,
         UNCHANGED <<policy, misses, text, history>>
  PROVE  PhaseInv' /\ TextInv' /\ CountInv'
  <1>1. /\ phase' = "read" /\ answers' = Append(answers, "MISS")
        /\ text' = text /\ history' = history /\ comMiss' = comMiss /\ capMiss' = capMiss
    BY DEF Inserted, misses
  <1>2. TypeOK
    BY DEF IInv
  <1>3. /\ Len(answers') = Len(answers) + 1 /\ Cardinality(Missed') = Cardinality(Missed) + 1
        /\ Cardinality(Missed) \in Nat
    BY <1>1, <1>2, OneAnswer
  <1>4. Accessed' = Accessed /\ Accessed = Texts
    BY <1>1 DEF Accessed, IInv, TextInv
  <1>5. TextInv'
    BY <1>1, <1>4 DEF IInv, TextInv
  <1>6. PhaseInv'
    BY <1>1, <1>2, <1>3 DEF IInv, PhaseInv, TypeOK
  <1>7. CountInv'
    BY <1>1, <1>3, <1>4 DEF IInv, CountInv
  <1> QED BY <1>5, <1>6, <1>7

(* The texts and the counters are preserved by every step. *)
LEMMA NextTexts ==
  ASSUME IInv, [Next]_vars
  PROVE  PhaseInv' /\ TextInv' /\ CountInv'
  <1>0. TypeOK
    BY DEF IInv
  <1>1. ASSUME NEW x \in Items, HitFIFO(x) PROVE PhaseInv' /\ TextInv' /\ CountInv'
    <2>1. InCache' = InCache
      BY <1>1, HitFIFOFacts, SamePlaces DEF HitFIFO, Hit, heap
    <2> QED BY <1>0, <1>1, <2>1, HitTexts DEF HitFIFO
  <1>2. ASSUME NEW x \in Items, HitCLOCK(x) PROVE PhaseInv' /\ TextInv' /\ CountInv'
    <2>1. InCache' = InCache
      <3>1. UNCHANGED <<phase, live>>
        BY <1>2 DEF HitCLOCK, Hit, heap
      <3> QED BY <3>1, <1>2, HitCLOCKFacts, SamePlaces
    <2> QED BY <1>0, <1>2, <2>1, HitTexts DEF HitCLOCK
  <1>3. ASSUME NEW x \in Items, HitLRU(x) PROVE PhaseInv' /\ TextInv' /\ CountInv'
    <2>1. InCache' = InCache
      BY <1>3, HitLRUPlaces
    <2> QED BY <1>0, <1>3, <2>1, HitTexts DEF HitLRU
  <1>4. ASSUME UNCHANGED <<policy, misses, text, live, history, answers>>, InCache' = InCache,
               UNCHANGED <<phase, data>>
        PROVE  PhaseInv' /\ TextInv' /\ CountInv'
    <2>1. Accessed' = Accessed /\ Texts' = Texts /\ Missed' = Missed
      BY <1>4 DEF Accessed, Texts, Missed
    <2> QED BY <1>4, <2>1 DEF IInv, PhaseInv, TextInv, CountInv, misses
  <1>5. CASE ClockPasses
    <2>1. UNCHANGED <<policy, misses, text, live, history, answers, phase, data>>
      BY <1>5 DEF ClockPasses, heap
    <2>2. InCache' = InCache
      BY <2>1, <1>5, ClockPassesFacts, SamePlaces
    <2> QED BY <2>1, <2>2, <1>4
  <1>6. CASE ClockReplaces
    <2>1. /\ InCache' \subseteq InCache \cup {data} /\ live' \subseteq live
          /\ list[hand].data \in InCache /\ SetAdd(list[hand].data, {})
      BY <1>6, ReplacesPlaces, ReplacesFacts DEF InCache, Used
    <2>2. phase = "sweep" /\ Inserted /\ UNCHANGED <<policy, misses, text, history>>
      BY <1>6 DEF ClockReplaces
    <2>3. /\ \A p \in (live \cup {}) \ {list[hand].data} : p \in live'
          /\ \E q \in live : q \in live' /\ text[q] = text[list[hand].data]
      BY <2>1, <2>2, TextStays
    <2>4. Texts' = Texts
      BY <2>1, <2>2, <2>3 DEF Texts
    <2> QED BY <2>1, <2>2, <2>4, InsertedTexts
  <1>7. CASE ClockFills
    <2>1. phase = "sweep" /\ Inserted /\ UNCHANGED <<policy, misses, text, live, history>>
      BY <1>7 DEF ClockFills, heap
    <2>2. InCache' = InCache \cup {data} /\ Texts' = Texts
      BY <1>7, <2>1, FillsPlaces DEF Texts
    <2> QED BY <2>1, <2>2, InsertedTexts
  <1>8. CASE Finish
    <2>1. /\ UNCHANGED <<policy, comMiss, capMiss, text, history, answers>>
          /\ phase = "read" /\ phase' = "done"
      BY <1>8 DEF Finish, misses
    <2>2. InCache' = InCache /\ Accessed' = Accessed /\ Missed' = Missed
      BY <1>8, <2>1, FinishPlaces DEF Accessed, Missed
    <2> QED BY <2>1, <2>2 DEF IInv, PhaseInv, TextInv, CountInv
  <1>9. CASE UNCHANGED vars
    <2>1. UNCHANGED <<policy, misses, text, live, history, answers, phase, data>>
      BY <1>9 DEF vars, heap
    <2>2. InCache' = InCache
      BY <1>9 DEF vars, cache, InCache
    <2> QED BY <2>1, <2>2, <1>4
  <1> QED BY <1>1, <1>2, <1>3, <1>5, <1>6, <1>7, <1>8, <1>9, MissTexts, MissCLOCKTexts
          DEF Next, Sweep, Terminated

-------------------------------------------------------------------------------
(* The invariant is inductive. *)
LEMMA Inductive == Spec => []IInv
  <1>1. IInv /\ [Next]_vars => IInv'
    <2> SUFFICES ASSUME IInv, [Next]_vars PROVE IInv'
      OBVIOUS
    <2> QED BY NextTypes, NextPlaces, NextTexts DEF IInv
  <1> QED BY <1>1, InitIInv, PTL DEF Spec

(* The image of a finite set under a function that is injective on it. *)
LEMMA ImageSize ==
  ASSUME NEW S, IsFiniteSet(S), NEW f, \A a, b \in S : f[a] = f[b] => a = b
  PROVE  IsFiniteSet({f[a] : a \in S}) /\ Cardinality({f[a] : a \in S}) = Cardinality(S)
  <1> DEFINE T == {f[a] : a \in S}
             g == [a \in S |-> f[a]]
  <1>1. g \in [S -> T] /\ \A a \in S : g[a] = f[a]
    OBVIOUS
  <1>2. g \in Bijection(S, T)
    <2>1. \A a, b \in S : g[a] = g[b] => a = b
      OBVIOUS
    <2>2. \A t \in T : \E a \in S : g[a] = t
      OBVIOUS
    <2> HIDE DEF T, g
    <2> QED BY <1>1, <2>1, <2>2, Fun_IsBij
  <1>3. ExistsBijection(S, T)
    BY <1>2 DEF ExistsBijection
  <1> HIDE DEF T, g
  <1>4. IsFiniteSet(T) /\ Cardinality(T) = Cardinality(S)
    BY <1>3, FS_Bijection
  <1> QED BY <1>4 DEF T

(***************************************************************************)
(* Whatever is read, and under each policy, the variables have their types *)
(* and the slots, the set and the hand stay within their bounds.           *)
(***************************************************************************)
THEOREM TypesCorrect == Spec => []TypeOK
  <1>1. IInv => TypeOK
    BY DEF IInv
  <1> QED BY <1>1, Inductive, PTL

(***************************************************************************)
(* The strings of cache_methods.c and set_methods.c: each is in one slot   *)
(* or in the set, or on its way in, and it is allocated exactly as long as *)
(* it is there.  So free is called once for each, and after its last use.  *)
(***************************************************************************)
THEOREM OneOwner == Spec => []Ownership
  <1>1. IInv => Ownership
    <2> SUFFICES ASSUME IInv PROVE Ownership
      OBVIOUS
    <2>1. TypeOK /\ PlaceInv /\ LiveInv
      BY DEF IInv
    <2>2. Cardinality(InCache) = count
      <3>1. count \in Nat /\ IsFiniteSet(Used) /\ Cardinality(Used) = count
        BY <2>1, FS_Interval, CacherAssumption DEF TypeOK, Used
      <3> DEFINE f == [i \in Used |-> list[i].data]
      <3>2. \A a, b \in Used : f[a] = f[b] => a = b
        BY <2>1 DEF PlaceInv
      <3>3. InCache = {f[i] : i \in Used}
        BY DEF InCache, Used
      <3> HIDE DEF f
      <3> QED BY <3>1, <3>2, <3>3, ImageSize
    <2>3. Cardinality(InSet) = Len(reqItems)
      <3>1. Len(reqItems) \in Nat
        BY <2>1 DEF TypeOK
      <3>2. IsFiniteSet(Evicted) /\ Cardinality(Evicted) = Len(reqItems)
        <4>1. \A n \in Nat : IsFiniteSet(1 .. n) /\ Cardinality(1 .. n) = n
          BY FS_Interval
        <4> QED BY <3>1, <4>1, Zenon DEF Evicted
      <3>3. \A a, b \in Evicted : reqItems[a] = reqItems[b] => a = b
        BY <2>1 DEF PlaceInv
      <3>4. InSet = {reqItems[i] : i \in Evicted}
        BY DEF InSet, Evicted
      <3> QED BY <3>2, <3>3, <3>4, ImageSize
    <2> QED BY <2>1, <2>2, <2>3 DEF Ownership, PlaceInv, LiveInv
  <1> QED BY <1>1, Inductive, PTL

(***************************************************************************)
(* The two counters: comMiss is the number of different items that were    *)
(* accessed, and the two together are the misses answered and the one that *)
(* is being inserted.  The set of evicted items tells the two apart under  *)
(* every policy, since what was accessed and is not cached was evicted.    *)
(***************************************************************************)
THEOREM CountersRight == Spec => []MissesCounted
  <1>1. IInv => MissesCounted
    <2> SUFFICES ASSUME IInv PROVE MissesCounted
      OBVIOUS
    <2>1. Cardinality(Moving) = IF phase = "sweep" THEN 1 ELSE 0
      BY FS_EmptySet, FS_Singleton DEF Moving
    <2> QED BY <2>1 DEF IInv, CountInv, MissesCounted, Missed
  <1> QED BY <1>1, Inductive, PTL
===============================================================================
