-------------------------------- MODULE Cacher --------------------------------
(***************************************************************************)
(* The cache simulator of asgn5: it reads the items that are accessed, one *)
(* a line, answers HIT or MISS for each under the FIFO, LRU or CLOCK       *)
(* policy, and counts compulsory and capacity misses.                      *)
(*                                                                         *)
(* A step is one access, except that each round of insert_CLOCK's loop is  *)
(* a step of its own.  Strings are pointers: text[p] is the string at p,   *)
(* live the set of pointers that are allocated.  history and answers are   *)
(* what was read from stdin and printed to stdout so far.                  *)
(***************************************************************************)
EXTENDS Integers, Sequences, FiniteSets

CONSTANTS
  Items,       (* the strings that may be read                             *)
  Size,        (* the -N argument, at least 1                              *)
  Policies,    (* the policies a run may be started with                   *)
  Ptrs,        (* the addresses that strdup may return                     *)
  MaxRequests, (* a bound on the accesses                                  *)
  NoItem       (* no item is being inserted; the text of fresh memory      *)

ASSUME CacherAssumption ==
  /\ Size \in Nat \ {0} /\ MaxRequests \in Nat
  /\ Policies \subseteq {"FIFO", "LRU", "CLOCK"}
  /\ NoItem \notin Items
  (* strdup's result is never tested: there is an address for every access *)
  /\ IsFiniteSet(Ptrs) /\ Cardinality(Ptrs) >= MaxRequests

VARIABLES
  policy,            (* p in main                                          *)
  phase,             (* "read", "sweep" inside insert_CLOCK, or "done"     *)
  list, count,       (* the cache                                          *)
  comMiss, capMiss,
  reqItems,          (* the set of evicted items: pointers in order        *)
  hand, data,        (* insert_CLOCK's *clockhand and data                 *)
  text, live,        (* the heap                                           *)
  history, answers

cache  == <<list, count>>
misses == <<comMiss, capMiss>>
heap   == <<text, live>>
vars   == <<policy, phase, cache, misses, reqItems, hand, data, heap, history, answers>>

Slots == 0 .. Size - 1
Null  == [null |-> TRUE]
ItemReferenced(p) == [data |-> p, refBit |-> 1]       (* fault: bit set      *)
Item(p) == [data |-> p, refBit |-> 0]                         (* create_item *)
IsItem(slot) == slot # Null

CacheCreate == /\ list = [i \in Slots |-> Null] /\ count = 0
               /\ comMiss = 0 /\ capMiss = 0

Init ==
  /\ policy \in Policies /\ phase = "read"
  /\ CacheCreate /\ reqItems = << >>
  /\ hand = 0 /\ data = 0
  /\ text = [p \in Ptrs |-> NoItem] /\ live = {}
  /\ history = << >> /\ answers = << >>

(***************************************************************************)
(* cache_methods.c and set_methods.c.  Removing shifts the slots after i   *)
(* to the left and leaves the last one in use as it was.                   *)
(***************************************************************************)
Found(x)     == {i \in 0 .. count - 1 : text[list[i].data] = x}
Contains(x)  == Found(x) # {}                              (* cache_contains *)
Position(x)  == CHOOSE i \in Found(x) : \A j \in Found(x) : i <= j
SetContains(x) == \E i \in 1 .. Len(reqItems) : text[reqItems[i]] = x

Without(i) == [j \in Slots |-> IF j \in i .. count - 2 THEN list[j + 1] ELSE list[j]]
Stored(slots, n, p) == [slots EXCEPT ![n] = Item(p)]         (* cache_append *)

(* Fault: an item that is in the set already is not freed. *)
SetAddLeaks(v, new) ==
  /\ live' = live \cup new
  /\ reqItems' = IF SetContains(text[v]) THEN reqItems ELSE Append(reqItems, v)

(* set_add(v), in a step that also allocates new. *)
SetAdd(v, new) ==
  IF SetContains(text[v])
  THEN live' = (live \cup new) \ {v} /\ UNCHANGED reqItems
  ELSE live' = live \cup new /\ reqItems' = Append(reqItems, v)

Fresh == CHOOSE p \in Ptrs : p \notin live                         (* strdup *)

(* One line of input. *)
Read(x) ==
  /\ phase = "read" /\ Len(history) < MaxRequests
  /\ history' = Append(history, x)

(* Fault: a miss counts as a capacity miss whenever the cache is full. *)
CountMissWhenFull(x) ==
  IF count = Size THEN capMiss' = capMiss + 1 /\ UNCHANGED comMiss
                  ELSE comMiss' = comMiss + 1 /\ UNCHANGED capMiss

CountMiss(x) ==
  IF SetContains(x) THEN capMiss' = capMiss + 1 /\ UNCHANGED comMiss
                    ELSE comMiss' = comMiss + 1 /\ UNCHANGED capMiss

(***************************************************************************)
(* insert_FIFO and insert_LRU                                              *)
(***************************************************************************)
Hit(x, p, slots) ==
  /\ policy = p /\ Read(x) /\ Contains(x)
  /\ list' = slots
  /\ answers' = Append(answers, "HIT")
  /\ UNCHANGED <<policy, phase, count, misses, reqItems, hand, data, heap>>

(* The item moves to the end, in a new struct that keeps the old string. *)
MovedToEnd(x) == Stored(Without(Position(x)), count - 1, list[Position(x)].data)

(* Faults: the hits of the two policies exchanged. *)
HitFIFOMoves(x) == Hit(x, "FIFO", MovedToEnd(x))
HitLRUStays(x)  == Hit(x, "LRU", list)

HitFIFO(x) == Hit(x, "FIFO", list)
HitLRU(x)  == Hit(x, "LRU", MovedToEnd(x))

(* A miss is the same in both: lines 41-51 and 79-89. *)
Miss(x) ==
  /\ policy \in {"FIFO", "LRU"} /\ Read(x) /\ ~Contains(x)
  /\ CountMiss(x)
  /\ text' = [text EXCEPT ![Fresh] = x]
  /\ IF count = Size
     THEN /\ SetAdd(list[0].data, {Fresh})
          /\ list' = Stored(Without(0), count - 1, Fresh)
          /\ UNCHANGED count
     ELSE /\ list' = Stored(list, count, Fresh)
          /\ count' = count + 1
          /\ live' = live \cup {Fresh} /\ UNCHANGED reqItems
  /\ answers' = Append(answers, "MISS")
  /\ UNCHANGED <<policy, phase, hand, data>>

(***************************************************************************)
(* insert_CLOCK                                                            *)
(***************************************************************************)
HitCLOCK(x) == Hit(x, "CLOCK", [list EXCEPT ![Position(x)].refBit = 1])

MissCLOCK(x) ==
  /\ policy = "CLOCK" /\ Read(x) /\ ~Contains(x)
  /\ CountMiss(x)
  /\ text' = [text EXCEPT ![Fresh] = x] /\ live' = live \cup {Fresh}
  /\ data' = Fresh
  /\ phase' = "sweep"
  /\ UNCHANGED <<policy, cache, reqItems, hand, answers>>

(* Faults: the hand does not wrap around; the bit is not cleared. *)
HandPastEnd == hand + 1
BitKept     == list

HandMoved  == (hand + 1) % Size
BitCleared == [list EXCEPT ![hand].refBit = 0]

ClockPasses ==
  /\ phase = "sweep" /\ IsItem(list[hand]) /\ list[hand].refBit = 1
  /\ list' = BitCleared /\ hand' = HandMoved
  /\ UNCHANGED <<policy, phase, count, misses, reqItems, data, heap, history, answers>>

Inserted == /\ hand' = HandMoved
            /\ phase' = "read"
            /\ answers' = Append(answers, "MISS")

ClockReplaces ==
  /\ phase = "sweep" /\ IsItem(list[hand]) /\ list[hand].refBit = 0
  /\ list' = [list EXCEPT ![hand] = Item(data)]
  /\ SetAdd(list[hand].data, {})
  /\ Inserted
  /\ UNCHANGED <<policy, count, misses, data, text, history>>

(* cache_append does nothing when the cache is full. *)
ClockFills ==
  /\ phase = "sweep" /\ ~IsItem(list[hand])
  /\ IF count = Size THEN UNCHANGED cache
     ELSE list' = Stored(list, count, data) /\ count' = count + 1
  /\ Inserted
  /\ UNCHANGED <<policy, misses, reqItems, data, heap, history>>

(***************************************************************************)
(* The end of the input, or an empty line: main frees the cache, looking   *)
(* at every slot, and the set.                                             *)
(***************************************************************************)
CacheDestroy == {list[i].data : i \in {j \in Slots : IsItem(list[j])}}
SetDestroy   == {reqItems[i] : i \in 1 .. Len(reqItems)}

Finish ==
  /\ phase = "read" /\ phase' = "done"
  /\ live' = live \ (CacheDestroy \cup SetDestroy)
  /\ UNCHANGED <<policy, cache, misses, reqItems, hand, data, text, history, answers>>

Terminated == phase = "done" /\ UNCHANGED vars

-------------------------------------------------------------------------------
Sweep == ClockPasses \/ ClockReplaces \/ ClockFills

Next == \/ \E x \in Items : HitFIFO(x) \/ HitLRU(x) \/ HitCLOCK(x) \/ Miss(x) \/ MissCLOCK(x)
        \/ Sweep \/ Finish \/ Terminated

Spec == Init /\ [][Next]_vars

(* The program runs on; what comes on stdin, and whether, is up to others. *)
FairSpec == Spec /\ WF_vars(Sweep)
-------------------------------------------------------------------------------
TypeOK ==
  /\ policy \in Policies /\ phase \in {"read", "sweep", "done"}
  /\ list \in [Slots -> {Null} \cup [data : Ptrs, refBit : {0, 1}]]
  /\ count \in 0 .. Size /\ hand \in Slots /\ data \in Ptrs \cup {0}
  /\ comMiss \in Nat /\ capMiss \in Nat
  /\ reqItems \in Seq(Ptrs)
  /\ text \in [Ptrs -> Items \cup {NoItem}] /\ live \subseteq Ptrs
  /\ history \in Seq(Items) /\ answers \in Seq({"HIT", "MISS"})

(***************************************************************************)
(* Each string has one owner: a slot, the set, or the insertion under way. *)
(* A slot is null exactly when it is not in use (cache_destroy looks at    *)
(* all of them, and insert_CLOCK's loop tests the slot at the hand).  So   *)
(* nothing is leaked, used after it was freed, or freed twice.             *)
(***************************************************************************)
InCache == {list[i].data : i \in 0 .. count - 1}
InSet   == {reqItems[i] : i \in 1 .. Len(reqItems)}
Moving  == IF phase = "sweep" THEN {data} ELSE {}

Ownership ==
  /\ \A i \in Slots : IsItem(list[i]) <=> i < count
  /\ Cardinality(InCache) = count /\ Cardinality(InSet) = Len(reqItems)
  /\ InCache \cap InSet = {} /\ Moving \cap (InCache \cup InSet) = {}
  /\ live = IF phase = "done" THEN {} ELSE InCache \cup InSet \cup Moving

(***************************************************************************)
(* The two counters (lines 41-45, 79-83, 118-122): a miss is compulsory    *)
(* exactly when the item is accessed for the first time, although the code *)
(* only remembers the items it evicted; the rest are capacity misses.      *)
(***************************************************************************)
Accessed == {history[i] : i \in 1 .. Len(history)}
MissesCounted ==
  /\ comMiss = Cardinality(Accessed)
  /\ comMiss + capMiss = Cardinality({n \in 1 .. Len(answers) : answers[n] = "MISS"})
                           + Cardinality(Moving)

(***************************************************************************)
(* The answers, explained by the input alone.  FIFO: an access hits when   *)
(* fewer than Size misses came since the miss that brought the item in.    *)
(* LRU: when fewer than Size other items were accessed since its last use. *)
(***************************************************************************)
FIFOExplained == policy = "FIFO" =>
  \A n \in 1 .. Len(answers) : answers[n] = "HIT" <=>
    \E m \in 1 .. n - 1 :
      /\ history[m] = history[n] /\ answers[m] = "MISS"
      /\ Cardinality({k \in m + 1 .. n - 1 : answers[k] = "MISS"}) < Size

LRUExplained == policy = "LRU" =>
  \A n \in 1 .. Len(answers) : answers[n] = "HIT" <=>
    \E m \in 1 .. n - 1 :
      /\ history[m] = history[n]
      /\ Cardinality({history[k] : k \in m + 1 .. n - 1}) < Size

(***************************************************************************)
(* Under CLOCK the ring with its hand implements the second-chance queue   *)
(* (the other policies leave that queue empty).  While the cache is not    *)
(* full, the hand is at the first free slot.                               *)
(***************************************************************************)
Clock == [i \in 1 .. count |->
            LET slot == list[IF count < Size THEN i - 1 ELSE (hand + i - 1) % Size]
            IN  [item |-> text[slot.data], bit |-> slot.refBit]]

Abstract == INSTANCE SecondChance WITH
              queue <- IF policy = "CLOCK" THEN Clock ELSE << >>,
              wanted <- IF phase = "sweep" THEN text[data] ELSE NoItem,
              Capacity <- Size, None <- NoItem

ImplementsSecondChance == Abstract!Spec

(* insert_CLOCK returns: its loop, "while (true)", finds a victim. *)
ClockReturns == phase = "sweep" ~> phase = "read"
===============================================================================
