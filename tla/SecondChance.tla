----------------------------- MODULE SecondChance -----------------------------
(***************************************************************************)
(* What the CLOCK policy promises: a queue of items, each with a reference *)
(* bit.  A hit sets the item's bit.  Before a new item comes in, items at  *)
(* the front whose bit is set go to the back and lose it; the first whose  *)
(* bit is clear is dropped.                                                *)
(***************************************************************************)
EXTENDS Integers, Sequences

CONSTANTS Capacity, Items,
          None        (* no item is on its way in *)

VARIABLES queue,      (* records of an item and its bit, next victim first *)
          wanted      (* the item on its way in                            *)

Init == queue = << >> /\ wanted = None

Cached(x) == \E i \in 1 .. Len(queue) : queue[i].item = x

Hit(x) ==
  /\ wanted = None /\ Cached(x)
  /\ queue' = [i \in 1 .. Len(queue) |->
                 IF queue[i].item = x THEN [queue[i] EXCEPT !.bit = 1] ELSE queue[i]]
  /\ UNCHANGED wanted

Miss(x) ==
  /\ wanted = None /\ ~Cached(x)
  /\ wanted' = x
  /\ UNCHANGED queue

SecondLife ==
  /\ wanted # None /\ Len(queue) = Capacity /\ Head(queue).bit = 1
  /\ queue' = Append(Tail(queue), [Head(queue) EXCEPT !.bit = 0])
  /\ UNCHANGED wanted

Place ==
  /\ wanted # None
  /\ \/ /\ Len(queue) < Capacity
        /\ queue' = Append(queue, [item |-> wanted, bit |-> 0])
     \/ /\ Len(queue) = Capacity /\ Head(queue).bit = 0
        /\ queue' = Append(Tail(queue), [item |-> wanted, bit |-> 0])
  /\ wanted' = None

Next == (\E x \in Items : Hit(x) \/ Miss(x)) \/ SecondLife \/ Place

Spec == Init /\ [][Next]_<<queue, wanted>>
===============================================================================
