--------------------------------- MODULE Fifo ---------------------------------
(***************************************************************************)
(* What a bounded queue promises its callers (the interface queue.h, as    *)
(* asgn3/queue.c implements it): elements leave in the order in which they *)
(* entered, each exactly once, and never more than Capacity are inside.    *)
(* A call is one atomic step; a call that cannot proceed is not enabled.   *)
(***************************************************************************)
EXTENDS Integers, Sequences

CONSTANTS
  Capacity,   (* the size given to queue_new                               *)
  Items,      (* the values that callers push                              *)
  Consumers,  (* the threads that pop                                      *)
  Nothing     (* what a consumer's variable holds before its first pop     *)

VARIABLES
  q,          (* the elements inside, oldest first                         *)
  got         (* got[c]: where consumer c's pop stores the element         *)

Init == /\ q = << >>
        /\ got = [c \in Consumers |-> Nothing]

(* Fault: a full queue takes one more element. *)
EnqueueFull(x) == /\ Len(q) <= Capacity
                  /\ q' = Append(q, x)
                  /\ UNCHANGED got

Enqueue(x) == /\ Len(q) < Capacity
              /\ q' = Append(q, x)
              /\ UNCHANGED got

Dequeue(c) == /\ q # << >>
              /\ got' = [got EXCEPT ![c] = Head(q)]
              /\ q' = Tail(q)

Next == \/ \E x \in Items : Enqueue(x)
        \/ \E c \in Consumers : Dequeue(c)

Spec == Init /\ [][Next]_<<q, got>>
===============================================================================
