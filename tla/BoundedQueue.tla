----------------------------- MODULE BoundedQueue -----------------------------
(***************************************************************************)
(* The thread-safe bounded queue of asgn3/queue.c: a ring buffer guarded   *)
(* by one mutex, with a condition variable for each direction.             *)
(*                                                                         *)
(* A step is what a thread does between two points where others can        *)
(* interleave: acquiring the mutex, the critical section up to its release *)
(* (by pthread_cond_wait or by pthread_mutex_unlock), and the signal sent  *)
(* after the release.  A thread blocked in pthread_cond_wait is a member   *)
(* of the condition variable's set; once woken, it competes for the mutex  *)
(* like a newcomer and tests its condition again.                          *)
(***************************************************************************)
EXTENDS Integers, Sequences, FiniteSets

CONSTANTS
  Producers,  (* the threads that may call queue_push                      *)
  Consumers,  (* the threads that may call queue_pop; the sets may overlap *)
  Items,      (* the values of type void * that are pushed                 *)
  Size,       (* the parameter of queue_new                                *)
  Junk,       (* what malloc leaves in a slot, and a caller's variable     *)
              (* before its first pop                                      *)
  NoThread    (* the owner of a free mutex                                 *)

Threads == Producers \cup Consumers

ASSUME QueueAssumption == /\ Size \in Nat \ {0}
                          /\ IsFiniteSet(Producers)
                          /\ IsFiniteSet(Consumers)
                          /\ NoThread \notin Threads
                          /\ Junk \notin Items

VARIABLES
  in, out, count,  (* next slot to write, next to read, slots in use       *)
  buffer,          (* the ring                                             *)
  lock,            (* the owner of the mutex                               *)
  full, empty,     (* the threads blocked on each condition variable       *)
  pc,              (* where each thread is in queue_push or queue_pop      *)
  elem,            (* elem[p]: the argument of p's push                    *)
  got              (* got[c]: where c's pop stores the element             *)

ring == <<in, out, count, buffer>>
vars == <<in, out, count, buffer, lock, full, empty, pc, elem, got>>

Slots  == 0 .. Size - 1
Labels == {"idle", "push_lock", "push_locked", "push_signal",
                   "pop_lock", "pop_locked", "pop_signal"}

Init ==
  /\ in = 0 /\ out = 0 /\ count = 0
  /\ buffer = [i \in Slots |-> Junk]
  /\ lock = NoThread
  /\ full = {} /\ empty = {}
  /\ pc = [t \in Threads |-> "idle"]
  /\ elem = [p \in Producers |-> Junk]
  /\ got = [c \in Consumers |-> Junk]

Goto(t, from, to) == /\ pc[t] = from
                     /\ pc' = [pc EXCEPT ![t] = to]

(***************************************************************************)
(* The pthread primitives the queue uses.  Acquire also covers the second  *)
(* half of pthread_cond_wait; a signal wakes one waiter if there is any.   *)
(***************************************************************************)
Acquire(t) == lock = NoThread /\ lock' = t
Signal(waiting) == IF waiting = {} THEN {{}} ELSE {waiting \ {w} : w \in waiting}

(***************************************************************************)
(* Faults: what a slip in the code would make of an action below.  Each    *)
(* breaks one of the properties; no specification uses them.               *)
(***************************************************************************)
PushStoreWithoutLoop(p) ==       (* "if" for "while" around the wait      *)
  /\ Goto(p, "push_locked", "push_signal")
  /\ buffer' = [buffer EXCEPT ![in] = elem[p]]
  /\ in' = (in + 1) % Size
  /\ count' = count + 1
  /\ lock' = NoThread
  /\ UNCHANGED <<out, full, empty, elem, got>>

PushSignalOnlyFirst(p) ==        (* signal only when the queue was empty  *)
  /\ Goto(p, "push_signal", "idle")
  /\ IF count = 1 THEN empty' \in Signal(empty) ELSE UNCHANGED empty
  /\ UNCHANGED <<ring, lock, full, elem, got>>

PushSignalWrongSide(p) ==        (* full for empty                        *)
  /\ Goto(p, "push_signal", "idle")
  /\ full' \in Signal(full)
  /\ UNCHANGED <<ring, lock, empty, elem, got>>

PopSignalWrongSide(c) ==         (* empty for full                        *)
  /\ Goto(c, "pop_signal", "idle")
  /\ empty' \in Signal(empty)
  /\ UNCHANGED <<ring, lock, full, elem, got>>

PopTakeAdvancedFirst(c) ==       (* lines 73 and 74 swapped               *)
  /\ count # 0
  /\ Goto(c, "pop_locked", "pop_signal")
  /\ out' = (out + 1) % Size
  /\ got' = [got EXCEPT ![c] = buffer[out']]
  /\ count' = count - 1
  /\ lock' = NoThread
  /\ UNCHANGED <<in, buffer, full, empty, elem>>

(***************************************************************************)
(* queue_push                                                              *)
(***************************************************************************)
PushCall(p, x) ==
  /\ Goto(p, "idle", "push_lock")
  /\ elem' = [elem EXCEPT ![p] = x]
  /\ UNCHANGED <<ring, lock, full, empty, got>>

PushLock(p) ==
  /\ p \notin full
  /\ Acquire(p)
  /\ Goto(p, "push_lock", "push_locked")
  /\ UNCHANGED <<ring, full, empty, elem, got>>

PushWait(p) ==
  /\ count = Size
  /\ Goto(p, "push_locked", "push_lock")
  /\ full' = full \cup {p}
  /\ lock' = NoThread
  /\ UNCHANGED <<ring, empty, elem, got>>

PushStore(p) ==
  /\ count # Size
  /\ Goto(p, "push_locked", "push_signal")
  /\ buffer' = [buffer EXCEPT ![in] = elem[p]]
  /\ in' = (in + 1) % Size
  /\ count' = count + 1
  /\ lock' = NoThread
  /\ UNCHANGED <<out, full, empty, elem, got>>

PushSignal(p) ==
  /\ Goto(p, "push_signal", "idle")
  /\ empty' \in Signal(empty)
  /\ UNCHANGED <<ring, lock, full, elem, got>>

(***************************************************************************)
(* queue_pop                                                               *)
(***************************************************************************)
PopCall(c) ==
  /\ Goto(c, "idle", "pop_lock")
  /\ UNCHANGED <<ring, lock, full, empty, elem, got>>

PopLock(c) ==
  /\ c \notin empty
  /\ Acquire(c)
  /\ Goto(c, "pop_lock", "pop_locked")
  /\ UNCHANGED <<ring, full, empty, elem, got>>

PopWait(c) ==
  /\ count = 0
  /\ Goto(c, "pop_locked", "pop_lock")
  /\ empty' = empty \cup {c}
  /\ lock' = NoThread
  /\ UNCHANGED <<ring, full, elem, got>>

PopTake(c) ==
  /\ count # 0
  /\ Goto(c, "pop_locked", "pop_signal")
  /\ got' = [got EXCEPT ![c] = buffer[out]]
  /\ out' = (out + 1) % Size
  /\ count' = count - 1
  /\ lock' = NoThread
  /\ UNCHANGED <<in, buffer, full, empty, elem>>

PopSignal(c) ==
  /\ Goto(c, "pop_signal", "idle")
  /\ full' \in Signal(full)
  /\ UNCHANGED <<ring, lock, empty, elem, got>>

(***************************************************************************)
(* POSIX lets a wait return without a signal, and lets a signal wake more  *)
(* than one thread; the loops around the waits are there for that.         *)
(***************************************************************************)
SpuriousWakeup(t) ==
  /\ \/ t \in full  /\ full' = full \ {t} /\ UNCHANGED empty
     \/ t \in empty /\ empty' = empty \ {t} /\ UNCHANGED full
  /\ UNCHANGED <<ring, lock, pc, elem, got>>

-------------------------------------------------------------------------------
(* What a thread does once it is inside a call, but for acquiring the mutex. *)
Proceed(t) ==
  \/ t \in Producers /\ (PushWait(t) \/ PushStore(t) \/ PushSignal(t))
  \/ t \in Consumers /\ (PopWait(t) \/ PopTake(t) \/ PopSignal(t))

Lock(t) ==
  \/ t \in Producers /\ PushLock(t)
  \/ t \in Consumers /\ PopLock(t)

Next ==
  \/ \E p \in Producers, x \in Items : PushCall(p, x)
  \/ \E c \in Consumers : PopCall(c)
  \/ \E t \in Threads : Lock(t) \/ Proceed(t) \/ SpuriousWakeup(t)

Spec == Init /\ [][Next]_vars

(***************************************************************************)
(* A running thread is eventually scheduled (weak fairness), and a thread  *)
(* that keeps finding the mutex free at times eventually gets it (strong   *)
(* fairness: a pthread mutex is not a queue, but no thread is overtaken    *)
(* forever).  Consumers call pop again and again, as worker() does;        *)
(* nothing forces a producer to push, nor a spurious wakeup to happen.     *)
(***************************************************************************)
FairSpec == /\ Spec
            /\ \A t \in Threads : WF_vars(Proceed(t)) /\ SF_vars(Lock(t))
            /\ \A c \in Consumers : WF_vars(PopCall(c))
-------------------------------------------------------------------------------
TypeOK ==
  /\ in \in Slots /\ out \in Slots /\ count \in 0 .. Size
  /\ buffer \in [Slots -> Items \cup {Junk}]
  /\ lock \in Threads \cup {NoThread}
  /\ full \subseteq Producers /\ empty \subseteq Consumers
  /\ pc \in [Threads -> Labels]
  /\ elem \in [Producers -> Items \cup {Junk}]
  /\ got \in [Consumers -> Items \cup {Junk}]

(***************************************************************************)
(* No wakeup is lost (lines 60-61 and 76-77: the signal is sent after the  *)
(* mutex is released, so others run in between).  While a consumer is      *)
(* blocked, every element in the buffer has a thread on its way to it: a   *)
(* consumer that will test the count, or a producer that still owes its    *)
(* signal.  While a producer is blocked, the same holds of free slots.     *)
(***************************************************************************)
TowardsElements == {t \in Threads : \/ pc[t] = "push_signal"
                                    \/ pc[t] = "pop_locked"
                                    \/ pc[t] = "pop_lock" /\ t \notin empty}
TowardsSlots    == {t \in Threads : \/ pc[t] = "pop_signal"
                                    \/ pc[t] = "push_locked"
                                    \/ pc[t] = "push_lock" /\ t \notin full}

NoLostWakeup ==
  /\ empty # {} => count <= Cardinality(TowardsElements)
  /\ full # {} => Size - count <= Cardinality(TowardsSlots)

(***************************************************************************)
(* The ring, the counters and the waits implement the atomic queue: what   *)
(* pops return is what pushes put in, in order, once.  Lines 57-59 and     *)
(* 73-75 are the points at which a call takes effect.                      *)
(***************************************************************************)
Contents == [i \in 1 .. count |-> buffer[(out + i - 1) % Size]]

Abstract == INSTANCE Fifo WITH q <- Contents, Capacity <- Size, Nothing <- Junk

ImplementsFifo == Abstract!Spec

(***************************************************************************)
(* Liveness.  An element does not stay in the buffer while consumers       *)
(* sleep: the consumer side empties the queue or keeps taking from it      *)
(* (the buffer's front moves).  And a push returns, however long the queue *)
(* was full, when there is one producer, as in the server's main().        *)
(***************************************************************************)
ElementsLeave == \A s \in Slots : (count > 0 /\ out = s) ~> (count = 0 \/ out # s)
PushReturns   == \A p \in Producers : pc[p] = "push_lock" ~> pc[p] = "idle"
===============================================================================
