--------------------------- MODULE HttpServerProofs ---------------------------
(***************************************************************************)
(* Proofs about HttpServer, for every number of workers, every set of      *)
(* requests and every set of files.                                        *)
(***************************************************************************)
EXTENDS HttpServer, TLAPS

(* Where handle_connection goes after parsing. *)
LEMMA HandlerLabels ==
  ASSUME NEW w \in Workers
  PROVE  Handler[Method(w)] \in {"get_lock", "put_lock", "reply"}
  <1>1. Method(w) \in Methods
    BY HttpAssumption DEF Method, Methods
  <1> QED BY <1>1 DEF Methods, Handler

(* The labels before and after a turn is taken. *)
LEMMA TurnLabels ==
  /\ DOMAIN Turn = {"get_lock", "get_relock", "put_lock"}
  /\ \A l \in DOMAIN Turn : Turn[l] \in {"get_yield", "get_test", "put_access"}
  BY DEF Turn

(* The labels before and after the signal at the end of a turn. *)
LEMMA SignalLabels ==
  /\ DOMAIN AfterSignal = {"get_signal", "get_opened", "put_opened", "not_opened"}
  /\ \A l \in DOMAIN AfterSignal :
       AfterSignal[l] \in {"get_relock", "get_stat", "put_recv", "reply"}
  BY DEF AfterSignal

(* A signal adds no waiter. *)
LEMMA SignalSubset ==
  ASSUME NEW S, NEW T \in Signal(S)
  PROVE  T \subseteq S
  BY DEF Signal

-------------------------------------------------------------------------------
(***************************************************************************)
(* The turn.  CreationMutex is inductive once the control state is typed.  *)
(***************************************************************************)
ControlTypes ==
  /\ pc \in [Workers -> Labels]
  /\ creation_lock \in Workers \cup {NoWorker}
  /\ creating \in BOOLEAN
  /\ creation_waiting \subseteq Workers

TurnInv == ControlTypes /\ CreationMutex

(* Steps outside of the turn: the mutex and who is in the turn stay.       *)
LEMMA OutsideTurn ==
  ASSUME TurnInv, UNCHANGED mutex, NEW w \in Workers, NEW to \in Labels,
         pc' = [pc EXCEPT ![w] = to], pc[w] \in InTurn <=> to \in InTurn
  PROVE  TurnInv'
  BY DEF TurnInv, ControlTypes, CreationMutex, mutex

(* The end of a turn. *)
LEMMA TurnEnds ==
  ASSUME TurnInv, EndTurn, NEW w \in Workers, NEW to \in Labels \ InTurn,
         pc' = [pc EXCEPT ![w] = to], pc[w] \in InTurn
  PROVE  TurnInv'
  <1>1. creation_lock = w /\ w # NoWorker
    BY HttpAssumption DEF TurnInv, CreationMutex
  <1> QED BY <1>1, HttpAssumption
          DEF TurnInv, ControlTypes, CreationMutex, EndTurn

(* The start of a turn: nobody has it, and one worker gets it. *)
LEMMA TurnTaken ==
  ASSUME TurnInv, NEW w \in Workers, TakeTurn(w)
  PROVE  TurnInv'
  <1>1. creation_lock = NoWorker /\ creating = FALSE
    BY DEF TakeTurn, TurnInv, ControlTypes, CreationMutex
  <1>2. /\ creation_lock' = w /\ creating' = TRUE
        /\ pc' = [pc EXCEPT ![w] = Turn[pc[w]]]
        /\ creation_waiting' = creation_waiting
    BY <1>1 DEF TakeTurn
  <1>3. Turn[pc[w]] \in {"get_yield", "get_test", "put_access"}
    BY TurnLabels DEF TakeTurn
  <1>4. \A v \in Workers : pc[v] \notin InTurn
    BY <1>1, HttpAssumption DEF TurnInv, CreationMutex
  <1>5. ControlTypes'
    BY <1>2, <1>3 DEF TurnInv, ControlTypes, Labels
  <1>6. CreationMutex'
    BY <1>2, <1>3, <1>4, HttpAssumption
       DEF TurnInv, ControlTypes, CreationMutex, InTurn
  <1> QED BY <1>5, <1>6 DEF TurnInv

(* At the start nobody has the turn. *)
LEMMA InitTurnInv == Init => TurnInv
  BY HttpAssumption
     DEF Init, TurnInv, ControlTypes, CreationMutex, InTurn, Labels

(* Every step preserves the invariant. *)
LEMMA NextTurnInv == TurnInv /\ [Next]_vars => TurnInv'
  <1> SUFFICES ASSUME TurnInv, [Next]_vars PROVE TurnInv'
    OBVIOUS
  <1> USE DEF Goto
  <1>1. CASE UNCHANGED vars \/ Main \/ Quiet
    BY <1>1 DEF Main, Accept, AcceptFails, Push, Quiet, vars, mutex,
                TurnInv, ControlTypes, CreationMutex
  <1>2. ASSUME NEW w \in Workers, TakeTurn(w)
        PROVE  TurnInv'
    BY <1>2, TurnTaken
  <1>3. ASSUME NEW w \in Workers, Pop(w) \/ Reply(w) \/ AuditLog(w) \/ Close(w)
        PROVE  TurnInv'
    BY <1>3, OutsideTurn DEF Pop, Reply, AuditLog, Close, InTurn, Labels
  <1>4. ASSUME NEW w \in Workers, Parse(w)
        PROVE  TurnInv'
    BY <1>4, HandlerLabels, OutsideTurn DEF Parse, InTurn, Labels
  <1>5. ASSUME NEW w \in Workers, SignalTurn(w)
        PROVE  TurnInv'
    <2>1. AfterSignal[pc[w]] \in {"get_relock", "get_stat", "put_recv", "reply"}
      BY <1>5, SignalLabels DEF SignalTurn
    <2>2. pc[w] \notin InTurn
      BY <1>5, SignalLabels DEF SignalTurn, InTurn
    <2>3. UNCHANGED mutex
      BY <1>5, SignalSubset DEF SignalTurn, TurnInv, CreationMutex, mutex
    <2> QED BY <1>5, <2>1, <2>2, <2>3, OutsideTurn DEF SignalTurn, InTurn, Labels
  <1>6. ASSUME NEW w \in Workers, Get(w)
        PROVE  TurnInv'
    <2>1. CASE GetYield(w)
      BY <2>1, TurnEnds DEF GetYield, InTurn, Labels
    <2>2. CASE GetWait(w)
      BY <2>2, OutsideTurn DEF GetWait, InTurn, Labels
    <2>3. CASE GetOpen(w)
      BY <2>3, TurnEnds, OutsideTurn DEF GetOpen, InTurn, Labels
    <2>4. CASE GetFlock(w)
      BY <2>4, TurnEnds DEF GetFlock, InTurn, Labels
    <2>5. CASE GetStat(w)
      BY <2>5, OutsideTurn DEF GetStat, InTurn, Labels
    <2>6. CASE GetSend(w) \/ GetSent(w)
      BY <2>6, OutsideTurn DEF GetSend, GetSent, InTurn, Labels
    <2> QED BY <1>6, <2>1, <2>2, <2>3, <2>4, <2>5, <2>6 DEF Get
  <1>7. ASSUME NEW w \in Workers, Put(w)
        PROVE  TurnInv'
    <2>1. CASE PutAccess(w) \/ PutCreate(w)
      BY <2>1, OutsideTurn DEF PutAccess, PutCreate, InTurn, Labels
    <2>2. CASE PutOpen(w)
      BY <2>2, TurnEnds, OutsideTurn DEF PutOpen, InTurn, Labels
    <2>3. CASE PutFlock(w)
      BY <2>3, TurnEnds DEF PutFlock, InTurn, Labels
    <2>4. CASE PutRecv(w) \/ PutReceived(w) \/ PutWriteFails(w)
      BY <2>4, OutsideTurn DEF PutRecv, PutReceived, PutWriteFails, InTurn, Labels
    <2> QED BY <1>7, <2>1, <2>2, <2>3, <2>4 DEF Put
  <1> QED BY <1>1, <1>2, <1>3, <1>4, <1>5, <1>6, <1>7 DEF Next, Serve

(***************************************************************************)
(* Every path through handle_get and handle_put takes and ends the turn    *)
(* correctly, so the flag creating and its condition variable never make a *)
(* thread wait: creation_lock alone orders the turns.                      *)
(***************************************************************************)
THEOREM TurnsExclude == Spec => []CreationMutex
  <1>1. TurnInv => CreationMutex
    BY DEF TurnInv
  <1> QED BY InitTurnInv, NextTurnInv, <1>1, PTL DEF Spec
===============================================================================
