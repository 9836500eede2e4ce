------------------------ MODULE InterThreadCommProofs ------------------------
(***************************************************************************)
(* With one waiter and any number of senders that send only after the      *)
(* waiter has waited once, src/inter_thread_comm.c gives mutual exclusion  *)
(* and loses no signal.                                                    *)
(*                                                                         *)
(* Neither formula is inductive: itc_wait frees a mutex its thread need    *)
(* not hold.  What makes that harmless is that a waiter that has never     *)
(* waited finds every sender idle (NoneBefore), and that the threads on    *)
(* the condition variable are the waiters that wait (QueueIsWaiting).      *)
(***************************************************************************)
EXTENDS InterThreadComm, TLAPS

NoneBefore == \A w \in Waiter : pc[w] = "start" => \A s \in Sender : pc[s] = "idle"

QueueIsWaiting == \A w \in Waiter : w \in waiting <=> pc[w] = "waiting"

IInv == TypeOK /\ MutualExclusion /\ NoneBefore /\ QueueIsWaiting

LEMMA InitInv == Init => IInv
<1> SUFFICES ASSUME Init PROVE IInv
    OBVIOUS
<1>1. /\ \A w \in Waiter : pc[w] = "start"
      /\ \A s \in Sender : pc[s] = "idle"
      BY ThreadAssumption DEF Init
<1>2. TypeOK
  <2>1. pc \in [Waiter \cup Sender -> {"start", "waiting", "woken", "work",
                                       "idle", "locked", "signalled"}]
        BY Zenon DEF Init
  <2>2. sends \in 0 .. MaxSends BY SendsAssumption DEF Init
  <2> QED BY <1>1, <2>1, <2>2 DEF Init, TypeOK
<1>3. \A t \in Waiter \cup Sender : ~Inside(t) BY <1>1 DEF Inside
<1>4. MutualExclusion BY <1>3 DEF Init, MutualExclusion
<1>5. NoneBefore /\ QueueIsWaiting BY <1>1 DEF Init, NoneBefore, QueueIsWaiting
<1> QED BY <1>2, <1>4, <1>5 DEF IInv

LEMMA WaiterInv ==
    ASSUME IInv, NEW w \in Waiter, WaiterStep(w) \/ SpuriousWakeup(w)
    PROVE  IInv'
<1> USE ThreadAssumption, SingleWaiter
    DEF IInv, TypeOK, MutualExclusion, NoneBefore, QueueIsWaiting, Inside
<1>1. CASE itc_wait(w)
  <2>1. TypeOK' BY <1>1 DEF itc_wait
  <2>2. \A t \in Waiter \cup Sender : ~Inside(t)' BY <1>1 DEF itc_wait
  <2>3. (NoneBefore /\ QueueIsWaiting)' BY <1>1 DEF itc_wait
  <2> QED BY <1>1, <2>1, <2>2, <2>3 DEF itc_wait
<1>2. CASE Relock(w) BY <1>2 DEF Relock
<1>3. CASE SpuriousWakeup(w) BY <1>3 DEF SpuriousWakeup
<1> QED BY <1>1, <1>2, <1>3 DEF WaiterStep

LEMMA SenderInv ==
    ASSUME IInv, NEW s \in Sender, Lock(s) \/ SenderStep(s)
    PROVE  IInv'
<1> USE ThreadAssumption, SingleWaiter, SendsAssumption
    DEF IInv, TypeOK, MutualExclusion, NoneBefore, QueueIsWaiting, Inside
<1>1. CASE Lock(s) BY <1>1 DEF Lock, MaySend
<1>2. CASE Signal(s)
  <2>1. CASE waiting = {} /\ pc' = [pc EXCEPT ![s] = "signalled"] /\ UNCHANGED waiting
        BY <1>2, <2>1 DEF Signal
  <2>2. ASSUME NEW w \in waiting,
               waiting' = waiting \ {w},
               pc' = [pc EXCEPT ![s] = "signalled", ![w] = "woken"]
        PROVE  IInv'
        BY <1>2, <2>2 DEF Signal
  <2> QED BY <1>2, <2>1, <2>2 DEF Signal
<1>3. CASE Broadcast(s) BY <1>3 DEF Broadcast
<1>4. CASE Unlock(s) BY <1>4 DEF Unlock
<1> QED BY <1>1, <1>2, <1>3, <1>4 DEF SenderStep

LEMMA StutterInv == IInv /\ UNCHANGED vars => IInv'
  BY DEF IInv, TypeOK, MutualExclusion, NoneBefore, QueueIsWaiting, Inside, vars

LEMMA Invariance == Spec => []IInv
<1>1. IInv /\ [Next]_vars => IInv'
  BY WaiterInv, SenderInv, StutterInv DEF Next
<1> QED BY InitInv, <1>1, PTL DEF Spec

(***************************************************************************)
(* The thread that works after itc_wait and the threads in itc_send and    *)
(* itc_broadcast hold the mutex one at a time, although itc_wait never     *)
(* locks it: whatever the number of senders and of spurious wakeups.       *)
(***************************************************************************)
THEOREM Exclusion == Spec => []MutualExclusion
<1>1. IInv => MutualExclusion BY DEF IInv
<1> QED BY Invariance, <1>1, PTL

(***************************************************************************)
(* When itc_send or itc_broadcast signals, the waiter is on the condition  *)
(* variable or already woken: no signal falls between two waits.           *)
(***************************************************************************)
THEOREM SignalsArrive == Spec => []NoSignalMissed
<1>1. IInv => NoSignalMissed
  BY ThreadAssumption
  DEF IInv, TypeOK, MutualExclusion, NoneBefore, QueueIsWaiting, NoSignalMissed, Inside
<1> QED BY Invariance, <1>1, PTL
=============================================================================
