--------------------------- MODULE InterThreadComm ---------------------------
(***************************************************************************)
(* The signal between threads of src/inter_thread_comm.c: a mutex and a    *)
(* condition variable, and no predicate.  itc_send and itc_broadcast lock, *)
(* signal and unlock; itc_wait calls pthread_cond_wait without locking     *)
(* first and returns with the mutex held, which its caller then keeps      *)
(* until it waits again.  The mutex is a default one: unlocking it frees   *)
(* it whoever holds it, and the thread that locked it is not remembered.   *)
(***************************************************************************)
EXTENDS Naturals, FiniteSets

CONSTANTS Waiter,     \* threads that call itc_wait in a loop
          Sender,     \* threads that call itc_send or itc_broadcast
          MaxSends    \* bound on the calls of the senders

ASSUME ThreadAssumption == Waiter \cap Sender = {}
ASSUME SendsAssumption == MaxSends \in Nat

\* A second waiter that starts to wait frees the mutex the first one works
\* under: the properties are about the use with one waiter.
ASSUME SingleWaiter == \A v, w \in Waiter : v = w

VARIABLES locked,     \* itc->mutex
          waiting,    \* the threads blocked on itc->cond
          pc,         \* where each thread is
          sends       \* calls of the senders so far

vars == <<locked, waiting, pc, sends>>

TypeOK ==
    /\ locked \in BOOLEAN
    /\ waiting \subseteq Waiter
    /\ pc \in [Waiter \cup Sender -> {"start", "waiting", "woken", "work",
                                       "idle", "locked", "signalled"}]
    /\ \A w \in Waiter : pc[w] \in {"start", "waiting", "woken", "work"}
    /\ \A s \in Sender : pc[s] \in {"idle", "locked", "signalled"}
    /\ sends \in 0 .. MaxSends

Init ==
    /\ locked = FALSE
    /\ waiting = {}
    /\ pc = [t \in Waiter \cup Sender |-> IF t \in Waiter THEN "start" ELSE "idle"]
    /\ sends = 0

\* mutant: the thread gives the mutex back when it has been woken
Relock_GivesBack(w) ==
    /\ pc[w] = "woken" /\ ~locked
    /\ pc' = [pc EXCEPT ![w] = "work"]
    /\ UNCHANGED <<locked, waiting, sends>>

\* itc_wait: pthread_cond_wait queues the thread and frees the mutex
itc_wait(w) ==
    /\ pc[w] \in {"start", "work"}
    /\ waiting' = waiting \cup {w}
    /\ locked' = FALSE
    /\ pc' = [pc EXCEPT ![w] = "waiting"]
    /\ UNCHANGED sends

\* ... and returns once it has the mutex again
Relock(w) ==
    /\ pc[w] = "woken" /\ ~locked
    /\ locked' = TRUE
    /\ pc' = [pc EXCEPT ![w] = "work"]
    /\ UNCHANGED <<waiting, sends>>

\* pthread_cond_wait may return without a signal
SpuriousWakeup(w) ==
    /\ w \in waiting
    /\ waiting' = waiting \ {w}
    /\ pc' = [pc EXCEPT ![w] = "woken"]
    /\ UNCHANGED <<locked, sends>>

\* A send that overlaps a thread's first itc_wait has its mutex freed under it:
\* callers that are served send only after every waiter has waited once.
MaySend == \A w \in Waiter : pc[w] # "start"

Lock(s) ==
    /\ pc[s] = "idle" /\ sends < MaxSends /\ MaySend
    /\ ~locked
    /\ locked' = TRUE
    /\ sends' = sends + 1
    /\ pc' = [pc EXCEPT ![s] = "locked"]
    /\ UNCHANGED waiting

\* itc_send: pthread_cond_signal wakes one waiting thread, if there is one
Signal(s) ==
    /\ pc[s] = "locked"
    /\ \/ waiting = {} /\ pc' = [pc EXCEPT ![s] = "signalled"] /\ UNCHANGED waiting
       \/ \E w \in waiting :
             /\ waiting' = waiting \ {w}
             /\ pc' = [pc EXCEPT ![s] = "signalled", ![w] = "woken"]
    /\ UNCHANGED <<locked, sends>>

\* itc_broadcast: pthread_cond_broadcast wakes them all
Broadcast(s) ==
    /\ pc[s] = "locked"
    /\ waiting' = {}
    /\ pc' = [t \in Waiter \cup Sender |-> IF t = s THEN "signalled"
                                           ELSE IF t \in waiting THEN "woken"
                                           ELSE pc[t]]
    /\ UNCHANGED <<locked, sends>>

\* mutant: the mutex stays locked
Unlock_Forgotten(s) ==
    /\ pc[s] = "signalled"
    /\ pc' = [pc EXCEPT ![s] = "idle"]
    /\ UNCHANGED <<locked, waiting, sends>>

Unlock(s) ==
    /\ pc[s] = "signalled"
    /\ locked' = FALSE
    /\ pc' = [pc EXCEPT ![s] = "idle"]
    /\ UNCHANGED <<waiting, sends>>

WaiterStep(w) == itc_wait(w) \/ Relock(w)

SenderStep(s) == Signal(s) \/ Broadcast(s) \/ Unlock(s)

Next == \/ \E w \in Waiter : WaiterStep(w) \/ SpuriousWakeup(w)
        \/ \E s \in Sender : Lock(s) \/ SenderStep(s)

Spec == Init /\ [][Next]_vars

\* threads are scheduled, and a waiter waits again when its work is done; a
\* thread that wants the mutex gets it, though senders may overtake it
FairSpec == /\ Spec
            /\ \A w \in Waiter : WF_vars(itc_wait(w)) /\ SF_vars(Relock(w))
            /\ \A s \in Sender : WF_vars(SenderStep(s))

-----------------------------------------------------------------------------
Inside(t) == pc[t] \in {"work", "locked", "signalled"}

(***************************************************************************)
(* A thread that works after itc_wait and a thread between the lock and    *)
(* the unlock of itc_send hold the mutex, one at a time, although nobody   *)
(* locks it before pthread_cond_wait.                                      *)
(***************************************************************************)
MutualExclusion ==
    /\ \A t, u \in Waiter \cup Sender : Inside(t) /\ Inside(u) => t = u
    /\ locked <=> \E t \in Waiter \cup Sender : Inside(t)

(***************************************************************************)
(* No signal is sent while the waiter is away from the condition variable: *)
(* at the signal it is blocked there, or has been woken and not yet run.   *)
(***************************************************************************)
NoSignalMissed ==
    \A s \in Sender : pc[s] = "locked" =>
        \A w \in Waiter : w \in waiting \/ pc[w] = "woken"

(***************************************************************************)
(* After a call of itc_send the waiter returns from itc_wait.              *)
(***************************************************************************)
SendIsHeard ==
    \A s \in Sender, w \in Waiter : pc[s] = "signalled" ~> pc[w] = "work"
=============================================================================
