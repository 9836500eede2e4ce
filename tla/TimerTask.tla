------------------------------ MODULE TimerTask ------------------------------
(***************************************************************************)
(* The timer service of src/timer_task.c: one service thread walks the     *)
(* task list once a second and runs what is due, while any thread adds,    *)
(* pauses, cancels or re-times tasks.  There is no lock; each call of the  *)
(* API is one step here, while the service thread is interrupted between   *)
(* reading a task's state, deciding that it is due, calling its handler    *)
(* and finishing the visit.                                                *)
(***************************************************************************)
EXTENDS LinkedList

CONSTANTS
    Slot,        \* the task_t blocks that malloc can return
    ListHead,        \* &timer_task_list
    Handler,     \* the task handlers
    NoHandler,   \* the NULL handler
    Period,      \* the periods that callers pass, in passes of the service
    MaxCalls,    \* bound on the API calls of a run
    MaxThreads   \* how many detached threads the system grants

ASSUME SlotAssumption == Node = Slot \cup {ListHead} /\ ListHead \notin Slot
ASSUME HandlerAssumption == NoHandler \notin Handler
ASSUME PeriodAssumption == Period \subseteq Nat
ASSUME BoundAssumption == MaxCalls \in Nat /\ MaxThreads \in Nat

VARIABLES
    mem,         \* the list words of the blocks and of timer_task_list
    used,        \* the blocks that are allocated
    tk,          \* the fields of each block
    pc,          \* where the service thread is
    cur, nxt,    \* its "task" and "next"
    spawned,     \* how many threads run each handler
    calls,       \* API calls so far
    born         \* auxiliary: the call that added each block

service == <<pc, cur, nxt>>
vars == <<mem, used, tk, pc, cur, nxt, spawned, calls, born>>

Task == [handler : Handler \cup {NoHandler}, periodic : Nat, is_once : BOOLEAN,
         task_type : {"NORMAL", "THREAD"}, cnt : Nat,
         state : {"WORK", "PAUSE", "DIE"}]

ServicePoints == {"off", "sleep", "switch", "work", "call", "run", "finish",
                  "dying", "crash"}

TypeOK ==
    /\ mem \in Memory
    /\ used \subseteq Slot
    /\ tk \in [Slot -> Task]
    /\ \A n \in used : tk[n].handler # NoHandler
    /\ pc \in ServicePoints
    /\ cur \in Node \cup {Poison} /\ nxt \in Node \cup {Poison}
    /\ spawned \in [Handler -> 0 .. MaxThreads]
    /\ calls \in 0 .. MaxCalls
    /\ born \in [Slot -> Nat]

Zeroed == [handler |-> NoHandler, periodic |-> 0, is_once |-> FALSE,
           task_type |-> "NORMAL", cnt |-> 0, state |-> "WORK"]

Init ==
    /\ mem = [next |-> [n \in Node |-> IF n = ListHead THEN ListHead ELSE Poison],
              prev |-> [n \in Node |-> IF n = ListHead THEN ListHead ELSE Poison]]
    /\ used = {}
    /\ tk = [n \in Slot |-> Zeroed]
    /\ pc = "off" /\ cur = ListHead /\ nxt = ListHead
    /\ spawned = [h \in Handler |-> 0]
    /\ calls = 0
    /\ born = [n \in Slot |-> 0]

-----------------------------------------------------------------------------
(* The API, called by any thread and by the handlers.                      *)

CallAPI == pc # "crash" /\ calls < MaxCalls /\ calls' = calls + 1

timer_task_add(h, p, once, type) ==
    /\ CallAPI
    /\ h # NoHandler
    /\ \E n \in Slot \ used :
          /\ used' = used \cup {n}
          /\ tk' = [tk EXCEPT ![n] = [handler |-> h, periodic |-> p,
                                      is_once |-> once, task_type |-> type,
                                      cnt |-> 0, state |-> "WORK"]]
          /\ mem' = list_add_tail(mem, n, ListHead)
          /\ born' = [born EXCEPT ![n] = calls']
    /\ UNCHANGED <<service, spawned>>

\* security_zerolloc clears what malloc returned before anyone tests it
AddWithoutMemory ==
    /\ CallAPI
    /\ pc' = "crash"
    /\ UNCHANGED <<mem, used, tk, cur, nxt, spawned, born>>

\* the first entry with this handler, as list_for_each_entry finds it
Found(h) ==
    LET walk == list_for_each(mem, ListHead)
    IN  {n \in Slot : \E i \in DOMAIN walk :
            /\ walk[i] = n /\ tk[n].handler = h
            /\ \A j \in 1 .. i-1 : tk[walk[j]].handler # h}

timer_task_pause(h) ==
    /\ CallAPI
    /\ tk' = [n \in Slot |-> IF n \in Found(h)
                             THEN [tk[n] EXCEPT !.state = "PAUSE"] ELSE tk[n]]
    /\ UNCHANGED <<mem, used, service, spawned, born>>

timer_task_cancel(h) ==
    /\ CallAPI
    /\ tk' = [n \in Slot |-> IF n \in Found(h)
                             THEN [tk[n] EXCEPT !.state = "DIE"] ELSE tk[n]]
    /\ UNCHANGED <<mem, used, service, spawned, born>>

timer_task_modify_periodic(h, p) ==
    /\ CallAPI
    /\ tk' = [n \in Slot |-> IF n \in Found(h)
                             THEN [tk[n] EXCEPT !.periodic = p] ELSE tk[n]]
    /\ UNCHANGED <<mem, used, service, spawned, born>>

\* the service is started once, by the program's initialisation
timer_task_init ==
    /\ pc = "off"
    /\ pc' = "sleep"
    /\ UNCHANGED <<mem, used, tk, cur, nxt, spawned, calls, born>>

-----------------------------------------------------------------------------
(* The service thread.                                                     *)

\* mutant: list_for_each_entry, which reads the next word after the visit
Advance_NotSafe(m) ==
    /\ cur' = m.next[cur]
    /\ nxt' = cur'
    /\ pc' = IF cur' = ListHead THEN "sleep" ELSE "switch"

\* list_for_each_entry_safe: pos = n, n = n->next, until pos is the head
Advance(m) ==
    /\ cur' = nxt
    /\ nxt' = m.next[nxt]
    /\ pc' = IF nxt = ListHead THEN "sleep" ELSE "switch"

\* usleep returns and the list is not empty
BeginPass ==
    /\ pc = "sleep"
    /\ ~list_empty(mem, ListHead)
    /\ cur' = mem.next[ListHead]
    /\ nxt' = mem.next[mem.next[ListHead]]
    /\ pc' = "switch"
    /\ UNCHANGED <<mem, used, tk, spawned, calls, born>>

\* mutant: a dying task is passed over like a paused one
Switch_KeepsDying ==
    /\ pc = "switch"
    /\ \/ /\ tk[cur].state # "WORK"
          /\ Advance(mem)
       \/ /\ tk[cur].state = "WORK"
          /\ pc' = "work"
          /\ UNCHANGED <<cur, nxt>>
    /\ UNCHANGED <<mem, used, tk, spawned, calls, born>>

\* switch (task->state); a paused task is passed over
Switch ==
    /\ pc = "switch"
    /\ \/ /\ tk[cur].state = "PAUSE"
          /\ Advance(mem)
       \/ /\ tk[cur].state # "PAUSE"
          /\ pc' = IF tk[cur].state = "WORK" THEN "work" ELSE "dying"
          /\ UNCHANGED <<cur, nxt>>
    /\ UNCHANGED <<mem, used, tk, spawned, calls, born>>

IsDue(n) == tk[n].cnt % tk[n].periodic = 0

\* not due: only cnt++
NotDue ==
    /\ pc = "work"
    /\ tk[cur].periodic # 0 /\ ~IsDue(cur)
    /\ tk' = [tk EXCEPT ![cur].cnt = @ + 1]
    /\ Advance(mem)
    /\ UNCHANGED <<mem, used, spawned, calls, born>>

Due ==
    /\ pc = "work"
    /\ tk[cur].periodic # 0 /\ IsDue(cur)
    /\ tk' = [tk EXCEPT ![cur].cnt = 0]
    /\ pc' = "call"
    /\ UNCHANGED <<mem, used, cur, nxt, spawned, calls, born>>

\* cnt % 0 raises SIGFPE
DivideByZero ==
    /\ pc = "work"
    /\ tk[cur].periodic = 0
    /\ pc' = "crash"
    /\ UNCHANGED <<mem, used, tk, cur, nxt, spawned, calls, born>>

CallInline ==
    /\ pc = "call"
    /\ tk[cur].task_type = "NORMAL"
    /\ pc' = "run"
    /\ UNCHANGED <<mem, used, tk, cur, nxt, spawned, calls, born>>

\* task_maker may fail, and its result is ignored
CallThread ==
    /\ pc = "call"
    /\ tk[cur].task_type = "THREAD"
    /\ \/ UNCHANGED spawned
       \/ \E h \in Handler :
             /\ h = tk[cur].handler /\ spawned[h] < MaxThreads
             /\ spawned' = [spawned EXCEPT ![h] = @ + 1]
    /\ pc' = "finish"
    /\ UNCHANGED <<mem, used, tk, cur, nxt, calls, born>>

HandlerReturns ==
    /\ pc = "run"
    /\ pc' = "finish"
    /\ UNCHANGED <<mem, used, tk, cur, nxt, spawned, calls, born>>

\* mutant: the state is rewritten for every task
Finish_Rewrites ==
    /\ pc = "finish"
    /\ tk' = [tk EXCEPT ![cur].state = IF tk[cur].is_once THEN "DIE" ELSE "WORK",
                        ![cur].cnt = @ + 1]
    /\ Advance(mem)
    /\ UNCHANGED <<mem, used, spawned, calls, born>>

\* if (is_once) state = DIE; cnt++
Finish ==
    /\ pc = "finish"
    /\ tk' = [tk EXCEPT ![cur].state = IF tk[cur].is_once THEN "DIE" ELSE @,
                        ![cur].cnt = @ + 1]
    /\ Advance(mem)
    /\ UNCHANGED <<mem, used, spawned, calls, born>>

\* mutant: the walk starts over after an entry was deleted
Reclaim_Restarts ==
    /\ pc = "dying"
    /\ mem' = list_del(mem, cur)
    /\ used' = used \ {cur}
    /\ cur' = mem'.next[ListHead]
    /\ nxt' = mem'.next[mem'.next[ListHead]]
    /\ pc' = IF list_empty(mem', ListHead) THEN "sleep" ELSE "switch"
    /\ UNCHANGED <<tk, spawned, calls, born>>

Reclaim ==
    /\ pc = "dying"
    /\ mem' = list_del(mem, cur)
    /\ used' = used \ {cur}
    /\ Advance(mem')
    /\ UNCHANGED <<tk, spawned, calls, born>>

\* a detached handler thread ends
ThreadEnds(h) ==
    /\ pc # "crash"
    /\ spawned[h] > 0
    /\ spawned' = [spawned EXCEPT ![h] = @ - 1]
    /\ UNCHANGED <<mem, used, tk, service, calls, born>>

-----------------------------------------------------------------------------
Caller ==
    \/ \E h \in Handler \cup {NoHandler}, p \in Period, once \in BOOLEAN,
          type \in {"NORMAL", "THREAD"} : timer_task_add(h, p, once, type)
    \/ AddWithoutMemory
    \/ \E h \in Handler : timer_task_pause(h) \/ timer_task_cancel(h)
    \/ \E h \in Handler, p \in Period : timer_task_modify_periodic(h, p)
    \/ timer_task_init

Service == \/ BeginPass \/ Switch \/ NotDue \/ Due \/ DivideByZero
           \/ CallInline \/ CallThread \/ HandlerReturns \/ Finish \/ Reclaim

Next == Caller \/ Service \/ \E h \in Handler : ThreadEnds(h)

Spec == Init /\ [][Next]_vars

\* the service thread is scheduled and the handlers it calls return; nothing is
\* assumed of the callers
FairSpec == Spec /\ WF_vars(Service)

-----------------------------------------------------------------------------
(***************************************************************************)
(* The service thread never holds a block that was freed: "task" is        *)
(* allocated for the whole visit, and "next", read before the handler ran, *)
(* is still an entry or the head when the cursor moves to it.              *)
(***************************************************************************)
CursorSafe ==
    pc \in {"switch", "work", "call", "run", "finish", "dying"}
    => cur \in used /\ nxt \in (used \ {cur}) \cup {ListHead}

(***************************************************************************)
(* timer_task_list holds exactly the allocated blocks, in the order they   *)
(* were added, and reads the same backwards.                               *)
(***************************************************************************)
ListInOrder ==
    LET fwd == list_for_each(mem, ListHead)
        bwd == list_for_each_prev(mem, ListHead)
    IN  /\ {fwd[i] : i \in DOMAIN fwd} = used
        /\ \A i, j \in DOMAIN fwd : i < j => born[fwd[i]] < born[fwd[j]]
        /\ Len(bwd) = Len(fwd)
        /\ \A i \in DOMAIN fwd : bwd[i] = fwd[Len(fwd) + 1 - i]

(***************************************************************************)
(* TimerTask implements TimerContract: a task's state is what its life is, *)
(* and the service is at the task under its cursor.                        *)
(***************************************************************************)
LifeOf(n) == IF n \notin used THEN "free"
             ELSE IF tk[n].state = "WORK" THEN "armed"
             ELSE IF tk[n].state = "PAUSE" THEN "held" ELSE "ending"

TurnOf ==
    CASE pc = "work" -> [stage |-> "chosen", slot |-> cur]
      [] pc = "call" -> [stage |-> "due", slot |-> cur]
      [] pc \in {"run", "finish"} -> [stage |-> "called", slot |-> cur]
      [] pc = "dying" -> [stage |-> "doomed", slot |-> cur]
      [] pc = "crash" -> [stage |-> "crashed"]
      [] OTHER -> [stage |-> "none"]

Contract == INSTANCE TimerContract
    WITH life <- [n \in Slot |-> LifeOf(n)], turn <- TurnOf

ImplementsContract == Contract!Spec

-----------------------------------------------------------------------------
(***************************************************************************)
(* A task that is to die is freed, unless a later pause takes it back: the *)
(* block of a cancelled or expired task does not stay in the list.         *)
(***************************************************************************)
DyingIsFreed ==
    \A n \in Slot :
        (n \in used /\ tk[n].state = "DIE" /\ pc # "off")
        ~> (n \notin used \/ tk[n].state = "PAUSE" \/ pc = "crash")

(***************************************************************************)
(* A working task falls due in the end: finitely many calls of modify,     *)
(* cancel and pause, and handlers that return, cannot starve it.           *)
(***************************************************************************)
WorkingFallsDue ==
    \A n \in Slot :
        (n \in used /\ tk[n].state = "WORK" /\ pc # "off")
        ~> ((pc = "call" /\ cur = n) \/ tk[n].state # "WORK" \/ pc = "crash")

(***************************************************************************)
(* Every pass ends and the service sleeps again, although a handler may    *)
(* append tasks that the same pass then visits.                            *)
(***************************************************************************)
EveryPassEnds == pc = "switch" ~> pc \in {"sleep", "crash"}

(***************************************************************************)
(* Nothing the service has to do is put off for ever.                      *)
(***************************************************************************)
NothingStarves == DyingIsFreed /\ WorkingFallsDue /\ EveryPassEnds
=============================================================================
