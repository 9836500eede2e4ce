-------------------------- MODULE TimerTaskHistory --------------------------
(***************************************************************************)
(* TimerTask with history variables, for properties that relate a visit of *)
(* the service thread to earlier visits and calls.  No guard reads them.   *)
(***************************************************************************)
EXTENDS TimerTask

VARIABLES
    owed,     \* tasks listed when the pass began and not visited yet
    seen,     \* tasks visited in this pass
    gap,      \* visits of each task since it was added, re-timed or due
    steady,   \* whether it was due once and has not been re-timed since
    shots,    \* how often its handler was started (0, 1, 2 = more)
    halted,   \* whether it was paused or cancelled
    late      \* how often its handler was started after that (0, 1, 2 = more)

pass == <<owed, seen>>
story == <<gap, steady, shots, halted, late>>
hvars == <<vars, pass, story>>

HInit ==
    /\ Init
    /\ owed = {} /\ seen = {}
    /\ gap = [n \in Slot |-> 0]
    /\ steady = [n \in Slot |-> FALSE]
    /\ shots = [n \in Slot |-> 0]
    /\ halted = [n \in Slot |-> FALSE]
    /\ late = [n \in Slot |-> 0]

AtMostTwo(k) == IF k > 2 THEN 2 ELSE k

Reset(f, S, v) == [n \in Slot |-> IF n \in S THEN v ELSE f[n]]

Added ==
    /\ \E h \in Handler \cup {NoHandler}, p \in Period, once \in BOOLEAN,
          type \in {"NORMAL", "THREAD"} : timer_task_add(h, p, once, type)
    /\ gap' = Reset(gap, used' \ used, 0)
    /\ steady' = Reset(steady, used' \ used, FALSE)
    /\ shots' = Reset(shots, used' \ used, 0)
    /\ halted' = Reset(halted, used' \ used, FALSE)
    /\ late' = Reset(late, used' \ used, 0)
    /\ UNCHANGED pass

Halted ==
    /\ \E h \in Handler :
          /\ timer_task_pause(h) \/ timer_task_cancel(h)
          /\ halted' = Reset(halted, Found(h), TRUE)
    /\ UNCHANGED <<pass, gap, steady, shots, late>>

Retimed ==
    /\ \E h \in Handler, p \in Period :
          /\ timer_task_modify_periodic(h, p)
          /\ gap' = Reset(gap, Found(h), 0)
          /\ steady' = Reset(steady, Found(h), FALSE)
    /\ UNCHANGED <<pass, shots, halted, late>>

PassBegins == BeginPass /\ owed' = used /\ seen' = {} /\ UNCHANGED story

Visited ==
    /\ Switch
    /\ owed' = owed \ {cur} /\ seen' = seen \cup {cur}
    /\ UNCHANGED story

PassedOver ==
    /\ NotDue
    /\ gap' = [gap EXCEPT ![cur] = @ + 1]
    /\ UNCHANGED <<pass, steady, shots, halted, late>>

FellDue ==
    /\ Due
    /\ gap' = [gap EXCEPT ![cur] = 0]
    /\ steady' = [steady EXCEPT ![cur] = TRUE]
    /\ UNCHANGED <<pass, shots, halted, late>>

Called ==
    /\ CallInline \/ CallThread
    /\ shots' = [shots EXCEPT ![cur] = AtMostTwo(@ + 1)]
    /\ late' = [late EXCEPT ![cur] = IF halted[cur] THEN AtMostTwo(@ + 1) ELSE @]
    /\ UNCHANGED <<pass, gap, steady, halted>>

\* the block may come back as another task in the same pass
Reclaimed == Reclaim /\ seen' = seen \ {cur} /\ UNCHANGED <<owed, story>>

Untold == HandlerReturns \/ Finish \/ DivideByZero \/ AddWithoutMemory
          \/ timer_task_init \/ \E h \in Handler : ThreadEnds(h)

HNext == \/ Added \/ Halted \/ Retimed \/ PassBegins \/ Visited \/ PassedOver
         \/ FellDue \/ Called \/ Reclaimed
         \/ Untold /\ UNCHANGED <<pass, story>>

HSpec == HInit /\ [][HNext]_hvars

FairHSpec == HSpec /\ WF_vars(Service)

-----------------------------------------------------------------------------
(* VisitsSound and CallsBounded are properties; what comes before them are *)
(* their parts.                                                            *)

(***************************************************************************)
(* A pass visits a task at most once, however many tasks are added and     *)
(* freed while it walks the list.                                          *)
(***************************************************************************)
OncePerPass == pc = "switch" => cur \notin seen

(***************************************************************************)
(* A pass that reaches its end has visited every task that was listed when *)
(* it began: freeing entries under the cursor skips none.                  *)
(***************************************************************************)
PassCoversAll == pc = "sleep" => owed = {}

(***************************************************************************)
(* A working task is visited fewer than "periodic" times in a row without  *)
(* falling due, counted from when it was added, last due or re-timed: the  *)
(* counter that modify_periodic leaves alone cannot make it skip a period. *)
(***************************************************************************)
NeverOverdue ==
    \A n \in used : tk[n].state = "WORK" /\ tk[n].periodic > 0
                    => gap[n] < tk[n].periodic

(***************************************************************************)
(* Left alone after it was due, a task is due again at exactly the         *)
(* periodic-th visit, not one pass earlier or later.                       *)
(***************************************************************************)
PeriodKept ==
    pc = "work" /\ steady[cur] /\ tk[cur].periodic > 0
    => (IsDue(cur) <=> gap[cur] + 1 = tk[cur].periodic)

(***************************************************************************)
(* The passes of the service visit each task in time: once in each pass    *)
(* through the list, which keeps its order however it changes meanwhile,   *)
(* and due at every periodic-th visit, whatever is re-timed.               *)
(***************************************************************************)
VisitsSound == ListInOrder /\ OncePerPass /\ PassCoversAll /\ NeverOverdue /\ PeriodKept

(***************************************************************************)
(* The handler of a one-shot task is started at most once, whatever the    *)
(* callers pause, cancel and re-time meanwhile.                            *)
(***************************************************************************)
OneShotOnce == \A n \in used : tk[n].is_once => shots[n] <= 1

(***************************************************************************)
(* After pause or cancel has returned, the task's handler is started at    *)
(* most once more: only the call the service had already decided.          *)
(***************************************************************************)
AtMostOneLateCall == \A n \in used : late[n] <= 1

(***************************************************************************)
(* No handler is started more often than its task allows, whatever calls   *)
(* come between the decision to start it and the start.                    *)
(***************************************************************************)
CallsBounded == OneShotOnce /\ AtMostOneLateCall
=============================================================================
