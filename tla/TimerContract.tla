---------------------------- MODULE TimerContract ----------------------------
(***************************************************************************)
(* What the timer service promises about a task, apart from lists, periods *)
(* and memory words.  A caller arms, holds and ends tasks at any moment;   *)
(* the service takes one task at a time.  It calls a handler only of a     *)
(* task it found armed and frees a block only of a task it found ending,   *)
(* and until it has finished with that task it touches no other.           *)
(***************************************************************************)
CONSTANT Slot

VARIABLES life,   \* what has become of each block
          turn    \* the task the service is at, and what it will do with it

vars == <<life, turn>>

None == [stage |-> "none"]
Crashed == [stage |-> "crashed"]
At(s, stage) == [stage |-> stage, slot |-> s]

Stages == {"chosen", "due", "called", "doomed"}

TypeOK == /\ life \in [Slot -> {"free", "armed", "held", "ending"}]
          /\ turn \in {None, Crashed} \cup {At(s, g) : s \in Slot, g \in Stages}

Init == life = [s \in Slot |-> "free"] /\ turn = None

Arm(s) ==
    /\ turn # Crashed
    /\ life[s] = "free"
    /\ life' = [life EXCEPT ![s] = "armed"]
    /\ UNCHANGED turn

\* pause and cancel act on a task whatever the service is doing with it
Hold(s) ==
    /\ turn # Crashed
    /\ life[s] # "free"
    /\ life' = [life EXCEPT ![s] = "held"]
    /\ UNCHANGED turn

End(s) ==
    /\ turn # Crashed
    /\ life[s] # "free"
    /\ life' = [life EXCEPT ![s] = "ending"]
    /\ UNCHANGED turn

Choose(s) == turn = None /\ life[s] = "armed" /\ turn' = At(s, "chosen")
Doom(s) == turn = None /\ life[s] = "ending" /\ turn' = At(s, "doomed")
Decline(s) == turn = At(s, "chosen") /\ turn' = None
FallDue(s) == turn = At(s, "chosen") /\ turn' = At(s, "due")
Call(s) == turn = At(s, "due") /\ turn' = At(s, "called")

Serve(s) ==
    /\ Choose(s) \/ Doom(s) \/ Decline(s) \/ FallDue(s) \/ Call(s)
    /\ UNCHANGED life

\* a periodic task keeps its life, a one-shot task ends
Complete(s) ==
    /\ turn = At(s, "called")
    /\ turn' = None
    /\ life' \in {life, [life EXCEPT ![s] = "ending"]}

Free(s) ==
    /\ turn = At(s, "doomed")
    /\ turn' = None
    /\ life' = [life EXCEPT ![s] = "free"]

Crash == turn' = Crashed /\ UNCHANGED life

Next == \/ \E s \in Slot : \/ Arm(s) \/ Hold(s) \/ End(s)
                           \/ Serve(s) \/ Complete(s) \/ Free(s)
        \/ Crash

Spec == Init /\ [][Next]_vars
=============================================================================
