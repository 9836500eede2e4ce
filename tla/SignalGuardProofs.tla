-------------------------- MODULE SignalGuardProofs --------------------------
(***************************************************************************)
(* my_system of src/utils.c keeps its promises in every process whose      *)
(* threads never call it at once, whatever the number of its calls, of its *)
(* threads and of the signals from the terminal.                           *)
(*                                                                         *)
(* CallSound alone is not inductive: it says nothing of the middle of a    *)
(* call.  There a call that ignores a signal holds what it found of it     *)
(* (Dispositions), blocks SIGCHLD from the one sigprocmask to the other    *)
(* (Blocks), and has a child only while it waits (Children), when no       *)
(* signal from the terminal can have killed it (WaitsAlive).  What a call  *)
(* that failed in the middle left behind is what the next one finds.       *)
(***************************************************************************)
EXTENDS SignalGuard, TLAPS

Waiting(c) == pc[c] \in {"wait", "interrupted"}

Dispositions ==
    \A s \in Sig :
       /\ \A c \in Caller : s \in Ignored(c) => disp[s] = "ignore" /\ saved[c][s] = Between(s)
       /\ (\A c \in Caller : s \notin Ignored(c)) => disp[s] = Between(s)

\* the calls between the one sigprocmask and the other
Blocking(c) ==
    Waiting(c) \/ pc[c] \in {"fork", "restore_int", "restore_quit", "restore_mask"}

Blocks ==
    \A c \in Caller :
       /\ c \in blocked <=> c \in stuck \/ Blocking(c)
       /\ Blocking(c) => (c \in savemask <=> c \in stuck)

Children ==
    \A c \in Caller :
       /\ child[c] # NoChild => Waiting(c)
       /\ OneThread /\ chld # "ignore" /\ Waiting(c) => child[c] # NoChild

WaitsAlive == \A c \in Caller : Waiting(c) => alive

IInv == TypeOK /\ Dispositions /\ Blocks /\ Children /\ WaitsAlive /\ ShellAsCalled

LEMMA InitInv == Init => IInv
<1> SUFFICES ASSUME Init PROVE IInv
    OBVIOUS
<1> USE DEF Init
<1>1. TypeOK BY BoundAssumption, SMT DEF TypeOK, Location, Disposition, Sig
<1>2. \A c \in Caller : pc[c] = "idle" /\ child[c] = NoChild
      OBVIOUS
<1>3. Dispositions BY <1>2 DEF Dispositions, Ignored, Between
<1>4. Blocks /\ Children /\ WaitsAlive
      BY <1>2 DEF Blocks, Blocking, Children, WaitsAlive, Waiting
<1>5. ShellAsCalled BY <1>2 DEF ShellAsCalled, Between, NoChild
<1> QED BY <1>1, <1>3, <1>4, <1>5 DEF IInv

\* of the calls, at most the one that takes the step is in progress
LEMMA Alone ==
    ASSUME NoOverlap, NEW c \in Caller, pc[c] # "idle"
    PROVE  \A d \in Caller \ {c} : pc[d] = "idle"
BY DEF NoOverlap, Calling

LEMMA IgnoreStep ==
    ASSUME IInv, NoOverlap, NoOverlap', NEW c \in Caller,
           IgnoreInt(c) \/ IgnoreIntFails(c) \/ IgnoreQuit(c)
    PROVE  IInv'
<1> USE DEF IInv, Goto, Ignore, Sig, Sound, Begin
<1>1. \A d \in Caller \ {c} : pc[d] = "idle" /\ pc'[d] = "idle"
  <2>1. pc \in [Caller -> Location] BY DEF TypeOK
  <2>2. CASE IgnoreQuit(c) BY <2>1, <2>2, Alone DEF IgnoreQuit
  <2>3. CASE IgnoreInt(c)
    <3>1. pc'[c] = "ignore_quit" /\ \A d \in Caller \ {c} : pc'[d] = pc[d]
          BY <2>1, <2>3 DEF IgnoreInt
    <3>2. c \in Calling' BY <3>1 DEF Calling
    <3> QED BY <3>1, <3>2 DEF NoOverlap, Calling
  <2>4. CASE IgnoreIntFails(c)
    <3>1. pc'[c] = "return" /\ \A d \in Caller \ {c} : pc'[d] = pc[d]
          BY <2>1, <2>4 DEF IgnoreIntFails
    <3>2. c \in Calling' BY <3>1 DEF Calling
    <3> QED BY <3>1, <3>2 DEF NoOverlap, Calling
  <2> QED BY <2>2, <2>3, <2>4
<1>2. TypeOK'
  <2> USE DEF TypeOK, IgnoreInt, IgnoreIntFails, IgnoreQuit
  <2>1. disp' \in [Sig -> Disposition] /\ pc' \in [Caller -> Location]
        BY DEF Disposition, Location
  <2>2. saved' = saved \/ \E s \in Sig : saved' = [saved EXCEPT ![c][s] = disp[s]]
        OBVIOUS
  <2>3. saved' \in [Caller -> [Sig -> Disposition]] BY <2>2
  <2>4. calls' \in 0 .. MaxCalls BY BoundAssumption DEF Counted, Uncounted
  <2> QED BY <2>1, <2>3, <2>4 DEF Counted, Uncounted
<1>3. Dispositions'
      BY <1>1 DEF TypeOK, Dispositions, Ignored, Between, IgnoreInt, IgnoreIntFails,
                  IgnoreQuit, Counted, Uncounted
<1>4. (Blocks /\ Children /\ WaitsAlive)'
      BY DEF TypeOK, Blocks, Blocking, Children, WaitsAlive, Waiting, OneThread,
             IgnoreInt, IgnoreIntFails, IgnoreQuit, Counted, Uncounted
<1>5. ShellAsCalled'
      BY DEF TypeOK, ShellAsCalled, Between, NoChild, Between, IgnoreInt, IgnoreIntFails,
             IgnoreQuit, Counted, Uncounted
<1> QED BY <1>2, <1>3, <1>4, <1>5

\* a step that moves no child and fails no call
LEMMA ShellKept ==
    ASSUME ShellAsCalled, UNCHANGED <<child, wanted, left, stuck>>
    PROVE  ShellAsCalled'
BY DEF ShellAsCalled, Between

LEMMA CallInv ==
    ASSUME IInv, NoOverlap, NEW c \in Caller, CallStep(c), ~IgnoreQuit(c)
    PROVE  IInv'
<1> USE DEF IInv, Goto, Sig, Uncounted, Sound
<1>1. pc[c] # "idle" /\ pc' \in [Caller -> Location]
      /\ \A d \in Caller \ {c} : pc[d] = "idle" /\ pc'[d] = "idle"
  <2>1. pc[c] # "idle"
        BY DEF CallStep, IgnoreQuit, BlockChld, GuardFails, Fork, ForkFails, Waitpid, WaitpidFails,
               Interrupted, Retry, RestoreInt, RestoreQuit, Restore, RestoreMask, Return
  <2>2. \E l \in Location : pc' = [pc EXCEPT ![c] = l]
        BY DEF CallStep, IgnoreQuit, BlockChld, GuardFails, Fork, ForkFails, Waitpid, WaitpidFails,
               Interrupted, Retry, RestoreInt, RestoreQuit, Restore, RestoreMask, Return,
               Location
  <2> QED BY <2>1, <2>2, Alone DEF TypeOK
<1>2. CASE BlockChld(c) \/ Return(c)
  <2> USE <1>2 DEF BlockChld, Return
  <2>1. TypeOK'
    <3>1. /\ UNCHANGED <<wanted, chld, others, child, alive, calls, signals, left, stuck>>
          /\ disp' \in [Sig -> Disposition] /\ saved' \in [Caller -> [Sig -> Disposition]]
          /\ blocked' \subseteq Caller /\ savemask' \subseteq Caller
          BY DEF TypeOK
    <3>2. status' \in [Caller -> {"none", "exited", "killed", "-1"}] BY DEF TypeOK
    <3> QED BY <1>1, <3>1, <3>2 DEF TypeOK
  <2>2. Dispositions' BY <1>1 DEF TypeOK, Dispositions, Ignored, Between
  <2>3. (Blocks /\ Children /\ WaitsAlive)'
        BY <1>1 DEF TypeOK, Blocks, Blocking, Children, WaitsAlive, Waiting, OneThread
  <2>4. ShellAsCalled' BY ShellKept
  <2> QED BY <2>1, <2>2, <2>3, <2>4
<1>9. CASE GuardFails(c)
  <2> USE <1>9 DEF GuardFails
  <2>1. /\ pc'[c] = "return" /\ status'[c] = "-1" /\ ~Waiting(c) /\ ~Waiting(c)'
        /\ Ignored(c)' = {} /\ left' = left \cup Ignored(c) /\ Ignored(c) \subseteq Sig
        BY <1>1 DEF TypeOK, Waiting, Ignored
  <2>2. TypeOK' BY <1>1, <2>1 DEF TypeOK
  <2>3. Dispositions'
    <3>1. \A d \in Caller \ {c} : Ignored(d) = {} /\ Ignored(d)' = {} BY <1>1 DEF Ignored
    <3>2. \A s \in Sig \ Ignored(c) : Between(s)' = Between(s) BY <2>1 DEF Between
    <3>3. \A s \in Ignored(c) : Between(s)' = "ignore" /\ disp'[s] = "ignore"
          BY <2>1 DEF Between, Dispositions
    <3>4. \A s \in Sig \ Ignored(c) : disp[s] = Between(s) BY <3>1 DEF Dispositions
    <3> QED BY <2>1, <3>1, <3>2, <3>3, <3>4 DEF Dispositions
  <2>4. (Blocks /\ Children /\ WaitsAlive)'
        BY <1>1, <2>1 DEF TypeOK, Blocks, Blocking, Children, WaitsAlive, Waiting, OneThread
  <2>5. ShellAsCalled'
    <3>1. \A d \in Caller : child[d] = NoChild
          BY <1>1, <2>1 DEF Children, Waiting
    <3> QED BY <3>1 DEF ShellAsCalled, NoChild
  <2> QED BY <2>2, <2>3, <2>4, <2>5
<1>3. CASE Fork(c)
  <2> USE <1>3 DEF Fork
  <2>1. child'[c] \in Child /\ child'[c].state = "forked"
        BY DEF TypeOK, Child, Disposition
  <2>2. TypeOK' BY <1>1, <2>1 DEF TypeOK
  <2>3. Dispositions' BY <1>1 DEF TypeOK, Dispositions, Ignored, Between
  <2>4. (Blocks /\ Children /\ WaitsAlive)'
        BY <1>1, <2>1 DEF TypeOK, Blocks, Blocking, Children, WaitsAlive, Waiting, NoChild, OneThread
  <2>5. ShellAsCalled'
    <3>1. \A d \in Caller \ {c} : child'[d] = child[d] BY DEF TypeOK
    <3> QED BY <2>1, <3>1 DEF ShellAsCalled, Between
  <2> QED BY <2>2, <2>3, <2>4, <2>5
<1>4. CASE ForkFails(c)
  <2> USE <1>4 DEF ForkFails
  <2>1. TypeOK'
    <3>1. /\ UNCHANGED <<wanted, chld, others, child, alive, calls, signals, left, stuck>>
          /\ disp' \in [Sig -> Disposition] /\ saved' \in [Caller -> [Sig -> Disposition]]
          /\ blocked' \subseteq Caller /\ savemask' \subseteq Caller
          BY DEF TypeOK
    <3>2. status' \in [Caller -> {"none", "exited", "killed", "-1"}] BY DEF TypeOK
    <3> QED BY <1>1, <3>1, <3>2 DEF TypeOK
  <2>2. Dispositions' BY <1>1 DEF TypeOK, Dispositions, Ignored, Between
  <2>3. (Blocks /\ Children /\ WaitsAlive)'
        BY <1>1 DEF TypeOK, Blocks, Blocking, Children, WaitsAlive, Waiting, OneThread
  <2>4. ShellAsCalled' BY ShellKept
  <2> QED BY <2>1, <2>2, <2>3, <2>4
<1>5. CASE Waitpid(c) \/ WaitpidFails(c)
  <2> USE <1>5 DEF Waitpid, WaitpidFails
  <2>1. /\ child' \in [Caller -> Child \cup {NoChild}] /\ child'[c] = NoChild
        /\ \A d \in Caller \ {c} : child'[d] = child[d]
        BY DEF TypeOK
  <2>2. status' \in [Caller -> {"none", "exited", "killed", "-1"}] BY DEF TypeOK, Ended
  <2>6. TypeOK' BY <1>1, <2>1, <2>2 DEF TypeOK
  <2>3. Dispositions' BY <1>1 DEF TypeOK, Dispositions, Ignored, Between
  <2>4. (Blocks /\ Children /\ WaitsAlive)'
        BY <1>1, <2>1 DEF TypeOK, Blocks, Blocking, Children, WaitsAlive, Waiting, OneThread
  <2>5. ShellAsCalled' BY <2>1 DEF ShellAsCalled, Between, NoChild
  <2> QED BY <2>3, <2>4, <2>5, <2>6
<1>6. CASE Interrupted(c) \/ Retry(c)
  <2> USE <1>6 DEF Interrupted, Retry
  <2>1. TypeOK'
    <3>1. /\ UNCHANGED <<wanted, chld, others, child, alive, calls, signals, left, stuck>>
          /\ disp' \in [Sig -> Disposition] /\ saved' \in [Caller -> [Sig -> Disposition]]
          /\ blocked' \subseteq Caller /\ savemask' \subseteq Caller
          BY DEF TypeOK
    <3>2. status' \in [Caller -> {"none", "exited", "killed", "-1"}] BY DEF TypeOK
    <3> QED BY <1>1, <3>1, <3>2 DEF TypeOK
  <2>2. Dispositions' BY <1>1 DEF TypeOK, Dispositions, Ignored, Between
  <2>3. (Blocks /\ Children /\ WaitsAlive)'
        BY <1>1 DEF TypeOK, Blocks, Blocking, Children, WaitsAlive, Waiting, OneThread
  <2>4. ShellAsCalled' BY ShellKept
  <2> QED BY <2>1, <2>2, <2>3, <2>4
<1>7. CASE RestoreInt(c) \/ RestoreQuit(c)
  <2> USE <1>7 DEF RestoreInt, RestoreQuit, Restore
  <2>1. TypeOK'
    <3>1. /\ UNCHANGED <<wanted, chld, others, child, alive, calls, signals, left, stuck>>
          /\ disp' \in [Sig -> Disposition] /\ saved' \in [Caller -> [Sig -> Disposition]]
          /\ blocked' \subseteq Caller /\ savemask' \subseteq Caller
          BY DEF TypeOK
    <3>2. status' \in [Caller -> {"none", "exited", "killed", "-1"}] BY DEF TypeOK
    <3> QED BY <1>1, <3>1, <3>2 DEF TypeOK
  <2>2. Dispositions' BY <1>1 DEF TypeOK, Dispositions, Ignored, Between
  <2>3. (Blocks /\ Children /\ WaitsAlive)'
        BY <1>1 DEF TypeOK, Blocks, Blocking, Children, WaitsAlive, Waiting, OneThread
  <2>4. ShellAsCalled' BY ShellKept
  <2> QED BY <2>1, <2>2, <2>3, <2>4
<1>8. CASE RestoreMask(c)
  <2> USE <1>8 DEF RestoreMask
  <2>1. TypeOK'
    <3>1. /\ UNCHANGED <<wanted, chld, others, child, alive, calls, signals, left, stuck>>
          /\ disp' \in [Sig -> Disposition] /\ saved' \in [Caller -> [Sig -> Disposition]]
          /\ blocked' \subseteq Caller /\ savemask' \subseteq Caller
          BY DEF TypeOK
    <3>2. status' \in [Caller -> {"none", "exited", "killed", "-1"}] BY DEF TypeOK
    <3> QED BY <1>1, <3>1, <3>2 DEF TypeOK
  <2>2. Dispositions' BY <1>1 DEF TypeOK, Dispositions, Ignored, Between
  <2>3. (Blocks /\ Children /\ WaitsAlive)'
        BY <1>1 DEF TypeOK, Blocks, Blocking, Children, WaitsAlive, Waiting, OneThread
  <2>4. ShellAsCalled' BY ShellKept
  <2> QED BY <2>1, <2>2, <2>3, <2>4
<1> QED BY <1>2, <1>3, <1>4, <1>5, <1>6, <1>7, <1>8, <1>9 DEF CallStep

\* a step of a child leaves the calls where they are; it disturbs the invariant
\* only through what became of the child
LEMMA ChildKept ==
    ASSUME IInv, child' \in [Caller -> Child \cup {NoChild}],
           UNCHANGED <<disp, wanted, chld, others, caller, calls>>,
           signals' \in 0 .. MaxSignals, alive' \in BOOLEAN,
           \A c \in Caller : Waiting(c) => alive',
           \A c \in Caller :
              /\ child'[c] # NoChild => child[c] # NoChild
              /\ OneThread /\ chld # "ignore" /\ child[c] # NoChild => child'[c] # NoChild,
           ShellAsCalled'
    PROVE  IInv'
<1> USE DEF caller
<1>1. TypeOK' BY DEF IInv, TypeOK
<1>2. Dispositions' /\ Blocks' BY DEF IInv, Dispositions, Ignored, Between, Blocks, Blocking, Waiting
<1>3. (Children /\ WaitsAlive)' BY DEF IInv, Children, WaitsAlive, Waiting, OneThread
<1> QED BY <1>1, <1>2, <1>3 DEF IInv

\* what is left of a child that ends is no shell, and nothing only if the
\* application ignores SIGCHLD
LEMMA Endings ==
    ASSUME NEW c \in Caller, child[c] \in Child, NEW how \in {"exited", "killed"}
    PROVE  /\ Ending(c, how) \in Child \cup {NoChild}
           /\ Ending(c, how).state # "shell"
           /\ chld # "ignore" => Ending(c, how) # NoChild
BY DEF Ending, Child, NoChild

LEMMA ChildStep ==
    ASSUME IInv, NEW c \in Caller, Exec(c) \/ ShellEnds(c) \/ Reap(c)
    PROVE  IInv'
<1> USE DEF Sig, Disposition, caller
<1>0. /\ TypeOK /\ alive \in BOOLEAN /\ signals \in 0 .. MaxSignals
      /\ \A d \in Caller : Waiting(d) => alive
      /\ child[c] \in Child /\ child[c] # NoChild
  <2>1. child[c] # NoChild
        BY DEF Exec, ShellEnds, Reap, Ended, NoChild
  <2> QED BY <2>1 DEF IInv, TypeOK, WaitsAlive
<1>1. CASE Exec(c)
  <2>1. PICK failed \in SUBSET (Sig \cup {"CHLD"}) :
          child' = [child EXCEPT ![c] =
             [state |-> "shell", unset |-> failed,
              blocks |-> "CHLD" \in failed \/ c \in savemask,
              disp |-> [s \in Sig |-> IF s \in failed THEN child[c].disp[s]
                                      ELSE IF saved[c][s] = "handler" THEN "default"
                                      ELSE saved[c][s]]]]
        BY <1>1 DEF Exec
  <2>2. UNCHANGED <<disp, wanted, chld, others, caller, alive, calls, signals>>
        BY <1>1 DEF Exec
  <2> DEFINE shell == [state |-> "shell", unset |-> failed,
              blocks |-> "CHLD" \in failed \/ c \in savemask,
              disp |-> [s \in Sig |-> IF s \in failed THEN child[c].disp[s]
                                      ELSE IF saved[c][s] = "handler" THEN "default"
                                      ELSE saved[c][s]]]
  <2>3. saved[c] \in [Sig -> Disposition] /\ child[c].disp \in [Sig -> Disposition]
        BY <1>0 DEF TypeOK, Child
  <2>4. shell.disp \in [Sig -> Disposition] /\ shell.blocks \in BOOLEAN
        BY <2>3
  <2>5. /\ shell \in Child /\ shell # NoChild /\ shell.state = "shell" /\ shell.unset = failed
        BY <2>4 DEF Child, NoChild
  <2>6. Waiting(c) /\ (c \in savemask <=> c \in stuck)
        BY <1>0 DEF IInv, Children, Blocks, Blocking
  <2>7. \A s \in Sig : saved[c][s] = Between(s)
        BY <2>6 DEF IInv, Waiting, Dispositions, Ignored
  <2>8. /\ \A s \in Sig \ failed : shell.disp[s] = "default" <=> Between(s) # "ignore"
        /\ "CHLD" \notin failed => (shell.blocks <=> c \in stuck)
        BY <2>3, <2>6, <2>7
  <2> HIDE DEF shell
  <2>9. child' = [child EXCEPT ![c] = shell] BY <2>1 DEF shell
  <2>10. /\ child' \in [Caller -> Child \cup {NoChild}] /\ child'[c] = shell
         /\ \A d \in Caller \ {c} : child'[d] = child[d]
        BY <1>0, <2>5, <2>9 DEF TypeOK
  <2>11. ShellAsCalled'
        BY <2>2, <2>5, <2>8, <2>10 DEF IInv, ShellAsCalled, Between
  <2> QED BY <1>0, <2>2, <2>5, <2>10, <2>11, ChildKept
<1>2. CASE ShellEnds(c)
  <2>1. /\ Ending(c, "exited") \in Child \cup {NoChild}
        /\ Ending(c, "exited").state # "shell"
        /\ chld # "ignore" => Ending(c, "exited") # NoChild
        BY <1>0, Endings
  <2>2. /\ child' \in [Caller -> Child \cup {NoChild}] /\ child'[c] = Ending(c, "exited")
        /\ \A d \in Caller \ {c} : child'[d] = child[d]
        BY <1>0, <1>2, <2>1 DEF TypeOK, ShellEnds
  <2>3. ShellAsCalled' BY <1>2, <2>1, <2>2 DEF IInv, ShellAsCalled, Between, ShellEnds
  <2> QED BY <1>0, <1>2, <2>1, <2>2, <2>3, ChildKept DEF ShellEnds
<1>3. CASE Reap(c)
  <2> USE <1>3 DEF Reap
  <2>1. /\ child' \in [Caller -> Child \cup {NoChild}] /\ child'[c] = NoChild
        /\ \A d \in Caller \ {c} : child'[d] = child[d]
        BY <1>0 DEF TypeOK
  <2>2. ShellAsCalled' BY <2>1 DEF IInv, ShellAsCalled, Between, NoChild
  <2>3. ~OneThread
    <3> SUFFICES ASSUME OneThread PROVE FALSE
        OBVIOUS
    <3>1. blocked # Caller /\ blocked \subseteq Caller /\ Caller = {c}
          BY <1>0 DEF OneThread, TypeOK
    <3>2. c \in blocked BY <1>0 DEF IInv, Children, Blocks, Blocking
    <3> QED BY <3>1, <3>2
  <2>4. Children' BY <2>1, <2>3 DEF IInv, Children, Waiting, OneThread
  <2>5. TypeOK' BY <1>0, <2>1 DEF TypeOK
  <2>6. (Dispositions /\ Blocks /\ WaitsAlive)'
        BY DEF IInv, Dispositions, Ignored, Between, Blocks, Blocking, WaitsAlive, Waiting
  <2> QED BY <2>2, <2>4, <2>5, <2>6 DEF IInv
<1> QED BY <1>1, <1>2, <1>3

\* a signal from the terminal: who waits ignores it
LEMMA TerminalStep ==
    ASSUME IInv, NEW s \in Sig, Terminal(s)
    PROVE  IInv'
<1> USE DEF Terminal, caller
<1>1. TypeOK /\ alive' \in BOOLEAN /\ signals' \in 0 .. MaxSignals
      BY BoundAssumption DEF IInv, TypeOK
<1>2. \A c \in Caller : Waiting(c) => alive'
      BY DEF IInv, Dispositions, Ignored, Between, Waiting
<1>3. ASSUME NEW c \in Caller
      PROVE  /\ child'[c] \in Child \cup {NoChild}
             /\ child'[c] # NoChild => child[c] # NoChild
             /\ chld # "ignore" /\ child[c] # NoChild => child'[c] # NoChild
             /\ child'[c].state = "shell" => child'[c] = child[c]
  <2>1. CASE child'[c] = child[c] BY <1>1, <2>1 DEF TypeOK
  <2>2. CASE child[c].state \in {"forked", "shell"} /\ child'[c] = Ending(c, "killed")
    <3>1. child[c] \in Child /\ child[c] # NoChild BY <1>1, <2>2 DEF TypeOK, NoChild
    <3> QED BY <2>2, <3>1, Endings
  <2> QED BY <2>1, <2>2
<1>4. child' \in [Caller -> Child \cup {NoChild}] BY <1>3
<1>5. ShellAsCalled' BY <1>3 DEF IInv, ShellAsCalled, Between
<1> QED BY <1>1, <1>2, <1>3, <1>4, <1>5, ChildKept

LEMMA SigactionStep ==
    ASSUME IInv, NEW s \in Sig, Sigaction(s)
    PROVE  IInv'
<1> USE DEF IInv, Sigaction
<1>1. \A c \in Caller : pc[c] = "idle" BY DEF Calling
<1>2. TypeOK' BY DEF TypeOK
<1>3. Dispositions' BY <1>1 DEF TypeOK, Dispositions, Ignored, Between
<1>4. (Blocks /\ Children /\ WaitsAlive)'
      BY DEF Blocks, Blocking, Children, WaitsAlive, Waiting, OneThread
<1>5. ShellAsCalled' BY <1>1 DEF ShellAsCalled, Children, Waiting, NoChild
<1> QED BY <1>2, <1>3, <1>4, <1>5

LEMMA NextInv == IInv /\ NoOverlap /\ NoOverlap' /\ [Next]_vars => IInv'
<1> SUFFICES ASSUME IInv, NoOverlap, NoOverlap', [Next]_vars PROVE IInv'
    OBVIOUS
<1>1. ASSUME NEW c \in Caller, IgnoreInt(c) \/ IgnoreIntFails(c) \/ IgnoreQuit(c) PROVE IInv'
      BY <1>1, IgnoreStep
<1>2. ASSUME NEW c \in Caller, CallStep(c) PROVE IInv'
      BY <1>1, <1>2, CallInv
<1>3. ASSUME NEW c \in Caller, Exec(c) \/ ShellEnds(c) \/ Reap(c) PROVE IInv'
      BY <1>3, ChildStep
<1>4. ASSUME NEW s \in Sig, Terminal(s) \/ Sigaction(s) PROVE IInv'
      BY <1>4, TerminalStep, SigactionStep
<1>5. CASE UNCHANGED vars
      BY <1>5 DEF vars, caller, IInv, TypeOK, Dispositions, Ignored, Between, Blocks, Blocking,
                  Children, WaitsAlive,
                  Waiting, OneThread, ShellAsCalled, Between
<1> QED BY <1>1, <1>2, <1>3, <1>4, <1>5 DEF Next

LEMMA SoundBetween == IInv => CallSound
<1> SUFFICES ASSUME IInv PROVE CallSound
    OBVIOUS
<1>1. Restored
  <2> SUFFICES ASSUME Calling = {}
               PROVE  (\A s \in Sig : disp[s] = Between(s)) /\ blocked = stuck
      BY DEF Restored
  <2>1. \A c \in Caller : pc[c] = "idle" BY DEF Calling
  <2>2. \A s \in Sig : disp[s] = Between(s) BY <2>1 DEF IInv, Dispositions, Ignored
  <2>3. \A c \in Caller : c \in blocked <=> c \in stuck
        BY <2>1 DEF IInv, Blocks, Blocking, Waiting
  <2>4. blocked = stuck BY <2>3 DEF IInv, TypeOK
  <2> QED BY <2>2, <2>4
<1>2. StatusNotStolen /\ NothingLeftBehind
      BY DEF IInv, Children, Waiting, StatusNotStolen, NothingLeftBehind
<1> QED BY <1>1, <1>2 DEF IInv, CallSound

(***************************************************************************)
(* As long as no two calls of my_system overlap: between calls the         *)
(* dispositions are those the application asked for and SIGCHLD is not     *)
(* blocked, except for what calls have left that returned -1 because a     *)
(* sigaction or sigprocmask failed; every shell runs under what the call   *)
(* found, except for what the child failed to put back; a process with one *)
(* thread that does not ignore SIGCHLD never loses the status of a command *)
(* to its own handler; and no call leaves a child behind.  For any number  *)
(* of threads, calls, failures and signals.                                *)
(***************************************************************************)
THEOREM CallsKeepTheirWord == Spec /\ []NoOverlap => []CallSound
<1>1. Spec /\ []NoOverlap => []IInv BY InitInv, NextInv, PTL DEF Spec
<1> QED BY <1>1, SoundBetween, PTL

(***************************************************************************)
(* While a call of my_system waits for its command, no signal from the     *)
(* terminal kills the process: SIGINT and SIGQUIT are ignored from before  *)
(* the fork until after the waitpid.                                       *)
(***************************************************************************)
THEOREM CallerSurvives == Spec /\ []NoOverlap => CallerOutlivesCommand
<1>1. Spec /\ []NoOverlap => []IInv BY InitInv, NextInv, PTL DEF Spec
<1>2. IInv /\ [Next]_vars =>
         [\A c \in Caller : child[c] # NoChild /\ pc[c] \in {"wait", "interrupted"}
             => alive']_vars
  <2> SUFFICES ASSUME IInv, [Next]_vars, NEW c \in Caller, Waiting(c) PROVE alive'
      BY DEF Waiting
  <2>1. alive BY DEF IInv, WaitsAlive
  <2>2. \A s \in Sig : disp[s] = "ignore"
        BY DEF IInv, Dispositions, Ignored, Between, Waiting
  <2>3. ASSUME NEW s \in Sig, Terminal(s) PROVE alive' BY <2>2, <2>3 DEF Terminal
  <2>4. CASE UNCHANGED alive BY <2>1, <2>4
  <2> QED BY <2>3, <2>4 DEF Next, vars, CallStep, IgnoreInt, IgnoreIntFails, IgnoreQuit, BlockChld,
          GuardFails, Fork,
          ForkFails, Waitpid, WaitpidFails, Interrupted, Retry, RestoreInt, RestoreQuit,
          Restore, RestoreMask, Return, Uncounted, Exec, ShellEnds, Reap, Sigaction
<1> QED BY <1>1, <1>2, PTL DEF Spec, CallerOutlivesCommand
=============================================================================
