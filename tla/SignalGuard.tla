----------------------------- MODULE SignalGuard -----------------------------
(***************************************************************************)
(* my_system of src/utils.c: the shell command that runs while the calling *)
(* process ignores SIGINT and SIGQUIT and blocks SIGCHLD, around an        *)
(* application with its own dispositions and, possibly, a SIGCHLD handler  *)
(* that reaps any child.  The dispositions belong to the process, the      *)
(* signal mask only to the calling thread: others says whether the process *)
(* has one more thread, which takes SIGCHLD all the same.  Every sigaction *)
(* and sigprocmask may fail: the caller returns -1 at once, with the rest  *)
(* not put back, and the child goes on.                                    *)
(***************************************************************************)
EXTENDS Naturals

CONSTANTS Caller,      \* threads that call my_system
          MaxCalls,    \* bound on the calls
          MaxSignals   \* bound on the signals from the terminal

ASSUME BoundAssumption == MaxCalls \in Nat /\ MaxSignals \in Nat

Sig == {"INT", "QUIT"}
Disposition == {"default", "handler", "ignore"}

VARIABLES disp,      \* what the process does with SIGINT and SIGQUIT
          wanted,    \* ... as the application last asked for it
          chld,      \* the application's disposition of SIGCHLD
          others,    \* there is a thread besides the callers
          pc,        \* where each call of my_system is
          saved,     \* saveintr and savequit of each call
          blocked,   \* the callers that block SIGCHLD
          savemask,  \* the calls whose savemask blocks it
          left,      \* auxiliary: the signals a failed call left ignored
          stuck,     \* auxiliary: the callers a failed call left with SIGCHLD blocked
          child,     \* the child of each call
          status,    \* what each call has to return
          alive,     \* the process has not been killed
          calls, signals

caller == <<pc, saved, blocked, savemask, left, stuck, status>>
vars == <<disp, wanted, chld, others, caller, child, alive, calls, signals>>

\* a child's dispositions, and whether it blocks SIGCHLD, are copies of the caller's;
\* unset is what it failed to put back
NoChild == [state |-> "none"]
Child == [state : {"forked", "shell", "exited", "killed"},
          disp : [Sig -> Disposition], blocks : BOOLEAN, unset : SUBSET (Sig \cup {"CHLD"})]

Location == {"idle", "ignore_quit", "block", "fork", "wait", "interrupted",
             "restore_int", "restore_quit", "restore_mask", "return"}

TypeOK ==
    /\ disp \in [Sig -> Disposition] /\ wanted \in [Sig -> Disposition]
    /\ chld \in Disposition /\ others \in BOOLEAN
    /\ pc \in [Caller -> Location]
    /\ saved \in [Caller -> [Sig -> Disposition]]
    /\ blocked \subseteq Caller /\ savemask \subseteq Caller
    /\ left \subseteq Sig /\ stuck \subseteq Caller
    /\ child \in [Caller -> Child \cup {NoChild}]
    /\ status \in [Caller -> {"none", "exited", "killed", "-1"}]
    /\ alive \in BOOLEAN
    /\ calls \in 0 .. MaxCalls /\ signals \in 0 .. MaxSignals

Init ==
    /\ disp \in [Sig -> Disposition] /\ wanted = disp
    /\ chld \in Disposition /\ others \in BOOLEAN
    /\ pc = [c \in Caller |-> "idle"]
    /\ saved = [c \in Caller |-> disp]
    /\ blocked = {} /\ savemask = {} /\ left = {} /\ stuck = {}
    /\ child = [c \in Caller |-> NoChild]
    /\ status = [c \in Caller |-> "none"]
    /\ alive = TRUE
    /\ calls = 0 /\ signals = 0

Goto(c, l) == pc' = [pc EXCEPT ![c] = l]

Counted == calls' = calls + 1 /\ UNCHANGED signals
Uncounted == UNCHANGED <<wanted, chld, others, alive, calls, signals>>
Sound == UNCHANGED <<left, stuck>>

\* sigaction(s, &ignore, &save): the old disposition is kept by the call
Ignore(c, s) ==
    /\ disp' = [disp EXCEPT ![s] = "ignore"]
    /\ saved' = [saved EXCEPT ![c][s] = disp[s]]

Begin(c) == alive /\ pc[c] = "idle" /\ calls < MaxCalls

IgnoreInt(c) ==
    /\ Begin(c)
    /\ Ignore(c, "INT") /\ Goto(c, "ignore_quit")
    /\ child' = [child EXCEPT ![c] = NoChild]
    /\ status' = [status EXCEPT ![c] = "none"]
    /\ Counted /\ Sound
    /\ UNCHANGED <<wanted, chld, others, blocked, savemask, alive>>

\* the first sigaction fails
IgnoreIntFails(c) ==
    /\ Begin(c)
    /\ Goto(c, "return")
    /\ status' = [status EXCEPT ![c] = "-1"]
    /\ Counted /\ Sound
    /\ UNCHANGED <<disp, wanted, chld, others, saved, blocked, savemask, child, alive>>

IgnoreQuit(c) ==
    /\ alive /\ pc[c] = "ignore_quit"
    /\ Ignore(c, "QUIT") /\ Goto(c, "block")
    /\ Uncounted /\ Sound /\ UNCHANGED <<blocked, savemask, child, status>>

BlockChld(c) ==
    /\ alive /\ pc[c] = "block"
    /\ savemask' = IF c \in blocked THEN savemask \cup {c} ELSE savemask \ {c}
    /\ blocked' = blocked \cup {c}
    /\ Goto(c, "fork")
    /\ Uncounted /\ Sound /\ UNCHANGED <<disp, saved, child, status>>

\* the signals that the call has ignored and not put back
Ignored(c) ==
    {s \in Sig :
        \/ pc[c] \in {"block", "fork", "wait", "interrupted", "restore_int"}
        \/ s = "INT" /\ pc[c] = "ignore_quit"
        \/ s = "QUIT" /\ pc[c] = "restore_quit"}

\* a later sigaction or sigprocmask fails, before the fork or after it
GuardFails(c) ==
    /\ alive
    /\ pc[c] \in {"ignore_quit", "block", "restore_int", "restore_quit", "restore_mask"}
    /\ status' = [status EXCEPT ![c] = "-1"]
    /\ Goto(c, "return")
    /\ left' = left \cup Ignored(c)
    /\ stuck' = stuck \cup ({c} \cap blocked)
    /\ Uncounted /\ UNCHANGED <<disp, saved, blocked, savemask, child>>

Fork(c) ==
    /\ alive /\ pc[c] = "fork"
    /\ child' = [child EXCEPT ![c] = [state |-> "forked", disp |-> disp,
                                      blocks |-> c \in blocked, unset |-> {}]]
    /\ Goto(c, "wait")
    /\ Uncounted /\ Sound /\ UNCHANGED <<disp, saved, blocked, savemask, status>>

ForkFails(c) ==
    /\ alive /\ pc[c] = "fork"
    /\ status' = [status EXCEPT ![c] = "-1"]
    /\ Goto(c, "restore_int")
    /\ Uncounted /\ Sound /\ UNCHANGED <<disp, saved, blocked, savemask, child>>

Ended(c) == child[c].state \in {"exited", "killed"}

\* waitpid reaps the child
Waitpid(c) ==
    /\ alive /\ pc[c] = "wait" /\ Ended(c)
    /\ status' = [status EXCEPT ![c] = child[c].state]
    /\ child' = [child EXCEPT ![c] = NoChild]
    /\ Goto(c, "restore_int")
    /\ Uncounted /\ Sound /\ UNCHANGED <<disp, saved, blocked, savemask>>

\* mutant: every failure of waitpid is tried again
WaitpidFails_Retries(c) ==
    /\ alive /\ pc[c] = "wait" /\ child[c] = NoChild
    /\ Goto(c, "interrupted")
    /\ Uncounted /\ Sound /\ UNCHANGED <<disp, saved, blocked, savemask, child, status>>

\* waitpid fails with ECHILD: somebody else reaped the child
WaitpidFails(c) ==
    /\ alive /\ pc[c] = "wait" /\ child[c] = NoChild
    /\ status' = [status EXCEPT ![c] = "-1"]
    /\ Goto(c, "restore_int")
    /\ Uncounted /\ Sound /\ UNCHANGED <<disp, saved, blocked, savemask, child>>

\* waitpid fails with EINTR, for a signal of another kind with a handler
Interrupted(c) ==
    /\ alive /\ pc[c] = "wait" /\ child[c] # NoChild /\ ~Ended(c)
    /\ Goto(c, "interrupted")
    /\ Uncounted /\ Sound /\ UNCHANGED <<disp, saved, blocked, savemask, child, status>>

\* mutant: EINTR is an error like any other
Retry_GivesUp(c) ==
    /\ alive /\ pc[c] = "interrupted"
    /\ status' = [status EXCEPT ![c] = "-1"]
    /\ Goto(c, "restore_int")
    /\ Uncounted /\ Sound /\ UNCHANGED <<disp, saved, blocked, savemask, child>>

Retry(c) ==
    /\ alive /\ pc[c] = "interrupted"
    /\ Goto(c, "wait")
    /\ Uncounted /\ Sound /\ UNCHANGED <<disp, saved, blocked, savemask, child, status>>

Restore(c, s, here, next) ==
    /\ alive /\ pc[c] = here
    /\ disp' = [disp EXCEPT ![s] = saved[c][s]]
    /\ Goto(c, next)
    /\ Uncounted /\ Sound /\ UNCHANGED <<saved, blocked, savemask, child, status>>

RestoreInt(c) == Restore(c, "INT", "restore_int", "restore_quit")
RestoreQuit(c) == Restore(c, "QUIT", "restore_quit", "restore_mask")

RestoreMask(c) ==
    /\ alive /\ pc[c] = "restore_mask"
    /\ blocked' = IF c \in savemask THEN blocked ELSE blocked \ {c}
    /\ Goto(c, "return")
    /\ Uncounted /\ Sound /\ UNCHANGED <<disp, saved, savemask, child, status>>

Return(c) ==
    /\ alive /\ pc[c] = "return"
    /\ Goto(c, "idle")
    /\ Uncounted /\ Sound /\ UNCHANGED <<disp, saved, blocked, savemask, child, status>>

CallStep(c) ==
    \/ IgnoreQuit(c) \/ BlockChld(c) \/ GuardFails(c) \/ Fork(c) \/ ForkFails(c)
    \/ Waitpid(c) \/ WaitpidFails(c) \/ Interrupted(c) \/ Retry(c)
    \/ RestoreInt(c) \/ RestoreQuit(c) \/ RestoreMask(c) \/ Return(c)

\* The child restores dispositions and mask, whatever fails, and becomes the
\* shell; a handler does not survive execl.
Exec(c) ==
    /\ child[c].state = "forked"
    /\ \E failed \in SUBSET (Sig \cup {"CHLD"}) :
          child' = [child EXCEPT ![c] =
             [state |-> "shell", unset |-> failed,
              blocks |-> "CHLD" \in failed \/ c \in savemask,
              disp |-> [s \in Sig |-> IF s \in failed THEN child[c].disp[s]
                                      ELSE IF saved[c][s] = "handler" THEN "default"
                                      ELSE saved[c][s]]]]
    /\ UNCHANGED <<disp, wanted, chld, others, caller, alive, calls, signals>>

\* what is left of a child that ends: with SIGCHLD ignored the kernel reaps it
Ending(c, how) == IF chld = "ignore" THEN NoChild ELSE [child[c] EXCEPT !.state = how]

ShellEnds(c) ==
    /\ child[c].state = "shell"
    /\ child' = [child EXCEPT ![c] = Ending(c, "exited")]
    /\ UNCHANGED <<disp, wanted, chld, others, caller, alive, calls, signals>>

\* a SIGCHLD handler that waits for any child, in a thread that does not block it
Reap(c) ==
    /\ alive /\ chld = "handler" /\ (others \/ blocked # Caller) /\ Ended(c)
    /\ child' = [child EXCEPT ![c] = NoChild]
    /\ UNCHANGED <<disp, wanted, chld, others, caller, alive, calls, signals>>

\* SIGINT or SIGQUIT from the terminal reaches the process and its children
Terminal(s) ==
    /\ alive /\ signals < MaxSignals /\ signals' = signals + 1
    /\ alive' = (disp[s] # "default")
    /\ child' = [c \in Caller |->
          IF /\ child[c].state \in {"forked", "shell"}
             /\ child[c].disp[s] = "default"
          THEN Ending(c, "killed") ELSE child[c]]
    /\ UNCHANGED <<disp, wanted, chld, others, caller, calls>>

Calling == {c \in Caller : pc[c] # "idle"}

\* no two calls of my_system are in progress at once
NoOverlap == \A c, d \in Calling : c = d

\* the application changes a disposition, never while a call is in progress
Sigaction(s) ==
    /\ alive /\ Calling = {}
    /\ \E d \in Disposition :
          disp' = [disp EXCEPT ![s] = d] /\ wanted' = [wanted EXCEPT ![s] = d]
    /\ left' = left \ {s}
    /\ UNCHANGED <<chld, others, pc, saved, blocked, savemask, stuck, child, status,
                   alive, calls, signals>>

Next ==
    \/ \E c \in Caller : \/ IgnoreInt(c) \/ IgnoreIntFails(c) \/ CallStep(c)
                         \/ Exec(c) \/ ShellEnds(c) \/ Reap(c)
    \/ \E s \in Sig : Terminal(s) \/ Sigaction(s)

Spec == Init /\ [][Next]_vars

\* the threads run, and the child reaches its shell, whose command ends;
\* waitpid is not interrupted for ever
FairSpec == /\ Spec
            /\ \A c \in Caller :
                  /\ WF_vars(CallStep(c)) /\ SF_vars(Waitpid(c) \/ WaitpidFails(c))
                  /\ WF_vars(Exec(c)) /\ WF_vars(ShellEnds(c))

-----------------------------------------------------------------------------
\* what the process has between calls: what the application asked for, except
\* what calls that failed in the middle have left ignored
Between(s) == IF s \in left THEN "ignore" ELSE wanted[s]

(***************************************************************************)
(* When no call is in progress the process treats SIGINT and SIGQUIT as    *)
(* the application asked, and its threads take SIGCHLD again: "restore     *)
(* previous signal actions & reset signal mask", however the call ended.   *)
(* The exception is a sigaction or sigprocmask that fails once SIGINT is   *)
(* ignored: that call returns -1 with what it had ignored still ignored,   *)
(* and SIGCHLD blocked in its thread if it was; no later call makes it     *)
(* worse or better.                                                        *)
(***************************************************************************)
Restored ==
    Calling = {} => (\A s \in Sig : disp[s] = Between(s)) /\ blocked = stuck

(***************************************************************************)
(* The command runs under the dispositions and the mask the application    *)
(* had before the call, not under those my_system gave its caller, except  *)
(* for what the child itself failed to put back.                           *)
(***************************************************************************)
ShellAsCalled ==
    \A c \in Caller : child[c].state = "shell" =>
        /\ \A s \in Sig \ child[c].unset :
              child[c].disp[s] = "default" <=> Between(s) # "ignore"
        /\ "CHLD" \notin child[c].unset => (child[c].blocks <=> c \in stuck)

(***************************************************************************)
(* While the caller waits for its child, a signal from the terminal does   *)
(* not kill the caller: it is for the command ("ignore SIGINT and          *)
(* SIGQUIT").                                                              *)
(***************************************************************************)
CallerOutlivesCommand ==
    [][\A c \in Caller : child[c] # NoChild /\ pc[c] \in {"wait", "interrupted"}
          => alive']_vars

OneThread == ~others /\ \A c, d \in Caller : c = d

(***************************************************************************)
(* While my_system waits, the child is still there to be waited for: the   *)
(* application's SIGCHLD handler never takes the command's status, in a    *)
(* process with one thread.  The exception is an application that ignores  *)
(* SIGCHLD, whose children the kernel reaps.                               *)
(***************************************************************************)
StatusNotStolen ==
    OneThread /\ chld # "ignore" =>
        \A c \in Caller : pc[c] = "wait" => child[c] # NoChild

(***************************************************************************)
(* However a call ends, it leaves no command running and no zombie behind. *)
(***************************************************************************)
NothingLeftBehind ==
    \A c \in Caller : pc[c] = "return" => child[c] = NoChild

(***************************************************************************)
(* A call returns once its command has ended, or the process is killed,    *)
(* even when the status was taken by another thread's SIGCHLD handler or   *)
(* by the kernel.                                                          *)
(***************************************************************************)
CallReturns == \A c \in Caller : pc[c] # "idle" ~> pc[c] = "idle" \/ ~alive

(***************************************************************************)
(* The caller survives the command, and goes on when the command is over.  *)
(***************************************************************************)
CallEnds == CallerOutlivesCommand /\ CallReturns

(***************************************************************************)
(* What the comments of my_system promise, together: the caller's signals  *)
(* are put back, the command has its own, its status is the call's, and    *)
(* nothing is left of it, with the exceptions of the four parts.           *)
(***************************************************************************)
CallSound == Restored /\ ShellAsCalled /\ StatusNotStolen /\ NothingLeftBehind
=============================================================================
