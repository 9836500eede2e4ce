------------------------- MODULE MCTimerTaskHistory -------------------------
(***************************************************************************)
(* TimerTaskHistory on two blocks and one handler.                         *)
(***************************************************************************)
EXTENDS TimerTaskHistory

CONSTANTS s1, s2, f

TwoSlots == {s1, s2}
TwoNodes == TwoSlots \cup {ListHead}
OneHandler == {f}
PeriodsWithZero == {0, 2, 3}
=============================================================================
