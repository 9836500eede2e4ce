----------------------------- MODULE MCEventPoll -----------------------------
(***************************************************************************)
(* EventPoll on three nodes and two descriptors.                           *)
(***************************************************************************)
EXTENDS EventPoll

CONSTANTS b1, b2, b3, f1, f2, e1, a1

ThreeBlocks == {b1, b2, b3}
ThreeNodes == ThreeBlocks \cup {ListHead}
TwoFds == {f1, f2}
OnePoll == {e1}
OneApp == {a1}
=============================================================================
