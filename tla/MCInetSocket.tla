----------------------------- MODULE MCInetSocket -----------------------------
(***************************************************************************)
(* InetSocket with three descriptors.                                      *)
(***************************************************************************)
EXTENDS InetSocket, TLC

CONSTANTS d1, d2, d3

ThreeFds == {d1, d2, d3}
FdSymmetry == Permutations(ThreeFds)
=============================================================================
