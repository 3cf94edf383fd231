----------------------------- MODULE MCSessions -----------------------------
(***************************************************************************)
(* Three requests and a limit of two, so that the third attempt of a       *)
(* window is refused.                                                      *)
(***************************************************************************)
EXTENDS Sessions, TLC

Symmetry == Permutations(Requests)
=============================================================================
