------------------------------ MODULE MCCharges ------------------------------
(***************************************************************************)
(* Instances of Charges: requests on two revenues, the first with a bank   *)
(* account and a gateway, the second with neither.                         *)
(***************************************************************************)
EXTENDS Charges, TLC

CONSTANTS t1, t2, t3, t4, r1, r2

EveryKind == Transitions \cup {"create"} \cup ByHand

Symmetry == Permutations(Txns)
=============================================================================
