---------------------------- MODULE MCEventChain ----------------------------
(***************************************************************************)
(* Instances of EventChain: three requests of one tenant, or of two.       *)
(* A request is the payment of an expense (one event), a transfer between  *)
(* the tenant's accounts (two), or a transfer to an account it does not    *)
(* have, which fails on the second event with the first already inserted.  *)
(***************************************************************************)
EXTENDS EventChain, TLC

CONSTANTS t1, t2, t3, c1, c2

TwoTenants == (c1 :> {1, 2}) @@ (c2 :> {2})
OneTenant  == c1 :> {2}

Payment == <<[type |-> "PAYMENT_POSTED", referenceType |-> "expense",
              accountId |-> 2, amount |-> -5]>>

TransferTo(target) ==
  <<[type |-> "TRANSFER_POSTED", referenceType |-> "transfer",
     accountId |-> 2, amount |-> 7],
    [type |-> "TRANSFER_RECEIVED", referenceType |-> "transfer",
     accountId |-> target, amount |-> 7]>>

PaymentsAndTransfers == {Payment, TransferTo(1)}

Symmetry == Permutations({t1, t2, t3})
=============================================================================
