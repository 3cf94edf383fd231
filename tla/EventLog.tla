------------------------------ MODULE EventLog ------------------------------
(***************************************************************************)
(* What the event chain promises, without transactions, locks or rows: one *)
(* append-only log of financial events per tenant.  A request appends all  *)
(* its events in one step, and only events the ledger can book: on an      *)
(* account of the tenant, of a type the resolver knows.                    *)
(***************************************************************************)
EXTENDS LedgerRules, Sequences

CONSTANTS Clients, AccountsOf, Requests

VARIABLE log

Bookable(call, c) == call.accountId \in AccountsOf[c] /\ Resolvable(call)

Init == log = [c \in Clients |-> <<>>]

AppendAll(c, r) ==
  /\ \A i \in 1..Len(r) : Bookable(r[i], c)
  /\ log' = [log EXCEPT ![c] = @ \o r]

Next == \E c \in Clients, r \in Requests : AppendAll(c, r)

Spec == Init /\ [][Next]_log
=============================================================================
