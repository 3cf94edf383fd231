----------------------------- MODULE MCPayments -----------------------------
(***************************************************************************)
(* Instances of Payments: three or four requests on an expense, its second *)
(* installment, a revenue and an invoice of one tenant.                    *)
(***************************************************************************)
EXTENDS Payments, TLC

CONSTANTS t1, t2, t3, t4, expense, installment, revenue, invoice

MCKindOf ==
  [e \in Entities |-> CASE e = revenue -> "revenue" [] e = invoice -> "invoice"
                        [] OTHER -> "expense"]

MCInitialValue == [e \in Entities |-> 2]

Op(kind, e, amount, series) ==
  [kind |-> kind, entity |-> e, amount |-> amount, series |-> series]

Pay(e, amount) == Op("pay", e, amount, <<>>)
Repost(e, amount) == Op("repost", e, amount, <<>>)
Reverse(e, amount) == Op("reverse", e, amount, <<>>)
Edit(e, v)     == Op("edit", e, v, <<>>)
\* execute visits the entity itself, then the series it is in by id.
DeleteAll(e)   == Op("delete", e, 0, <<e, expense, installment>>)

PayAndReverse ==
  UNION {{Pay(e, -1), Pay(e, 2), Reverse(e, 1), Reverse(e, 2)} : e \in Entities}

AllOperations ==
  {Pay(expense, 2), Pay(invoice, 2), Repost(expense, 1), Reverse(expense, 2),
   Edit(expense, 3), DeleteAll(expense), DeleteAll(installment)}

Symmetry == Permutations(Txns)
=============================================================================
