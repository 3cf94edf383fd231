--------------------------- MODULE MCMonthlyBuild ---------------------------
(***************************************************************************)
(* The requests of the instance, over two months of four days.  The card   *)
(* closes on day 1 and falls due on day 3; an expense of day 2 is due on   *)
(* no invoice's day.                                                       *)
(***************************************************************************)
EXTENDS MonthlyBuild

CONSTANTS r1, r2

Op(kind) ==
  [kind |-> kind, value |-> 1, due |-> 7, account |-> 1, link |-> FALSE,
   type |-> "U", installments |-> 0, all |-> FALSE]

Linked   == [Op("expense") EXCEPT !.link = TRUE]
Parcels  == [Op("expense") EXCEPT !.type = "P", !.installments = 2]
Unbooked == [Linked EXCEPT !.account = 0, !.due = 6]
Fixed    == [Op("revenue") EXCEPT !.type = "F"]
EditAll  ==
  [Op("edit") EXCEPT !.value = 2, !.due = 4, !.link = TRUE, !.all = TRUE]

\* Two creations that register events, one beside an invoice made by hand, a
\* series and an edit of it, a creation that registers none, payments, a
\* transfer and its reversal.
Cases ==
  {[r \in Requests |-> IF r = r1 THEN c[1] ELSE c[2]] :
     c \in {<<Linked, Linked>>, <<Linked, Op("invoice")>>,
            <<Parcels, EditAll>>, <<Unbooked, Op("pay")>>,
            <<Fixed, Op("pay")>>, <<Op("transfer"), Op("revert")>>}}
=============================================================================
