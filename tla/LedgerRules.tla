---------------------------- MODULE LedgerRules ----------------------------
(***************************************************************************)
(* The accounting rules of the ledger: what LedgerResolver decides for one *)
(* financial event, as constant operators.  A call is the IFinancialEvent  *)
(* record a service hands to FinancialEventsService.register; the resolver *)
(* turns it into the amounts of the two ledger entries and decides whether *)
(* the destination entry moves cash ("liquidity").                         *)
(***************************************************************************)
EXTENDS Integers

EventTypes ==
  {"PAYMENT_POSTED", "TRANSFER_POSTED", "TRANSFER_RECEIVED", "REVERSAL",
   "OPENING_BALANCE", "REVENUE_RECEIVED", "CHARGE_PAID", "CHARGE_REFUNDED",
   "CHARGE_GENERATED", "CHARGE_CANCELED", "CHARGE_EXPIRED",
   "REVENUE_RECOGNIZED", "EXPENSE_RECOGNIZED"}

ReferenceTypes ==
  {"invoice", "expense", "revenue", "transfer", "account_opening", "charge"}

\* The events whose destination entry is credited: the account gains.
CreditTypes ==
  {"OPENING_BALANCE", "REVENUE_RECEIVED", "CHARGE_PAID", "CHARGE_CANCELED",
   "CHARGE_EXPIRED", "EXPENSE_RECOGNIZED", "TRANSFER_RECEIVED"}

\* The events whose destination entry is debited: the account loses.
DebitTypes ==
  {"PAYMENT_POSTED", "CHARGE_GENERATED", "REVENUE_RECOGNIZED",
   "CHARGE_REFUNDED", "TRANSFER_POSTED"}

\* The events that recognise a right or a duty and move no cash.
NonLiquidTypes ==
  {"CHARGE_GENERATED", "CHARGE_CANCELED", "CHARGE_EXPIRED",
   "REVENUE_RECOGNIZED", "EXPENSE_RECOGNIZED"}

IsCredit(call) ==
  \/ call.type \in CreditTypes
  \/ call.type = "REVERSAL" /\ call.referenceType \in {"expense", "invoice"}

IsDebit(call) ==
  \/ call.type \in DebitTypes
  \/ call.type = "REVERSAL" /\ call.referenceType = "revenue"

\* defineAmounts returns instead of throwing InvalidEventTypeException: an
\* amount of zero never reaches the switch, every other one needs a side.
Resolvable(call) == call.amount = 0 \/ IsCredit(call) \/ IsDebit(call)

Magnitude(n) == IF n < 0 THEN -n ELSE n

\* The amount of the destination entry; the origin entry carries its opposite.
\* The sign the caller chose is lost: only the event's type decides the side.
DestinationAmount(call) ==
  IF IsCredit(call) THEN Magnitude(call.amount) ELSE -Magnitude(call.amount)

OriginAmount(call) == -DestinationAmount(call)

DestinationLiquidity(call) == call.type \notin NonLiquidTypes
=============================================================================
