------------------------------ MODULE Payments ------------------------------
(***************************************************************************)
(* Payments of a tenant's expenses, revenues and invoices, their reversal, *)
(* and the status each of them derives from its payments; with the two     *)
(* other writers of that status, the edit and the deletion of an entity.   *)
(*                                                                         *)
(* A member of Txns is one HTTP request, op[t] says which.  payments,      *)
(* status, value and cash are the committed database; what a transaction   *)
(* has written so far is its own until Commit: row, posted, written.       *)
(* Registering the financial event is two steps here, asking for the tip   *)
(* of the chain and inserting the event: EventChain has the others and     *)
(* shows that no two running transactions of a tenant are past it.         *)
(***************************************************************************)
EXTENDS LedgerRules, FiniteSetsExt, Sequences

CONSTANTS
  Txns,          \* requests
  Entities,      \* expenses, revenues and invoices of the tenant
  KindOf,        \* the PaymentType of each entity
  InitialValue,  \* the amount each entity was created with
  Ops            \* the operations a request may perform

PaymentTypes == {"expense", "revenue", "invoice"}

ASSUME KindAssumption == KindOf \in [Entities -> PaymentTypes]
ASSUME ValueAssumption == InitialValue \in [Entities -> Nat \ {0}]

\* A request: registerPayment of an amount ("pay"), or with an id or a reversal
\* date among the data too ("repost"); deletePayment of a payment for an entity
\* and an amount the client names too, execute of UpdateExpense with a new
\* value, execute of DeleteExpense on the entities of series.
Operations ==
  [kind : {"pay", "repost", "reverse", "edit", "delete"}, entity : Entities,
   amount : Int, series : Seq(Entities)]

\* The DTOs hold the amount of a reversal and of an expense to @Min(0), that of
\* a payment to @IsNumber.
ASSUME OpsAssumption ==
  \A o \in Ops : /\ o \in Operations
                 /\ o.kind \in {"pay", "repost"} \/ o.amount >= 0
                 /\ o.kind = "delete" => o.series # <<>>

Statuses == {"pending", "paid", "partial", "cancelled", "reversed", "archived"}

VARIABLES
  payments,  \* table payment
  status,    \* column status of each entity
  value,     \* column value of each entity
  cash,      \* sum of the liquid ledger entries that refer to each entity
  lastId,    \* AUTO_INCREMENT counter of payment
  pc,        \* where each request stands
  op,        \* what each request does
  target,    \* the payment verifyReversePayment returned, as it was then
  seen,      \* the read view of the transaction: payments and values
  row,       \* the payment row the transaction inserted or overwrote
  posted,    \* the event it registered: entity and ledger amount
  written,   \* the statuses it wrote; it holds the lock of these rows
  todo       \* the entities a deletion has still to visit

database == <<payments, status, value, cash>>
locals == <<target, seen, row, posted, written, todo>>
vars == <<database, lastId, pc, op, locals>>

Running(t) ==
  pc[t] \in {"reverse", "register", "tip", "mark", "status", "check", "remove",
             "edit", "commit"}

\* No row lock is held and nothing is written.
Nothing == [e \in {} |-> "pending"]

Init ==
  /\ payments = {}
  /\ status = [e \in Entities |-> "pending"]
  /\ value = InitialValue
  /\ cash = [e \in Entities |-> 0]
  /\ lastId = 0
  /\ pc = [t \in Txns |-> "idle"]
  /\ op \in [Txns -> Ops]
  /\ target = [t \in Txns |-> {}]
  /\ seen = [t \in Txns |-> {}]
  /\ row = [t \in Txns |-> {}]
  /\ posted = [t \in Txns |-> {}]
  /\ written = [t \in Txns |-> Nothing]
  /\ todo = [t \in Txns |-> <<>>]

-----------------------------------------------------------------------------
Goto(t, state) == pc' = [pc EXCEPT ![t] = state]

\* Mutant: an error path that leaves the transaction open.
EndKeepingLocks(t, outcome) ==
  /\ Goto(t, outcome)
  /\ target' = [target EXCEPT ![t] = {}]
  /\ seen' = [seen EXCEPT ![t] = {}]
  /\ row' = [row EXCEPT ![t] = {}]
  /\ posted' = [posted EXCEPT ![t] = {}]
  /\ todo' = [todo EXCEPT ![t] = <<>>]
  /\ UNCHANGED written

\* The request is over and forgets what it held.
End(t, outcome) ==
  /\ Goto(t, outcome)
  /\ target' = [target EXCEPT ![t] = {}]
  /\ seen' = [seen EXCEPT ![t] = {}]
  /\ row' = [row EXCEPT ![t] = {}]
  /\ posted' = [posted EXCEPT ![t] = {}]
  /\ written' = [written EXCEPT ![t] = Nothing]
  /\ todo' = [todo EXCEPT ![t] = <<>>]

\* REPEATABLE READ: the first plain SELECT of a transaction fixes what it sees.
ReadView == {[payments |-> payments, value |-> value]}

RowLocked(e, t) == \E u \in Txns \ {t} : e \in DOMAIN written[u]

\* A transaction that registered its event holds the tip of the tenant's chain.
HoldsChain(t) == posted[t] # {}

\* The payments whose row t has locked: its own, and the one it has marked.
LockedPayments(t) ==
  {p.id : p \in row[t]} \cup
  {p.id : p \in IF op[t].kind = "reverse" /\ pc[t] \in {"status", "commit"}
                THEN target[t] ELSE {}}

PaymentLocked(p, t) == \E u \in Txns \ {t} : p.id \in LockedPayments(u)

PaymentsOf(e, rows) == {p \in rows : p.entity = e}
Total(rows) == MapThenSumSet(LAMBDA p : p.value, rows)

DefineStatus(total, amount) ==
  IF total >= amount THEN "paid" ELSE IF total > 0 THEN "partial" ELSE "pending"

\* The status updateExpenseStatus and updateRevenueStatus derive.
StatusFrom(rows, amount) ==
  IF rows # {} /\ Total(rows) <= 0
  THEN "reversed"
  ELSE DefineStatus(Total(rows), amount)

\* The table as a transaction sees it that has written the rows of own.
Overlay(table, own) == {p \in table : \A q \in own : q.id # p.id} \cup own

\* A payment the client sent without an id: of is 0, or the payment it reverses
\* (the program knows that only while it runs: the column reversal is a flag).
NewRow(t, e, amount, of) ==
  [id |-> lastId + 1, entity |-> e, value |-> amount, reversed |-> FALSE,
   of |-> of]

\* Mutant: the id of the new row is not read back.
InsertPaymentWithoutId(t, new) ==
  /\ row' = [row EXCEPT ![t] = {[new EXCEPT !.id = 0]}]
  /\ lastId' = lastId + 1
  /\ Goto(t, "register")

InsertPayment(t, new) ==
  /\ row' = [row EXCEPT ![t] = {new}]
  /\ lastId' = lastId + 1
  /\ Goto(t, "register")

\* Mutant: the entity is locked before the event is registered.
SavePaymentLockingEntity(t) ==
  /\ pc[t] = "idle" /\ op[t].kind = "pay"
  /\ ~RowLocked(op[t].entity, t)
  /\ written' = [written EXCEPT
                   ![t] = [e \in {op[t].entity} |-> status[e]]]
  /\ InsertPayment(t, NewRow(t, op[t].entity, op[t].amount, 0))
  /\ UNCHANGED <<database, op, target, seen, posted, todo>>

\* Mutant: the payments are looked up before the event is registered.
SavePaymentReadingFirst(t) ==
  /\ pc[t] = "idle" /\ op[t].kind = "pay"
  /\ InsertPayment(t, NewRow(t, op[t].entity, op[t].amount, 0))
  /\ seen' = [seen EXCEPT ![t] = ReadView]
  /\ UNCHANGED <<database, op, target, posted, written, todo>>

\* registerPayment: the transaction begins and inserts the payment.
SavePayment(t) ==
  /\ pc[t] = "idle" /\ op[t].kind = "pay"
  /\ InsertPayment(t, NewRow(t, op[t].entity, op[t].amount, 0))
  /\ UNCHANGED <<database, op, target, seen, posted, written, todo>>

\* save of a payment with an id is an UPDATE of every column where the id is
\* that, of no row if there is none.
OverwritePayment(t, rows) ==
  /\ \A p \in rows : ~PaymentLocked(p, t)
  /\ row' = [row EXCEPT ![t] = rows]
  /\ Goto(t, "register")
  /\ UNCHANGED lastId

\* registerPayment when the client sent an id, a reversal date or both.
SaveReposted(t) ==
  /\ pc[t] = "idle" /\ op[t].kind = "repost"
  /\ \E reversed \in BOOLEAN :
       LET sent == [NewRow(t, op[t].entity, op[t].amount, 0)
                      EXCEPT !.reversed = reversed]
       IN  \/ InsertPayment(t, sent)
           \/ \E p \in payments : OverwritePayment(t, {[sent EXCEPT !.id = p.id]})
           \/ OverwritePayment(t, {})
  /\ UNCHANGED <<database, op, target, seen, posted, written, todo>>

\* deletePayment looks at the payment the client chose, outside the
\* transaction: any payment of the tenant, a reversal included, which nothing
\* ties to the entity the client names beside it.
VerifyReverse(t) ==
  /\ pc[t] = "idle" /\ op[t].kind = "reverse"
  /\ \E p \in payments :
       IF p.reversed
       THEN Goto(t, "refused") /\ UNCHANGED target
       ELSE Goto(t, "reverse") /\ target' = [target EXCEPT ![t] = {p}]
  /\ UNCHANGED <<database, lastId, op, seen, row, posted, written, todo>>

\* The transaction of deletePayment begins and inserts the negative payment.
SaveReversal(t) ==
  /\ pc[t] = "reverse"
  /\ \E p \in target[t] :
       InsertPayment(t, NewRow(t, op[t].entity, -Magnitude(op[t].amount), p.id))
  /\ UNCHANGED <<database, op, target, seen, posted, written, todo>>

NormalizeAmount(amount, kind) ==
  IF kind \in {"expense", "invoice"} THEN -Magnitude(amount)
                                     ELSE Magnitude(amount)

NormalizeReversalAmount(amount, kind) == -NormalizeAmount(amount, kind)

ResolveEventType(kind) ==
  IF kind = "revenue" THEN "REVENUE_RECEIVED" ELSE "PAYMENT_POSTED"

\* The call of createEvent.
Event(t) ==
  LET kind == KindOf[op[t].entity]
  IN  IF op[t].kind # "reverse"
      THEN [type |-> ResolveEventType(kind), referenceType |-> kind,
            amount |-> NormalizeAmount(op[t].amount, kind)]
      ELSE [type |-> "REVERSAL", referenceType |-> kind,
            amount |-> NormalizeReversalAmount(op[t].amount, kind)]

\* getLastEvent reads the index downwards, FOR UPDATE: a transaction has locked
\* the gap above the tip from the moment it asks for the tip.
AskTip(t) ==
  /\ pc[t] = "register"
  /\ Goto(t, "tip")
  /\ UNCHANGED <<database, lastId, op, locals>>

\* Mutant: the reversal is booked as one more payment.
RegisterAsPayment(t) ==
  /\ pc[t] = "tip"
  /\ \A u \in Txns \ {t} : ~HoldsChain(u) /\ pc[u] # "tip"
  /\ posted' = [posted EXCEPT ![t] =
       {DestinationAmount([Event(t) EXCEPT
          !.type = ResolveEventType(KindOf[op[t].entity])])}]
  /\ seen' = [seen EXCEPT ![t] = IF @ = {} THEN ReadView ELSE @]
  /\ Goto(t, IF op[t].kind = "reverse" THEN "mark" ELSE "status")
  /\ UNCHANGED <<database, lastId, op, target, row, written, todo>>

\* FinancialEventsService.register, once no other transaction holds the tip of
\* the chain, nor the gap above it where the event is inserted.  The ledger
\* engine's look at the bank account, after that, is the first plain SELECT.
Register(t) ==
  /\ pc[t] = "tip"
  /\ \A u \in Txns \ {t} : ~HoldsChain(u) /\ pc[u] # "tip"
  /\ posted' = [posted EXCEPT ![t] = {DestinationAmount(Event(t))}]
  /\ seen' = [seen EXCEPT ![t] = IF @ = {} THEN ReadView ELSE @]
  /\ Goto(t, IF op[t].kind = "reverse" THEN "mark" ELSE "status")
  /\ UNCHANGED <<database, lastId, op, target, row, written, todo>>

\* updateReverseDate, whose UPDATE takes effect for others on Commit.
UpdateReverseDate(t) ==
  /\ pc[t] = "mark"
  /\ \A p \in target[t] : ~PaymentLocked(p, t)
  /\ Goto(t, "status")
  /\ UNCHANGED <<database, lastId, op, locals>>

SetStatus(t, e, new) ==
  /\ ~RowLocked(e, t)
  /\ written' = [written EXCEPT
                   ![t] = [f \in DOMAIN @ \cup {e} |-> IF f = e THEN new ELSE @[f]]]

\* updateStatus reads the entity and its payments in the read view, and its own
\* row, and overwrites whatever status the row has by then.
UpdateStatus(t) ==
  LET e == op[t].entity
  IN  /\ pc[t] = "status"
      /\ KindOf[e] # "invoice"
      /\ \E view \in seen[t] :
           SetStatus(t, e, StatusFrom(PaymentsOf(e, Overlay(view.payments, row[t])),
                                      view.value[e]))
      /\ Goto(t, "commit")
      /\ UNCHANGED <<database, lastId, op, target, seen, row, posted, todo>>

\* updateStatus of an invoice: getById applies [0] to the promise loadById
\* returned and so finds no invoice whatever the table holds.
InvoiceNotFound(t) ==
  /\ pc[t] = "status"
  /\ KindOf[op[t].entity] = "invoice"
  /\ End(t, "invoice_not_found")
  /\ UNCHANGED <<database, lastId, op>>

\* deleteExpense: the transaction begins and looks at the payments of the
\* first entity, which fixes what it will see of the others.
BeginDelete(t) ==
  /\ pc[t] = "idle" /\ op[t].kind = "delete"
  /\ todo' = [todo EXCEPT ![t] = op[t].series]
  /\ seen' = [seen EXCEPT ![t] = ReadView]
  /\ Goto(t, "check")
  /\ UNCHANGED <<database, lastId, op, target, row, posted, written>>

PaymentsSeen(t) == PaymentsOf(Head(todo[t]), (CHOOSE v \in seen[t] : TRUE).payments)

\* DeleteExpense.execute refuses an entity whose payments add up to something,
\* and with it all of the series.
CheckPayments(t) ==
  /\ pc[t] = "check"
  /\ IF Total(PaymentsSeen(t)) > 0
     THEN End(t, "refused")
     ELSE Goto(t, "remove") /\ UNCHANGED locals
  /\ UNCHANGED <<database, lastId, op>>

\* archive or deleteExpense, then the next installment of the series.
Remove(t) ==
  /\ pc[t] = "remove"
  /\ SetStatus(t, Head(todo[t]),
               IF PaymentsSeen(t) # {} THEN "archived" ELSE "cancelled")
  /\ todo' = [todo EXCEPT ![t] = Tail(@)]
  /\ Goto(t, IF Len(todo[t]) > 1 THEN "check" ELSE "commit")
  /\ UNCHANGED <<database, lastId, op, target, seen, row, posted>>

\* The client loads an entity into a form.
OpenForm(t) ==
  /\ pc[t] = "idle" /\ op[t].kind = "edit"
  /\ target' = [target EXCEPT ![t] = {status[op[t].entity]}]
  /\ Goto(t, "edit")
  /\ UNCHANGED <<database, lastId, op, seen, row, posted, written, todo>>

\* UpdateExpense.execute: one UPDATE of every column, outside any transaction,
\* with the status the form had.
SaveForm(t) ==
  /\ pc[t] = "edit"
  /\ ~RowLocked(op[t].entity, t)
  /\ \E old \in target[t] : status' = [status EXCEPT ![op[t].entity] = old]
  /\ value' = [value EXCEPT ![op[t].entity] = op[t].amount]
  /\ End(t, "committed")
  /\ UNCHANGED <<payments, cash, lastId, op>>

\* Mutant: updateReverseDate is given the id of no row.
MarkedNone(t) == payments

\* The table with the payments a reversal of t has marked.
Marked(t) ==
  {[p EXCEPT !.reversed = @ \/ \E q \in target[t] : q.id = p.id] : p \in payments}

Commit(t) ==
  /\ pc[t] = "commit"
  /\ payments' = Overlay(Marked(t), row[t])
  /\ status' = [e \in Entities |->
                 IF e \in DOMAIN written[t] THEN written[t][e] ELSE status[e]]
  /\ cash' = IF posted[t] = {} THEN cash
             ELSE [cash EXCEPT ![op[t].entity] = @ + CHOOSE n \in posted[t] : TRUE]
  /\ End(t, "committed")
  /\ UNCHANGED <<value, lastId, op>>

\* Any await may throw, and ROLLBACK undoes the transaction.
Fail(t) ==
  /\ Running(t)
  /\ End(t, "rolledback")
  /\ UNCHANGED <<database, lastId, op>>

\* What a blocked statement of t waits for: the tip of the chain, the gap above
\* it, or a row.  (The UPDATE of SaveReposted waits too, but holds nothing yet.)
WaitsFor(t, u) ==
  /\ t # u
  /\ \/ pc[t] = "tip" /\ (HoldsChain(u) \/ pc[u] = "tip")
     \/ pc[t] = "mark" /\ \E p \in target[t] : p.id \in LockedPayments(u)
     \/ pc[t] \in {"status", "edit"} /\ op[t].entity \in DOMAIN written[u]
     \/ pc[t] = "remove" /\ Head(todo[t]) \in DOMAIN written[u]

\* Everyone in S waits for someone in S.
Deadlocked(S) == S # {} /\ \A t \in S : \E u \in S : WaitsFor(t, u)

\* InnoDB detects the cycle and rolls one of the transactions on it back.
DeadlockVictim(t) ==
  /\ \E S \in SUBSET Txns :
       /\ t \in S /\ Deadlocked(S)
       /\ \A R \in SUBSET S : R # S => ~Deadlocked(R)
  /\ Fail(t)

Progress(t) ==
  \/ SaveReversal(t) \/ AskTip(t) \/ Register(t) \/ UpdateReverseDate(t)
  \/ UpdateStatus(t) \/ InvoiceNotFound(t)
  \/ CheckPayments(t) \/ Remove(t) \/ SaveForm(t)
  \/ Commit(t) \/ DeadlockVictim(t)

Start(t) ==
  \/ SavePayment(t) \/ SaveReposted(t) \/ VerifyReverse(t)
  \/ BeginDelete(t) \/ OpenForm(t)

Next == \E t \in Txns : Start(t) \/ Progress(t) \/ Fail(t)

Spec == Init /\ [][Next]_vars

\* MySQL answers every statement that is not blocked, and breaks deadlocks.
FairSpec == Spec /\ \A t \in Txns : WF_vars(Progress(t))

-----------------------------------------------------------------------------
(* Correctness *)

PaymentOK(p) ==
  /\ p.id \in 1..lastId /\ p.of \in 0..lastId
  /\ p.entity \in Entities /\ p.value \in Int /\ p.reversed \in BOOLEAN

\* Type invariant; a transaction holds the tip of the chain only with a row of
\* its own to pay for it, unless the client named a payment that is not there.
TypeOK ==
  /\ \A p \in payments : PaymentOK(p)
  /\ status \in [Entities -> Statuses]
  /\ value \in [Entities -> Nat]
  /\ cash \in [Entities -> Int]
  /\ lastId \in Nat
  /\ op \in [Txns -> Ops]
  /\ \A t \in Txns :
       /\ Running(t) \/ pc[t] \in {"idle", "committed", "rolledback", "refused",
                                   "invoice_not_found"}
       /\ \A p \in row[t] : PaymentOK(p)
       /\ HoldsChain(t) => seen[t] # {} /\ (row[t] # {} \/ op[t].kind = "repost")
       /\ DOMAIN written[t] \subseteq Entities
       /\ pc[t] \in {"check", "remove"} => todo[t] # <<>>

CommittedPaymentsOf(e) == PaymentsOf(e, payments)

\* No client sends an id or a reversal date with a payment, nor a negative one.
NoReposts == \A t \in Txns : op[t].kind # "repost"
NoNegatives == \A t \in Txns : op[t].kind = "pay" => op[t].amount >= 0

\* While entities are only paid, by payments without an id or a reversal date,
\* and reversed, the stored status is the one their committed payments imply,
\* however requests interleave: the lock on the tenant's chain, taken before
\* the payments are looked up, keeps two payments from missing each other.
StatusFollowsPayments ==
  \A e \in Entities :
    status[e] = IF CommittedPaymentsOf(e) = {} THEN "pending"
                ELSE StatusFrom(CommittedPaymentsOf(e), value[e])

\* The ledger and the payment table agree on every entity: money that left for
\* an expense, or came in for a revenue, is what its payments add up to, with
\* reversals, rollbacks, edits and deletions in between.  It takes clients that
\* send no negative amount, whose row is kept as sent and whose event is not,
\* and no id, which books one payment twice.
CashFollowsPayments ==
  NoReposts /\ NoNegatives =>
    \A e \in Entities :
      cash[e] = IF KindOf[e] = "revenue" THEN Total(CommittedPaymentsOf(e))
                                         ELSE -Total(CommittedPaymentsOf(e))

\* A payment carries the reversal date exactly when a reversal of it is in the
\* table: the two are written by different statements of deletePayment.  It
\* takes clients that send no reversal date themselves, and no id.
ReversedIsMarked ==
  NoReposts =>
    \A p \in payments : p.reversed <=> \E q \in payments : q.of = p.id

KindsOf(S) == {op[t].kind : t \in S}

\* Three things lock requests out in a cycle: deletions of a series, which
\* visit it in the order the client chose; requests that have locked the gap
\* above the tip of the chain and wait for it; a payment that overwrites one
\* with the chain still to take, and the reversal of that one.  The rows of the
\* entities are in no cycle but the first: a payment takes the chain first.
KnownDeadlocks ==
  \A S \in SUBSET Txns :
    Deadlocked(S) =>
      \/ Deadlocked({t \in S : op[t].kind = "delete"})
      \/ Deadlocked({t \in S : pc[t] = "tip"})
      \/ {"repost", "reverse"} \subseteq KindsOf(S)

\* Every request that started ends.
EveryRequestEnds ==
  \A t \in Txns : Running(t) ~> ~Running(t)

\* payment.service.ts:63 refuses a payment that has a reversal already: "Já
\* existe um estorno para esse pagamento."
ReversedOnce ==
  \A p \in payments : Cardinality({q \in payments : q.of = p.id}) <= 1
=============================================================================
