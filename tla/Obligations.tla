----------------------------- MODULE Obligations -----------------------------
(***************************************************************************)
(* Expenses, revenues, credit-card invoices and transfers of one tenant    *)
(* from the requests that create and edit them: series of installments,    *)
(* the events that recognise them, their placement on the invoices of the  *)
(* card, and edits of a whole series.  One card is enough: expenses of     *)
(* different cards share nothing but the card's id.                        *)
(*                                                                         *)
(* Creations and transfers run in MySQLDatabase.transaction: what they     *)
(* wrote is their draft until Commit.  Edits do not: each statement of an  *)
(* edit commits on its own.  Registering an event takes the tip of the     *)
(* tenant's chain until the transaction ends, as EventChain shows          *)
(* (OneWriter).  Dates are days counted from 0 in months of MonthDays      *)
(* days; no day in use is one that some month lacks.                       *)
(***************************************************************************)
EXTENDS LedgerRules, FiniteSetsExt, SequencesExt

CONSTANTS
  Requests,           \* HTTP requests
  Plans,              \* what the requests ask for, one function per case
  FixedInstallments,  \* how many rows a fixed ('F') series gets, 12
  MonthDays,          \* length of a month
  ClosingDay,         \* credit_cards.closingDate of the card
  DueDay,             \* credit_cards.dueDate of the card
  Today,              \* the day of the month on which requests arrive
  MaxMonth,           \* bound on the clock
  MaxFailures         \* bound on the statements that fail

ASSUME DaysAssumption ==
  /\ MonthDays \in Nat \ {0}
  /\ {ClosingDay, DueDay, Today} \subseteq 0..(MonthDays - 1)
  /\ MaxMonth \in Nat \ {0}

ASSUME InstallmentsAssumption == FixedInstallments \in Nat \ {0}

\* A request: the fields of the DTO that matter.  due is a date, for an edit
\* the days it moves the date by; all is updateInstallments.
Operations ==
  [kind : {"expense", "revenue", "edit", "invoice", "pay", "transfer",
           "revert"},
   value : Nat, due : Int, account : Nat, link : BOOLEAN,
   type : {"U", "P", "F"}, installments : Nat, all : BOOLEAN]

ASSUME PlansAssumption == Plans \subseteq [Requests -> Operations]

VARIABLES
  rows,       \* tables expense and revenue, by id
  invoices,   \* table invoices, by id
  transfers,  \* table transfer
  events,     \* table financial_events: type, amount, month of occurredAt
  month,      \* the clock
  lastId,     \* AUTO_INCREMENT of rows and invoices
  failures,   \* statements that have failed
  pc,         \* where each request stands
  op,         \* what it asks for
  draft,      \* what its transaction has written
  items,      \* the entities it holds in memory and has still to handle
  seen,       \* the invoices its transaction sees
  available,  \* availableInvoices: date to invoice id
  chosen      \* invoiceToExpense of an invoice just created, or 0

books == <<rows, invoices, transfers, events>>
memory == <<op, draft, items, seen, available, chosen>>
obligations == <<books, month, lastId, failures, pc, memory>>

Nothing == [i \in {} |-> 0]
Only(i, x) == [k \in {i} |-> x]
\* A table that new was written to.
Merged(new, old) ==
  [i \in DOMAIN new \cup DOMAIN old |-> IF i \in DOMAIN new THEN new[i] ELSE old[i]]

NoDraft ==
  [rows |-> Nothing, invoices |-> Nothing, transfers |-> <<>>, events |-> <<>>]

Transactional(r) ==
  op[r].kind \in {"expense", "revenue", "transfer", "revert"}

ObligationsInit ==
  /\ rows = Nothing /\ invoices = Nothing
  /\ transfers = <<>> /\ events = <<>>
  /\ month = 1
  /\ lastId = 0
  /\ failures = 0
  /\ pc = [r \in Requests |-> "idle"]
  /\ op \in Plans
  /\ draft = [r \in Requests |-> NoDraft]
  /\ items = [r \in Requests |-> <<>>]
  /\ seen = [r \in Requests |-> Nothing]
  /\ available = [r \in Requests |-> Nothing]
  /\ chosen = [r \in Requests |-> 0]

-----------------------------------------------------------------------------
(* Dates.                                                                  *)

PlusMonths(date, k) == date + k * MonthDays
SetDay(date, day)   == (date \div MonthDays) * MonthDays + day
Now                 == month * MonthDays + Today

NoInvoice == [closing |-> -1, due |-> -1]

\* The closing date is the one after the last invoice's, or the next one from
\* now on; the due date is the first one after it that no invoice has had.
NextClosing(last) ==
  LET closing == SetDay(IF last = NoInvoice THEN Now ELSE last.closing,
                        ClosingDay)
  IN  IF closing <= Now \/ last # NoInvoice
      THEN PlusMonths(closing, 1) ELSE closing

\* calculateNextInvoiceDates
NextInvoice(last) ==
  LET closing == NextClosing(last)
      due     == SetDay(closing, DueDay)
  IN  [closing |-> closing,
       due |-> IF due <= closing \/ (last # NoInvoice /\ due <= last.due)
               THEN PlusMonths(due, 1) ELSE due]

-----------------------------------------------------------------------------
(* Series.                                                                 *)

\* InstallmentsCalculator: a fixed series has its fixed length, a parcelled
\* one the length asked for, anything else is one row.
Length(o) ==
  IF o.type = "F" THEN FixedInstallments
  ELSE IF o.type = "P" /\ o.installments > 0 THEN o.installments
  ELSE 1

\* The rows of a creation: one a month from the first date on, each but the
\* first naming the first as its source.
NewSeries(o, firstId) ==
  [k \in 1..Length(o) |->
     [id |-> firstId + k - 1, kind |-> o.kind, value |-> o.value,
      due |-> PlusMonths(o.due, k - 1), account |-> o.account,
      link |-> o.link, invoice |-> 0, status |-> "pending",
      source |-> IF k = 1 THEN 0 ELSE firstId]]

Recognition(e) ==
  [type |-> IF e.kind = "expense" THEN "EXPENSE_RECOGNIZED"
            ELSE "REVENUE_RECOGNIZED",
   amount |-> e.value, month |-> month]

\* searchForRelatedInstallments: the series of e, from e on, by id.
RelatedInstallments(e) ==
  LET first  == IF e.source # 0 THEN e.source ELSE e.id
      series == {i \in DOMAIN rows : /\ rows[i].kind = e.kind
                                     /\ first \in {rows[i].source, i}
                                     /\ i >= e.id}
  IN  [k \in 1..Cardinality(series) |->
         rows[SetToSortSeq(series, LAMBDA a, b : a < b)[k]]]

ChangedFields(original, updated) ==
  {f \in DOMAIN updated : original[f] # updated[f]}

\* InstallmentUpdater: every later row gets each changed field, the date
\* moved on month by month.
UpdatedSeries(series, form) ==
  LET changed == ChangedFields(series[1], form)
  IN  [k \in DOMAIN series |->
         IF k = 1 THEN form
         ELSE [f \in DOMAIN form |->
                 IF f \notin changed THEN series[k][f]
                 ELSE IF f = "due" THEN PlusMonths(form.due, k - 1)
                 ELSE form[f]]]

-----------------------------------------------------------------------------
Goto(r, state) == pc' = [pc EXCEPT ![r] = state]

\* Mutant: getLastEvent without FOR UPDATE.
ChainFreeUnlocked(r) == r \in Requests

\* getLastEvent FOR UPDATE waits for a transaction that has registered.
ChainFree(r) == \A q \in Requests \ {r} : draft[q].events = <<>>

\* CreateExpense.execute and CreateRevenue.execute up to the association:
\* every row is inserted and, when it names an account, recognised.
Create(r) ==
  /\ pc[r] = "idle"
  /\ op[r].kind \in {"expense", "revenue"}
  /\ op[r].account > 0 => ChainFree(r)
  /\ LET series == NewSeries(op[r], lastId + 1)
     IN  /\ lastId' = lastId + Len(series)
         /\ items' = [items EXCEPT ![r] = series]
         /\ draft' = [draft EXCEPT
              ![r].rows = [i \in {e.id : e \in Range(series)} |->
                             series[i - lastId]],
              ![r].events = IF op[r].account > 0
                            THEN [k \in DOMAIN series |->
                                    Recognition(series[k])]
                            ELSE <<>>]
  /\ Goto(r, IF op[r].link THEN "associate" ELSE "commit")
  /\ UNCHANGED <<books, month, failures, op, seen, available, chosen>>

\* UpdateExpense.execute and UpdateRevenue.execute of the form of row i, which
\* was loaded just now: alone, or with the rest of its series.
Edit(r) ==
  /\ pc[r] = "idle"
  /\ op[r].kind = "edit"
  /\ \E i \in DOMAIN rows :
       LET form   == [rows[i] EXCEPT !.value = op[r].value,
                                     !.due = @ + op[r].due,
                                     !.link = op[r].link]
           series == RelatedInstallments(rows[i])
           whole  == op[r].all /\ ChangedFields(series[1], form) # {}
       IN  /\ items' = [items EXCEPT ![r] =
                IF whole THEN UpdatedSeries(series, form) ELSE <<form>>]
           /\ Goto(r, IF whole THEN "saveSeries" ELSE "save")
  /\ UNCHANGED <<books, month, lastId, failures, op, draft, seen, available,
                 chosen>>

\* One saveExpense of the edit.  chosen counts the rows saved.
SaveItem(r) ==
  /\ pc[r] \in {"save", "saveSeries"}
  /\ LET e    == items[r][chosen[r] + 1]
         done == chosen[r] + 1 = Len(items[r])
     IN  /\ rows' = [rows EXCEPT ![e.id] = e]
         /\ chosen' = [chosen EXCEPT ![r] = IF done THEN 0 ELSE @ + 1]
         /\ Goto(r, IF ~done THEN pc[r]
                    ELSE IF /\ pc[r] = "saveSeries"
                            /\ op[r].link /\ e.kind = "expense"
                    THEN "associate" ELSE "done")
  /\ UNCHANGED <<invoices, transfers, events, month, lastId, failures, op,
                 draft, items, seen, available>>

-----------------------------------------------------------------------------
(* AssociateExpensesToInvoice.                                             *)

\* The settings and the invoices of the card are read: the first plain SELECTs
\* of a creation, so its transaction sees these invoices to the end.  Of two
\* with one date the Map keeps the later.  The query leaves out paid invoices;
\* there are none, because no payment of an invoice is ever committed
\* (Payments, InvoiceNotFound).
Associate(r) ==
  /\ pc[r] = "associate"
  /\ seen' = [seen EXCEPT ![r] = invoices]
  /\ available' = [available EXCEPT ![r] =
       [d \in {invoices[i].due : i \in DOMAIN invoices} |->
          Max({i \in DOMAIN invoices : invoices[i].due = d})]]
  /\ Goto(r, "link")
  /\ UNCHANGED <<books, month, lastId, failures, op, draft, items, chosen>>

\* The invoices searchInvoice finds.
InvoicesSeen(r) ==
  IF Transactional(r) THEN Merged(draft[r].invoices, seen[r]) ELSE invoices

\* searchInvoice: the newest invoice of the card.
NewestOf(found) ==
  IF DOMAIN found = {} THEN NoInvoice
  ELSE [f \in {"closing", "due"} |-> found[Max(DOMAIN found)][f]]

LastInvoice(r) == NewestOf(InvoicesSeen(r))

\* No invoice has the date of the expense: CreateInvoiceUseCase makes the one
\* after the last, whatever date that is.
CreateInvoice(r) ==
  /\ pc[r] = "link"
  /\ Head(items[r]).due \notin DOMAIN available[r]
  /\ LET next == NextInvoice(LastInvoice(r))
         new  == Only(lastId + 1,
                   [closing |-> next.closing, due |-> next.due,
                    recognised |-> Transactional(r) /\ op[r].account > 0])
     IN  /\ available' = [available EXCEPT
              ![r] = Merged(Only(next.due, lastId + 1), @)]
         /\ IF Transactional(r)
            THEN /\ draft' = [draft EXCEPT ![r].invoices = Merged(new, @)]
                 /\ UNCHANGED invoices
            ELSE invoices' = Merged(new, invoices) /\ UNCHANGED draft
  /\ lastId' = lastId + 1
  /\ chosen' = [chosen EXCEPT ![r] = lastId + 1]
  /\ Goto(r, "place")
  /\ UNCHANGED <<rows, transfers, events, month, failures, op, items, seen>>

\* POST /invoices/create: the same use case, outside of any transaction and
\* not awaited.  The client sends the card's settings.
SearchInvoice(r) ==
  /\ pc[r] = "idle"
  /\ op[r].kind = "invoice"
  /\ seen' = [seen EXCEPT ![r] = invoices]
  /\ Goto(r, "post")
  /\ UNCHANGED <<books, month, lastId, failures, op, draft, items, available,
                 chosen>>

PostInvoice(r) ==
  /\ pc[r] = "post"
  /\ LET next == NextInvoice(NewestOf(seen[r]))
     IN  invoices' = Merged(Only(lastId + 1,
           [closing |-> next.closing, due |-> next.due, recognised |-> FALSE]),
           invoices)
  /\ lastId' = lastId + 1
  /\ Goto(r, "done")
  /\ UNCHANGED <<rows, transfers, events, month, failures, memory>>

\* The expense gets the id and the date of its invoice and is written again,
\* every column.
PlaceOn(r, invoice) ==
  LET known == Merged(draft[r].invoices, invoices)
      e     == [Head(items[r]) EXCEPT !.invoice = invoice,
                                      !.due = known[invoice].due]
  IN  /\ IF Transactional(r)
         THEN draft' = [draft EXCEPT ![r].rows[e.id] = e] /\ UNCHANGED rows
         ELSE rows' = [rows EXCEPT ![e.id] = e] /\ UNCHANGED draft
      /\ items' = [items EXCEPT ![r] = Tail(@)]
      /\ chosen' = [chosen EXCEPT ![r] = 0]
      /\ Goto(r, IF Len(items[r]) > 1 THEN "link"
                 ELSE IF Transactional(r) THEN "commit" ELSE "done")
      /\ UNCHANGED <<invoices, transfers, events, month, lastId, failures, op,
                     seen, available>>

PlaceOnFound(r) ==
  /\ pc[r] = "link"
  /\ Head(items[r]).due \in DOMAIN available[r]
  /\ PlaceOn(r, available[r][Head(items[r]).due])

PlaceOnCreated(r) == pc[r] = "place" /\ PlaceOn(r, chosen[r])

\* A statement of the association fails: associate logs the error of the card
\* and the request goes on as if all were linked.
AssociationFails(r) ==
  /\ pc[r] \in {"associate", "link", "place"}
  /\ failures < MaxFailures
  /\ failures' = failures + 1
  /\ chosen' = [chosen EXCEPT ![r] = 0]
  /\ Goto(r, IF Transactional(r) THEN "commit" ELSE "done")
  /\ UNCHANGED <<books, month, lastId, op, draft, items, seen, available>>

-----------------------------------------------------------------------------
(* Transfers and payments.                                                 *)

\* create: the row and an event on either account.
Transfer(r) ==
  /\ pc[r] \in {"idle", "revert"}
  /\ (pc[r] = "idle") = (op[r].kind = "transfer")
  /\ op[r].kind \in {"transfer", "revert"}
  /\ ChainFree(r)
  /\ LET amount == IF pc[r] = "idle" THEN op[r].value ELSE chosen[r]
     IN  draft' = [draft EXCEPT
           ![r].transfers = <<[amount |-> amount]>>,
           ![r].events =
             <<[type |-> "TRANSFER_POSTED", amount |-> amount,
                month |-> month],
               [type |-> "TRANSFER_RECEIVED", amount |-> amount,
                month |-> month]>>]
  /\ Goto(r, "commit")
  /\ UNCHANGED <<books, month, lastId, failures, op, items, seen, available,
                 chosen>>

\* revertTransfer reads the original outside the transaction and marks
\* nothing: chosen keeps its amount.
ReadOriginal(r) ==
  /\ pc[r] = "idle"
  /\ op[r].kind = "revert"
  /\ \E t \in Range(transfers) : chosen' = [chosen EXCEPT ![r] = t.amount]
  /\ Goto(r, "revert")
  /\ UNCHANGED <<books, month, lastId, failures, op, draft, items, seen,
                 available>>

\* A payment of the whole value of a row, in one step: Payments has them all.
Pay(r) ==
  /\ pc[r] = "idle"
  /\ op[r].kind = "pay"
  /\ ChainFree(r)
  /\ \E i \in DOMAIN rows :
       /\ rows[i].status = "pending"
       /\ rows' = [rows EXCEPT ![i].status = "paid"]
       /\ events' = Append(events,
            [type |-> IF rows[i].kind = "expense" THEN "PAYMENT_POSTED"
                      ELSE "REVENUE_RECEIVED",
             amount |-> rows[i].value, month |-> month])
  /\ Goto(r, "done")
  /\ UNCHANGED <<invoices, transfers, month, lastId, failures, memory>>

-----------------------------------------------------------------------------
Commit(r) ==
  /\ pc[r] = "commit"
  /\ rows' = Merged(draft[r].rows, rows)
  /\ invoices' = Merged(draft[r].invoices, invoices)
  /\ transfers' = transfers \o draft[r].transfers
  /\ events' = events \o draft[r].events
  /\ draft' = [draft EXCEPT ![r] = NoDraft]
  /\ items' = [items EXCEPT ![r] = <<>>]
  /\ Goto(r, "done")
  /\ UNCHANGED <<month, lastId, failures, op, seen, available, chosen>>

\* Any other statement of a request fails: a transaction rolls back, an edit
\* or the creation of an invoice stops where it is.
Fail(r) ==
  /\ pc[r] \in {"save", "saveSeries", "post", "commit"}
  /\ failures < MaxFailures
  /\ failures' = failures + 1
  /\ draft' = [draft EXCEPT ![r] = NoDraft]
  /\ items' = [items EXCEPT ![r] = <<>>]
  /\ chosen' = [chosen EXCEPT ![r] = 0]
  /\ Goto(r, "failed")
  /\ UNCHANGED <<books, month, lastId, op, seen, available>>

\* The month turns.
Tick ==
  /\ month < MaxMonth
  /\ month' = month + 1
  /\ UNCHANGED <<books, lastId, failures, pc, memory>>

ObligationsNext ==
  \/ Tick
  \/ \E r \in Requests :
       \/ Create(r) \/ Edit(r) \/ SaveItem(r)
       \/ Associate(r) \/ CreateInvoice(r) \/ PlaceOnFound(r)
       \/ PlaceOnCreated(r) \/ AssociationFails(r)
       \/ SearchInvoice(r) \/ PostInvoice(r)
       \/ Transfer(r) \/ ReadOriginal(r) \/ Pay(r)
       \/ Commit(r) \/ Fail(r)

-----------------------------------------------------------------------------
(* Correctness.                                                            *)

\* No two invoices of a card fall due on one date as long as every invoice was
\* made by a creation that also registered an event: the FOR UPDATE on the
\* tenant's chain, taken for another purpose, is all that keeps two creations
\* from both making the next invoice (the table has no key on the date).
InvoicesDiffer ==
  (\A i \in DOMAIN invoices : invoices[i].recognised) =>
     \A i, j \in DOMAIN invoices :
        invoices[i].due = invoices[j].due => i = j
=============================================================================
