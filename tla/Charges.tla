------------------------------ MODULE Charges ------------------------------
(***************************************************************************)
(* The life of a charge (ChargesService): created from a revenue, sent to  *)
(* a gateway, then moved through its statuses by users, webhooks and the   *)
(* hourly expiration job.  Every operation is one transaction that writes  *)
(* the charge, its history, the tenant's financial events and the status   *)
(* of the revenue.  That status has writers by hand too: a payment of the  *)
(* revenue, its edit and its deletion.                                     *)
(*                                                                         *)
(* A member of Txns is one request of one tenant.  A charge is known by the*)
(* request that created it.  status and revenue are what is committed,     *)
(* written and synced what a running transaction will commit; the other    *)
(* tables hold the rows of running transactions too.  A transaction sees   *)
(* the charge as it was when it began (REPEATABLE READ), but its UPDATE    *)
(* waits for the row and overwrites whatever is there by then.             *)
(***************************************************************************)
EXTENDS Naturals, FiniteSetsExt

CONSTANTS
  Txns,       \* requests
  Revenues,   \* revenues a charge may be created from
  HasAccount, \* the revenues with a bank account: their charges are booked
  HasGateway, \* the revenues whose billing rule names a gateway
  ClientStatuses, \* the statuses clients send for a revenue
  Kinds       \* the operations the requests may perform

ChargeStatuses ==
  {"DRAFT", "PROCESSING", "AWAITING_PAYMENT", "PAID", "FAILED", "CANCELED",
   "EXPIRED"}

\* The statuses each operation may find the charge in: VALID_TRANSITIONS read
\* backwards, and the condition of refund.
AllowedFrom ==
  [processing |-> {"DRAFT"},
   awaiting   |-> {"PROCESSING"},
   pay        |-> {"PROCESSING", "AWAITING_PAYMENT"},
   fail       |-> {"PROCESSING"},
   cancel     |-> {"DRAFT", "PROCESSING", "AWAITING_PAYMENT"},
   expire     |-> {"AWAITING_PAYMENT"},
   refund     |-> {"PAID"}]

Target ==
  [processing |-> "PROCESSING", awaiting |-> "AWAITING_PAYMENT",
   pay |-> "PAID", fail |-> "FAILED", cancel |-> "CANCELED",
   expire |-> "EXPIRED", refund |-> "CANCELED"]

Transitions == DOMAIN Target

\* The operations that register a financial event of the charge, and its type.
EventType ==
  [create |-> "CHARGE_GENERATED", pay |-> "CHARGE_PAID",
   cancel |-> "CHARGE_CANCELED", expire |-> "CHARGE_EXPIRED",
   refund |-> "CHARGE_REFUNDED"]

RevenueStatuses ==
  {"pending", "paid", "partial", "cancelled", "reversed", "archived"}

\* What goes by the revenue and not by a charge: its payment or the reversal of
\* one (PaymentService), UpdateRevenue, and DeleteRevenue of one revenue.
\* Payments has their amounts and the deletion of a series.
ByHand == {"receive", "edit", "remove"}

\* The operations that set the status of the revenue, and what to.
SyncedStatuses ==
  [pay |-> {"paid"}, cancel |-> {"pending"}, expire |-> {"pending"},
   refund |-> {"pending"}, receive |-> {"paid", "partial", "pending", "reversed"},
   edit |-> ClientStatuses, remove |-> {"cancelled", "archived"}]

ASSUME KindsAssumption == Kinds \subseteq Transitions \cup {"create"} \cup ByHand
ASSUME RevenuesAssumption == HasAccount \subseteq Revenues /\ HasGateway \subseteq Revenues
ASSUME StatusesAssumption == ClientStatuses \subseteq RevenueStatuses

VARIABLES
  status,      \* column status of table charges; "none": no such charge
  revenue,     \* column status of table revenue
  processing,  \* table charges_processing
  history,     \* table charges_events, its ids in the order of the inserts
  booked,      \* the rows of table financial_events that refer to a charge
  pc,          \* where each request stands
  kind,        \* what it does
  subject,     \* the charge it is about, or the revenue
  written,     \* the status its transaction wrote to the charge
  synced,      \* the status its transaction wrote to the revenue
  held         \* the rows it has locked

rows == <<processing, history, booked>>
committed == <<status, revenue>>
vars == <<status, revenue, processing, history, booked, pc, kind, subject,
          written, synced, held>>

RunningStates ==
  {"load", "processing", "insert", "update", "log", "register", "tip",
   "gateway", "sync", "commit"}

Running(t) == pc[t] \in RunningStates

\* The rows that operations lock: a charge, a revenue, the last event of the
\* tenant (OneWriter of EventChain).
ChargeRow(c)  == [table |-> "charges", row |-> c]
RevenueRow(r) == [table |-> "revenue", row |-> r]
LastEvent     == [table |-> "financial_events", row |-> "last"]

IsTransition(t) == kind[t] \in Transitions
RevenueOf(t)    == IF IsTransition(t) THEN subject[subject[t]] ELSE subject[t]
ChargeOf(t)     == IF kind[t] = "create" THEN t ELSE subject[t]

\* A revenue has the status it was created with.
Init ==
  /\ status = [t \in Txns |-> "none"]
  /\ revenue \in [Revenues -> ClientStatuses]
  /\ processing = {} /\ history = {} /\ booked = {}
  /\ pc = [t \in Txns |-> "idle"]
  /\ kind = [t \in Txns |-> "none"]
  /\ subject = [t \in Txns |-> "none"]
  /\ written = [t \in Txns |-> "none"]
  /\ synced = [t \in Txns |-> "none"]
  /\ held = [t \in Txns |-> {}]

-----------------------------------------------------------------------------
Goto(t, state) == pc' = [pc EXCEPT ![t] = state]

\* The request is over, its transaction undone.
Forget(t) ==
  /\ Goto(t, "rolledback")
  /\ kind' = [kind EXCEPT ![t] = "none"]
  /\ subject' = [subject EXCEPT ![t] = "none"]
  /\ written' = [written EXCEPT ![t] = "none"]
  /\ synced' = [synced EXCEPT ![t] = "none"]
  /\ held' = [held EXCEPT ![t] = {}]

\* A locking statement takes the row once no other transaction holds it.
Free(x, t) == \A u \in Txns \ {t} : x \notin held[u]
Lock(t, x) == Free(x, t) /\ held' = [held EXCEPT ![t] = @ \cup {x}]

FirstState(k) ==
  CASE k = "create" -> "load" [] k = "receive" -> "register" [] OTHER -> "sync"

\* A request about a revenue begins: a transaction, but for the edit, which is
\* a single UPDATE.
Begin(t) ==
  /\ pc[t] = "idle"
  /\ \E k \in Kinds \cap ({"create"} \cup ByHand), r \in Revenues :
       /\ kind' = [kind EXCEPT ![t] = k]
       /\ subject' = [subject EXCEPT ![t] = r]
       /\ Goto(t, FirstState(k))
  /\ UNCHANGED <<committed, rows, written, synced, held>>

\* findById in a new transaction, then loadAndValidate, or the condition of
\* refund, which also calls the gateway: the charge is as it is committed.
Validate(t) ==
  /\ pc[t] = "idle"
  /\ \E k \in Kinds \cap Transitions, c \in Txns :
       /\ status[c] # "none"
       /\ IF status[c] \in AllowedFrom[k]
          THEN /\ kind' = [kind EXCEPT ![t] = k]
               /\ subject' = [subject EXCEPT ![t] = c]
               /\ Goto(t, "update")
          ELSE Goto(t, "refused") /\ UNCHANGED <<kind, subject>>
  /\ UNCHANGED <<committed, rows, written, synced, held>>

\* ChargeRevenueProvider.load: SELECT ... FOR UPDATE of the revenue.
LoadEntity(t) ==
  /\ pc[t] = "load"
  /\ Lock(t, RevenueRow(subject[t]))
  /\ Goto(t, "processing")
  /\ UNCHANGED <<committed, rows, kind, subject, written, synced>>

ProcessingRow(t) == [revenue |-> subject[t], by |-> t]

\* Mutant: the table charges_processing without its unique key.
SaveProcessingWithoutKey(t) ==
  /\ pc[t] = "processing"
  /\ processing' = processing \cup {ProcessingRow(t)}
  /\ Goto(t, "insert")
  /\ UNCHANGED <<committed, history, booked, kind, subject, written, synced, held>>

\* saveEventProcessing: the unique key lets one charge per revenue through.
SaveProcessing(t) ==
  /\ pc[t] = "processing"
  /\ \A p \in processing : p.revenue # subject[t]
  /\ processing' = processing \cup {ProcessingRow(t)}
  /\ Goto(t, "insert")
  /\ UNCHANGED <<committed, history, booked, kind, subject, written, synced, held>>

\* The new charge is saved as a draft.
SaveCharge(t) ==
  /\ pc[t] = "insert"
  /\ written' = [written EXCEPT ![t] = "DRAFT"]
  /\ held' = [held EXCEPT ![t] = @ \cup {ChargeRow(t)}]
  /\ Goto(t, "log")
  /\ UNCHANGED <<committed, rows, kind, subject, synced>>

\* Mutant: the row of the charge is not locked until the transaction ends.
UpdateStatusUnlocked(t) ==
  /\ pc[t] = "update"
  /\ written' = [written EXCEPT ![t] = Target[kind[t]]]
  /\ Goto(t, "log")
  /\ UNCHANGED <<committed, rows, kind, subject, synced, held>>

\* Mutant: the operation stores its own name where the status belongs.
UpdateStatusToName(t) ==
  /\ pc[t] = "update"
  /\ Lock(t, ChargeRow(subject[t]))
  /\ written' = [written EXCEPT ![t] = kind[t]]
  /\ Goto(t, "log")
  /\ UNCHANGED <<committed, rows, kind, subject, synced>>

\* Mutant: like create, the operation takes the revenue first.
UpdateStatusLockingRevenue(t) ==
  /\ pc[t] = "update"
  /\ Free(ChargeRow(subject[t]), t) /\ Free(RevenueRow(RevenueOf(t)), t)
  /\ held' = [held EXCEPT
       ![t] = @ \cup {ChargeRow(subject[t]), RevenueRow(RevenueOf(t))}]
  /\ written' = [written EXCEPT ![t] = Target[kind[t]]]
  /\ Goto(t, "log")
  /\ UNCHANGED <<committed, rows, kind, subject, synced>>

\* The UPDATE of the charge, whose WHERE does not mention the old status.
UpdateStatus(t) ==
  /\ pc[t] = "update"
  /\ Lock(t, ChargeRow(subject[t]))
  /\ written' = [written EXCEPT ![t] = Target[kind[t]]]
  /\ Goto(t, "log")
  /\ UNCHANGED <<committed, rows, kind, subject, synced>>

\* AUTO_INCREMENT, as far as ids are told apart: after all that are there.
NextId == IF history = {} THEN 1 ELSE Max({h.id : h \in history}) + 1
LogRow(t, event) ==
  history' = history \cup
    {[id |-> NextId, charge |-> ChargeOf(t), event |-> event, by |-> t]}

\* events.logEvent, the operation naming the event.
LogEvent(t) ==
  /\ pc[t] = "log"
  /\ LogRow(t, kind[t])
  /\ Goto(t, "register")
  /\ UNCHANGED <<committed, processing, booked, kind, subject, written, synced, held>>

AfterRegister(t) ==
  IF kind[t] \in DOMAIN SyncedStatuses THEN "sync"
  ELSE IF kind[t] = "create" /\ subject[t] \in HasGateway THEN "gateway"
  ELSE "commit"

\* What has an event to register: the payment of a revenue, and the operations
\* of EventType when the revenue has an account.
Registers(t) ==
  kind[t] = "receive" \/ (kind[t] \in DOMAIN EventType /\ RevenueOf(t) \in HasAccount)

\* registerChargeFinancialEvent and registerChargeGeneratedEvent return early.
SkipRegister(t) ==
  /\ pc[t] = "register"
  /\ ~Registers(t)
  /\ Goto(t, AfterRegister(t))
  /\ UNCHANGED <<committed, rows, kind, subject, written, synced, held>>

\* getLastEvent reads the index downwards, FOR UPDATE: a transaction has locked
\* the gap above the last event from the moment it asks for it.
AskTip(t) ==
  /\ pc[t] = "register"
  /\ Registers(t)
  /\ Goto(t, "tip")
  /\ UNCHANGED <<committed, rows, kind, subject, written, synced, held>>

\* FinancialEventsService.register: the lock on the tenant's last event is
\* granted, and no other transaction has locked the gap where the new one goes.
Register(t) ==
  /\ pc[t] = "tip"
  /\ \A u \in Txns \ {t} : pc[u] # "tip"
  /\ Lock(t, LastEvent)
  /\ booked' = booked \cup
       (IF kind[t] = "receive" THEN {}
        ELSE {[charge |-> ChargeOf(t), type |-> EventType[kind[t]], by |-> t]})
  /\ Goto(t, AfterRegister(t))
  /\ UNCHANGED <<committed, processing, history, kind, subject, written, synced>>

\* sendCharge, syncGatewayResponse and a second event: the only gateway there
\* is answers PROCESSING.
SendToGateway(t) ==
  /\ pc[t] = "gateway"
  /\ written' = [written EXCEPT ![t] = "PROCESSING"]
  /\ LogRow(t, "processing")
  /\ Goto(t, "commit")
  /\ UNCHANGED <<committed, processing, booked, kind, subject, synced, held>>

\* Mutant: only a payment is told to the revenue.
SyncPaymentOnly(t) ==
  /\ pc[t] = "sync"
  /\ Lock(t, RevenueRow(RevenueOf(t)))
  /\ synced' = [synced EXCEPT
       ![t] = IF kind[t] = "pay" THEN "paid" ELSE "none"]
  /\ Goto(t, "commit")
  /\ UNCHANGED <<committed, rows, kind, subject, written>>

\* syncRevenueStatus, or the statement of a writer by hand: the UPDATE of the
\* revenue.
SyncRevenue(t) ==
  /\ pc[t] = "sync"
  /\ Lock(t, RevenueRow(RevenueOf(t)))
  /\ \E s \in SyncedStatuses[kind[t]] : synced' = [synced EXCEPT ![t] = s]
  /\ Goto(t, "commit")
  /\ UNCHANGED <<committed, rows, kind, subject, written>>

Commit(t) ==
  /\ pc[t] = "commit"
  /\ status' = IF written[t] = "none" THEN status
               ELSE [status EXCEPT ![ChargeOf(t)] = written[t]]
  /\ revenue' = IF synced[t] = "none" THEN revenue
                ELSE [revenue EXCEPT ![RevenueOf(t)] = synced[t]]
  /\ held' = [held EXCEPT ![t] = {}]
  /\ Goto(t, "committed")
  /\ UNCHANGED <<rows, kind, subject, written, synced>>

\* Mutant: the financial event is written outside the transaction.
RollbackKeepingBooked(t) ==
  /\ processing' = {p \in processing : p.by # t}
  /\ history' = {h \in history : h.by # t}
  /\ Forget(t)
  /\ UNCHANGED <<committed, booked>>

Rollback(t) ==
  /\ processing' = {p \in processing : p.by # t}
  /\ history' = {h \in history : h.by # t}
  /\ booked' = {b \in booked : b.by # t}
  /\ Forget(t)
  /\ UNCHANGED committed

\* ChargeAlreadyProcessedException
RefuseSecond(t) ==
  /\ pc[t] = "processing"
  /\ \E p \in processing : p.revenue = subject[t] /\ pc[p.by] = "committed"
  /\ Rollback(t)

\* Any await may throw: no customer, two billing rules, the gateway's error, a
\* revenue with payments that cannot be deleted, a lost connection.
Fail(t) == Running(t) /\ Rollback(t)

\* The row the statement of t locks that it is about to run, or running.
Wanted(t) ==
  CASE pc[t] = "load" -> {RevenueRow(subject[t])}
    [] pc[t] = "update" -> {ChargeRow(subject[t])}
    [] pc[t] = "tip" -> {LastEvent}
    [] pc[t] = "sync" -> {RevenueRow(RevenueOf(t))}
    [] OTHER -> {}

\* A transaction waits for who holds the row it wants, and an INSERT of an event
\* for who has locked the gap it goes to.
WaitsFor(t, u) ==
  /\ t # u
  /\ Wanted(t) \cap held[u] # {} \/ (pc[t] = "tip" /\ pc[u] = "tip")

\* Everyone in S waits for someone in S.
Deadlocked(S) == S # {} /\ \A t \in S : \E u \in S : WaitsFor(t, u)

\* InnoDB detects the cycle and rolls one of the transactions on it back.
DeadlockVictim(t) ==
  /\ \E S \in SUBSET Txns :
       /\ t \in S /\ Deadlocked(S)
       /\ \A R \in SUBSET S : R # S => ~Deadlocked(R)
  /\ Rollback(t)

Step(t) ==
  \/ Begin(t) \/ Validate(t)
  \/ LoadEntity(t) \/ SaveProcessing(t) \/ RefuseSecond(t) \/ SaveCharge(t)
  \/ UpdateStatus(t) \/ LogEvent(t) \/ SkipRegister(t) \/ AskTip(t)
  \/ Register(t) \/ SendToGateway(t) \/ SyncRevenue(t) \/ Commit(t)
  \/ DeadlockVictim(t) \/ Fail(t)

Next == \E t \in Txns : Step(t)

Spec == Init /\ [][Next]_vars

-----------------------------------------------------------------------------
(* Correctness *)

\* Type invariant; the rows of a table belong to a request that is running or
\* has committed, and the locks to a running one.
TypeOK ==
  /\ status \in [Txns -> ChargeStatuses \cup {"none"}]
  /\ revenue \in [Revenues -> RevenueStatuses]
  /\ pc \in [Txns -> RunningStates \cup
                     {"idle", "refused", "committed", "rolledback"}]
  /\ kind \in [Txns -> Kinds \cup {"none"}]
  /\ \A t \in Txns : Running(t) => RevenueOf(t) \in Revenues
  /\ \A t \in Txns : held[t] # {} => Running(t)
  /\ \A p \in processing : Running(p.by) \/ pc[p.by] = "committed"
  /\ \A b \in booked : Running(b.by) \/ pc[b.by] = "committed"
  /\ \A h \in history : Running(h.by) \/ pc[h.by] = "committed"

Charges == {c \in Txns : status[c] # "none"}

\* The history of a charge, and the last of it.  loadHistory orders it by
\* createdAt, which cannot tell inserts of the same second apart; ids can.
HistoryOf(c) == {h \in history : h.charge = c /\ ~Running(h.by)}
IsLast(h, c) == h \in HistoryOf(c) /\ \A g \in HistoryOf(c) : g.id <= h.id

StatusAfter(event) == IF event = "create" THEN "DRAFT" ELSE Target[event]

\* The history of a charge ends with the event that gave it the status it has:
\* requests that validated the same old status write and log one by one.
HistoryEndsInStatus ==
  /\ \A c \in Charges :
       \E h \in history : IsLast(h, c) /\ StatusAfter(h.event) = status[c]
  /\ \A c \in Txns \ Charges : HistoryOf(c) = {}

\* The charge events the ledger was told of are those of the history, each by
\* the same request, and none of a charge whose revenue has no account.
BookedFollowsHistory ==
  \A c \in Charges, k \in DOMAIN EventType :
    {b.by : b \in {x \in booked :
              x.charge = c /\ x.type = EventType[k] /\ ~Running(x.by)}}
    = IF subject[c] \in HasAccount
      THEN {h.by : h \in {x \in HistoryOf(c) : x.event = k}}
      ELSE {}

\* A revenue has at most one charge, though the check and the insert of create
\* are two statements and requests repeat.
OneChargePerRevenue ==
  \A c, d \in Charges : subject[c] = subject[d] => c = d

WrittenByHand(r) ==
  \E t \in Txns : pc[t] = "committed" /\ kind[t] \in ByHand /\ subject[t] = r

\* A charge and its revenue tell the same story as long as nobody pays, edits
\* or deletes the revenue by hand: paid with the charge, and pending once it is
\* cancelled, expired or refunded, whichever of two racing requests comes last.
RevenueFollowsCharge ==
  \A c \in Charges :
    ~WrittenByHand(subject[c]) =>
      /\ status[c] = "PAID" => revenue[subject[c]] = "paid"
      /\ status[c] \in {"CANCELED", "EXPIRED"} => revenue[subject[c]] = "pending"

\* A deadlock has one of two causes: transactions that all have locked the gap
\* above the last event and none may insert, or a create, which locks the
\* revenue first, and a payment of the revenue, which locks it last.
KnownDeadlocks ==
  \A S \in SUBSET Txns :
    Deadlocked(S) =>
      \/ Deadlocked({t \in S : pc[t] = "tip"})
      \/ {"create", "receive"} \subseteq {kind[t] : t \in S}
=============================================================================
