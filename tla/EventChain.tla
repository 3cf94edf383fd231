----------------------------- MODULE EventChain -----------------------------
(***************************************************************************)
(* The financial event chain of each tenant and the ledger built from it.  *)
(* Every service of the finance core runs FinancialEventsService.register  *)
(* inside MySQLDatabase.transaction, once per event (a transfer registers  *)
(* two).  register reads the tenant's last event FOR UPDATE, numbers and   *)
(* hashes the new one after it, inserts it, and has the LedgerEngine insert*)
(* the processing row and the two ledger entries.                          *)
(*                                                                         *)
(* A member of Txns is one request: one transaction from its first register*)
(* to its commit or rollback, with every await of the code a step of its   *)
(* own.  The tables hold the rows of running transactions too, because     *)
(* InnoDB's scans and unique keys meet them; a row is committed when the   *)
(* transaction that wrote it is.                                           *)
(***************************************************************************)
EXTENDS LedgerRules, FiniteSets, Sequences

CONSTANTS
  Txns,        \* requests, each running one transaction
  Clients,     \* tenants
  AccountsOf,  \* the ids of the bank_accounts rows of each tenant
  Requests,    \* the sequences of register() calls a request may make
  Initial      \* the previousHash of a tenant's first event, 'INITIAL'

ASSUME AccountsAssumption == AccountsOf \in [Clients -> SUBSET (Nat \ {0})]

Calls == [type : EventTypes, referenceType : ReferenceTypes,
          accountId : Nat, amount : Int]

ASSUME RequestsAssumption == \A r \in Requests : r \in Seq(Calls) /\ r # <<>>

VARIABLES
  events,     \* table financial_events
  processed,  \* table ledger_event_processing: the event ids
  entries,    \* table ledger_entries
  lastId,     \* AUTO_INCREMENT counter of financial_events
  pc,         \* where each transaction stands
  client,     \* the tenant of each transaction (AuthContextService)
  request,    \* the register() calls each transaction makes
  done,       \* how many of them have returned
  last,       \* what getLastEvent told the current register()
  awaited,    \* id of the event row a blocked FOR UPDATE waits for
  held,       \* ids of the event rows each transaction has locked
  newId       \* id the current INSERT was given

tables == <<events, processed, entries>>
vars == <<events, processed, entries, lastId, pc, client, request, done, last,
          awaited, held, newId>>

RunningStates ==
  {"scan", "wait", "insert", "write", "process", "origin", "destination",
   "commit"}

Running(t)   == pc[t] \in RunningStates
Committed(t) == pc[t] = "committed"

\* What register() uses of the last event: null gives number 1 and 'INITIAL'.
NoEvent  == [sequenceNumber |-> 0, eventHash |-> Initial]
Tip(e)   == [sequenceNumber |-> e.sequenceNumber, eventHash |-> e.eventHash]
Call(t)  == request[t][done[t] + 1]

\* sha256 of the canonical JSON of the previous hash and the payload: a hash
\* is as good as the content it was computed from.
EventHash(previousHash, payload) == <<previousHash, payload>>

EventsOf(c) == {e \in events : e.clientId = c}

\* A row is locked by the transaction that locked it FOR UPDATE and, until it
\* ends, by the one that inserted it.
LockedByOther(e, t) ==
  \E u \in Txns \ {t} : e.id \in held[u] \/ (e.txn = u /\ Running(u))

Init ==
  /\ events = {} /\ processed = {} /\ entries = {}
  /\ lastId = 0
  /\ pc = [t \in Txns |-> "idle"]
  /\ client \in [Txns -> Clients]
  /\ request \in [Txns -> Requests]
  /\ done = [t \in Txns |-> 0]
  /\ last = [t \in Txns |-> NoEvent]
  /\ awaited = [t \in Txns |-> 0]
  /\ held = [t \in Txns |-> {}]
  /\ newId = [t \in Txns |-> 0]

-----------------------------------------------------------------------------
Goto(t, state) == pc' = [pc EXCEPT ![t] = state]

\* MySQLDatabase.transaction: a connection, BEGIN, and the callback starts.
Begin(t) ==
  /\ pc[t] = "idle"
  /\ Goto(t, "scan")
  /\ UNCHANGED <<tables, lastId, client, request, done, last, awaited, held,
                 newId>>

\* getLastEvent of a tenant that has no event: there is no row to lock, so two
\* transactions may both be told null.
FindNoEvent(t) ==
  /\ pc[t] = "scan"
  /\ EventsOf(client[t]) = {}
  /\ last' = [last EXCEPT ![t] = NoEvent]
  /\ Goto(t, "insert")
  /\ UNCHANGED <<tables, lastId, client, request, done, awaited, held, newId>>

\* The row e is locked and returned.
Adopt(t, e) ==
  /\ ~LockedByOther(e, t)
  /\ last' = [last EXCEPT ![t] = Tip(e)]
  /\ held' = [held EXCEPT ![t] = @ \cup {e.id}]
  /\ Goto(t, "insert")
  /\ UNCHANGED <<tables, lastId, client, request, done, awaited, newId>>

IsLast(e, c) ==
  /\ e \in EventsOf(c)
  /\ \A f \in EventsOf(c) : f.sequenceNumber <= e.sequenceNumber

\* getLastEvent finds the newest row free.
LockLastEvent(t) ==
  /\ pc[t] = "scan"
  /\ \E e \in events : IsLast(e, client[t]) /\ Adopt(t, e)

\* getLastEvent meets a newest row that another transaction has locked.
WaitForLock(t) ==
  /\ pc[t] = "scan"
  /\ \E e \in events :
       /\ IsLast(e, client[t])
       /\ LockedByOther(e, t)
       /\ awaited' = [awaited EXCEPT ![t] = e.id]
  /\ Goto(t, "wait")
  /\ UNCHANGED <<tables, lastId, client, request, done, last, held, newId>>

\* The lock is granted.  The scan already stood on this row, so it returns it
\* even when the transaction it waited for has added a newer one.
GrantLock(t) ==
  /\ pc[t] = "wait"
  /\ \E e \in EventsOf(client[t]) : e.id = awaited[t] /\ Adopt(t, e)

\* The row is free again or was rolled back, and the scan starts over.
Rescan(t) ==
  /\ pc[t] = "wait"
  /\ \A e \in events : e.id = awaited[t] => ~LockedByOther(e, t)
  /\ Goto(t, "scan")
  /\ UNCHANGED <<tables, lastId, client, request, done, last, awaited, held,
                 newId>>

\* saveEvent sends the INSERT: InnoDB hands out the id before it checks keys.
TakeId(t) ==
  /\ pc[t] = "insert"
  /\ lastId' = lastId + 1
  /\ newId' = [newId EXCEPT ![t] = lastId + 1]
  /\ Goto(t, "write")
  /\ UNCHANGED <<tables, client, request, done, last, awaited, held>>

NewEvent(t) ==
  LET number  == last[t].sequenceNumber + 1
      prev    == last[t].eventHash
      payload == <<client[t], number, Call(t)>>
  IN  [id |-> newId[t], txn |-> t, clientId |-> client[t],
       sequenceNumber |-> number, call |-> Call(t),
       previousHash |-> prev, eventHash |-> EventHash(prev, payload)]

\* The row that holds the key (clientId, sequenceNumber) t wants to insert.
Collides(e, t) ==
  /\ e.clientId = client[t]
  /\ e.sequenceNumber = last[t].sequenceNumber + 1

\* Mutant: the table without ux_client_sequence.
WriteEventWithoutKey(t) ==
  /\ pc[t] = "write"
  /\ events' = events \cup {NewEvent(t)}
  /\ Goto(t, "process")
  /\ UNCHANGED <<processed, entries, lastId, client, request, done, last,
                 awaited, held, newId>>

\* The INSERT goes through only while ux_client_sequence is free: it blocks on
\* the row of a running transaction and fails on that of a committed one.
WriteEvent(t) ==
  /\ pc[t] = "write"
  /\ \A e \in events : ~Collides(e, t)
  /\ events' = events \cup {NewEvent(t)}
  /\ Goto(t, "process")
  /\ UNCHANGED <<processed, entries, lastId, client, request, done, last,
                 awaited, held, newId>>

\* LedgerEngine.process validates the event and inserts its processing row.
MarkProcessed(t) ==
  /\ pc[t] = "process"
  /\ Call(t).accountId # 0
  /\ newId[t] \notin processed
  /\ processed' = processed \cup {newId[t]}
  /\ Goto(t, "origin")
  /\ UNCHANGED <<events, entries, lastId, client, request, done, last, awaited,
                 held, newId>>

Origin(t) ==
  [eventId |-> newId[t], side |-> "origin", accountId |-> Call(t).accountId,
   amount |-> OriginAmount(Call(t)), liquidity |-> FALSE]

Destination(t) ==
  [eventId |-> newId[t], side |-> "destination",
   accountId |-> Call(t).accountId, amount |-> DestinationAmount(Call(t)),
   liquidity |-> DestinationLiquidity(Call(t))]

\* LedgerBuilder.build needs an account of the tenant and a known event type.
Buildable(t) ==
  Call(t).accountId \in AccountsOf[client[t]] /\ Resolvable(Call(t))

\* build() succeeds and saveDoubleLedgerEntries saves the first entry.
SaveOrigin(t) ==
  /\ pc[t] = "origin"
  /\ Buildable(t)
  /\ entries' = entries \cup {Origin(t)}
  /\ Goto(t, "destination")
  /\ UNCHANGED <<events, processed, lastId, client, request, done, last,
                 awaited, held, newId>>

\* Mutant: the caller's callback asks for one more event than it has.
SaveDestinationNeverLast(t) ==
  /\ pc[t] = "destination"
  /\ entries' = entries \cup {Destination(t)}
  /\ done' = [done EXCEPT ![t] = @ + 1]
  /\ Goto(t, "scan")
  /\ UNCHANGED <<events, processed, lastId, client, request, last, awaited,
                 held, newId>>

\* The second entry; register() returns, and its caller goes on to the next
\* event or leaves the callback.
SaveDestination(t) ==
  /\ pc[t] = "destination"
  /\ entries' = entries \cup {Destination(t)}
  /\ done' = [done EXCEPT ![t] = @ + 1]
  /\ Goto(t, IF done[t] + 1 < Len(request[t]) THEN "scan" ELSE "commit")
  /\ UNCHANGED <<events, processed, lastId, client, request, last, awaited,
                 held, newId>>

\* Mutant: the connection goes back to the pool with its locks.
CommitKeepingLocks(t) ==
  /\ pc[t] = "commit"
  /\ Goto(t, "committed")
  /\ UNCHANGED <<tables, lastId, client, request, done, last, awaited, held,
                 newId>>

\* COMMIT makes the rows of t visible to everyone and frees its locks.
Commit(t) ==
  /\ pc[t] = "commit"
  /\ held' = [held EXCEPT ![t] = {}]
  /\ Goto(t, "committed")
  /\ UNCHANGED <<tables, lastId, client, request, done, last, awaited, newId>>

\* Mutant: the ledger repository writes outside the caller's transaction.
RollbackKeepingLedger(t) ==
  /\ events' = {e \in events : e.txn # t}
  /\ held' = [held EXCEPT ![t] = {}]
  /\ Goto(t, "rolledback")
  /\ UNCHANGED <<processed, entries, lastId, client, request, done, last,
                 awaited, newId>>

\* Mutant: each register() has a transaction of its own, so what the earlier
\* calls of the request wrote stays, committed.
RollbackLastCall(t) ==
  /\ events' = {e \in events : e.id # newId[t]}
  /\ processed' = processed \ {newId[t]}
  /\ entries' = {x \in entries : x.eventId # newId[t]}
  /\ held' = [held EXCEPT ![t] = {}]
  /\ Goto(t, IF done[t] = 0 THEN "rolledback" ELSE "committed")
  /\ UNCHANGED <<lastId, client, request, done, last, awaited, newId>>

\* ROLLBACK removes every row t wrote; its ids are not given out again.
Rollback(t) ==
  /\ events' = {e \in events : e.txn # t}
  /\ processed' = processed \ {e.id : e \in {f \in events : f.txn = t}}
  /\ entries' = {x \in entries :
                   \A e \in events : e.txn = t => x.eventId # e.id}
  /\ held' = [held EXCEPT ![t] = {}]
  /\ Goto(t, "rolledback")
  /\ UNCHANGED <<lastId, client, request, done, last, awaited, newId>>

\* The errors the code meets for certain: a duplicate (clientId,
\* sequenceNumber), no account id, EventAlreadyProcessedException, an account
\* that is not the tenant's, InvalidEventTypeException.
Refuse(t) ==
  /\ \/ pc[t] = "write" /\ \E e \in events : Collides(e, t) /\ Committed(e.txn)
     \/ pc[t] = "process" /\ (Call(t).accountId = 0 \/ newId[t] \in processed)
     \/ pc[t] = "origin" /\ ~Buildable(t)
  /\ Rollback(t)

\* Any await of a running transaction may throw: a deadlock victim, a lock wait
\* timeout, a lost connection, the death of the process.
Fail(t) == Running(t) /\ Rollback(t)

Progress(t) ==
  \/ FindNoEvent(t) \/ LockLastEvent(t) \/ WaitForLock(t)
  \/ GrantLock(t) \/ Rescan(t)
  \/ TakeId(t) \/ WriteEvent(t)
  \/ MarkProcessed(t) \/ SaveOrigin(t) \/ SaveDestination(t)
  \/ Commit(t) \/ Refuse(t)

Next == \E t \in Txns : Begin(t) \/ Progress(t) \/ Fail(t)

Spec == Init /\ [][Next]_vars

\* Every await of the code is answered: MySQL executes what it was sent, and a
\* granted lock resumes the statement.  Nothing is promised about failures.
Fairness == \A t \in Txns : WF_vars(Progress(t))
FairSpec == Spec /\ Fairness

-----------------------------------------------------------------------------
(* Correctness *)

EventOK(e) ==
  /\ e.id \in Nat
  /\ e.txn \in Txns
  /\ e.clientId \in Clients
  /\ e.sequenceNumber \in Nat \ {0}
  /\ e.call \in Calls

EntryOK(x) ==
  /\ x.eventId \in Nat /\ x.accountId \in Nat /\ x.amount \in Int
  /\ x.side \in {"origin", "destination"} /\ x.liquidity \in BOOLEAN

\* Type invariant: the tables hold rows of the declared shape, and every
\* transaction stands at a step of the code with a call left while it runs one.
TypeOK ==
  /\ \A e \in events : EventOK(e)
  /\ processed \subseteq Nat
  /\ \A x \in entries : EntryOK(x)
  /\ lastId \in Nat
  /\ pc \in [Txns -> RunningStates \cup {"idle", "committed", "rolledback"}]
  /\ client \in [Txns -> Clients]
  /\ request \in [Txns -> Requests]
  /\ done \in [Txns -> Nat]
  /\ \A t \in Txns :
       pc[t] \in {"idle"} \cup (RunningStates \ {"commit"}) =>
         done[t] < Len(request[t])
  /\ DOMAIN last = Txns
  /\ \A t \in Txns : last[t].sequenceNumber \in Nat
  /\ awaited \in [Txns -> Nat]
  /\ held \in [Txns -> SUBSET Nat]
  /\ newId \in [Txns -> Nat]

CommittedEvents == {e \in events : Committed(e.txn)}

UniqueSequence ==
  \A e, f \in CommittedEvents :
    e.clientId = f.clientId /\ e.sequenceNumber = f.sequenceNumber => e = f

LinkedToPrevious ==
  \A e \in CommittedEvents :
    \/ e.sequenceNumber = 1 /\ e.previousHash = Initial
    \/ \E p \in CommittedEvents :
         /\ p.clientId = e.clientId
         /\ p.sequenceNumber = e.sequenceNumber - 1
         /\ p.eventHash = e.previousHash

\* However requests interleave, fail and roll back, the committed events of a
\* tenant form one chain: each sequence number once, from 1 without gaps, each
\* event carrying the hash of the one before (buildEvent).
ChainIntact == UniqueSequence /\ LinkedToPrevious

EntriesOf(e) == {x \in entries : x.eventId = e.id}

\* Double entry: a committed event was processed and has exactly the two ledger
\* entries of the builder, both on its account and cancelling out, and no row
\* of the ledger survives the event it belongs to (LedgerEngine.process).
DoubleEntry ==
  /\ \A e \in CommittedEvents :
       /\ e.id \in processed
       /\ \E o, d \in entries :
            /\ EntriesOf(e) = {o, d}
            /\ o.side = "origin" /\ d.side = "destination"
            /\ o.amount + d.amount = 0
            /\ o.accountId = e.call.accountId /\ d.accountId = e.call.accountId
  /\ \A x \in entries : \E e \in events : e.id = x.eventId
  /\ \A i \in processed : \E e \in events : e.id = i

\* A request is all or nothing, and nothing of another request comes between
\* its events: the two legs of a transfer are neighbours in the chain.
RequestAtomic ==
  \A t \in Txns :
    LET mine == {e \in events : e.txn = t}
    IN  /\ pc[t] \in {"idle", "rolledback"} => mine = {}
        /\ Committed(t) =>
             \E first \in mine :
               LET number(i) == first.sequenceNumber + i - 1
               IN  /\ \A e \in mine : \E i \in 1..Len(request[t]) :
                                      e.sequenceNumber = number(i)
                   /\ \A i \in 1..Len(request[t]) : \E e \in mine :
                        e.sequenceNumber = number(i) /\ e.call = request[t][i]

\* A commit only ever adds events behind every committed event of the tenant,
\* in sequence and in id: the high-water mark lastEventId the snapshot job
\* keeps per account can never jump over an event that commits later.
CommitsBehind ==
  [][\A e \in CommittedEvents' \ CommittedEvents, f \in CommittedEvents :
       e.clientId = f.clientId =>
         f.sequenceNumber < e.sequenceNumber /\ f.id < e.id]_vars

\* At most one running transaction of a tenant has an event in the table, though
\* the first event has no row before it to lock: what a service reads after
\* register() returns, no other request of the tenant can be about to change.
OneWriter ==
  \A e, f \in events :
    Running(e.txn) /\ Running(f.txn) /\ e.clientId = f.clientId => e.txn = f.txn

\* Every transaction that started ends: no wait for a row lock or for a key
\* lasts for ever, whatever the other requests of the tenant do.
EveryRequestEnds ==
  \A t \in Txns : Running(t) ~> pc[t] \in {"committed", "rolledback"}

\* The tenant's log as a client of the API sees it: the committed calls in
\* sequence order.  The chain implements an append-only log to which each
\* request adds its calls at once or not at all.
CommittedLog ==
  [c \in Clients |->
    [n \in {e.sequenceNumber : e \in CommittedEvents \cap EventsOf(c)} |->
      (CHOOSE e \in CommittedEvents :
         e.clientId = c /\ e.sequenceNumber = n).call]]

Log == INSTANCE EventLog WITH log <- CommittedLog
ImplementsEventLog == Log!Spec
=============================================================================
