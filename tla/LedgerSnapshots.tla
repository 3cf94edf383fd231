--------------------------- MODULE LedgerSnapshots ---------------------------
(***************************************************************************)
(* Balance snapshots of one account (LedgerSnapshotService).  A job reads  *)
(* the latest snapshot, the account's last event and the number of events  *)
(* since, and when enough has happened adds the entries since the snapshot *)
(* to its balance.  The reads are separate statements outside any          *)
(* transaction, and requests post events between them.                     *)
(*                                                                         *)
(* Events commit in the order of their ids (CommitsBehind of EventChain);  *)
(* a rollback skips ids.  A balance is not a number here but the count of  *)
(* how often the entry of each event went into it.                         *)
(***************************************************************************)
EXTENDS Naturals, FiniteSetsExt, SequencesExt

CONSTANTS
  SnapshotJobs,  \* runs of the job for the tenant that may overlap
  MaxId,         \* bound on the ids of events
  Threshold      \* EVENT_THRESHOLD

ASSUME BoundsAssumption == MaxId \in Nat \ {0} /\ Threshold \in Nat \ {0}

VARIABLES
  posted,     \* committed events of the account: id, liquid entry or not
  snapshots,  \* table ledger_snapshots, in the order of its ids
  stage,      \* where each job stands
  base,       \* the latest snapshot the job read
  lastEvent,  \* the id of the last event the job read
  count,      \* the number of events it counted since base
  delta       \* the ids of the entries it added up since base

snapshotVars == <<posted, snapshots, stage, base, lastEvent, count, delta>>

Ids == 1..MaxId

\* The account before its first snapshot: balance 0, every event is new.
NoSnapshot == [lastEventId |-> 0, balance |-> [i \in Ids |-> 0]]

SnapshotsInit ==
  /\ posted = {}
  /\ snapshots = <<>>
  /\ stage = [j \in SnapshotJobs |-> "idle"]
  /\ base = [j \in SnapshotJobs |-> NoSnapshot]
  /\ lastEvent = [j \in SnapshotJobs |-> 0]
  /\ count = [j \in SnapshotJobs |-> 0]
  /\ delta = [j \in SnapshotJobs |-> {}]

-----------------------------------------------------------------------------
Proceed(j, state) == stage' = [stage EXCEPT ![j] = state]

\* Mutant: events commit in any order of their ids.
PostAnywhere ==
  /\ \E i \in Ids, liquid \in BOOLEAN :
       /\ \A e \in posted : i # e.id
       /\ posted' = posted \cup {[id |-> i, liquid |-> liquid]}
  /\ UNCHANGED <<snapshots, stage, base, lastEvent, count, delta>>

\* A request commits an event of the account and its ledger entries.
Post ==
  /\ \E i \in Ids, liquid \in BOOLEAN :
       /\ \A e \in posted : i > e.id
       /\ posted' = posted \cup {[id |-> i, liquid |-> liquid]}
  /\ UNCHANGED <<snapshots, stage, base, lastEvent, count, delta>>

Rows == ToSet(snapshots)

\* getLatestSnapshot: the one with the highest number; of several, either.
GetLatestSnapshot(j) ==
  /\ stage[j] = "idle"
  /\ \/ Rows = {} /\ base' = [base EXCEPT ![j] = NoSnapshot]
     \/ \E s \in Rows :
          /\ \A r \in Rows : r.lastEventId <= s.lastEventId
          /\ base' = [base EXCEPT ![j] = s]
  /\ Proceed(j, "last event")
  /\ UNCHANGED <<posted, snapshots, lastEvent, count, delta>>

\* getLastEventForAccount; without an event, or with none since the snapshot,
\* the account is skipped.
GetLastEvent(j) ==
  LET last == IF posted = {} THEN 0 ELSE Max({e.id : e \in posted})
  IN  /\ stage[j] = "last event"
      /\ lastEvent' = [lastEvent EXCEPT ![j] = last]
      /\ Proceed(j, IF last \in {0, base[j].lastEventId} THEN "idle" ELSE "count")
      /\ UNCHANGED <<posted, snapshots, base, count, delta>>

Since(j) == {e \in posted : e.id > base[j].lastEventId}

\* countEventsSince
CountEvents(j) ==
  /\ stage[j] = "count"
  /\ count' = [count EXCEPT ![j] = Cardinality(Since(j))]
  /\ Proceed(j, "decide")
  /\ UNCHANGED <<posted, snapshots, base, lastEvent, delta>>

\* A first snapshot is always due, a later one after enough events or days.
Decide(j) ==
  /\ stage[j] = "decide"
  /\ \E daysPassed \in BOOLEAN :
       LET due == count[j] >= Threshold \/ base[j] = NoSnapshot \/ daysPassed
       IN  Proceed(j, IF due THEN "delta" ELSE "idle")
  /\ UNCHANGED <<posted, snapshots, base, lastEvent, count, delta>>

\* computeBalanceDelta adds up all liquid entries since the snapshot, those of
\* events later than the last one the job knows of included.
ComputeDelta(j) ==
  /\ stage[j] = "delta"
  /\ delta' = [delta EXCEPT ![j] = {e.id : e \in {f \in Since(j) : f.liquid}}]
  /\ Proceed(j, "save")
  /\ UNCHANGED <<posted, snapshots, base, lastEvent, count>>

NewBalance(j) ==
  [i \in Ids |-> base[j].balance[i] + IF i \in delta[j] THEN 1 ELSE 0]

\* Mutant: the last event is looked up when the snapshot is saved.
SaveWithNewestEvent(j) ==
  /\ stage[j] = "save"
  /\ snapshots' = Append(snapshots,
       [lastEventId |-> Max({e.id : e \in posted}), balance |-> NewBalance(j)])
  /\ Proceed(j, "idle")
  /\ UNCHANGED <<posted, base, lastEvent, count, delta>>

\* Mutant: the snapshot does not say which event it is of.
SaveWithoutEvent(j) ==
  /\ stage[j] = "save"
  /\ snapshots' = Append(snapshots, [lastEventId |-> 0, balance |-> NewBalance(j)])
  /\ Proceed(j, "idle")
  /\ UNCHANGED <<posted, base, lastEvent, count, delta>>

\* The snapshot is saved under the last event the job knows of.
Save(j) ==
  /\ stage[j] = "save"
  /\ snapshots' = Append(snapshots,
       [lastEventId |-> lastEvent[j], balance |-> NewBalance(j)])
  /\ Proceed(j, "idle")
  /\ UNCHANGED <<posted, base, lastEvent, count, delta>>

\* generateForClient catches what a statement throws and leaves the account.
LeaveAccount(j) ==
  /\ stage[j] # "idle"
  /\ Proceed(j, "idle")
  /\ UNCHANGED <<posted, snapshots, base, lastEvent, count, delta>>

SnapshotsNext ==
  \/ Post
  \/ \E j \in SnapshotJobs :
       \/ GetLatestSnapshot(j) \/ GetLastEvent(j) \/ CountEvents(j)
       \/ Decide(j) \/ ComputeDelta(j) \/ Save(j) \/ LeaveAccount(j)

SnapshotsSpec == SnapshotsInit /\ [][SnapshotsNext]_snapshotVars

-----------------------------------------------------------------------------
(* Correctness *)

SnapshotOK(s) ==
  s.lastEventId \in 0..MaxId /\ s.balance \in [Ids -> Nat]

\* Type invariant; a stored snapshot is always of an event that committed.
TypeOK ==
  /\ \A e \in posted : e.id \in Ids /\ e.liquid \in BOOLEAN
  /\ \A s \in Rows :
       SnapshotOK(s) /\ s.lastEventId \in {e.id : e \in posted}
  /\ stage \in [SnapshotJobs -> {"idle", "last event", "count", "decide", "delta", "save"}]
  /\ \A j \in SnapshotJobs : SnapshotOK(base[j]) /\ lastEvent[j] \in 0..MaxId
  /\ count \in [SnapshotJobs -> Nat]
  /\ delta \in [SnapshotJobs -> SUBSET Ids]

LiquidUpTo(n) == {e.id : e \in {f \in posted : f.liquid /\ f.id <= n}}

\* No snapshot misses money: the entry of every event up to lastEventId is in
\* its balance, though events keep committing while the job reads.
NoEventMissed ==
  \A s \in Rows : \A i \in LiquidUpTo(s.lastEventId) : s.balance[i] >= 1
=============================================================================
