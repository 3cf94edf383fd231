------------------------- MODULE LedgerJobs_proofs --------------------------
(***************************************************************************)
(* Proofs about the two jobs of the worker that sum up the ledger: the     *)
(* balance snapshots of an account (LedgerSnapshots) and the monthly build *)
(* (MonthlyBuild), which also covers the obligations under it.             *)
(*                                                                         *)
(* NoEventMissed is not inductive: it says nothing of the snapshots that   *)
(* are being computed.  SnapshotsInv adds what a job knows between its     *)
(* reads: the snapshot it starts from misses nothing, and what it has      *)
(* added up holds every entry from there to the last event it knows of.    *)
(* Both survive the events that commit meanwhile, whose ids are larger.    *)
(*                                                                         *)
(* InvoicesDiffer rests on a lock taken for another purpose: as long as    *)
(* every invoice was made by a creation that registers events, such a      *)
(* creation holds the tenant's chain from before it reads the invoices     *)
(* until it commits its own, and nobody adds one in between (SeesAll); so  *)
(* each invoice is made after the last one, which falls due before it      *)
(* (InOrder).  RowOfItsMonth rests on events being appended only, and on a *)
(* build keeping the month it began in.                                    *)
(***************************************************************************)
EXTENDS LedgerSnapshots, MonthlyBuild, FiniteSetTheorems, WellFoundedInduction, TLAPS

-----------------------------------------------------------------------------
(* The balance snapshots.                                                  *)

SnapshotType == [lastEventId : 0..MaxId, balance : [Ids -> Nat]]
EventType == [id : Ids, liquid : BOOLEAN]
Stages == {"idle", "last event", "count", "decide", "delta", "save"}

Typed ==
  /\ posted \in SUBSET EventType /\ IsFiniteSet(posted)
  /\ snapshots \in Seq(SnapshotType)
  /\ stage \in [SnapshotJobs -> Stages]
  /\ base \in [SnapshotJobs -> SnapshotType]
  /\ lastEvent \in [SnapshotJobs -> 0..MaxId]
  /\ count \in [SnapshotJobs -> Nat]
  /\ delta \in [SnapshotJobs -> SUBSET Ids]

\* n is the id of a committed event.
Committed(n) == \E e \in posted : e.id = n

\* The entry of every event up to lastEventId is in the balance of s.
Covers(s) == \A i \in LiquidUpTo(s.lastEventId) : s.balance[i] >= 1

\* One of the committed events is the last: Max of their ids picks it.
HasLast == posted = {} \/ \E e \in posted : \A f \in posted : f.id <= e.id

\* A stored snapshot is of a committed event and misses none before it.
StoredOK(s) == Committed(s.lastEventId) /\ Covers(s)

\* What a job knows between its reads.
SnapshotJobOK(j) ==
  /\ base[j].lastEventId = 0 \/ Committed(base[j].lastEventId)
  /\ Covers(base[j])
  /\ stage[j] \in {"count", "decide", "delta", "save"} => Committed(lastEvent[j])
  /\ stage[j] = "save" =>
       \A i \in LiquidUpTo(lastEvent[j]) : i > base[j].lastEventId => i \in delta[j]

SnapshotsInv ==
  /\ Typed /\ HasLast
  /\ \A s \in Rows : StoredOK(s)
  /\ \A j \in SnapshotJobs : SnapshotJobOK(j)

-----------------------------------------------------------------------------
\* The rows of a table a snapshot was appended to.
LEMMA RowsAppended ==
  ASSUME NEW S, NEW t \in Seq(S), NEW s \in S
  PROVE  ToSet(Append(t, s)) = ToSet(t) \cup {s}
<1>1. PICK u : u = Append(t, s)
  OBVIOUS
<1>2. /\ DOMAIN u = 1..(Len(t) + 1) /\ DOMAIN t = 1..Len(t) /\ Len(t) \in Nat
      /\ \A i \in 1..Len(t) : u[i] = t[i]
      /\ u[Len(t) + 1] = s
  BY <1>1
<1>3. \A i \in 1..(Len(t) + 1) : i \in 1..Len(t) \/ i = Len(t) + 1
  BY <1>2
<1>4. 1..Len(t) \subseteq 1..(Len(t) + 1) /\ Len(t) + 1 \in 1..(Len(t) + 1)
  BY <1>2
<1>5. {u[i] : i \in DOMAIN u} = {t[i] : i \in DOMAIN t} \cup {s}
  BY <1>2, <1>3, <1>4
<1> QED
  BY <1>1, <1>5 DEF ToSet

\* The last event of the account, when it has one.
LEMMA LastCommitted ==
  ASSUME Typed, HasLast, posted # {}
  PROVE  /\ Committed(Max({e.id : e \in posted}))
         /\ \A e \in posted : e.id <= Max({f.id : f \in posted})
<1>1. PICK S : S = {e.id : e \in posted}
  OBVIOUS
<1>2. S \subseteq Ids /\ \E m \in S : \A i \in S : m >= i
  BY <1>1 DEF HasLast, Typed, EventType, Ids
<1>3. PICK m : m = Max(S)
  OBVIOUS
<1>4. m \in S /\ \A i \in S : m >= i
  BY <1>2, <1>3 DEF Max
<1>5. \A i \in S : i <= m
  BY <1>2, <1>4 DEF Ids
<1> QED
  BY <1>1, <1>3, <1>4, <1>5 DEF Committed

\* As long as no event commits, every snapshot covers what it covered.
LEMMA SameEvents ==
  ASSUME posted' = posted
  PROVE  /\ HasLast' <=> HasLast
         /\ \A n : (Committed(n)' <=> Committed(n)) /\ LiquidUpTo(n)' = LiquidUpTo(n)
         /\ \A s : (Covers(s)' <=> Covers(s)) /\ (StoredOK(s)' <=> StoredOK(s))
  BY DEF HasLast, Committed, LiquidUpTo, Covers, StoredOK

\* A job that does not move keeps what it knows.
LEMMA OtherJob ==
  ASSUME posted' = posted, NEW j, SnapshotJobOK(j),
         stage'[j] = stage[j], base'[j] = base[j], lastEvent'[j] = lastEvent[j],
         delta'[j] = delta[j]
  PROVE  SnapshotJobOK(j)'
<1>1. PICK s, last, sum : s = base[j] /\ last = lastEvent[j] /\ sum = delta[j]
  OBVIOUS
<1>2. /\ s.lastEventId = 0 \/ Committed(s.lastEventId)'
      /\ Covers(s)'
      /\ stage[j] \in {"count", "decide", "delta", "save"} => Committed(last)'
      /\ stage[j] = "save" => \A i \in LiquidUpTo(last)' : i > s.lastEventId => i \in sum
  BY <1>1, SameEvents DEF SnapshotJobOK
<1>3. s = base'[j] /\ last = lastEvent'[j] /\ sum = delta'[j]
  BY <1>1
<1> QED
  BY <1>2, <1>3 DEF SnapshotJobOK

\* A step of job j that saves nothing only has to keep what j knows.
LEMMA JobStep ==
  ASSUME SnapshotsInv, NEW j \in SnapshotJobs, posted' = posted, snapshots' = snapshots,
         NEW to \in Stages, stage' = [stage EXCEPT ![j] = to],
         base' \in [SnapshotJobs -> SnapshotType], lastEvent' \in [SnapshotJobs -> 0..MaxId],
         count' \in [SnapshotJobs -> Nat], delta' \in [SnapshotJobs -> SUBSET Ids],
         \A k \in SnapshotJobs \ {j} : /\ base'[k] = base[k] /\ lastEvent'[k] = lastEvent[k]
                                       /\ delta'[k] = delta[k],
         SnapshotJobOK(j)'
  PROVE  SnapshotsInv'
<1>1. Typed'
  BY DEF SnapshotsInv, Typed
<1>2. HasLast' /\ \A s \in Rows : StoredOK(s)'
  BY SameEvents DEF SnapshotsInv
<1>3. Rows' = Rows
  BY DEF Rows
<1>4. ASSUME NEW k \in SnapshotJobs \ {j} PROVE SnapshotJobOK(k)'
  <2>1. stage'[k] = stage[k] /\ SnapshotJobOK(k)
    BY DEF SnapshotsInv, Typed
  <2> QED
    BY <2>1, OtherJob
<1> QED
  BY <1>1, <1>2, <1>3, <1>4 DEF SnapshotsInv

-----------------------------------------------------------------------------
LEMMA InitSnapshots == SnapshotsInit => SnapshotsInv
<1> SUFFICES ASSUME SnapshotsInit PROVE SnapshotsInv
  OBVIOUS
<1>1. NoSnapshot \in SnapshotType /\ NoSnapshot.lastEventId = 0
  BY BoundsAssumption DEF NoSnapshot, SnapshotType, Ids
<1>2. Typed
  BY <1>1, FS_EmptySet, BoundsAssumption DEF SnapshotsInit, Typed, Stages
<1>3. Rows = {}
  BY DEF SnapshotsInit, Rows, ToSet
<1>4. \A n : LiquidUpTo(n) = {}
  BY DEF SnapshotsInit, LiquidUpTo
<1> QED
  BY <1>1, <1>2, <1>3, <1>4 DEF SnapshotsInit, SnapshotsInv, HasLast, SnapshotJobOK, Covers

\* A new event has a larger id than any a snapshot or a job knows of.
LEMMA PostSnapshots == SnapshotsInv /\ Post => SnapshotsInv'
<1> SUFFICES ASSUME SnapshotsInv, Post PROVE SnapshotsInv'
  OBVIOUS
<1>0. Typed /\ HasLast
  BY DEF SnapshotsInv
<1>1. PICK i \in Ids, liquid \in BOOLEAN :
        /\ \A e \in posted : i > e.id
        /\ posted' = posted \cup {[id |-> i, liquid |-> liquid]}
  BY DEF Post
<1>2. /\ snapshots' = snapshots /\ stage' = stage /\ base' = base
      /\ lastEvent' = lastEvent /\ count' = count /\ delta' = delta
  BY DEF Post
<1>3. PICK new : new = [id |-> i, liquid |-> liquid]
  OBVIOUS
<1>4. new \in EventType /\ new.id = i /\ posted' = posted \cup {new}
  BY <1>1, <1>3 DEF EventType
<1>5. Typed'
  BY <1>0, <1>2, <1>4, FS_AddElement DEF Typed
<1>6. HasLast'
  <2>1. new \in posted' /\ \A f \in posted' : f.id <= i
    BY <1>0, <1>1, <1>4 DEF Typed, EventType, Ids
  <2> QED
    BY <2>1, <1>4 DEF HasLast
<1>7. \A n : Committed(n) => Committed(n)'
  BY <1>4 DEF Committed
<1>8. ASSUME NEW n, n = 0 \/ Committed(n) PROVE LiquidUpTo(n)' = LiquidUpTo(n)
  <2>1. n \in Nat /\ n < i
    BY <1>0, <1>1, <1>8 DEF Committed, Typed, EventType, Ids
  <2>2. ~(new.id <= n)
    BY <2>1, <1>4 DEF Ids
  <2>3. {f \in posted' : f.liquid /\ f.id <= n} = {f \in posted : f.liquid /\ f.id <= n}
    BY <2>2, <1>4
  <2> QED
    BY <2>3 DEF LiquidUpTo
<1>9. ASSUME NEW s, s.lastEventId = 0 \/ Committed(s.lastEventId), Covers(s)
      PROVE  Covers(s)'
  BY <1>8, <1>9 DEF Covers
<1>10. \A s \in Rows : StoredOK(s)'
  BY <1>7, <1>9 DEF SnapshotsInv, StoredOK
<1>11. Rows' = Rows
  BY <1>2 DEF Rows
<1>12. ASSUME NEW j \in SnapshotJobs PROVE SnapshotJobOK(j)'
  <2>1. PICK s, last, sum : s = base[j] /\ last = lastEvent[j] /\ sum = delta[j]
    OBVIOUS
  <2>2. SnapshotJobOK(j)
    BY DEF SnapshotsInv
  <2>3. /\ s.lastEventId = 0 \/ Committed(s.lastEventId)'
        /\ Covers(s)'
        /\ stage[j] \in {"count", "decide", "delta", "save"} => Committed(last)'
    BY <2>1, <2>2, <1>7, <1>9 DEF SnapshotJobOK
  <2>4. stage[j] = "save" => \A x \in LiquidUpTo(last)' : x > s.lastEventId => x \in sum
    BY <2>1, <2>2, <1>8 DEF SnapshotJobOK
  <2>5. s = base'[j] /\ last = lastEvent'[j] /\ sum = delta'[j]
    BY <2>1, <1>2
  <2> QED
    BY <2>3, <2>4, <2>5, <1>2 DEF SnapshotJobOK
<1> QED
  BY <1>5, <1>6, <1>10, <1>11, <1>12 DEF SnapshotsInv

\* A job starts from a snapshot that misses nothing, or from none.
LEMMA GetLatestSnapshots ==
  ASSUME SnapshotsInv, NEW j \in SnapshotJobs, GetLatestSnapshot(j)
  PROVE  SnapshotsInv'
<1>0. Typed /\ SnapshotJobOK(j)
  BY DEF SnapshotsInv
<1>1. /\ posted' = posted /\ snapshots' = snapshots /\ lastEvent' = lastEvent
      /\ count' = count /\ delta' = delta /\ stage' = [stage EXCEPT ![j] = "last event"]
  BY DEF GetLatestSnapshot, Proceed
<1>2. PICK s : /\ s = NoSnapshot \/ (s \in Rows /\ StoredOK(s))
               /\ base' = [base EXCEPT ![j] = s]
  BY DEF GetLatestSnapshot, SnapshotsInv
<1>3. /\ s \in SnapshotType
      /\ s.lastEventId = 0 \/ Committed(s.lastEventId)
      /\ Covers(s)
  <2>1. CASE s = NoSnapshot
    <3>1. NoSnapshot \in SnapshotType /\ NoSnapshot.lastEventId = 0
      BY BoundsAssumption DEF NoSnapshot, SnapshotType, Ids
    <3>2. LiquidUpTo(0) = {}
      BY <1>0 DEF LiquidUpTo, Typed, EventType, Ids
    <3> QED
      BY <2>1, <3>1, <3>2 DEF Covers
  <2>2. CASE s \in Rows /\ StoredOK(s)
    <3>1. Rows \subseteq SnapshotType
      BY <1>0 DEF Rows, ToSet, Typed
    <3> QED
      BY <2>2, <3>1 DEF StoredOK
  <2> QED
    BY <1>2, <2>1, <2>2
<1>4. /\ base' \in [SnapshotJobs -> SnapshotType] /\ base'[j] = s
      /\ \A k \in SnapshotJobs \ {j} : base'[k] = base[k]
  BY <1>0, <1>2, <1>3 DEF Typed
<1>5. stage'[j] = "last event"
  BY <1>0, <1>1 DEF Typed
<1>6. (s.lastEventId = 0 \/ Committed(s.lastEventId)') /\ Covers(s)'
  BY <1>1, <1>3, SameEvents
<1>7. SnapshotJobOK(j)'
  BY <1>4, <1>5, <1>6 DEF SnapshotJobOK
<1> QED
  BY <1>0, <1>1, <1>4, <1>7, JobStep DEF Typed, Stages

\* The last event the job knows of is one that committed.
LEMMA GetLastEvents ==
  ASSUME SnapshotsInv, NEW j \in SnapshotJobs, GetLastEvent(j)
  PROVE  SnapshotsInv'
<1>0. Typed /\ HasLast /\ SnapshotJobOK(j)
  BY DEF SnapshotsInv
<1>1. PICK last : last = IF posted = {} THEN 0 ELSE Max({e.id : e \in posted})
  OBVIOUS
<1>2. PICK to : to = IF last \in {0, base[j].lastEventId} THEN "idle" ELSE "count"
  OBVIOUS
<1>3. /\ posted' = posted /\ snapshots' = snapshots /\ base' = base
      /\ count' = count /\ delta' = delta /\ stage' = [stage EXCEPT ![j] = to]
      /\ lastEvent' = [lastEvent EXCEPT ![j] = last]
  BY <1>1, <1>2 DEF GetLastEvent, Proceed
<1>4. last \in 0..MaxId /\ (last = 0 \/ Committed(last))
  <2>1. CASE posted = {}
    BY <2>1, <1>1, BoundsAssumption
  <2>2. CASE posted # {}
    <3>1. Committed(last)
      BY <2>2, <1>0, <1>1, LastCommitted
    <3> QED
      BY <3>1, <1>0 DEF Committed, Typed, EventType, Ids
  <2> QED
    BY <2>1, <2>2
<1>5. /\ lastEvent' \in [SnapshotJobs -> 0..MaxId] /\ lastEvent'[j] = last
      /\ \A k \in SnapshotJobs \ {j} : lastEvent'[k] = lastEvent[k]
  BY <1>0, <1>3, <1>4 DEF Typed
<1>6. stage'[j] = to /\ to \in {"idle", "count"} /\ (to = "count" => last # 0)
  BY <1>0, <1>2, <1>3 DEF Typed
<1>7. PICK s : s = base[j]
  OBVIOUS
<1>8. /\ s.lastEventId = 0 \/ Committed(s.lastEventId)'
      /\ Covers(s)' /\ (last = 0 \/ Committed(last)')
  BY <1>0, <1>3, <1>4, <1>7, SameEvents DEF SnapshotJobOK
<1>9. SnapshotJobOK(j)'
  BY <1>3, <1>5, <1>6, <1>7, <1>8 DEF SnapshotJobOK
<1> QED
  BY <1>0, <1>3, <1>5, <1>6, <1>9, JobStep DEF Typed, Stages

\* Counting, deciding and failing change nothing a snapshot is made of.
LEMMA OtherSteps ==
  ASSUME SnapshotsInv, NEW j \in SnapshotJobs, CountEvents(j) \/ Decide(j) \/ LeaveAccount(j)
  PROVE  SnapshotsInv'
<1>0. Typed /\ SnapshotJobOK(j)
  BY DEF SnapshotsInv
<1>1. /\ posted' = posted /\ snapshots' = snapshots /\ base' = base
      /\ lastEvent' = lastEvent /\ delta' = delta
  BY DEF CountEvents, Decide, LeaveAccount
<1>2. PICK to \in {"idle", "decide", "delta"} :
        /\ stage' = [stage EXCEPT ![j] = to]
        /\ to # "idle" => stage[j] \in {"count", "decide"}
  BY DEF CountEvents, Decide, LeaveAccount, Proceed
<1>3. count' \in [SnapshotJobs -> Nat]
  <2>1. CASE CountEvents(j)
    <3>1. Since(j) \in SUBSET posted
      BY DEF Since
    <3>2. Cardinality(Since(j)) \in Nat
      BY <3>1, <1>0, FS_Subset, FS_CardinalityType DEF Typed
    <3> QED
      BY <2>1, <3>2, <1>0 DEF CountEvents, Typed
  <2>2. CASE Decide(j) \/ LeaveAccount(j)
    BY <2>2, <1>0 DEF Decide, LeaveAccount, Typed
  <2> QED
    BY <2>1, <2>2
<1>4. stage'[j] = to
  BY <1>0, <1>2 DEF Typed, Stages
<1>5. PICK s, last : s = base[j] /\ last = lastEvent[j]
  OBVIOUS
<1>6. /\ s.lastEventId = 0 \/ Committed(s.lastEventId)'
      /\ Covers(s)' /\ (to # "idle" => Committed(last)')
  BY <1>0, <1>1, <1>2, <1>5, SameEvents DEF SnapshotJobOK
<1>7. s = base'[j] /\ last = lastEvent'[j]
  BY <1>1, <1>5
<1>8. SnapshotJobOK(j)'
  BY <1>2, <1>4, <1>6, <1>7 DEF SnapshotJobOK
<1> QED
  BY <1>0, <1>1, <1>2, <1>3, <1>8, JobStep DEF Typed, Stages

\* All liquid entries since the base are added up, the last event's included.
LEMMA ComputeDeltas ==
  ASSUME SnapshotsInv, NEW j \in SnapshotJobs, ComputeDelta(j)
  PROVE  SnapshotsInv'
<1>0. Typed /\ SnapshotJobOK(j)
  BY DEF SnapshotsInv
<1>1. PICK sum : sum = {e.id : e \in {f \in Since(j) : f.liquid}}
  OBVIOUS
<1>2. /\ posted' = posted /\ snapshots' = snapshots /\ base' = base
      /\ lastEvent' = lastEvent /\ count' = count
      /\ stage[j] = "delta" /\ stage' = [stage EXCEPT ![j] = "save"]
      /\ delta' = [delta EXCEPT ![j] = sum]
  BY <1>1 DEF ComputeDelta, Proceed
<1>3. sum \in SUBSET Ids
  BY <1>0, <1>1 DEF Since, Typed, EventType
<1>4. /\ delta' \in [SnapshotJobs -> SUBSET Ids] /\ delta'[j] = sum
      /\ \A k \in SnapshotJobs \ {j} : delta'[k] = delta[k]
  BY <1>0, <1>2, <1>3 DEF Typed
<1>5. PICK s, last : s = base[j] /\ last = lastEvent[j]
  OBVIOUS
<1>6. \A i \in LiquidUpTo(last) : i > s.lastEventId => i \in sum
  BY <1>1, <1>5 DEF LiquidUpTo, Since
<1>7. /\ s.lastEventId = 0 \/ Committed(s.lastEventId)'
      /\ Covers(s)' /\ Committed(last)'
      /\ LiquidUpTo(last)' = LiquidUpTo(last)
  BY <1>0, <1>2, <1>5, SameEvents DEF SnapshotJobOK
<1>8. s = base'[j] /\ last = lastEvent'[j]
  BY <1>2, <1>5
<1>9. SnapshotJobOK(j)'
  BY <1>4, <1>6, <1>7, <1>8 DEF SnapshotJobOK
<1> QED
  BY <1>0, <1>2, <1>4, <1>9, JobStep DEF Typed, Stages

\* The base covers its events and the sum covers those after it.
LEMMA SaveSnapshots ==
  ASSUME SnapshotsInv, NEW j \in SnapshotJobs, Save(j)
  PROVE  SnapshotsInv'
<1>0. Typed /\ SnapshotJobOK(j)
  BY DEF SnapshotsInv
<1>1. PICK new : new = [lastEventId |-> lastEvent[j], balance |-> NewBalance(j)]
  OBVIOUS
<1>2. /\ posted' = posted /\ base' = base /\ lastEvent' = lastEvent
      /\ count' = count /\ delta' = delta
      /\ stage[j] = "save" /\ stage' = [stage EXCEPT ![j] = "idle"]
      /\ snapshots' = Append(snapshots, new)
  BY <1>1 DEF Save, Proceed
<1>3. /\ base[j] \in SnapshotType /\ base[j].balance \in [Ids -> Nat]
      /\ base[j].lastEventId \in Nat
      /\ lastEvent[j] \in 0..MaxId /\ delta[j] \in SUBSET Ids
  BY <1>0 DEF Typed, SnapshotType
<1>4. /\ NewBalance(j) \in [Ids -> Nat]
      /\ \A i \in Ids : /\ NewBalance(j)[i] >= base[j].balance[i]
                        /\ i \in delta[j] => NewBalance(j)[i] >= 1
  BY <1>3 DEF NewBalance
<1>5. new \in SnapshotType
  BY <1>1, <1>3, <1>4 DEF SnapshotType
<1>6. Rows' = Rows \cup {new}
  BY <1>0, <1>2, <1>5, RowsAppended DEF Rows, Typed
<1>7. ASSUME NEW i \in LiquidUpTo(lastEvent[j]) PROVE NewBalance(j)[i] >= 1
  <2>1. i \in Ids /\ i \in Nat
    BY <1>0, <1>7 DEF LiquidUpTo, Typed, EventType, Ids
  <2>2. CASE i > base[j].lastEventId
    BY <2>1, <2>2, <1>0, <1>2, <1>4 DEF SnapshotJobOK
  <2>3. CASE i <= base[j].lastEventId
    <3>1. i \in LiquidUpTo(base[j].lastEventId)
      BY <2>3 DEF LiquidUpTo
    <3>2. base[j].balance[i] >= 1
      BY <3>1, <1>0 DEF SnapshotJobOK, Covers
    <3> QED
      BY <2>1, <3>2, <1>3, <1>4
  <2> QED
    BY <2>1, <2>2, <2>3, <1>3
<1>8. StoredOK(new)
  BY <1>0, <1>1, <1>2, <1>7 DEF StoredOK, Covers, SnapshotJobOK
<1>9. \A s \in Rows' : StoredOK(s)'
  BY <1>2, <1>6, <1>8, SameEvents DEF SnapshotsInv
<1>10. snapshots' \in Seq(SnapshotType)
  BY <1>0, <1>2, <1>5 DEF Typed
<1>11. Typed' /\ HasLast'
  BY <1>0, <1>2, <1>10, SameEvents DEF SnapshotsInv, Typed, Stages
<1>12. ASSUME NEW k \in SnapshotJobs PROVE SnapshotJobOK(k)'
  <2>1. CASE k # j
    <3>1. stage'[k] = stage[k] /\ SnapshotJobOK(k)
      BY <2>1, <1>0, <1>2 DEF Typed, SnapshotsInv
    <3> QED
      BY <3>1, <1>2, OtherJob
  <2>2. CASE k = j
    <3>1. PICK s : s = base[j]
      OBVIOUS
    <3>2. (s.lastEventId = 0 \/ Committed(s.lastEventId)') /\ Covers(s)'
      BY <3>1, <1>0, <1>2, SameEvents DEF SnapshotJobOK
    <3>3. s = base'[j] /\ stage'[j] = "idle"
      BY <3>1, <1>0, <1>2 DEF Typed
    <3> QED
      BY <2>2, <3>2, <3>3 DEF SnapshotJobOK
  <2> QED
    BY <2>1, <2>2
<1> QED
  BY <1>9, <1>11, <1>12 DEF SnapshotsInv

-----------------------------------------------------------------------------
LEMMA NextSnapshots == SnapshotsInv /\ [SnapshotsNext]_snapshotVars => SnapshotsInv'
<1> SUFFICES ASSUME SnapshotsInv, [SnapshotsNext]_snapshotVars PROVE SnapshotsInv'
  OBVIOUS
<1>1. CASE Post
  BY <1>1, PostSnapshots
<1>2. ASSUME NEW j \in SnapshotJobs,
             \/ GetLatestSnapshot(j) \/ GetLastEvent(j) \/ CountEvents(j)
             \/ Decide(j) \/ ComputeDelta(j) \/ Save(j) \/ LeaveAccount(j)
      PROVE  SnapshotsInv'
  BY <1>2, GetLatestSnapshots, GetLastEvents, OtherSteps, ComputeDeltas, SaveSnapshots
<1>3. CASE UNCHANGED snapshotVars
  <2>1. /\ posted' = posted /\ snapshots' = snapshots /\ stage' = stage /\ base' = base
        /\ lastEvent' = lastEvent /\ count' = count /\ delta' = delta
    BY <1>3 DEF snapshotVars
  <2>2. Typed' /\ HasLast' /\ Rows' = Rows /\ \A s \in Rows : StoredOK(s)'
    BY <2>1, SameEvents DEF SnapshotsInv, Typed, Rows
  <2>3. \A j \in SnapshotJobs : SnapshotJobOK(j)'
    BY <2>1, OtherJob DEF SnapshotsInv
  <2> QED
    BY <2>2, <2>3 DEF SnapshotsInv
<1> QED
  BY <1>1, <1>2, <1>3 DEF SnapshotsNext

\* What the jobs know between their reads, and that no stored snapshot misses
\* an event: SnapshotsInv holds in every state.
THEOREM SnapshotsInvariant == SnapshotsSpec => []SnapshotsInv
  BY InitSnapshots, NextSnapshots, PTL DEF SnapshotsSpec

\* Every state has the types of the snapshots, and a stored snapshot is always
\* of an event that committed, whatever the jobs had read when it was saved.
THEOREM SnapshotsTypeCorrect == SnapshotsSpec => []TypeOK
<1>1. ASSUME SnapshotsInv PROVE TypeOK
  <2>1. Rows \subseteq SnapshotType
    BY <1>1 DEF SnapshotsInv, Rows, ToSet, Typed
  <2>2. \A s \in SnapshotType : SnapshotOK(s)
    BY DEF SnapshotType, SnapshotOK
  <2>3. \A s \in Rows : s.lastEventId \in {e.id : e \in posted}
    BY <1>1 DEF SnapshotsInv, StoredOK, Committed
  <2> QED
    BY <1>1, <2>1, <2>2, <2>3 DEF SnapshotsInv, TypeOK, Typed, EventType, Stages
<1> QED
  BY <1>1, SnapshotsInvariant, PTL

\* No snapshot misses money: whatever overlaps and whatever commits between
\* the reads of a job, the balance has the entry of every event up to the last
\* one the snapshot names.
THEOREM NoEventMissedCorrect == SnapshotsSpec => []NoEventMissed
<1>1. SnapshotsInv => NoEventMissed
  BY DEF SnapshotsInv, StoredOK, Covers, NoEventMissed
<1> QED
  BY <1>1, SnapshotsInvariant, PTL

-----------------------------------------------------------------------------
(* The obligations and the monthly build of them.                          *)

States ==
  {"idle", "associate", "link", "place", "commit", "save", "saveSeries", "post",
   "revert", "done", "failed"}
JobStates == {"none", "delayed", "reading", "storing", "failed"}

\* Any sequence: the elements do not matter here.
IsSeq(s) == s \in Seq(Range(s))

Creates(r) == op[r].kind \in {"expense", "revenue"}
Recognises(r) == Creates(r) /\ op[r].account > 0

\* What the transaction of r has written: events keep others out, and its
\* invoices have ids of their own.
DraftOK(r) ==
  /\ DOMAIN draft[r] = {"rows", "invoices", "transfers", "events"}
  /\ IsSeq(draft[r].events)
  /\ pc[r] \in {"save", "saveSeries"} => op[r].kind = "edit"
  /\ pc[r] \in {"associate", "link", "place"} => op[r].kind \in {"expense", "revenue", "edit"}
  /\ pc[r] \in {"associate", "link", "place", "commit"} /\ Recognises(r) =>
       draft[r].events # <<>>
  /\ DOMAIN draft[r].invoices # {} => Creates(r) /\ pc[r] \in {"link", "place", "commit"}
  /\ DOMAIN draft[r].invoices \subseteq (1..lastId) \ DOMAIN invoices
  /\ \A i \in DOMAIN draft[r].invoices : draft[r].invoices[i].recognised = Recognises(r)

DraftsApart ==
  \A r, q \in Requests :
    r # q => DOMAIN draft[r].invoices \cap DOMAIN draft[q].invoices = {}

OneRegisters ==
  \A r, q \in Requests : draft[r].events # <<>> /\ draft[q].events # <<>> => r = q

\* An invoice closes on the card's day and falls due on its day in that month
\* or the next.
IsInvoice(v) ==
  LET first == (v.closing \div MonthDays) * MonthDays
  IN  /\ v.closing \in Nat
      /\ v.closing = first + ClosingDay
      /\ v.due \in {first + DueDay, first + MonthDays + DueDay}

\* Each invoice falls due after those with smaller ids.
InOrder(f) ==
  /\ \A i \in DOMAIN f : IsInvoice(f[i])
  /\ \A i, j \in DOMAIN f : i < j => f[i].due < f[j].due

SameRows(f, g) == DOMAIN f = DOMAIN g /\ \A i \in DOMAIN f : f[i] = g[i]

AllRecognised == \A i \in DOMAIN invoices : invoices[i].recognised

SeesAll(r) ==
  Recognises(r) /\ (pc[r] \in {"link", "place"} \/ DOMAIN draft[r].invoices # {}) =>
    SameRows(seen[r], invoices) /\ InOrder(Merged(draft[r].invoices, invoices))

ObligationsInv ==
  /\ op \in [Requests -> Operations]
  /\ pc \in [Requests -> States]
  /\ DOMAIN draft = Requests /\ DOMAIN seen = Requests
  /\ IsSeq(events)
  /\ lastId \in Nat
  /\ month \in 1..MaxMonth
  /\ DOMAIN invoices \subseteq 1..lastId
  /\ \A r \in Requests : DraftOK(r)
  /\ DraftsApart
  /\ OneRegisters
  /\ AllRecognised => InOrder(invoices) /\ \A r \in Requests : SeesAll(r)

\* How many events of a type there are in a month.
EventsOf(type, m) ==
  {k \in DOMAIN events : events[k].type = type /\ events[k].month = m}

\* A row shows no more than there is, and is closed after its month.
RowOK(m) ==
  builds[m] # NoBuild =>
    /\ DOMAIN builds[m] = {"closed", "closing", "data"}
    /\ builds[m].closed \in BOOLEAN /\ (builds[m].closed => m < month)
    /\ \A t \in Stored \cap EventTypes :
         /\ builds[m].data[t].count \in Nat
         /\ builds[m].data[t].count <= Cardinality(EventsOf(t, m))

\* A build is of a month that has begun, and has read no more than there is.
JobOK(j) ==
  /\ DOMAIN read[j] \subseteq Aggregates
  /\ job[j] \in {"reading", "storing"} => period[j] \in 1..month
  /\ job[j] \notin {"reading", "storing"} => DOMAIN read[j] = {}
  /\ job[j] = "storing" => DOMAIN read[j] = Aggregates
  /\ \A t \in DOMAIN read[j] \cap EventTypes :
       /\ read[j][t].count \in Nat
       /\ read[j][t].count <= Cardinality(EventsOf(t, period[j]))

BuildsInv ==
  /\ job \in [Jobs -> JobStates]
  /\ DOMAIN period = Jobs /\ DOMAIN read = Jobs
  /\ DOMAIN builds = Months
  /\ \A m \in Months : RowOK(m)
  /\ \A j \in Jobs : JobOK(j)

MonthlyInv == ObligationsInv /\ BuildsInv

-----------------------------------------------------------------------------
(* Operators of the model.                                                 *)

\* A nonempty finite set of numbers has a largest one: of the subsets without
\* one, a smallest would not have one fewer element.
LEMMA FiniteHasLargest ==
  ASSUME NEW S \in SUBSET Nat, IsFiniteSet(S), S # {}
  PROVE  \E m \in S : \A i \in S : i <= m
<1>1. PICK B : B = {T \in SUBSET S : T # {} /\ \A m \in T : \E i \in T : ~(i <= m)}
  OBVIOUS
<1>2. PICK R : R = StrictSubsetOrdering(S)
  OBVIOUS
<1>3. FiniteSubsetsOf(S) = SUBSET S
  BY FS_FiniteSubsetsOfFinite
<1>4. IsWellFoundedOn(R, SUBSET S)
  BY <1>2, <1>3, FS_StrictSubsetOrderingWellFounded
<1>5. ASSUME B # {} PROVE FALSE
  <2>1. B \subseteq SUBSET S
    BY <1>1
  <2>2. PICK T \in B : \A U \in B : <<U, T>> \notin R
    BY <1>4, <1>5, <2>1, WFMin
  <2>3. PICK x : x \in T
    BY <1>1
  <2>4. T \in SUBSET S /\ x \in Nat /\ T \ {x} \in SUBSET S
    BY <1>1, <2>3
  <2>5. <<T \ {x}, T>> \in R
    BY <1>2, <2>3, <2>4 DEF StrictSubsetOrdering
  <2>6. T \ {x} \notin B
    BY <2>2, <2>5
  <2>7. CASE T \ {x} = {}
    BY <2>7, <1>1, <2>3, <2>4
  <2>8. CASE T \ {x} # {}
    <3>1. PICK m \in T \ {x} : \A i \in T \ {x} : i <= m
      BY <1>1, <2>4, <2>6, <2>8
    <3>2. m \in Nat /\ \A i \in T : i \in Nat
      BY <2>4, <3>1
    <3>3. \E n \in T : \A i \in T : i <= n
      <4>1. CASE x <= m
        BY <3>1, <4>1
      <4>2. CASE m <= x
        BY <2>3, <3>1, <3>2, <4>2
      <4> QED
        BY <2>4, <3>2, <4>1, <4>2
    <3> QED
      BY <1>1, <3>3
  <2> QED
    BY <2>7, <2>8
<1> QED
  BY <1>1, <1>5

\* The newest id there is.
LEMMA NewestId ==
  ASSUME NEW n \in Nat, NEW S \in SUBSET (1..n), S # {}
  PROVE  Max(S) \in S /\ \A i \in S : i <= Max(S)
<1>1. S \in SUBSET Nat /\ IsFiniteSet(S)
  <2>1. 1 \in Int /\ n \in Int /\ 1..n \subseteq Nat
    OBVIOUS
  <2>2. IsFiniteSet(1..n)
    BY <2>1, FS_Interval
  <2> QED
    BY <2>1, <2>2, FS_Subset
<1>2. \E m \in S : \A i \in S : i <= m
  BY <1>1, FiniteHasLargest
<1>3. \E m \in S : \A i \in S : m >= i
  BY <1>1, <1>2
<1> QED
  BY <1>1, <1>3 DEF Max

LEMMA MergedIs ==
  ASSUME NEW new, NEW old
  PROVE  /\ DOMAIN Merged(new, old) = DOMAIN new \cup DOMAIN old
         /\ \A i \in DOMAIN new : Merged(new, old)[i] = new[i]
         /\ \A i \in DOMAIN old \ DOMAIN new : Merged(new, old)[i] = old[i]
  BY DEF Merged

\* Nothing new leaves a table as it is.
LEMMA EmptyMerged ==
  ASSUME NEW new, DOMAIN new = {}, NEW old
  PROVE  SameRows(old, Merged(new, old))
  BY DEF Merged, SameRows

LEMMA OnlyIs ==
  ASSUME NEW i, NEW x
  PROVE  DOMAIN Only(i, x) = {i} /\ Only(i, x)[i] = x
  BY DEF Only

LEMMA SequenceIs ==
  ASSUME NEW X, NEW s \in Seq(X)
  PROVE  IsSeq(s)
  BY DEF IsSeq, Range

LEMMA EmptyIs == IsSeq(<<>>)
  BY DEF IsSeq

\* Appending keeps what is there, in its places.
LEMMA AppendIs ==
  ASSUME NEW s, IsSeq(s), NEW x
  PROVE  /\ IsSeq(Append(s, x))
         /\ DOMAIN s \subseteq DOMAIN Append(s, x)
         /\ \A k \in DOMAIN s : Append(s, x)[k] = s[k]
<1>1. PICK X : X = Range(s) \cup {x}
  OBVIOUS
<1>2. s \in Seq(X) /\ x \in X
  BY <1>1 DEF IsSeq, Range
<1>3. Append(s, x) \in Seq(X)
  BY <1>2
<1>4. IsSeq(Append(s, x))
  BY <1>3, SequenceIs
<1>5. Len(Append(s, x)) = Len(s) + 1 /\ Len(s) \in Nat
  BY <1>2
<1>6. DOMAIN s = 1..Len(s) /\ DOMAIN Append(s, x) = 1..(Len(s) + 1)
  BY <1>2, <1>3, <1>5
<1> QED
  BY <1>2, <1>4, <1>5, <1>6

LEMMA ConcatIs ==
  ASSUME NEW s, IsSeq(s), NEW t, IsSeq(t)
  PROVE  /\ IsSeq(s \o t)
         /\ DOMAIN s \subseteq DOMAIN (s \o t)
         /\ \A k \in DOMAIN s : (s \o t)[k] = s[k]
<1>1. PICK X : X = Range(s) \cup Range(t)
  OBVIOUS
<1>2. s \in Seq(X) /\ t \in Seq(X)
  BY <1>1 DEF IsSeq, Range
<1>3. s \o t \in Seq(X)
  BY <1>2
<1>4. IsSeq(s \o t)
  BY <1>3, SequenceIs
<1>5. Len(s \o t) = Len(s) + Len(t) /\ Len(s) \in Nat /\ Len(t) \in Nat
  BY <1>2
<1>6. DOMAIN s = 1..Len(s) /\ DOMAIN (s \o t) = 1..(Len(s) + Len(t))
  BY <1>2, <1>3, <1>5
<1> QED
  BY <1>2, <1>4, <1>5, <1>6

-----------------------------------------------------------------------------
(* Dates.                                                                  *)

LEMMA DayOfMonth ==
  ASSUME NEW q \in Nat, NEW d \in 0..(MonthDays - 1)
  PROVE  (q * MonthDays + d) \div MonthDays = q
  BY DaysAssumption

LEMMA SetDayIs ==
  ASSUME NEW date \in Nat, NEW day \in 0..(MonthDays - 1)
  PROVE  /\ SetDay(date, day) \in Nat
         /\ SetDay(date, day) \div MonthDays = date \div MonthDays
         /\ SetDay(date, day) = (date \div MonthDays) * MonthDays + day
<1>1. PICK q : q = date \div MonthDays
  OBVIOUS
<1>2. q \in Nat /\ MonthDays \in Nat
  BY <1>1, DaysAssumption
<1>3. q * MonthDays \in Nat
  BY <1>2
<1>4. SetDay(date, day) = q * MonthDays + day
  BY <1>1 DEF SetDay
<1> QED
  BY <1>1, <1>2, <1>3, <1>4, DayOfMonth

LEMMA NextMonth ==
  ASSUME NEW date \in Nat
  PROVE  /\ PlusMonths(date, 1) = date + MonthDays
         /\ date + MonthDays \in Nat
         /\ ((date + MonthDays) \div MonthDays) * MonthDays
              = (date \div MonthDays) * MonthDays + MonthDays
         /\ (date \div MonthDays) * MonthDays \in Nat
<1>1. PICK q : q = date \div MonthDays
  OBVIOUS
<1>2. q \in Nat /\ MonthDays \in Nat \ {0}
  BY <1>1, DaysAssumption
<1>3. (date + MonthDays) \div MonthDays = q + 1
  BY <1>1, <1>2
<1>4. (q + 1) * MonthDays = q * MonthDays + MonthDays /\ q * MonthDays \in Nat
  BY <1>2
<1> QED
  BY <1>1, <1>2, <1>3, <1>4 DEF PlusMonths

\* The next invoice falls due after the last.
LEMMA NextIsLater ==
  ASSUME month \in Nat, NEW last, last = NoInvoice \/ IsInvoice(last)
  PROVE  /\ IsInvoice(NextInvoice(last))
         /\ last # NoInvoice => last.due < NextInvoice(last).due
<1>1. /\ MonthDays \in Nat \ {0} /\ ClosingDay \in 0..(MonthDays - 1)
      /\ DueDay \in 0..(MonthDays - 1) /\ Today \in 0..(MonthDays - 1)
  BY DaysAssumption
<1>2. PICK closing : closing = NextClosing(last)
  OBVIOUS
<1>3. PICK first : first = (closing \div MonthDays) * MonthDays
  OBVIOUS
<1>4. PICK next : next = NextInvoice(last)
  OBVIOUS
<1>5. CASE last = NoInvoice
  <2>1. Now \in Nat
    <3>1. month * MonthDays \in Nat
      BY <1>1
    <3> QED
      BY <1>1, <3>1 DEF Now
  <2>2. PICK day : day = SetDay(Now, ClosingDay)
    OBVIOUS
  <2>3. /\ day \in Nat /\ day = (day \div MonthDays) * MonthDays + ClosingDay
    BY <1>1, <2>1, <2>2, SetDayIs
  <2>4. /\ day + MonthDays \in Nat
        /\ day + MonthDays = ((day + MonthDays) \div MonthDays) * MonthDays + ClosingDay
        /\ PlusMonths(day, 1) = day + MonthDays
    <3>1. PICK b : b = (day \div MonthDays) * MonthDays
      OBVIOUS
    <3>2. b \in Nat /\ day = b + ClosingDay
      BY <2>3, <3>1, NextMonth
    <3>3. /\ PlusMonths(day, 1) = day + MonthDays
          /\ day + MonthDays \in Nat
          /\ ((day + MonthDays) \div MonthDays) * MonthDays = b + MonthDays
      BY <2>3, <3>1, NextMonth
    <3>4. day + MonthDays = b + MonthDays + ClosingDay
      BY <1>1, <3>2
    <3> QED
      BY <3>3, <3>4
  <2>5. closing = day \/ closing = day + MonthDays
    <3>1. SetDay(IF last = NoInvoice THEN Now ELSE last.closing, ClosingDay) = day
      BY <1>5, <2>2
    <3>2. NextClosing(last) = IF day <= Now \/ last # NoInvoice
                              THEN PlusMonths(day, 1) ELSE day
      BY <3>1 DEF NextClosing
    <3> QED
      BY <1>2, <2>4, <3>2
  <2>6. closing \in Nat /\ closing = first + ClosingDay
    BY <1>3, <2>3, <2>4, <2>5
  <2>7. first \in Nat
    BY <1>3, <2>6, NextMonth
  <2>8. PICK due : due = SetDay(closing, DueDay)
    OBVIOUS
  <2>9. due \in Nat /\ due = first + DueDay /\ PlusMonths(due, 1) = due + MonthDays
    BY <1>1, <1>3, <2>6, <2>8, SetDayIs, NextMonth
  <2>10. next.closing = closing /\ next.due \in {due, due + MonthDays}
    BY <1>2, <1>4, <2>8, <2>9 DEF NextInvoice
  <2>11. next.due \in {first + DueDay, first + MonthDays + DueDay}
    BY <1>1, <2>7, <2>9, <2>10
  <2> QED
    BY <1>3, <1>4, <1>5, <2>6, <2>10, <2>11 DEF IsInvoice
<1>6. CASE IsInvoice(last)
  <2>1. PICK old : old = (last.closing \div MonthDays) * MonthDays
    OBVIOUS
  <2>2. /\ last.closing \in Nat /\ last.closing = old + ClosingDay
        /\ last.due \in {old + DueDay, old + MonthDays + DueDay}
    BY <1>6, <2>1 DEF IsInvoice
  <2>3. last # NoInvoice
    BY <2>2 DEF NoInvoice
  <2>4. old \in Nat
    BY <2>1, <2>2, NextMonth
  <2>5. SetDay(last.closing, ClosingDay) = last.closing
    BY <1>1, <2>1, <2>2, SetDayIs
  <2>6. closing = last.closing + MonthDays /\ closing \in Nat
    BY <1>2, <2>2, <2>3, <2>5, NextMonth DEF NextClosing
  <2>7. first = old + MonthDays
    BY <1>3, <2>1, <2>2, <2>6, NextMonth
  <2>8. PICK due : due = SetDay(closing, DueDay)
    OBVIOUS
  <2>9. due \in Nat /\ due = first + DueDay /\ PlusMonths(due, 1) = due + MonthDays
    BY <1>1, <1>3, <2>6, <2>8, SetDayIs, NextMonth
  <2>10. /\ next.closing = closing
         /\ next.due = IF due <= closing \/ due <= last.due
                       THEN due + MonthDays ELSE due
    BY <1>2, <1>4, <2>3, <2>8, <2>9 DEF NextInvoice
  <2>11. /\ next.due \in {first + DueDay, first + MonthDays + DueDay}
         /\ last.due < next.due
    <3>1. PICK d : d = last.due
      OBVIOUS
    <3>2. d = old + DueDay \/ d = old + MonthDays + DueDay
      BY <2>2, <3>1
    <3>3. due = old + MonthDays + DueDay /\ d <= due
      BY <1>1, <2>4, <2>7, <2>9, <3>2
    <3>4. CASE due <= closing \/ due <= d
      <4>1. next.due = due + MonthDays
        BY <2>10, <3>1, <3>4
      <4> QED
        BY <1>1, <2>4, <2>7, <3>1, <3>2, <3>3, <4>1
    <3>5. CASE ~(due <= closing \/ due <= d)
      <4>1. next.due = due
        BY <2>10, <3>1, <3>5
      <4> QED
        BY <1>1, <2>4, <2>7, <3>1, <3>2, <3>3, <3>5, <4>1
    <3> QED
      BY <3>4, <3>5
  <2>12. closing = first + ClosingDay
    BY <1>1, <2>2, <2>4, <2>6, <2>7
  <2> QED
    BY <1>3, <1>4, <2>6, <2>10, <2>11, <2>12 DEF IsInvoice
<1> QED
  BY <1>5, <1>6

\* A new invoice, made after the newest one, keeps them in order.
LEMMA OneMoreInOrder ==
  ASSUME NEW f, NEW n \in Nat, DOMAIN f \subseteq 1..n, InOrder(f), month \in Nat,
         NEW last,
         IF DOMAIN f = {} THEN last = NoInvoice
         ELSE last.closing = f[Max(DOMAIN f)].closing /\ last.due = f[Max(DOMAIN f)].due,
         NEW new, new.closing = NextInvoice(last).closing,
         new.due = NextInvoice(last).due,
         NEW g, DOMAIN g = DOMAIN f \cup {n + 1}, g[n + 1] = new,
         \A i \in DOMAIN f : g[i] = f[i]
  PROVE  InOrder(g)
<1>1. last = NoInvoice \/ IsInvoice(last)
  <2>1. CASE DOMAIN f = {}
    BY <2>1
  <2>2. CASE DOMAIN f # {}
    BY <2>2, NewestId DEF InOrder, IsInvoice
  <2> QED
    BY <2>1, <2>2
<1>2. IsInvoice(NextInvoice(last)) /\ (last # NoInvoice => last.due < NextInvoice(last).due)
  BY <1>1, NextIsLater
<1>3. IsInvoice(new)
  BY <1>2 DEF IsInvoice
<1>4. \A i \in DOMAIN g : IsInvoice(g[i])
  BY <1>3 DEF InOrder, IsInvoice
<1>5. \A i \in DOMAIN g : g[i].due \in Int
  <2>1. ASSUME NEW i \in DOMAIN g PROVE g[i].due \in Int
    <3>1. IsInvoice(g[i])
      BY <1>4
    <3>2. PICK first : first = (g[i].closing \div MonthDays) * MonthDays
      OBVIOUS
    <3>3. g[i].closing \in Nat /\ g[i].due \in {first + DueDay, first + MonthDays + DueDay}
      BY <3>1, <3>2 DEF IsInvoice
    <3>4. first \in Nat
      BY <3>2, <3>3, NextMonth
    <3> QED
      BY <3>3, <3>4, DaysAssumption
  <2> QED
    BY <2>1
<1>6. ASSUME NEW i \in DOMAIN f PROVE f[i].due < new.due
  <2>1. PICK m : m = Max(DOMAIN f)
    OBVIOUS
  <2>2. m \in DOMAIN f /\ i <= m
    BY <2>1, NewestId
  <2>3. last.due = f[m].due /\ last.closing = f[m].closing
    BY <2>1
  <2>4. last # NoInvoice
    BY <2>2, <2>3 DEF InOrder, IsInvoice, NoInvoice
  <2>5. f[m].due < new.due
    BY <1>2, <2>3, <2>4
  <2>6. i = m \/ f[i].due < f[m].due
    <3>1. i \in Nat /\ m \in Nat
      BY <2>2
    <3> QED
      BY <2>2, <3>1 DEF InOrder
  <2>7. f[i].due \in Int /\ f[m].due \in Int /\ new.due \in Int
    BY <1>5, <2>2
  <2> QED
    BY <2>5, <2>6, <2>7
<1>7. ASSUME NEW i \in DOMAIN g, NEW j \in DOMAIN g, i < j
      PROVE  g[i].due < g[j].due
  <2>1. i \in 1..(n + 1) /\ j \in 1..(n + 1)
    OBVIOUS
  <2>2. i \in DOMAIN f
    BY <1>7, <2>1
  <2>3. CASE j = n + 1
    BY <1>6, <2>2, <2>3
  <2>4. CASE j \in DOMAIN f
    BY <1>7, <2>2, <2>4 DEF InOrder
  <2> QED
    BY <2>3, <2>4
<1> QED
  BY <1>4, <1>7 DEF InOrder

-----------------------------------------------------------------------------
(* Obligations.                                                            *)

LEMMA SameInOrder ==
  ASSUME NEW f, NEW g, SameRows(f, g), InOrder(f)
  PROVE  InOrder(g)
  BY DEF SameRows, InOrder

LEMMA InitObligations == ObligationsInit => ObligationsInv
<1> SUFFICES ASSUME ObligationsInit PROVE ObligationsInv
  OBVIOUS
<1>1. /\ DOMAIN Nothing = {}
      /\ \A r \in Requests : draft[r] = NoDraft
  BY DEF ObligationsInit, Nothing
<1>2. op \in [Requests -> Operations] /\ pc \in [Requests -> States]
  BY PlansAssumption DEF ObligationsInit, States
<1>3. month \in 1..MaxMonth
  BY DaysAssumption DEF ObligationsInit
<1>4. ASSUME NEW r \in Requests PROVE DraftOK(r)
  BY <1>1, EmptyIs DEF ObligationsInit, DraftOK, NoDraft
<1>5. DraftsApart /\ OneRegisters
  BY <1>1 DEF DraftsApart, OneRegisters, NoDraft
<1>6. InOrder(invoices)
  BY <1>1 DEF ObligationsInit, InOrder
<1>7. ASSUME NEW r \in Requests PROVE SeesAll(r)
  BY <1>1 DEF SeesAll, ObligationsInit, NoDraft
<1> QED
  BY <1>1, <1>2, <1>3, <1>4, <1>5, <1>6, <1>7, EmptyIs
  DEF ObligationsInit, ObligationsInv

\* A step of one request that commits no invoice and takes the chain only when
\* it is free.
LEMMA RequestKeeps ==
  ASSUME ObligationsInv, NEW r \in Requests,
         op' = op, invoices' = invoices, month' = month,
         pc' \in [Requests -> States], DOMAIN draft' = Requests, DOMAIN seen' = Requests,
         IsSeq(events)', lastId' \in Nat, lastId <= lastId',
         \A q \in Requests \ {r} :
            pc'[q] = pc[q] /\ draft'[q] = draft[q] /\ seen'[q] = seen[q],
         DraftOK(r)',
         \/ draft'[r].events = draft[r].events \/ draft'[r].events = <<>>
         \/ ChainFree(r),
         DOMAIN draft'[r].invoices \subseteq DOMAIN draft[r].invoices \cup {lastId + 1},
         AllRecognised => SeesAll(r)'
  PROVE  ObligationsInv'
<1>1. lastId \in Nat /\ DOMAIN invoices \subseteq 1..lastId /\ 1..lastId \subseteq 1..lastId'
  BY DEF ObligationsInv
<1>2. ASSUME NEW q \in Requests, q # r
      PROVE  DraftOK(q)' /\ (SeesAll(q) => SeesAll(q)')
  <2>1. /\ pc'[q] = pc[q] /\ draft'[q] = draft[q] /\ seen'[q] = seen[q]
        /\ DraftOK(q)
    BY <1>2 DEF ObligationsInv
  <2>2. DraftOK(q)'
    BY <1>1, <2>1 DEF DraftOK, Creates, Recognises
  <2>3. SeesAll(q) => SeesAll(q)'
    BY <2>1 DEF SeesAll, Creates, Recognises
  <2> QED
    BY <2>2, <2>3
<1>3. DraftsApart'
  <2>1. ASSUME NEW q \in Requests, q # r
        PROVE  DOMAIN draft'[r].invoices \cap DOMAIN draft'[q].invoices = {}
    <3>1. DOMAIN draft'[q].invoices \subseteq 1..lastId
      BY <2>1 DEF ObligationsInv, DraftOK
    <3>2. DOMAIN draft[r].invoices \cap DOMAIN draft'[q].invoices = {}
      BY <2>1 DEF ObligationsInv, DraftsApart
    <3>3. lastId + 1 \notin 1..lastId
      BY <1>1
    <3> QED
      BY <3>1, <3>2, <3>3
  <2> QED
    BY <2>1 DEF ObligationsInv, DraftsApart
<1>4. OneRegisters'
  BY DEF ObligationsInv, OneRegisters, ChainFree
<1>5. AllRecognised' => InOrder(invoices') /\ \A q \in Requests : SeesAll(q)'
  BY <1>2 DEF ObligationsInv, AllRecognised, InOrder
<1>6. (DOMAIN invoices \subseteq 1..lastId)'
  BY <1>1
<1> QED
  BY <1>2, <1>3, <1>4, <1>5, <1>6 DEF ObligationsInv

\* A step that writes no draft.
LEMMA PlainKeeps ==
  ASSUME ObligationsInv, NEW r \in Requests, NEW state \in States,
         Goto(r, state), op' = op, invoices' = invoices, month' = month,
         draft' = draft, seen' = seen, lastId' = lastId, IsSeq(events)',
         \/ DOMAIN draft[r].invoices = {} /\ state \in {"revert", "done"}
         \/ /\ DOMAIN draft[r].invoices = {} /\ op[r].kind = "edit"
            /\ state \in {"save", "saveSeries", "associate"}
         \/ /\ pc[r] \in {"associate", "link", "place"}
            /\ state = "commit" /\ Creates(r)
  PROVE  ObligationsInv'
<1>1. /\ pc \in [Requests -> States] /\ lastId \in Nat /\ DraftOK(r)
      /\ DOMAIN draft = Requests /\ DOMAIN seen = Requests
  BY DEF ObligationsInv
<1>2. pc' \in [Requests -> States] /\ pc'[r] = state
      /\ \A q \in Requests \ {r} : pc'[q] = pc[q]
  BY <1>1 DEF Goto
<1>3. DraftOK(r)'
  BY <1>1, <1>2 DEF DraftOK, Creates, Recognises
<1>4. AllRecognised => SeesAll(r)'
  BY <1>2 DEF ObligationsInv, SeesAll, Creates, Recognises
<1> QED
  BY <1>1, <1>2, <1>3, <1>4, RequestKeeps

LEMMA IdleDraft ==
  ASSUME ObligationsInv, NEW r \in Requests,
         pc[r] \notin {"link", "place", "commit"}
  PROVE  DOMAIN draft[r].invoices = {}
  BY DEF ObligationsInv, DraftOK

LEMMA EditObligations ==
  ASSUME ObligationsInv, NEW r \in Requests, Edit(r)
  PROVE  ObligationsInv'
<1>1. PICK state \in {"save", "saveSeries"} : Goto(r, state)
  BY DEF Edit
<1>2. DOMAIN draft[r].invoices = {} /\ IsSeq(events)
  BY IdleDraft DEF Edit, ObligationsInv
<1> QED
  BY <1>1, <1>2, PlainKeeps DEF Edit, books, States

LEMMA SaveItemObligations ==
  ASSUME ObligationsInv, NEW r \in Requests, SaveItem(r)
  PROVE  ObligationsInv'
<1>1. op[r].kind = "edit" /\ DOMAIN draft[r].invoices = {} /\ IsSeq(events)
  BY IdleDraft DEF SaveItem, ObligationsInv, DraftOK
<1>2. PICK state \in {"save", "saveSeries", "associate", "done"} : Goto(r, state)
  BY DEF SaveItem
<1> QED
  BY <1>1, <1>2, PlainKeeps DEF SaveItem, States

LEMMA AssociationFailsObligations ==
  ASSUME ObligationsInv, NEW r \in Requests, AssociationFails(r)
  PROVE  ObligationsInv'
<1>1. /\ pc[r] \in {"associate", "link", "place"}
      /\ op[r].kind \in {"expense", "revenue", "edit"} /\ DraftOK(r) /\ IsSeq(events)
  BY DEF AssociationFails, ObligationsInv, DraftOK
<1>2. CASE Creates(r)
  <2>1. Goto(r, "commit")
    BY <1>2 DEF AssociationFails, Transactional, Creates
  <2> QED
    BY <1>1, <1>2, <2>1, PlainKeeps DEF AssociationFails, books, States
<1>3. CASE ~Creates(r)
  <2>1. Goto(r, "done")
    BY <1>1, <1>3 DEF AssociationFails, Transactional, Creates
  <2>2. DOMAIN draft[r].invoices = {}
    BY <1>1, <1>3 DEF DraftOK
  <2> QED
    BY <1>1, <2>1, <2>2, PlainKeeps DEF AssociationFails, books, States
<1> QED
  BY <1>2, <1>3

LEMMA ReadOriginalObligations ==
  ASSUME ObligationsInv, NEW r \in Requests, ReadOriginal(r)
  PROVE  ObligationsInv'
<1>1. DOMAIN draft[r].invoices = {} /\ IsSeq(events)
  BY IdleDraft DEF ReadOriginal, ObligationsInv
<1> QED
  BY <1>1, PlainKeeps DEF ReadOriginal, books, States

LEMMA PayObligations ==
  ASSUME ObligationsInv, NEW r \in Requests, Pay(r)
  PROVE  ObligationsInv'
<1>1. DOMAIN draft[r].invoices = {} /\ IsSeq(events)
  BY IdleDraft DEF Pay, ObligationsInv
<1>2. PICK x : events' = Append(events, x)
  BY DEF Pay
<1>3. IsSeq(events')
  BY <1>1, <1>2, AppendIs
<1>4. IsSeq(events)'
  BY <1>3 DEF IsSeq
<1> QED
  BY <1>1, <1>4, PlainKeeps DEF Pay, memory, States

LEMMA TickObligations == ObligationsInv /\ Tick => ObligationsInv'
<1> SUFFICES ASSUME ObligationsInv, Tick PROVE ObligationsInv'
  OBVIOUS
<1>1. /\ UNCHANGED <<rows, invoices, transfers, events, lastId, pc, op, draft, seen>>
      /\ month' \in 1..MaxMonth
  BY DaysAssumption DEF Tick, books, memory, ObligationsInv
<1>2. \A r \in Requests : (DraftOK(r) => DraftOK(r)') /\ (SeesAll(r) => SeesAll(r)')
  BY <1>1 DEF DraftOK, SeesAll, Creates, Recognises
<1> QED
  BY <1>1, <1>2
  DEF ObligationsInv, DraftsApart, OneRegisters, AllRecognised, InOrder

-----------------------------------------------------------------------------
\* What is left of a transaction that is over.
LEMMA NoDraftIs ==
  /\ DOMAIN NoDraft = {"rows", "invoices", "transfers", "events"}
  /\ DOMAIN NoDraft.invoices = {} /\ NoDraft.events = <<>>
  BY DEF NoDraft, Nothing

LEMMA LengthIs ==
  ASSUME NEW o \in Operations
  PROVE  Length(o) \in Nat \ {0}
  BY InstallmentsAssumption DEF Length, Operations

\* The rows of a creation and their events, one for each.
LEMMA SeriesIs ==
  ASSUME NEW o \in Operations, NEW n \in Nat
  PROVE  /\ DOMAIN NewSeries(o, n) = 1..Length(o)
         /\ Len(NewSeries(o, n)) = Length(o)
<1>1. PICK X : X = {NewSeries(o, n)[k] : k \in 1..Length(o)}
  OBVIOUS
<1>2. /\ DOMAIN NewSeries(o, n) = 1..Length(o)
      /\ NewSeries(o, n) \in [1..Length(o) -> X]
  BY <1>1 DEF NewSeries
<1>3. Length(o) \in Nat
  BY LengthIs
<1>4. NewSeries(o, n) \in Seq(X)
  BY <1>2, <1>3
<1> QED
  BY <1>2, <1>3, <1>4

LEMMA CreateObligations ==
  ASSUME ObligationsInv, NEW r \in Requests, Create(r)
  PROVE  ObligationsInv'
<1>1. /\ pc \in [Requests -> States] /\ lastId \in Nat /\ op[r] \in Operations
      /\ DraftOK(r) /\ DOMAIN draft[r].invoices = {} /\ IsSeq(events)
      /\ DOMAIN draft = Requests /\ DOMAIN seen = Requests
  BY IdleDraft DEF ObligationsInv, Create
<1>2. PICK series : series = NewSeries(op[r], lastId + 1)
  OBVIOUS
<1>3. DOMAIN series = 1..Length(op[r]) /\ Len(series) \in Nat /\ Length(op[r]) \in Nat \ {0}
  BY <1>1, <1>2, SeriesIs, LengthIs
<1>4. PICK recognitions : recognitions = [k \in DOMAIN series |-> Recognition(series[k])]
  OBVIOUS
<1>5. IsSeq(recognitions) /\ recognitions # <<>>
  <2>1. PICK X : X = {Recognition(series[k]) : k \in DOMAIN series}
    OBVIOUS
  <2>2. recognitions \in [1..Length(op[r]) -> X]
    BY <1>3, <1>4, <2>1
  <2>3. recognitions \in Seq(X)
    BY <1>3, <2>2
  <2>4. 1 \in DOMAIN recognitions
    BY <1>3, <2>2
  <2> QED
    BY <2>3, <2>4, SequenceIs
<1>6. PICK state \in {"associate", "commit"} : Goto(r, state)
  BY DEF Create
<1>7. pc' = [pc EXCEPT ![r] = state]
  BY <1>6 DEF Goto
<1>8. PICK table : draft' = [draft EXCEPT ![r].rows = table,
                                          ![r].events = IF op[r].account > 0
                                                        THEN recognitions ELSE <<>>]
  BY <1>2, <1>4 DEF Create
<1>9. /\ DOMAIN draft'[r] = {"rows", "invoices", "transfers", "events"}
      /\ draft'[r].invoices = draft[r].invoices
      /\ draft'[r].events = IF op[r].account > 0 THEN recognitions ELSE <<>>
      /\ DOMAIN draft' = Requests
      /\ \A q \in Requests \ {r} : draft'[q] = draft[q]
  BY <1>1, <1>8 DEF DraftOK
<1>10. /\ lastId' \in Nat /\ lastId <= lastId'
       /\ op' = op /\ invoices' = invoices /\ month' = month /\ seen' = seen
       /\ events' = events /\ IsSeq(events)'
  BY <1>1, <1>2, <1>3 DEF Create, books, IsSeq
<1>11. Creates(r) /\ pc[r] = "idle"
  BY DEF Create, Creates
<1>12. IsSeq(draft'[r].events)
  BY <1>5, <1>9, EmptyIs
<1>13. DraftOK(r)'
  <2>1. IsSeq(draft[r].events)'
    BY <1>12 DEF IsSeq
  <2>2. Recognises(r)' => draft'[r].events # <<>>
    BY <1>5, <1>9, <1>10 DEF Recognises
  <2>3. pc'[r] = state
    BY <1>1, <1>7
  <2> QED
    BY <1>1, <1>6, <1>9, <1>10, <1>11, <2>1, <2>2, <2>3 DEF DraftOK, Creates
<1>14. SeesAll(r)'
  BY <1>1, <1>6, <1>7, <1>9 DEF SeesAll
<1>15. draft'[r].events = <<>> \/ ChainFree(r)
  BY <1>9 DEF Create
<1>16. /\ pc' \in [Requests -> States]
       /\ \A q \in Requests \ {r} : pc'[q] = pc[q]
  BY <1>1, <1>6, <1>7 DEF States
<1> QED
  BY <1>1, <1>9, <1>10, <1>13, <1>14, <1>15, <1>16, RequestKeeps

LEMMA AssociateObligations ==
  ASSUME ObligationsInv, NEW r \in Requests, Associate(r)
  PROVE  ObligationsInv'
<1>1. /\ pc \in [Requests -> States] /\ lastId \in Nat
      /\ DraftOK(r) /\ DOMAIN draft[r].invoices = {} /\ IsSeq(events)
      /\ DOMAIN draft = Requests /\ DOMAIN seen = Requests
  BY IdleDraft DEF ObligationsInv, Associate
<1>2. /\ pc[r] = "associate" /\ pc' = [pc EXCEPT ![r] = "link"]
      /\ seen' = [seen EXCEPT ![r] = invoices]
      /\ op' = op /\ invoices' = invoices /\ month' = month /\ draft' = draft
      /\ lastId' = lastId /\ events' = events /\ IsSeq(events)'
  BY <1>1 DEF Associate, Goto, books, IsSeq
<1>3. DraftOK(r)'
  BY <1>1, <1>2 DEF DraftOK, Creates, Recognises
<1>4. ASSUME AllRecognised PROVE SeesAll(r)'
  <2>1. SameRows(seen'[r], invoices')
    BY <1>1, <1>2 DEF SameRows
  <2>2. InOrder(invoices)
    BY <1>4 DEF ObligationsInv
  <2>3. SameRows(invoices, Merged(draft[r].invoices, invoices))
    BY <1>1, EmptyMerged
  <2>4. InOrder(Merged(draft'[r].invoices, invoices'))
    BY <1>2, <2>2, <2>3, SameInOrder
  <2>5. SameRows(seen[r], invoices)'
    BY <2>1 DEF SameRows
  <2>6. InOrder(Merged(draft[r].invoices, invoices))'
    BY <2>4
  <2> QED
    BY <2>5, <2>6 DEF SeesAll
<1> QED
  BY <1>1, <1>2, <1>3, <1>4, RequestKeeps DEF States

LEMMA TransferObligations ==
  ASSUME ObligationsInv, NEW r \in Requests, Transfer(r)
  PROVE  ObligationsInv'
<1>1. /\ pc \in [Requests -> States] /\ lastId \in Nat
      /\ DraftOK(r) /\ DOMAIN draft[r].invoices = {} /\ IsSeq(events)
      /\ DOMAIN draft = Requests /\ DOMAIN seen = Requests
  BY IdleDraft DEF ObligationsInv, Transfer
<1>2. /\ pc' = [pc EXCEPT ![r] = "commit"] /\ seen' = seen
      /\ op' = op /\ invoices' = invoices /\ month' = month
      /\ lastId' = lastId /\ events' = events /\ IsSeq(events)'
      /\ ~Creates(r) /\ ChainFree(r)
  BY <1>1 DEF Transfer, Goto, books, IsSeq, Creates
<1>3. PICK table, x, y : draft' = [draft EXCEPT ![r].transfers = table,
                                                ![r].events = <<x, y>>]
  BY DEF Transfer
<1>4. /\ DOMAIN draft'[r] = {"rows", "invoices", "transfers", "events"}
      /\ draft'[r].invoices = draft[r].invoices
      /\ draft'[r].events = <<x, y>>
      /\ DOMAIN draft' = Requests
      /\ \A q \in Requests \ {r} : draft'[q] = draft[q]
  BY <1>1, <1>3 DEF DraftOK
<1>5. <<x, y>> \in Seq({x, y})
  OBVIOUS
<1>6. IsSeq(<<x, y>>)
  BY <1>5, SequenceIs
<1>7. DraftOK(r)'
  <2>1. IsSeq(draft[r].events)'
    BY <1>4, <1>6 DEF IsSeq
  <2>2. ~Creates(r)' /\ ~Recognises(r)' /\ pc'[r] = "commit"
    BY <1>1, <1>2 DEF Creates, Recognises
  <2> QED
    BY <1>1, <1>2, <1>4, <2>1, <2>2 DEF DraftOK
<1>8. SeesAll(r)'
  BY <1>2 DEF SeesAll, Recognises, Creates
<1> QED
  BY <1>1, <1>2, <1>4, <1>7, <1>8, RequestKeeps DEF States

LEMMA FailObligations ==
  ASSUME ObligationsInv, NEW r \in Requests, Fail(r)
  PROVE  ObligationsInv'
<1>1. /\ pc \in [Requests -> States] /\ lastId \in Nat /\ IsSeq(events)
      /\ DOMAIN draft = Requests /\ DOMAIN seen = Requests
  BY DEF ObligationsInv
<1>2. /\ pc' = [pc EXCEPT ![r] = "failed"] /\ seen' = seen
      /\ draft' = [draft EXCEPT ![r] = NoDraft]
      /\ op' = op /\ invoices' = invoices /\ month' = month
      /\ lastId' = lastId /\ events' = events /\ IsSeq(events)'
  BY <1>1 DEF Fail, Goto, books, IsSeq
<1>3. draft'[r] = NoDraft /\ DOMAIN draft' = Requests /\ pc'[r] = "failed"
  BY <1>1, <1>2
<1>4. DraftOK(r)' /\ SeesAll(r)'
  BY <1>3, NoDraftIs, EmptyIs DEF DraftOK, SeesAll, IsSeq
<1> QED
  BY <1>1, <1>2, <1>3, <1>4, NoDraftIs, RequestKeeps DEF States

-----------------------------------------------------------------------------
\* The invoice a request makes: it has the next id and the next dates.
NewInvoice(r) ==
  [closing |-> NextInvoice(LastInvoice(r)).closing,
   due |-> NextInvoice(LastInvoice(r)).due,
   recognised |-> Transactional(r) /\ op[r].account > 0]

LEMMA NewInvoiceInOrder ==
  ASSUME ObligationsInv, NEW r \in Requests, pc[r] = "link", Recognises(r),
         AllRecognised,
         NEW g, DOMAIN g = DOMAIN draft[r].invoices \cup DOMAIN invoices \cup {lastId + 1},
         g[lastId + 1] = NewInvoice(r),
         \A i \in DOMAIN draft[r].invoices : g[i] = draft[r].invoices[i],
         \A i \in DOMAIN invoices : g[i] = invoices[i]
  PROVE  InOrder(g)
<1>1. SameRows(seen[r], invoices) /\ InOrder(Merged(draft[r].invoices, invoices))
  BY DEF ObligationsInv, SeesAll
<1>2. PICK f : f = Merged(draft[r].invoices, seen[r])
  OBVIOUS
<1>3. /\ DOMAIN draft[r].invoices \cap DOMAIN invoices = {}
      /\ DOMAIN draft[r].invoices \subseteq 1..lastId
      /\ DOMAIN invoices \subseteq 1..lastId
      /\ lastId \in Nat /\ month \in Nat
  <2>1. /\ DOMAIN draft[r].invoices \subseteq (1..lastId) \ DOMAIN invoices
        /\ DOMAIN invoices \subseteq 1..lastId
        /\ lastId \in Nat /\ month \in 1..MaxMonth
    BY DEF ObligationsInv, DraftOK
  <2> QED
    BY <2>1, DaysAssumption
<1>4. SameRows(Merged(draft[r].invoices, invoices), f)
  BY <1>1, <1>2 DEF SameRows, Merged
<1>5. InOrder(f)
  BY <1>1, <1>4, SameInOrder
<1>6. /\ DOMAIN f = DOMAIN draft[r].invoices \cup DOMAIN invoices
      /\ DOMAIN f \subseteq 1..lastId
      /\ \A i \in DOMAIN f : g[i] = f[i]
  BY <1>1, <1>2, <1>3 DEF SameRows, Merged
<1>7. PICK last : last = LastInvoice(r)
  OBVIOUS
<1>8. IF DOMAIN f = {} THEN last = NoInvoice
      ELSE last.closing = f[Max(DOMAIN f)].closing /\ last.due = f[Max(DOMAIN f)].due
  <2>1. InvoicesSeen(r) = f
    BY <1>2 DEF InvoicesSeen, Recognises, Creates, Transactional
  <2>2. last = IF DOMAIN f = {} THEN NoInvoice
               ELSE [x \in {"closing", "due"} |-> f[Max(DOMAIN f)][x]]
    BY <1>7, <2>1 DEF LastInvoice, NewestOf
  <2> QED
    BY <2>2
<1>9. PICK new : new = NewInvoice(r)
  OBVIOUS
<1>10. new.closing = NextInvoice(last).closing /\ new.due = NextInvoice(last).due
  BY <1>7, <1>9 DEF NewInvoice
<1>11. DOMAIN g = DOMAIN f \cup {lastId + 1} /\ g[lastId + 1] = new
  BY <1>6, <1>9
<1> QED
  BY <1>3, <1>5, <1>6, <1>8, <1>10, <1>11, OneMoreInOrder

\* An invoice made outside of a transaction: from then on not all of them come
\* from creations that register.
LEMMA OutsideKeeps ==
  ASSUME ObligationsInv, NEW r \in Requests, DOMAIN draft[r].invoices = {},
         NEW state \in {"place", "done"}, Goto(r, state),
         state = "place" => op[r].kind = "edit",
         NEW invoice, invoice.recognised = FALSE,
         invoices' = Merged(Only(lastId + 1, invoice), invoices),
         lastId' = lastId + 1, UNCHANGED <<op, month, events, draft, seen>>
  PROVE  ObligationsInv'
<1>1. /\ pc \in [Requests -> States] /\ lastId \in Nat /\ IsSeq(events)
      /\ DOMAIN draft = Requests /\ DOMAIN seen = Requests
      /\ DOMAIN invoices \subseteq 1..lastId
  BY DEF ObligationsInv
<1>2. PICK new : new = Only(lastId + 1, invoice)
  OBVIOUS
<1>3. DOMAIN new = {lastId + 1} /\ new[lastId + 1] = invoice
  BY <1>2, OnlyIs
<1>4. /\ DOMAIN invoices' = {lastId + 1} \cup DOMAIN invoices
      /\ invoices'[lastId + 1] = invoice
  BY <1>2, <1>3 DEF Merged
<1>5. ~AllRecognised'
  BY <1>4 DEF AllRecognised
<1>6. lastId + 1 \notin 1..lastId /\ lastId + 1 \in 1..lastId' /\ lastId' \in Nat
      /\ 1..lastId \subseteq 1..lastId'
  BY <1>1
<1>7. pc' \in [Requests -> States] /\ pc'[r] = state
      /\ \A q \in Requests \ {r} : pc'[q] = pc[q]
  BY <1>1 DEF Goto, States
<1>8. ASSUME NEW q \in Requests PROVE DraftOK(q)'
  <2>1. DraftOK(q)
    BY DEF ObligationsInv
  <2>2. (DOMAIN draft[q].invoices \subseteq (1..lastId) \ DOMAIN invoices)'
    BY <1>4, <1>6, <2>1 DEF DraftOK
  <2>3. IsSeq(draft[q].events)'
    BY <2>1 DEF DraftOK, IsSeq
  <2>4. Creates(q)' = Creates(q) /\ Recognises(q)' = Recognises(q)
    BY DEF Creates, Recognises
  <2>5. CASE q = r
    BY <1>7, <2>1, <2>2, <2>3, <2>4, <2>5 DEF DraftOK, Creates, Recognises
  <2>6. CASE q # r
    BY <1>7, <2>1, <2>2, <2>3, <2>4, <2>6 DEF DraftOK
  <2> QED
    BY <2>5, <2>6
<1>9. (DOMAIN invoices \subseteq 1..lastId)'
  BY <1>1, <1>4, <1>6
<1>10. DraftsApart' /\ OneRegisters' /\ IsSeq(events)'
  BY <1>1 DEF ObligationsInv, DraftsApart, OneRegisters, IsSeq
<1> QED
  BY <1>1, <1>5, <1>6, <1>7, <1>8, <1>9, <1>10 DEF ObligationsInv

LEMMA CreateInvoiceObligations ==
  ASSUME ObligationsInv, NEW r \in Requests, CreateInvoice(r)
  PROVE  ObligationsInv'
<1>1. /\ pc \in [Requests -> States] /\ lastId \in Nat /\ pc[r] = "link"
      /\ DraftOK(r) /\ IsSeq(events)
      /\ DOMAIN draft = Requests /\ DOMAIN seen = Requests
      /\ DOMAIN invoices \subseteq 1..lastId
      /\ op[r].kind \in {"expense", "revenue", "edit"}
  BY DEF ObligationsInv, CreateInvoice, DraftOK
<1>2. PICK new : new = Only(lastId + 1, NewInvoice(r))
  OBVIOUS
<1>3. /\ pc' = [pc EXCEPT ![r] = "place"] /\ seen' = seen
      /\ op' = op /\ month' = month
      /\ lastId' = lastId + 1 /\ events' = events /\ IsSeq(events)'
  BY <1>1 DEF CreateInvoice, Goto, IsSeq
<1>4. IF Transactional(r)
      THEN draft' = [draft EXCEPT ![r].invoices = Merged(new, @)] /\ invoices' = invoices
      ELSE invoices' = Merged(new, invoices) /\ draft' = draft
  BY <1>2 DEF CreateInvoice, NewInvoice
<1>5. DOMAIN new = {lastId + 1} /\ new[lastId + 1] = NewInvoice(r)
  BY <1>2, OnlyIs
<1>6. lastId + 1 \notin 1..lastId /\ lastId + 1 \in 1..lastId' /\ lastId' \in Nat
      /\ 1..lastId \subseteq 1..lastId' /\ lastId <= lastId'
  BY <1>1, <1>3
<1>7. pc' \in [Requests -> States] /\ pc'[r] = "place"
      /\ \A q \in Requests \ {r} : pc'[q] = pc[q]
  BY <1>1, <1>3 DEF States
<1>8. CASE Transactional(r)
  <2>1. Creates(r) /\ NewInvoice(r).recognised = Recognises(r)
    BY <1>1, <1>8 DEF Transactional, Creates, Recognises, NewInvoice
  <2>2. PICK mine : mine = Merged(new, draft[r].invoices)
    OBVIOUS
  <2>3. draft' = [draft EXCEPT ![r].invoices = mine] /\ invoices' = invoices
    BY <1>4, <1>8, <2>2
  <2>4. /\ DOMAIN draft'[r] = {"rows", "invoices", "transfers", "events"}
        /\ draft'[r].invoices = mine
        /\ draft'[r].events = draft[r].events
        /\ DOMAIN draft' = Requests
        /\ \A q \in Requests \ {r} : draft'[q] = draft[q]
    BY <1>1, <2>3 DEF DraftOK
  <2>5. /\ DOMAIN draft[r].invoices \subseteq (1..lastId) \ DOMAIN invoices
        /\ \A i \in DOMAIN draft[r].invoices :
              draft[r].invoices[i].recognised = Recognises(r)
    BY <1>1 DEF DraftOK
  <2>6. /\ DOMAIN mine = {lastId + 1} \cup DOMAIN draft[r].invoices
        /\ mine[lastId + 1] = NewInvoice(r)
        /\ \A i \in DOMAIN draft[r].invoices : mine[i] = draft[r].invoices[i]
    BY <1>5, <1>6, <2>2, <2>5 DEF Merged
  <2>7. DraftOK(r)'
    <3>1. Creates(r)' /\ Recognises(r)' = Recognises(r)
      BY <1>3, <2>1 DEF Creates, Recognises
    <3>2. (DOMAIN draft[r].invoices \subseteq (1..lastId) \ DOMAIN invoices)'
      BY <1>1, <1>6, <2>3, <2>4, <2>5, <2>6
    <3>3. (\A i \in DOMAIN draft[r].invoices :
             draft[r].invoices[i].recognised = Recognises(r))'
      BY <2>1, <2>4, <2>5, <2>6, <3>1
    <3>4. IsSeq(draft[r].events)'
      BY <1>1, <2>4 DEF DraftOK, IsSeq
    <3>5. op'[r].kind \in {"expense", "revenue"}
      BY <1>3, <2>1 DEF Creates
    <3>6. Recognises(r)' => draft'[r].events # <<>>
      BY <1>1, <2>4, <3>1 DEF DraftOK
    <3> QED
      BY <1>7, <2>4, <3>1, <3>2, <3>3, <3>4, <3>5, <3>6 DEF DraftOK
  <2>8. ASSUME AllRecognised PROVE SeesAll(r)'
    <3>1. SUFFICES ASSUME Recognises(r)
                   PROVE  SameRows(seen[r], invoices)'
                          /\ InOrder(Merged(draft[r].invoices, invoices))'
      BY <1>3 DEF SeesAll, Recognises, Creates
    <3>2. PICK g : g = Merged(mine, invoices)
      OBVIOUS
    <3>3. /\ DOMAIN g = DOMAIN draft[r].invoices \cup DOMAIN invoices \cup {lastId + 1}
          /\ g[lastId + 1] = NewInvoice(r)
          /\ \A i \in DOMAIN draft[r].invoices : g[i] = draft[r].invoices[i]
          /\ \A i \in DOMAIN invoices : g[i] = invoices[i]
      BY <1>1, <1>6, <2>5, <2>6, <3>2 DEF Merged
    <3>4. InOrder(g)
      BY <1>1, <2>8, <3>1, <3>3, NewInvoiceInOrder
    <3>5. SameRows(seen[r], invoices)'
      BY <1>1, <1>3, <2>3, <2>8, <3>1 DEF ObligationsInv, SeesAll, SameRows
    <3>6. InOrder(Merged(draft'[r].invoices, invoices'))
      BY <2>3, <2>4, <3>2, <3>4
    <3> QED
      BY <3>5, <3>6
  <2> QED
    BY <1>1, <1>3, <1>6, <1>7, <2>3, <2>4, <2>6, <2>7, <2>8, RequestKeeps
<1>9. CASE ~Transactional(r)
  <2>1. ~Creates(r) /\ op[r].kind = "edit" /\ NewInvoice(r).recognised = FALSE
    BY <1>1, <1>9 DEF Transactional, Creates, NewInvoice
  <2>2. invoices' = Merged(Only(lastId + 1, NewInvoice(r)), invoices) /\ draft' = draft
    BY <1>2, <1>4, <1>9
  <2>3. DOMAIN draft[r].invoices = {} /\ Goto(r, "place")
    BY <1>1, <1>3, <2>1 DEF DraftOK, Goto
  <2> QED
    BY <1>3, <2>1, <2>2, <2>3, OutsideKeeps
<1> QED
  BY <1>8, <1>9

LEMMA SearchInvoiceObligations ==
  ASSUME ObligationsInv, NEW r \in Requests, SearchInvoice(r)
  PROVE  ObligationsInv'
<1>1. /\ pc \in [Requests -> States] /\ lastId \in Nat
      /\ DraftOK(r) /\ DOMAIN draft[r].invoices = {} /\ IsSeq(events)
      /\ DOMAIN draft = Requests /\ DOMAIN seen = Requests
  BY IdleDraft DEF ObligationsInv, SearchInvoice
<1>2. /\ pc' = [pc EXCEPT ![r] = "post"] /\ op[r].kind = "invoice"
      /\ seen' = [seen EXCEPT ![r] = invoices]
      /\ op' = op /\ invoices' = invoices /\ month' = month /\ draft' = draft
      /\ lastId' = lastId /\ events' = events /\ IsSeq(events)'
  BY <1>1 DEF SearchInvoice, Goto, books, IsSeq
<1>3. DraftOK(r)'
  BY <1>1, <1>2 DEF DraftOK, Creates, Recognises
<1>4. SeesAll(r)'
  BY <1>2 DEF SeesAll, Creates, Recognises
<1> QED
  BY <1>1, <1>2, <1>3, <1>4, RequestKeeps DEF States

LEMMA PostInvoiceObligations ==
  ASSUME ObligationsInv, NEW r \in Requests, PostInvoice(r)
  PROVE  ObligationsInv'
<1>1. PICK next : next = NextInvoice(NewestOf(seen[r]))
  OBVIOUS
<1>2. PICK new : new = [closing |-> next.closing, due |-> next.due, recognised |-> FALSE]
  OBVIOUS
<1>3. invoices' = Merged(Only(lastId + 1, new), invoices)
  BY <1>1, <1>2 DEF PostInvoice
<1>4. /\ DOMAIN draft[r].invoices = {} /\ Goto(r, "done") /\ lastId' = lastId + 1
      /\ UNCHANGED <<op, month, events, draft, seen>>
  BY IdleDraft DEF PostInvoice, memory
<1>5. new.recognised = FALSE
  BY <1>2
<1> QED
  BY <1>3, <1>4, <1>5, OutsideKeeps

\* An expense is written on its invoice.
LEMMA PlaceOnObligations ==
  ASSUME ObligationsInv, NEW r \in Requests, pc[r] \in {"link", "place"},
         NEW id, PlaceOn(r, id)
  PROVE  ObligationsInv'
<1>1. /\ pc \in [Requests -> States] /\ lastId \in Nat
      /\ DraftOK(r) /\ IsSeq(events)
      /\ DOMAIN draft = Requests /\ DOMAIN seen = Requests
      /\ op[r].kind \in {"expense", "revenue", "edit"}
  BY DEF ObligationsInv, DraftOK
<1>2. PICK state \in {"link", "commit", "done"} :
        /\ pc' = [pc EXCEPT ![r] = state]
        /\ state = "commit" => Transactional(r)
        /\ state = "done" => ~Transactional(r)
  BY DEF PlaceOn, Goto
<1>3. /\ seen' = seen /\ op' = op /\ month' = month /\ invoices' = invoices
      /\ lastId' = lastId /\ events' = events /\ IsSeq(events)'
  BY <1>1 DEF PlaceOn, IsSeq
<1>4. /\ draft'[r].invoices = draft[r].invoices
      /\ draft'[r].events = draft[r].events
      /\ DOMAIN draft'[r] = {"rows", "invoices", "transfers", "events"}
      /\ DOMAIN draft' = Requests
      /\ \A q \in Requests \ {r} : draft'[q] = draft[q]
  <2>1. CASE Transactional(r)
    <3>1. PICK i, e : draft' = [draft EXCEPT ![r].rows[i] = e]
      BY <2>1 DEF PlaceOn
    <3> QED
      BY <1>1, <3>1 DEF DraftOK
  <2>2. CASE ~Transactional(r)
    <3>1. draft' = draft
      BY <2>2 DEF PlaceOn
    <3> QED
      BY <1>1, <3>1 DEF DraftOK
  <2> QED
    BY <2>1, <2>2
<1>5. /\ pc' \in [Requests -> States] /\ pc'[r] = state
      /\ \A q \in Requests \ {r} : pc'[q] = pc[q]
  BY <1>1, <1>2 DEF States
<1>6. /\ Creates(r)' = Creates(r) /\ Recognises(r)' = Recognises(r)
      /\ Creates(r) = Transactional(r)
  BY <1>1, <1>3 DEF Creates, Recognises, Transactional
<1>7. DraftOK(r)'
  <2>1. (DOMAIN draft[r].invoices \subseteq (1..lastId) \ DOMAIN invoices)'
    BY <1>1, <1>3, <1>4 DEF DraftOK
  <2>2. (\A i \in DOMAIN draft[r].invoices :
           draft[r].invoices[i].recognised = Recognises(r))'
    BY <1>1, <1>4, <1>6 DEF DraftOK
  <2>3. IsSeq(draft[r].events)'
    BY <1>1, <1>4 DEF DraftOK, IsSeq
  <2>4. (DOMAIN draft[r].invoices # {} => Creates(r) /\ pc[r] \in {"link", "place", "commit"})'
    BY <1>1, <1>2, <1>4, <1>5, <1>6 DEF DraftOK
  <2>5. Recognises(r)' => draft'[r].events # <<>>
    BY <1>1, <1>4, <1>6 DEF DraftOK
  <2>6. op'[r].kind \in {"expense", "revenue", "edit"}
    BY <1>1, <1>3
  <2> QED
    BY <1>2, <1>4, <1>5, <2>1, <2>2, <2>3, <2>4, <2>5, <2>6 DEF DraftOK
<1>8. ASSUME AllRecognised PROVE SeesAll(r)'
  <2>1. SUFFICES ASSUME Recognises(r)
                 PROVE  SameRows(seen[r], invoices)'
                        /\ InOrder(Merged(draft[r].invoices, invoices))'
    BY <1>6 DEF SeesAll
  <2>2. SameRows(seen[r], invoices) /\ InOrder(Merged(draft[r].invoices, invoices))
    BY <1>8, <2>1 DEF ObligationsInv, SeesAll
  <2>3. SameRows(seen[r], invoices)'
    BY <1>3, <2>2 DEF SameRows
  <2>4. InOrder(Merged(draft'[r].invoices, invoices'))
    BY <1>3, <1>4, <2>2
  <2> QED
    BY <2>3, <2>4
<1> QED
  BY <1>1, <1>3, <1>4, <1>5, <1>7, <1>8, RequestKeeps

\* What a transaction wrote becomes everybody's.
LEMMA CommitObligations ==
  ASSUME ObligationsInv, NEW r \in Requests, Commit(r)
  PROVE  ObligationsInv'
<1>1. /\ pc \in [Requests -> States] /\ lastId \in Nat /\ pc[r] = "commit"
      /\ DraftOK(r) /\ IsSeq(events) /\ IsSeq(draft[r].events)
      /\ DOMAIN draft = Requests /\ DOMAIN seen = Requests
      /\ DOMAIN invoices \subseteq 1..lastId
      /\ DOMAIN draft[r].invoices \subseteq (1..lastId) \ DOMAIN invoices
      /\ \A i \in DOMAIN draft[r].invoices :
            draft[r].invoices[i].recognised = Recognises(r)
  BY DEF ObligationsInv, Commit, DraftOK
<1>2. /\ pc' = [pc EXCEPT ![r] = "done"] /\ seen' = seen
      /\ draft' = [draft EXCEPT ![r] = NoDraft]
      /\ op' = op /\ month' = month /\ lastId' = lastId
      /\ invoices' = Merged(draft[r].invoices, invoices)
      /\ events' = events \o draft[r].events
  BY DEF Commit, Goto
<1>3. IsSeq(events)'
  <2>1. IsSeq(events')
    BY <1>1, <1>2, ConcatIs
  <2> QED
    BY <2>1 DEF IsSeq
<1>4. /\ pc' \in [Requests -> States] /\ pc'[r] = "done"
      /\ DOMAIN draft' = Requests /\ draft'[r] = NoDraft
      /\ \A q \in Requests \ {r} : pc'[q] = pc[q] /\ draft'[q] = draft[q]
  BY <1>1, <1>2 DEF States
<1>5. /\ DOMAIN invoices' = DOMAIN draft[r].invoices \cup DOMAIN invoices
      /\ \A i \in DOMAIN draft[r].invoices : invoices'[i] = draft[r].invoices[i]
      /\ \A i \in DOMAIN invoices : invoices'[i] = invoices[i]
  BY <1>1, <1>2 DEF Merged
<1>6. (DOMAIN invoices \subseteq 1..lastId)'
  BY <1>1, <1>2, <1>5
<1>7. ASSUME NEW q \in Requests PROVE DraftOK(q)'
  <2>1. CASE q = r
    BY <1>4, <2>1, NoDraftIs, EmptyIs DEF DraftOK, IsSeq
  <2>2. CASE q # r
    <3>1. DraftOK(q) /\ draft'[q] = draft[q] /\ pc'[q] = pc[q]
      BY <1>4, <2>2 DEF ObligationsInv
    <3>2. DOMAIN draft[r].invoices \cap DOMAIN draft[q].invoices = {}
      BY <2>2 DEF ObligationsInv, DraftsApart
    <3>3. (DOMAIN draft[q].invoices \subseteq (1..lastId) \ DOMAIN invoices)'
      BY <1>2, <1>5, <3>1, <3>2 DEF DraftOK
    <3>4. IsSeq(draft[q].events)'
      BY <3>1 DEF DraftOK, IsSeq
    <3> QED
      BY <1>2, <3>1, <3>3, <3>4 DEF DraftOK, Creates, Recognises
  <2> QED
    BY <2>1, <2>2
<1>8. DraftsApart'
  BY <1>4, NoDraftIs DEF ObligationsInv, DraftsApart
<1>9. OneRegisters'
  BY <1>4, NoDraftIs DEF ObligationsInv, OneRegisters
<1>10. ASSUME AllRecognised' PROVE InOrder(invoices') /\ \A q \in Requests : SeesAll(q)'
  <2>1. AllRecognised
    BY <1>5, <1>10 DEF AllRecognised
  <2>2. InOrder(invoices) /\ \A q \in Requests : SeesAll(q)
    BY <2>1 DEF ObligationsInv
  <2>3. SeesAll(r)'
    BY <1>4, NoDraftIs DEF SeesAll
  <2>4. CASE DOMAIN draft[r].invoices = {}
    <3>1. SameRows(invoices, invoices')
      BY <1>5, <2>4 DEF SameRows
    <3>2. InOrder(invoices')
      BY <2>2, <3>1, SameInOrder
    <3>3. ASSUME NEW q \in Requests, q # r PROVE SeesAll(q)'
      <4>1. pc'[q] = pc[q] /\ draft'[q] = draft[q] /\ seen'[q] = seen[q] /\ SeesAll(q)
        BY <1>2, <1>4, <2>2, <3>3
      <4>2. SUFFICES ASSUME Recognises(q), \/ pc[q] \in {"link", "place"}
                                           \/ DOMAIN draft[q].invoices # {}
                     PROVE  SameRows(seen[q], invoices)'
                            /\ InOrder(Merged(draft[q].invoices, invoices))'
        BY <1>2, <4>1 DEF SeesAll, Recognises, Creates
      <4>3. SameRows(seen[q], invoices) /\ InOrder(Merged(draft[q].invoices, invoices))
        BY <4>1, <4>2 DEF SeesAll
      <4>4. SameRows(seen[q], invoices)'
        BY <3>1, <4>1, <4>3 DEF SameRows
      <4>5. PICK f, g : f = Merged(draft[q].invoices, invoices)
                        /\ g = Merged(draft'[q].invoices, invoices')
        OBVIOUS
      <4>6. SameRows(f, g)
        BY <3>1, <4>1, <4>5 DEF SameRows, Merged
      <4>7. InOrder(Merged(draft'[q].invoices, invoices'))
        BY <4>3, <4>5, <4>6, SameInOrder
      <4> QED
        BY <4>4, <4>7
    <3> QED
      BY <2>3, <3>2, <3>3
  <2>5. CASE DOMAIN draft[r].invoices # {}
    <3>1. Recognises(r)
      BY <1>1, <1>5, <1>10, <2>5 DEF AllRecognised
    <3>2. InOrder(invoices')
      BY <1>2, <2>2, <2>5, <3>1 DEF SeesAll
    <3>3. draft[r].events # <<>>
      BY <1>1, <3>1 DEF DraftOK
    <3>4. ASSUME NEW q \in Requests, q # r PROVE SeesAll(q)'
      <4>1. draft[q].events = <<>> /\ DraftOK(q)
        BY <3>3, <3>4 DEF ObligationsInv, OneRegisters
      <4>2. ~(Recognises(q) /\ pc[q] \in {"link", "place", "commit"})
        BY <4>1 DEF DraftOK
      <4>3. ~(Recognises(q) /\ (pc[q] \in {"link", "place"} \/ DOMAIN draft[q].invoices # {}))
        BY <4>1, <4>2 DEF DraftOK
      <4> QED
        BY <1>2, <1>4, <3>4, <4>3 DEF SeesAll, Recognises, Creates
    <3> QED
      BY <2>3, <3>2, <3>4
  <2> QED
    BY <2>4, <2>5
<1> QED
  BY <1>1, <1>2, <1>3, <1>4, <1>6, <1>7, <1>8, <1>9, <1>10 DEF ObligationsInv

LEMMA NextObligations ==
  ASSUME ObligationsInv, ObligationsNext
  PROVE  ObligationsInv'
<1>1. CASE Tick
  BY <1>1, TickObligations
<1>2. ASSUME NEW r \in Requests,
             \/ Create(r) \/ Edit(r) \/ SaveItem(r)
             \/ Associate(r) \/ CreateInvoice(r) \/ PlaceOnFound(r)
             \/ PlaceOnCreated(r) \/ AssociationFails(r)
             \/ SearchInvoice(r) \/ PostInvoice(r)
             \/ Transfer(r) \/ ReadOriginal(r) \/ Pay(r)
             \/ Commit(r) \/ Fail(r)
      PROVE  ObligationsInv'
  <2>1. CASE Create(r)
    BY <2>1, CreateObligations
  <2>2. CASE Edit(r)
    BY <2>2, EditObligations
  <2>3. CASE SaveItem(r)
    BY <2>3, SaveItemObligations
  <2>4. CASE Associate(r)
    BY <2>4, AssociateObligations
  <2>5. CASE CreateInvoice(r)
    BY <2>5, CreateInvoiceObligations
  <2>6. CASE PlaceOnFound(r)
    BY <2>6, PlaceOnObligations DEF PlaceOnFound
  <2>7. CASE PlaceOnCreated(r)
    BY <2>7, PlaceOnObligations DEF PlaceOnCreated
  <2>8. CASE AssociationFails(r)
    BY <2>8, AssociationFailsObligations
  <2>9. CASE Transfer(r)
    BY <2>9, TransferObligations
  <2>10. CASE ReadOriginal(r)
    BY <2>10, ReadOriginalObligations
  <2>11. CASE Pay(r)
    BY <2>11, PayObligations
  <2>12. CASE Commit(r)
    BY <2>12, CommitObligations
  <2>13. CASE Fail(r)
    BY <2>13, FailObligations
  <2>14. CASE SearchInvoice(r)
    BY <2>14, SearchInvoiceObligations
  <2>15. CASE PostInvoice(r)
    BY <2>15, PostInvoiceObligations
  <2> QED
    BY <1>2, <2>1, <2>2, <2>3, <2>4, <2>5, <2>6, <2>7, <2>8, <2>9, <2>10, <2>11,
       <2>12, <2>13, <2>14, <2>15
<1> QED
  BY <1>1, <1>2 DEF ObligationsNext

\* A step of a build, or of nobody.
LEMMA OthersKeepObligations ==
  ASSUME ObligationsInv,
         UNCHANGED <<books, month, lastId, pc, memory>>
  PROVE  ObligationsInv'
<1>1. UNCHANGED <<invoices, events, month, lastId, pc, op, draft, seen>>
  BY DEF books, memory
<1>2. \A r \in Requests : (DraftOK(r) => DraftOK(r)') /\ (SeesAll(r) => SeesAll(r)')
  BY <1>1 DEF DraftOK, SeesAll, Creates, Recognises
<1> QED
  BY <1>1, <1>2
  DEF ObligationsInv, DraftsApart, OneRegisters, AllRecognised, InOrder

LEMMA InvoicesInOrder == ObligationsInv => InvoicesDiffer
<1> SUFFICES ASSUME ObligationsInv, AllRecognised,
                    NEW i \in DOMAIN invoices, NEW j \in DOMAIN invoices,
                    invoices[i].due = invoices[j].due
             PROVE  i = j
  BY DEF InvoicesDiffer, AllRecognised
<1>1. i \in Nat /\ j \in Nat
  BY DEF ObligationsInv
<1>2. /\ i < j => invoices[i].due < invoices[j].due
      /\ j < i => invoices[j].due < invoices[i].due
  BY DEF ObligationsInv, InOrder
<1>3. invoices[i].due \in Int
  <2>1. PICK first : first = (invoices[i].closing \div MonthDays) * MonthDays
    OBVIOUS
  <2>2. IsInvoice(invoices[i])
    BY DEF ObligationsInv, InOrder
  <2>3. /\ invoices[i].closing \in Nat
        /\ invoices[i].due \in {first + DueDay, first + MonthDays + DueDay}
    BY <2>1, <2>2 DEF IsInvoice
  <2>4. first \in Nat
    BY <2>1, <2>3, NextMonth
  <2> QED
    BY <2>3, <2>4, DaysAssumption
<1> QED
  BY <1>1, <1>2, <1>3
-----------------------------------------------------------------------------
(* Builds.                                                                 *)

\* Events are only appended.
EventsGrow ==
  /\ IsSeq(events) /\ IsSeq(events')
  /\ DOMAIN events \subseteq DOMAIN events'
  /\ \A k \in DOMAIN events : events'[k] = events[k]

LEMMA SummaryCounts ==
  ASSUME NEW type, NEW m
  PROVE  EventSummary(type, m).count = Cardinality(EventsOf(type, m))
  BY DEF EventSummary, EventsOf

LEMMA EventsFinite ==
  ASSUME IsSeq(events), NEW type, NEW m
  PROVE  IsFiniteSet(EventsOf(type, m)) /\ Cardinality(EventsOf(type, m)) \in Nat
<1>1. Len(events) \in Nat /\ DOMAIN events = 1..Len(events)
  BY DEF IsSeq
<1>2. IsFiniteSet(1..Len(events))
  BY <1>1, FS_Interval
<1>3. EventsOf(type, m) \subseteq 1..Len(events)
  BY <1>1 DEF EventsOf
<1>4. IsFiniteSet(EventsOf(type, m))
  BY <1>2, <1>3, FS_Subset
<1> QED
  BY <1>4, FS_CardinalityType

\* A month never has fewer events than it had.
LEMMA MoreEvents ==
  ASSUME EventsGrow, NEW type, NEW m
  PROVE  /\ Cardinality(EventsOf(type, m)) \in Nat
         /\ Cardinality(EventsOf(type, m)') \in Nat
         /\ Cardinality(EventsOf(type, m)) <= Cardinality(EventsOf(type, m)')
<1>1. PICK S, T : S = EventsOf(type, m) /\ T = EventsOf(type, m)'
  OBVIOUS
<1>2. S \subseteq T
  BY <1>1 DEF EventsGrow, EventsOf
<1>3. IsFiniteSet(T)
  <2>1. Len(events') \in Nat /\ DOMAIN events' = 1..Len(events')
    BY DEF EventsGrow, IsSeq
  <2>2. IsFiniteSet(1..Len(events'))
    BY <2>1, FS_Interval
  <2>3. T \subseteq 1..Len(events')
    BY <1>1, <2>1 DEF EventsOf
  <2> QED
    BY <2>2, <2>3, FS_Subset
<1>4. /\ IsFiniteSet(S) /\ Cardinality(S) <= Cardinality(T)
  BY <1>2, <1>3, FS_Subset
<1> QED
  BY <1>1, <1>3, <1>4, FS_CardinalityType

LEMMA ObligationsGrow ==
  ASSUME ObligationsInv, ObligationsNext
  PROVE  EventsGrow /\ month' \in Nat /\ month <= month'
<1>1. IsSeq(events) /\ month \in Nat
  BY DEF ObligationsInv
<1>2. CASE UNCHANGED <<events, month>>
  BY <1>1, <1>2 DEF EventsGrow
<1>3. CASE Tick
  BY <1>1, <1>3 DEF EventsGrow, Tick, books
<1>4. ASSUME NEW r \in Requests, Pay(r) PROVE EventsGrow /\ month' = month
  <2>1. PICK x : events' = Append(events, x)
    BY <1>4 DEF Pay
  <2> QED
    BY <1>1, <1>4, <2>1, AppendIs DEF EventsGrow, Pay
<1>5. ASSUME NEW r \in Requests, Commit(r) PROVE EventsGrow /\ month' = month
  <2>1. IsSeq(draft[r].events) /\ events' = events \o draft[r].events
    BY <1>5 DEF ObligationsInv, DraftOK, Commit
  <2> QED
    BY <1>1, <1>5, <2>1, ConcatIs DEF EventsGrow, Commit
<1>6. ASSUME NEW r \in Requests,
             \/ Create(r) \/ Edit(r) \/ SaveItem(r)
             \/ Associate(r) \/ CreateInvoice(r) \/ PlaceOnFound(r)
             \/ PlaceOnCreated(r) \/ AssociationFails(r)
             \/ SearchInvoice(r) \/ PostInvoice(r)
             \/ Transfer(r) \/ ReadOriginal(r) \/ Fail(r)
      PROVE  UNCHANGED <<events, month>>
  <2>1. CASE Create(r) \/ Edit(r) \/ SaveItem(r) \/ Associate(r)
    BY <2>1 DEF Create, Edit, SaveItem, Associate, books
  <2>2. CASE CreateInvoice(r)
    BY <2>2 DEF CreateInvoice
  <2>3. CASE PlaceOnFound(r) \/ PlaceOnCreated(r)
    BY <2>3 DEF PlaceOnFound, PlaceOnCreated, PlaceOn
  <2>4. CASE AssociationFails(r) \/ Transfer(r) \/ ReadOriginal(r) \/ Fail(r)
    BY <2>4 DEF AssociationFails, Transfer, ReadOriginal, Fail, books
  <2>5. CASE SearchInvoice(r) \/ PostInvoice(r)
    BY <2>5 DEF SearchInvoice, PostInvoice, books
  <2> QED
    BY <1>6, <2>1, <2>2, <2>3, <2>4, <2>5
<1> QED
  BY <1>1, <1>2, <1>3, <1>4, <1>5, <1>6 DEF ObligationsNext

LEMMA InitBuilds == Init => BuildsInv
<1> SUFFICES ASSUME Init PROVE BuildsInv
  OBVIOUS
<1>1. DOMAIN Nothing = {}
  BY DEF Nothing
<1> QED
  BY <1>1 DEF Init, BuildsInv, RowOK, JobOK, Jobs, JobStates

\* What was true of the rows and the builds stays true as the books go on.
LEMMA RowKeeps ==
  ASSUME EventsGrow, month \in Nat, month' \in Nat, month <= month',
         NEW m \in Months, RowOK(m), builds'[m] = builds[m]
  PROVE  RowOK(m)'
<1>1. SUFFICES ASSUME builds[m] # NoBuild
               PROVE  RowOK(m)'
  BY DEF RowOK
<1>2. m \in Nat
  BY DaysAssumption DEF Months
<1>3. builds'[m].closed => m < month'
  BY <1>1, <1>2 DEF RowOK
<1>4. ASSUME NEW t \in Stored \cap EventTypes
      PROVE  /\ builds'[m].data[t].count \in Nat
             /\ builds'[m].data[t].count <= Cardinality(EventsOf(t, m)')
  BY <1>1, MoreEvents DEF RowOK
<1>5. (\A t \in Stored \cap EventTypes :
         /\ builds[m].data[t].count \in Nat
         /\ builds[m].data[t].count <= Cardinality(EventsOf(t, m)))'
  BY <1>4
<1> QED
  BY <1>1, <1>3, <1>5 DEF RowOK

LEMMA JobKeeps ==
  ASSUME EventsGrow, month \in Nat, month' \in Nat, month <= month',
         NEW j \in Jobs, JobOK(j),
         job'[j] = job[j], period'[j] = period[j], read'[j] = read[j]
  PROVE  JobOK(j)'
<1>0. PICK p : p = period[j] /\ p = period'[j]
  OBVIOUS
<1>1. ASSUME NEW t \in DOMAIN read'[j] \cap EventTypes
      PROVE  /\ read'[j][t].count \in Nat
             /\ read'[j][t].count <= Cardinality(EventsOf(t, p)')
  <2>1. /\ read[j][t].count \in Nat
        /\ read[j][t].count <= Cardinality(EventsOf(t, p))
    BY <1>0 DEF JobOK
  <2>2. /\ Cardinality(EventsOf(t, p)) \in Nat
        /\ Cardinality(EventsOf(t, p)') \in Nat
        /\ Cardinality(EventsOf(t, p)) <= Cardinality(EventsOf(t, p)')
    BY MoreEvents
  <2> QED
    BY <2>1, <2>2
<1>2. (\A t \in DOMAIN read[j] \cap EventTypes :
         /\ read[j][t].count \in Nat
         /\ read[j][t].count <= Cardinality(EventsOf(t, period[j])))'
  BY <1>0, <1>1
<1>3. job'[j] \in {"reading", "storing"} => period'[j] \in 1..month'
  BY DEF JobOK
<1> QED
  BY <1>2, <1>3 DEF JobOK
\* A step of one build: the other one is where it was.
LEMMA BuildStep ==
  ASSUME ObligationsInv, BuildsInv, UNCHANGED <<events, month>>, NEW j \in Jobs,
         job' \in [Jobs -> JobStates], DOMAIN period' = Jobs, DOMAIN read' = Jobs,
         \A k \in Jobs \ {j} :
            job'[k] = job[k] /\ period'[k] = period[k] /\ read'[k] = read[k],
         JobOK(j)',
         DOMAIN builds' = Months,
         \A m \in Months : builds'[m] = builds[m] \/ RowOK(m)'
  PROVE  BuildsInv'
<1>1. EventsGrow /\ month \in Nat /\ month' \in Nat /\ month <= month'
  BY DEF ObligationsInv, EventsGrow
<1>2. ASSUME NEW m \in Months PROVE RowOK(m)'
  BY <1>1, RowKeeps DEF BuildsInv
<1>3. ASSUME NEW k \in Jobs PROVE JobOK(k)'
  <2>1. CASE k = j
    BY <2>1
  <2>2. CASE k # j
    BY <1>1, <2>2, JobKeeps DEF BuildsInv
  <2> QED
    BY <2>1, <2>2
<1> QED
  BY <1>2, <1>3 DEF BuildsInv

\* A build that is over holds nothing.
LEMMA EndBuilds ==
  ASSUME BuildsInv, NEW j \in Jobs, NEW state \in {"none", "failed"}, EndBuild(j, state)
  PROVE  /\ job' \in [Jobs -> JobStates] /\ DOMAIN period' = Jobs /\ DOMAIN read' = Jobs
         /\ \A k \in Jobs \ {j} :
               job'[k] = job[k] /\ period'[k] = period[k] /\ read'[k] = read[k]
         /\ JobOK(j)'
<1>1. PICK last \in {"delayed", "none", "failed"} : job' = [job EXCEPT ![j] = last]
  BY DEF EndBuild
<1>2. /\ job' \in [Jobs -> JobStates] /\ DOMAIN period' = Jobs /\ DOMAIN read' = Jobs
      /\ \A k \in Jobs \ {j} :
            job'[k] = job[k] /\ period'[k] = period[k] /\ read'[k] = read[k]
      /\ job'[j] = last /\ read'[j] = Nothing
  BY <1>1 DEF BuildsInv, EndBuild, JobStates
<1>3. DOMAIN read'[j] = {}
  BY <1>2 DEF Nothing
<1>4. JobOK(j)'
  BY <1>2, <1>3 DEF JobOK
<1> QED
  BY <1>2, <1>4

LEMMA StartBuilds ==
  ASSUME ObligationsInv, BuildsInv, NEW j \in Jobs, Start(j)
  PROVE  BuildsInv'
<1>1. /\ job' = [job EXCEPT ![j] = "reading"] /\ period' = [period EXCEPT ![j] = month]
      /\ read' = read /\ builds' = builds /\ UNCHANGED <<events, month>>
      /\ job[j] = "delayed"
  BY DEF Start, obligations, books
<1>2. DOMAIN read[j] = {} /\ month \in 1..month
  BY <1>1 DEF BuildsInv, JobOK, ObligationsInv
<1>3. /\ job' \in [Jobs -> JobStates] /\ DOMAIN period' = Jobs /\ DOMAIN read' = Jobs
      /\ \A k \in Jobs \ {j} :
            job'[k] = job[k] /\ period'[k] = period[k] /\ read'[k] = read[k]
      /\ job'[j] = "reading" /\ period'[j] = month
  BY <1>1 DEF BuildsInv, JobStates
<1>4. JobOK(j)'
  BY <1>1, <1>2, <1>3 DEF JobOK
<1> QED
  BY <1>1, <1>3, <1>4, BuildStep DEF BuildsInv

LEMMA ReadAggregateBuilds ==
  ASSUME ObligationsInv, BuildsInv, NEW j \in Jobs, ReadAggregate(j)
  PROVE  BuildsInv'
<1>1. PICK p : p = period[j]
  OBVIOUS
<1>2. PICK a \in Aggregates \ DOMAIN read[j] :
        read' = [read EXCEPT ![j] = Merged(Only(a, Aggregate(a, p)), @)]
  BY <1>1 DEF ReadAggregate
<1>3. PICK mine : mine = Merged(Only(a, Aggregate(a, p)), read[j])
  OBVIOUS
<1>4. /\ job' = job /\ period' = period /\ builds' = builds
      /\ UNCHANGED <<events, month>> /\ job[j] = "reading"
  BY DEF ReadAggregate, obligations, books
<1>5. /\ read' = [read EXCEPT ![j] = mine] /\ DOMAIN read = Jobs
      /\ JobOK(j) /\ IsSeq(events)
  BY <1>2, <1>3 DEF BuildsInv, ObligationsInv
<1>6. /\ DOMAIN mine = {a} \cup DOMAIN read[j]
      /\ mine[a] = Aggregate(a, p)
      /\ \A t \in DOMAIN read[j] : mine[t] = read[j][t]
  BY <1>2, <1>3 DEF Merged, Only
<1>7. ASSUME a \in EventTypes
      PROVE  mine[a].count = Cardinality(EventsOf(a, p))
  <2>1. mine[a] = EventSummary(a, p)
    BY <1>6, <1>7 DEF Aggregate, EventTypes
  <2> QED
    BY <2>1, SummaryCounts
<1>8. ASSUME NEW t \in DOMAIN mine \cap EventTypes
      PROVE  /\ mine[t].count \in Nat
             /\ mine[t].count <= Cardinality(EventsOf(t, p))
  <2>1. Cardinality(EventsOf(t, p)) \in Nat
    BY <1>5, EventsFinite
  <2>2. CASE t = a
    BY <1>7, <1>8, <2>1, <2>2
  <2>3. CASE t \in DOMAIN read[j]
    BY <1>1, <1>5, <1>6, <1>8, <2>3 DEF JobOK
  <2> QED
    BY <1>6, <2>2, <2>3
<1>9. read'[j] = mine /\ DOMAIN read' = Jobs
      /\ \A k \in Jobs \ {j} : read'[k] = read[k]
  BY <1>5
<1>10. (\A t \in DOMAIN read[j] \cap EventTypes :
          /\ read[j][t].count \in Nat
          /\ read[j][t].count <= Cardinality(EventsOf(t, period[j])))'
  <2>1. ASSUME NEW t \in DOMAIN mine \cap EventTypes
        PROVE  EventsOf(t, p)' = EventsOf(t, p)
    BY <1>4 DEF EventsOf
  <2>2. p = period'[j]
    BY <1>1, <1>4
  <2>3. ASSUME NEW t \in DOMAIN mine \cap EventTypes
        PROVE  /\ mine[t].count \in Nat
               /\ mine[t].count <= Cardinality(EventsOf(t, p)')
    BY <1>8, <2>1
  <2> QED
    BY <1>9, <2>2, <2>3
<1>11. JobOK(j)'
  BY <1>4, <1>5, <1>6, <1>9, <1>10 DEF JobOK
<1> QED
  BY <1>4, <1>9, <1>11, BuildStep DEF BuildsInv

LEMMA ClosePreviousBuilds ==
  ASSUME ObligationsInv, BuildsInv, NEW j \in Jobs, ClosePrevious(j)
  PROVE  BuildsInv'
<1>1. PICK p, balance : p = period[j] /\ balance = read[j]["liquid"]
  OBVIOUS
<1>2. /\ job' = [job EXCEPT ![j] = "storing"] /\ period' = period /\ read' = read
      /\ builds' = Close(p, balance)
      /\ UNCHANGED <<events, month>> /\ job[j] = "reading"
      /\ DOMAIN read[j] = Aggregates
  BY <1>1 DEF ClosePrevious, obligations, books
<1>3. /\ job' \in [Jobs -> JobStates] /\ job'[j] = "storing"
      /\ \A k \in Jobs \ {j} : job'[k] = job[k]
      /\ JobOK(j) /\ DOMAIN builds = Months
  BY <1>2 DEF BuildsInv, JobStates
<1>4. p \in 1..month /\ month \in Nat
  BY <1>1, <1>2, <1>3 DEF JobOK, ObligationsInv
<1>5. JobOK(j)'
  <2>1. (\A t \in DOMAIN read[j] \cap EventTypes :
           /\ read[j][t].count \in Nat
           /\ read[j][t].count <= Cardinality(EventsOf(t, period[j])))'
    BY <1>2, <1>3 DEF JobOK, EventsOf
  <2> QED
    BY <1>2, <1>3, <2>1 DEF JobOK
<1>6. ASSUME NEW m \in Months PROVE builds'[m] = builds[m] \/ RowOK(m)'
  <2>1. SUFFICES ASSUME m < p, builds[m] # NoBuild,
                        builds'[m] = [builds[m] EXCEPT !.closed = TRUE, !.closing = balance]
                 PROVE  RowOK(m)'
    BY <1>2 DEF Close
  <2>2. RowOK(m) /\ m \in Nat
    BY DaysAssumption DEF BuildsInv, Months
  <2>3. /\ DOMAIN builds'[m] = {"closed", "closing", "data"}
        /\ builds'[m].closed = TRUE /\ builds'[m].data = builds[m].data
    BY <2>1, <2>2 DEF RowOK
  <2>4. m < month'
    BY <1>2, <1>4, <2>1, <2>2
  <2>5. (\A t \in Stored \cap EventTypes :
           /\ builds[m].data[t].count \in Nat
           /\ builds[m].data[t].count <= Cardinality(EventsOf(t, m)))'
    BY <1>2, <2>1, <2>2, <2>3 DEF RowOK, EventsOf
  <2> QED
    BY <2>3, <2>4, <2>5 DEF RowOK
<1>7. DOMAIN builds' = Months
  BY <1>2 DEF Close
<1> QED
  BY <1>2, <1>3, <1>5, <1>6, <1>7, BuildStep DEF BuildsInv

LEMMA StoreBuilds ==
  ASSUME ObligationsInv, BuildsInv, NEW j \in Jobs, Store(j)
  PROVE  BuildsInv'
<1>1. PICK p, data : p = period[j] /\ data = [a \in Stored |-> read[j][a]]
  OBVIOUS
<1>2. /\ EndBuild(j, "none") /\ builds' = Upsert(p, data)
      /\ UNCHANGED <<events, month>> /\ job[j] = "storing"
  BY <1>1 DEF Store, obligations, books
<1>3. JobOK(j) /\ DOMAIN builds = Months /\ DOMAIN read[j] = Aggregates
      /\ month \in 1..MaxMonth
  BY <1>2 DEF BuildsInv, JobOK, ObligationsInv
<1>4. p \in 1..month /\ p \in Months
  BY <1>1, <1>2, <1>3, DaysAssumption DEF JobOK, Months
<1>5. PICK row : row = IF builds[p] = NoBuild
                       THEN [closed |-> FALSE, closing |-> 0, data |-> data]
                       ELSE [builds[p] EXCEPT !.data = data]
  OBVIOUS
<1>6. builds' = [builds EXCEPT ![p] = row]
  BY <1>2, <1>5 DEF Upsert
<1>7. RowOK(p)
  BY <1>4 DEF BuildsInv
<1>8. /\ DOMAIN row = {"closed", "closing", "data"} /\ row.data = data
      /\ row.closed \in BOOLEAN /\ (row.closed => p < month)
  <2>1. CASE builds[p] = NoBuild
    BY <1>5, <2>1
  <2>2. CASE builds[p] # NoBuild
    BY <1>5, <1>7, <2>2 DEF RowOK
  <2> QED
    BY <2>1, <2>2
<1>9. ASSUME NEW t \in Stored \cap EventTypes
      PROVE  data[t].count \in Nat /\ data[t].count <= Cardinality(EventsOf(t, p))
  <2>1. t \in DOMAIN read[j] \cap EventTypes /\ data[t] = read[j][t]
    BY <1>1, <1>3 DEF Stored
  <2> QED
    BY <1>1, <1>3, <2>1 DEF JobOK
<1>10. ASSUME NEW m \in Months PROVE builds'[m] = builds[m] \/ RowOK(m)'
  <2>1. CASE m # p
    BY <1>3, <1>6, <2>1
  <2>2. CASE m = p
    <3>1. builds'[m] = row
      BY <1>3, <1>6, <2>2
    <3>2. (\A t \in Stored \cap EventTypes :
             /\ builds[m].data[t].count \in Nat
             /\ builds[m].data[t].count <= Cardinality(EventsOf(t, m)))'
      BY <1>2, <1>8, <1>9, <2>2, <3>1 DEF EventsOf
    <3> QED
      BY <1>2, <1>8, <2>2, <3>1, <3>2 DEF RowOK
  <2> QED
    BY <2>1, <2>2
<1>11. DOMAIN builds' = Months
  BY <1>3, <1>6
<1> QED
  BY <1>2, <1>10, <1>11, EndBuilds, BuildStep
LEMMA BuildFailsBuilds ==
  ASSUME ObligationsInv, BuildsInv, NEW j \in Jobs, BuildFails(j)
  PROVE  BuildsInv'
<1>1. /\ EndBuild(j, "failed") /\ builds' = builds /\ UNCHANGED <<events, month>>
  BY DEF BuildFails, books
<1> QED
  BY <1>1, EndBuilds, BuildStep DEF BuildsInv

LEMMA ScheduleRebuildBuilds ==
  ASSUME ObligationsInv, BuildsInv, ScheduleRebuild
  PROVE  BuildsInv'
<1>1. /\ job' = [job EXCEPT !["rebuild"] = "delayed"] /\ job["rebuild"] = "none"
      /\ UNCHANGED <<events, month, builds, period, read>>
  BY DEF ScheduleRebuild, obligations, books
<1>2. "rebuild" \in Jobs
  BY DEF Jobs
<1>3. /\ job' \in [Jobs -> JobStates] /\ job'["rebuild"] = "delayed"
      /\ \A k \in Jobs \ {"rebuild"} : job'[k] = job[k]
  BY <1>1, <1>2 DEF BuildsInv, JobStates
<1>4. DOMAIN read["rebuild"] = {}
  BY <1>1, <1>2 DEF BuildsInv, JobOK
<1>5. JobOK("rebuild")'
  BY <1>1, <1>3, <1>4 DEF JobOK
<1> QED
  BY <1>1, <1>2, <1>3, <1>5, BuildStep DEF BuildsInv

LEMMA ObligationsBuilds ==
  ASSUME ObligationsInv, BuildsInv, UNCHANGED <<builds, job, period, read>>,
         EventsGrow, month' \in Nat, month <= month'
  PROVE  BuildsInv'
<1>1. month \in Nat
  BY DEF ObligationsInv
<1>2. \A m \in Months : RowOK(m)'
  BY <1>1, RowKeeps DEF BuildsInv
<1>3. \A j \in Jobs : JobOK(j)'
  BY <1>1, JobKeeps DEF BuildsInv
<1> QED
  BY <1>2, <1>3 DEF BuildsInv

LEMMA InitMonthly == Init => MonthlyInv
  BY InitObligations, InitBuilds DEF Init, MonthlyInv

LEMMA NextMonthly == MonthlyInv /\ [Next]_vars => MonthlyInv'
<1> SUFFICES ASSUME ObligationsInv, BuildsInv, [Next]_vars
             PROVE  ObligationsInv' /\ BuildsInv'
  BY DEF MonthlyInv
<1>1. CASE ObligationsNext /\ UNCHANGED buildVars
  BY <1>1, NextObligations, ObligationsGrow, ObligationsBuilds DEF buildVars
<1>2. ASSUME UNCHANGED <<obligations, builds, job, period, read>>
      PROVE  ObligationsInv' /\ BuildsInv'
  <2>1. ObligationsInv'
    BY <1>2, OthersKeepObligations DEF obligations
  <2>2. EventsGrow /\ month' \in Nat /\ month <= month'
    BY <1>2 DEF ObligationsInv, EventsGrow, obligations, books
  <2> QED
    BY <1>2, <2>1, <2>2, ObligationsBuilds
<1>3. CASE TakeSnapshot
  BY <1>2, <1>3 DEF TakeSnapshot
<1>4. CASE ScheduleRebuild
  BY <1>4, ScheduleRebuildBuilds, OthersKeepObligations DEF ScheduleRebuild, obligations
<1>5. ASSUME NEW j \in Jobs, Building(j) \/ BuildFails(j)
      PROVE  ObligationsInv' /\ BuildsInv'
  <2>1. UNCHANGED <<books, month, lastId, pc, memory>>
    BY <1>5 DEF Building, Start, ReadAggregate, ClosePrevious, Store, BuildFails,
                obligations
  <2>2. BuildsInv'
    BY <1>5, StartBuilds, ReadAggregateBuilds, ClosePreviousBuilds, StoreBuilds,
       BuildFailsBuilds DEF Building
  <2> QED
    BY <2>1, <2>2, OthersKeepObligations
<1>6. CASE UNCHANGED vars
  BY <1>2, <1>6 DEF vars, buildVars
<1> QED
  BY <1>1, <1>3, <1>4, <1>5, <1>6 DEF Next

-----------------------------------------------------------------------------
(* What the properties of MonthlyBuild ask.                                *)

LEMMA RowsOfTheirMonths == MonthlyInv => RowOfItsMonth
<1> SUFFICES ASSUME MonthlyInv, NEW m \in Months, builds[m] # NoBuild
             PROVE  /\ \A t \in Stored \cap EventTypes :
                          builds[m].data[t].count <=
                             Quantify(DOMAIN events, LAMBDA k : /\ events[k].type = t
                                                                /\ events[k].month = m)
                    /\ builds[m].closed => m < month
  BY DEF RowOfItsMonth
<1>1. RowOK(m)
  BY DEF MonthlyInv, BuildsInv
<1>2. ASSUME NEW t \in Stored \cap EventTypes
      PROVE  builds[m].data[t].count <=
                Quantify(DOMAIN events, LAMBDA k : /\ events[k].type = t
                                                   /\ events[k].month = m)
  BY <1>1 DEF RowOK, EventsOf, Quantify
<1> QED
  BY <1>1, <1>2 DEF RowOK

\* Only two steps write the table of builds.
LEMMA HistoryStep ==
  ASSUME MonthlyInv, [Next]_vars, NEW m \in Months, builds[m] # NoBuild, builds[m].closed
  PROVE  /\ builds'[m].closed
         /\ builds'[m].closing = builds[m].closing
         /\ (\A j \in Jobs : period[j] # m) => builds'[m] = builds[m]
<1>1. RowOK(m) /\ DOMAIN builds = Months
  BY DEF MonthlyInv, BuildsInv
<1>2. CASE builds' = builds
  BY <1>2
<1>3. ASSUME NEW j \in Jobs, ClosePrevious(j) PROVE builds'[m] = builds[m]
  BY <1>3 DEF ClosePrevious, Close
<1>4. ASSUME NEW j \in Jobs, Store(j)
      PROVE  /\ builds'[m].closed
             /\ builds'[m].closing = builds[m].closing
             /\ (\A k \in Jobs : period[k] # m) => builds'[m] = builds[m]
  <2>1. PICK p, data : p = period[j] /\ data = [a \in Stored |-> read[j][a]]
    OBVIOUS
  <2>2. builds' = Upsert(p, data)
    BY <1>4, <2>1 DEF Store
  <2>3. CASE p = m
    <3>1. builds'[m] = [builds[m] EXCEPT !.data = data]
      BY <1>1, <2>2, <2>3 DEF Upsert
    <3>2. builds'[m].closed = builds[m].closed /\ builds'[m].closing = builds[m].closing
      BY <1>1, <3>1 DEF RowOK
    <3> QED
      BY <2>1, <2>3, <3>2
  <2>4. CASE p # m
    <3>1. builds'[m] = builds[m]
      BY <1>1, <2>2, <2>4 DEF Upsert
    <3> QED
      BY <3>1
  <2> QED
    BY <2>3, <2>4
<1>5. ASSUME NEW j \in Jobs, Start(j) \/ ReadAggregate(j) \/ BuildFails(j)
      PROVE  builds' = builds
  BY <1>5 DEF Start, ReadAggregate, BuildFails
<1>6. CASE (ObligationsNext /\ UNCHANGED buildVars) \/ TakeSnapshot \/ ScheduleRebuild
  BY <1>2, <1>6 DEF buildVars, TakeSnapshot, ScheduleRebuild
<1>7. CASE UNCHANGED vars
  BY <1>2, <1>7 DEF vars, buildVars
<1> QED
  BY <1>2, <1>3, <1>4, <1>5, <1>6, <1>7 DEF Next, Building

\* Chains, drafts, invoices, builds and rows are as this module says, in every
\* state that the requests, the jobs and the clock can reach.
THEOREM MonthlyInvariant == Spec => []MonthlyInv
  BY InitMonthly, NextMonthly, PTL DEF Spec

\* No two invoices of a card fall due on one date while every invoice was made
\* by a creation that registers events (CreateInvoiceUseCase under the lock of
\* FinancialEventsRepository.getLastEvent).
THEOREM InvoicesDifferCorrect == Spec => []InvoicesDiffer
<1>1. MonthlyInv => InvoicesDiffer
  BY InvoicesInOrder DEF MonthlyInv
<1> QED
  BY <1>1, MonthlyInvariant, PTL

\* The row of a month counts only events of that month and is closed only
\* after it (LedgerMonthlyBuildService.build), whenever the clock turns.
THEOREM RowOfItsMonthCorrect == Spec => []RowOfItsMonth
  BY RowsOfTheirMonths, MonthlyInvariant, PTL

\* A closed month keeps its closing balance, and only a build of that month
\* writes its row again (closePreviousPeriod and the upsert).
THEOREM HistoryStandsCorrect == Spec => HistoryStands
<1>1. MonthlyInv /\ [Next]_vars =>
        [\A m \in Months :
           (builds[m] # NoBuild /\ builds[m].closed) =>
              /\ builds'[m].closed
              /\ builds'[m].closing = builds[m].closing
              /\ (\A j \in Jobs : period[j] # m) => builds'[m] = builds[m]]_vars
  BY HistoryStep
<1> QED
  BY <1>1, MonthlyInvariant, PTL DEF Spec, HistoryStands
=============================================================================
