----------------------------- MODULE MonthlyBuild -----------------------------
(***************************************************************************)
(* The monthly summary of a tenant's books (LedgerMonthlyBuildService),    *)
(* built by jobs of the appointments worker while the requests of          *)
(* Obligations go on: the recurrent job of every night and the rebuild a   *)
(* user asks for, which may run at the same time.  Every aggregate is a    *)
(* SELECT of its own on a connection of its own, and the clock may turn    *)
(* between any two.                                                        *)
(*                                                                         *)
(* The open charges are not among the aggregates: nothing here charges.    *)
(***************************************************************************)
EXTENDS Obligations

CONSTANTS
  Aggregates,  \* those of the sixteen aggregates that the instance looks at
  NoBuild      \* a month without a row

ASSUME AggregatesAssumption ==
  /\ Aggregates \subseteq
       EventTypes \cup {"pendingExpenses", "pendingRevenues", "liquid"}
  /\ "liquid" \in Aggregates

VARIABLES
  builds,    \* table ledger_monthly_builds, by period
  job,       \* state of the daily job and of the rebuild job in the queue
  period,    \* the month each running build took from the clock
  read,      \* the aggregates each running build has read
  snapshot   \* the sum of the newest ledger_snapshots of the accounts

buildVars == <<builds, job, period, read, snapshot>>
vars == <<obligations, buildVars>>

Jobs == {"daily", "rebuild"}
Months == 1..MaxMonth
Stored == Aggregates \ {"liquid"}

Init ==
  /\ ObligationsInit
  /\ builds = [m \in Months |-> NoBuild]
  /\ job = [j \in Jobs |-> IF j = "daily" THEN "delayed" ELSE "none"]
  /\ period = [j \in Jobs |-> 0]
  /\ read = [j \in Jobs |-> Nothing]
  /\ snapshot = 0

-----------------------------------------------------------------------------
(* Aggregates, over what is committed.                                     *)

SumOf(S, f(_)) == FoldSet(LAMBDA x, sum : sum + f(x), 0, S)

\* Mutant: BETWEEN loses its upper end.
EventSummaryToNow(type, m) ==
  LET found == {k \in DOMAIN events : /\ events[k].type = type
                                      /\ events[k].month >= m}
  IN  [count |-> Cardinality(found),
       total |-> SumOf(found, LAMBDA k : events[k].amount)]

\* getEventSummaryForPeriod
EventSummary(type, m) ==
  LET found == {k \in DOMAIN events : /\ events[k].type = type
                                      /\ events[k].month = m}
  IN  [count |-> Cardinality(found),
       total |-> SumOf(found, LAMBDA k : events[k].amount)]

\* getPendingExpenses and getPendingRevenues: what is unpaid now, of any month.
Pending(kind) ==
  SumOf({i \in DOMAIN rows : /\ rows[i].kind = kind
                             /\ rows[i].status \in {"pending", "partial"}},
        LAMBDA i : rows[i].value)

Aggregate(a, m) ==
  CASE a \in EventTypes         -> EventSummary(a, m)
    [] a = "pendingExpenses"    -> Pending("expense")
    [] a = "pendingRevenues"    -> Pending("revenue")
    [] a = "liquid"             -> snapshot

\* The cash of all accounts together, as the ledger has it.
Liquid ==
  SumOf({k \in DOMAIN events : DestinationLiquidity(events[k])},
        LAMBDA k : DestinationAmount(events[k]))

-----------------------------------------------------------------------------
\* The job of LedgerSnapshotService brings the newest snapshots up to date.
TakeSnapshot ==
  /\ snapshot # Liquid
  /\ snapshot' = Liquid
  /\ UNCHANGED <<obligations, builds, job, period, read>>

\* scheduleRebuild: the queue ignores a job whose id it still has, and it
\* keeps the id of a failed job.
ScheduleRebuild ==
  /\ job["rebuild"] = "none"
  /\ job' = [job EXCEPT !["rebuild"] = "delayed"]
  /\ UNCHANGED <<obligations, builds, period, read, snapshot>>

\* A worker takes the job and build() takes the month from the clock.
Start(j) ==
  /\ job[j] = "delayed"
  /\ job' = [job EXCEPT ![j] = "reading"]
  /\ period' = [period EXCEPT ![j] = month]
  /\ UNCHANGED <<obligations, builds, read, snapshot>>

\* One of the SELECTs of Promise.all returns; they do so in any order.
ReadAggregate(j) ==
  /\ job[j] = "reading"
  /\ \E a \in Aggregates \ DOMAIN read[j] :
       read' = [read EXCEPT ![j] = Merged(Only(a, Aggregate(a, period[j])), @)]
  /\ UNCHANGED <<obligations, builds, job, period, snapshot>>

\* Mutant: the UPDATE without closedAt IS NULL.
CloseAgain(p, balance) ==
  [m \in Months |->
     IF m < p /\ builds[m] # NoBuild
     THEN [builds[m] EXCEPT !.closed = TRUE, !.closing = balance]
     ELSE builds[m]]

\* closePreviousPeriod
Close(p, balance) ==
  [m \in Months |->
     IF m < p /\ builds[m] # NoBuild /\ ~builds[m].closed
     THEN [builds[m] EXCEPT !.closed = TRUE, !.closing = balance]
     ELSE builds[m]]

ClosePrevious(j) ==
  /\ job[j] = "reading"
  /\ DOMAIN read[j] = Aggregates
  /\ builds' = Close(period[j], read[j]["liquid"])
  /\ job' = [job EXCEPT ![j] = "storing"]
  /\ UNCHANGED <<obligations, period, read, snapshot>>

\* Mutant: an INSERT IGNORE.
UpsertOnce(p, data) ==
  [builds EXCEPT ![p] =
     IF @ = NoBuild THEN [closed |-> FALSE, closing |-> 0, data |-> data]
     ELSE @]

\* ON DUPLICATE KEY UPDATE leaves closedAt and closingBalance alone.
Upsert(p, data) ==
  [builds EXCEPT ![p] =
     IF @ = NoBuild THEN [closed |-> FALSE, closing |-> 0, data |-> data]
     ELSE [@ EXCEPT !.data = data]]

\* The job is over; a finished rebuild leaves the queue, the daily one has its
\* next turn.
EndBuild(j, rebuild) ==
  /\ job' = [job EXCEPT ![j] = IF j = "daily" THEN "delayed" ELSE rebuild]
  /\ period' = [period EXCEPT ![j] = 0]
  /\ read' = [read EXCEPT ![j] = Nothing]

Store(j) ==
  /\ job[j] = "storing"
  /\ builds' = Upsert(period[j],
                      [a \in Stored |-> read[j][a]])
  /\ EndBuild(j, "none")
  /\ UNCHANGED <<obligations, snapshot>>

\* A statement of the build fails, before or after the months were closed: the
\* job fails, it has no attempts left.
BuildFails(j) ==
  /\ job[j] \in {"reading", "storing"}
  /\ failures < MaxFailures
  /\ failures' = failures + 1
  /\ EndBuild(j, "failed")
  /\ UNCHANGED <<books, month, lastId, pc, memory, builds, snapshot>>

Building(j) == Start(j) \/ ReadAggregate(j) \/ ClosePrevious(j) \/ Store(j)

Next ==
  \/ ObligationsNext /\ UNCHANGED buildVars
  \/ TakeSnapshot
  \/ ScheduleRebuild
  \/ \E j \in Jobs : Building(j) \/ BuildFails(j)

Spec == Init /\ [][Next]_vars

\* The worker takes jobs as they fall due and its statements return.
FairSpec == Spec /\ \A j \in Jobs : WF_vars(Building(j))

-----------------------------------------------------------------------------
(* Correctness.                                                            *)

\* The row of a month never shows more than happened in that month, even when
\* the month turns in the middle of the build, and it is closed only after
\* the month is over.
RowOfItsMonth ==
  \A m \in Months :
     builds[m] # NoBuild =>
        /\ \A t \in Stored \cap EventTypes :
              builds[m].data[t].count <=
                 Quantify(DOMAIN events, LAMBDA k : /\ events[k].type = t
                                                    /\ events[k].month = m)
        /\ builds[m].closed => m < month

\* A closed month keeps its closing balance for good, and its summary is
\* written again only by a build that began before the month was over.
HistoryStands ==
  [][\A m \in Months :
       (builds[m] # NoBuild /\ builds[m].closed) =>
          /\ builds'[m].closed
          /\ builds'[m].closing = builds[m].closing
          /\ (\A j \in Jobs : period[j] # m) => builds'[m] = builds[m]]_vars

\* Whatever overlapping builds stored in the meantime, once the books rest
\* the row of the current month comes to agree with them and stays so.
CatchesUp ==
  <>[](/\ builds[month] # NoBuild
       /\ \A a \in Stored :
             builds[month].data[a] = Aggregate(a, month))
=============================================================================
