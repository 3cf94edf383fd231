----------------------------- MODULE Migrations -----------------------------
(***************************************************************************)
(* The migration runner (MigrationRunner, MigrationRepository, the CLI and *)
(* the container's entrypoint).  Every container start runs the            *)
(* before-deploy phase and then the execute phase: each reads the          *)
(* registry of versions, runs the statements of those not registered as    *)
(* successful, oldest first, and registers the result.  Nothing stops two  *)
(* containers from doing so at once, and a container may die anywhere.     *)
(*                                                                         *)
(* Statements outside a transaction take effect one by one.  Those of a    *)
(* transactional version are kept in work and take effect at the commit;   *)
(* until then other runs wait for its tables.  A DDL statement commits     *)
(* what is before it and ends the transaction: it and those after it take  *)
(* effect one by one too.                                                  *)
(***************************************************************************)
EXTENDS SchemaHistory, SequencesExt

CONSTANTS
  Runs,      \* containers that may run the migrations at the same time
  Plan,      \* the discovered versions, sorted
  MaxStarts  \* bound on container starts, restarts included

\* Versions are listed, and so are the statements of each phase.
ASSUME PlanAssumption ==
  /\ Plan \in Seq(Range(Plan))
  /\ \A v \in DOMAIN Plan :
       /\ Plan[v].execute \in Seq(Range(Plan[v].execute))
       /\ Plan[v].beforeDeploy \in Seq(Range(Plan[v].beforeDeploy))
       /\ Plan[v].transactional \in BOOLEAN

VARIABLES
  starts,    \* container starts so far
  db,        \* the schema, as in SchemaHistory
  registry,  \* table schema_migrations: "none", "success" or "failed"
  ran,       \* history: the statements that took effect at least once
  pc,        \* where each run stands
  phase,     \* the phase it is in
  pending,   \* the versions it has left to run in that phase
  at,        \* the statement it runs next
  work       \* the statements of its open transaction

vars == <<starts, db, registry, ran, pc, phase, pending, at, work>>

Versions == DOMAIN Plan
Phases == {"beforeDeploy", "execute"}
Places == UNION {{<<p, v, i>> : i \in DOMAIN Plan[v][p]} : p \in Phases, v \in Versions}

Init ==
  /\ starts = 0
  /\ db = BaseSchema
  /\ registry = [v \in Versions |-> "none"]
  /\ ran = {}
  /\ pc = [r \in Runs |-> "down"]
  /\ phase = [r \in Runs |-> "beforeDeploy"]
  /\ pending = [r \in Runs |-> {}]
  /\ at = [r \in Runs |-> 1]
  /\ work = [r \in Runs |-> <<>>]

-----------------------------------------------------------------------------
Goto(r, state) == pc' = [pc EXCEPT ![r] = state]

Current(r) == Min(pending[r])
Steps(r) == Plan[Current(r)][phase[r]]
Place(r) == <<phase[r], Current(r), at[r]>>

\* The next statement belongs to a transaction: the version asks for one and
\* no DDL statement ended it.
InTransaction(r) ==
  /\ Plan[Current(r)].transactional
  /\ \A i \in 1..at[r] : i \in DOMAIN Steps(r) => ~IsDDL(Steps(r)[i])

\* The statements that its open transaction holds, and what they do.
WorkPlaces(r) == {<<phase[r], Current(r), i>> : i \in DOMAIN work[r]}

\* What the run sees: the schema and its own uncommitted statements.
View(r) == FoldLeft(LAMBDA d, s : Result(s, d), db, work[r])

\* A row or metadata lock of another run's transaction.
Locked(r, s) == \E q \in Runs \ {r} :
                  \E i \in DOMAIN work[q] : work[q][i].table = s.table

\* The container starts: entrypoint.sh runs the before-deploy phase.
Start(r) ==
  /\ pc[r] = "down" /\ starts < MaxStarts
  /\ starts' = starts + 1
  /\ Goto(r, "read")
  /\ phase' = [phase EXCEPT ![r] = "beforeDeploy"]
  /\ UNCHANGED <<db, registry, ran, pending, at, work>>

\* getExecutedVersions
GetExecutedVersions == {v \in Versions : registry[v] = "success"}

\* The phase is over: the next one, or the application starts.
EndPhase(r) ==
  \/ /\ phase[r] = "beforeDeploy"
     /\ phase' = [phase EXCEPT ![r] = "execute"]
     /\ Goto(r, "read")
  \/ /\ phase[r] = "execute"
     /\ Goto(r, "up")
     /\ UNCHANGED phase

\* runPhase: the versions to run, without those that have no steps in it.
ReadRegistry(r) ==
  LET left == {v \in Versions \ GetExecutedVersions : Plan[v][phase[r]] # <<>>}
  IN  /\ pc[r] = "read"
      /\ pending' = [pending EXCEPT ![r] = left]
      /\ at' = [at EXCEPT ![r] = 1]
      /\ IF left = {} THEN EndPhase(r) ELSE Goto(r, "steps") /\ UNCHANGED phase
      /\ UNCHANGED <<starts, db, registry, ran, work>>

\* runMigration: the next statement of the version.
Execute(r) ==
  /\ pc[r] = "steps" /\ at[r] \in DOMAIN Steps(r)
  /\ LET s == Steps(r)[at[r]]
     IN  /\ ~Locked(r, s)
         /\ ~Refused(s, View(r))
         /\ IF InTransaction(r)
            THEN work' = [work EXCEPT ![r] = Append(@, s)] /\ UNCHANGED <<db, ran>>
            ELSE /\ work[r] = <<>>
                 /\ db' = Result(s, db) /\ ran' = ran \cup {Place(r)}
                 /\ UNCHANGED work
  /\ at' = [at EXCEPT ![r] = @ + 1]
  /\ UNCHANGED <<starts, registry, pc, phase, pending>>

\* MySQL commits the open transaction before it looks at a DDL statement.
ImplicitCommit(r) ==
  /\ pc[r] = "steps" /\ at[r] \in DOMAIN Steps(r)
  /\ work[r] # <<>> /\ IsDDL(Steps(r)[at[r]])
  /\ db' = View(r)
  /\ ran' = ran \cup WorkPlaces(r)
  /\ work' = [work EXCEPT ![r] = <<>>]
  /\ UNCHANGED <<starts, registry, pc, phase, pending, at>>

\* Mutant: the steps of the migration are not awaited.
RegisterUnawaited(r) ==
  LET left == pending[r] \ {Current(r)}
  IN  /\ pc[r] = "steps"
      /\ registry' = IF phase[r] = "execute"
                     THEN [registry EXCEPT ![Current(r)] = "success"] ELSE registry
      /\ pending' = [pending EXCEPT ![r] = left]
      /\ at' = [at EXCEPT ![r] = 1]
      /\ IF left = {} THEN EndPhase(r) ELSE UNCHANGED <<pc, phase>>
      /\ work' = [work EXCEPT ![r] = <<>>]
      /\ UNCHANGED <<starts, db, ran>>

\* All of them ran: registerSuccess in the execute phase, and the commit.
Register(r) ==
  LET left == pending[r] \ {Current(r)}
  IN  /\ pc[r] = "steps" /\ at[r] \notin DOMAIN Steps(r)
      /\ registry' = IF phase[r] = "execute"
                     THEN [registry EXCEPT ![Current(r)] = "success"] ELSE registry
      /\ db' = View(r)
      /\ ran' = ran \cup WorkPlaces(r)
      /\ work' = [work EXCEPT ![r] = <<>>]
      /\ pending' = [pending EXCEPT ![r] = left]
      /\ at' = [at EXCEPT ![r] = 1]
      /\ IF left = {} THEN EndPhase(r) ELSE UNCHANGED <<pc, phase>>
      /\ UNCHANGED starts

\* A statement is an error: roll back and stop; a detached one ends the
\* process before the runner sees it.  (The driver may have sent the next
\* detached INSERT by then; the model runs what the process had awaited or
\* queued before the error and nothing after it.)
Refuse(r) ==
  /\ pc[r] = "steps" /\ at[r] \in DOMAIN Steps(r)
  /\ InTransaction(r) \/ work[r] = <<>>
  /\ LET s == Steps(r)[at[r]]
     IN  /\ ~Locked(r, s)
         /\ Refused(s, View(r))
         /\ Goto(r, IF phase[r] = "execute" /\ s.kind # "insert detached"
                    THEN "register failure" ELSE "down")
  /\ work' = [work EXCEPT ![r] = <<>>]
  /\ UNCHANGED <<starts, db, registry, ran, phase, pending, at>>

\* Mutant: the error is registered and the run goes on with the next version.
RegisterFailureAndGoOn(r) ==
  LET left == pending[r] \ {Current(r)}
  IN  /\ pc[r] = "register failure"
      /\ registry' = [registry EXCEPT ![Current(r)] = "failed"]
      /\ pending' = [pending EXCEPT ![r] = left]
      /\ at' = [at EXCEPT ![r] = 1]
      /\ Goto(r, IF left = {} THEN "up" ELSE "steps")
      /\ UNCHANGED <<starts, db, ran, phase, work>>

\* registerFailure, on a connection of its own; then the process ends.
RegisterFailure(r) ==
  /\ pc[r] = "register failure"
  /\ registry' = [registry EXCEPT ![Current(r)] = "failed"]
  /\ Goto(r, "down")
  /\ UNCHANGED <<starts, db, ran, phase, pending, at, work>>

\* The container is killed or redeployed; its connection's transaction is
\* rolled back.
Crash(r) ==
  /\ pc[r] # "down"
  /\ Goto(r, "down")
  /\ work' = [work EXCEPT ![r] = <<>>]
  /\ UNCHANGED <<starts, db, registry, ran, phase, pending, at>>

Next == \E r \in Runs :
  Start(r) \/ ReadRegistry(r) \/ Execute(r) \/ ImplicitCommit(r)
    \/ Register(r) \/ Refuse(r) \/ RegisterFailure(r) \/ Crash(r)

Spec == Init /\ [][Next]_vars

-----------------------------------------------------------------------------
(* Correctness *)

TypeOK ==
  /\ registry \in [Versions -> {"none", "success", "failed"}]
  /\ ran \subseteq Places
  /\ pc \in [Runs -> {"down", "read", "steps", "register failure", "up"}]
  /\ phase \in [Runs -> Phases]
  /\ pending \in [Runs -> SUBSET Versions]
  /\ \A r \in Runs :
       /\ pc[r] \in {"steps", "register failure"} => pending[r] # {}
       /\ work[r] # <<>> => pc[r] = "steps" /\ Plan[Current(r)].transactional

\* A version registered as successful has had every statement of its execute
\* phase take effect, whatever crashed, failed or overlapped.
SuccessIsApplied == \A v \in Versions :
  registry[v] = "success" =>
    \A i \in DOMAIN Plan[v].execute : <<"execute", v, i>> \in ran

\* The statements that took effect are a prefix of the history: none of a
\* version before all those of the older ones.
RanIsPrefix == \A v \in Versions :
  (\E x \in ran : x[1] = "execute" /\ x[2] > v) =>
    \A i \in DOMAIN Plan[v].execute : <<"execute", v, i>> \in ran

\* The 21 versions fit together: a statement fails only because it took
\* effect before, or, for the unique key on modules, because one of the
\* inserts before it was repeated.
FailsOnlyOnRepeats == [][\A r \in Runs :
  Refuse(r) =>
    \/ Place(r) \in ran
    \/ /\ Steps(r)[at[r]].kind = "add unique"
       /\ RowsTwice(Steps(r)[at[r]].table, db)]_vars
=============================================================================
