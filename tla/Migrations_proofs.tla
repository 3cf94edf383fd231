------------------------- MODULE Migrations_proofs -------------------------
(***************************************************************************)
(* Proofs about the migration runner, for any versions with any statements *)
(* and any number of containers, starts and crashes.                       *)
(*                                                                         *)
(* What counts as applied is decided by a registry that the runner writes  *)
(* after the statements, and read by runs that overlap.  MigrationsInv     *)
(* follows one run: the statements behind it took effect, or are in its    *)
(* open transaction (RunOK), and every version it does not have left to    *)
(* run was applied.  So the next statement of any run comes after all of   *)
(* the older versions, whoever ran them, and a version is registered when  *)
(* nothing of it is missing.                                               *)
(***************************************************************************)
EXTENDS Migrations, WellFoundedInduction, TLAPS

Statements == UNION {Range(Plan[v][p]) : v \in Versions, p \in Phases}

\* Every statement of the execute phase of v took effect.
Applied(v) == \A i \in DOMAIN Plan[v].execute : <<"execute", v, i>> \in ran

Typed ==
  /\ registry \in [Versions -> {"none", "success", "failed"}]
  /\ ran \subseteq Places
  /\ pc \in [Runs -> {"down", "read", "steps", "register failure", "up"}]
  /\ phase \in [Runs -> Phases]
  /\ pending \in [Runs -> SUBSET Versions]
  /\ at \in [Runs -> Nat]
  /\ work \in [Runs -> Seq(Statements)]

\* The transaction of the current version holds all that is behind the run.
AllHeld(r) ==
  /\ Plan[Current(r)].transactional
  /\ \A i \in 1..(at[r] - 1) : ~IsDDL(Steps(r)[i])
  /\ Len(work[r]) = at[r] - 1

\* There is no transaction (any more): all that is behind it took effect.
NothingHeld(r) ==
  /\ ~InTransaction(r)
  /\ work[r] = <<>>
  /\ \A i \in 1..(at[r] - 1) : <<phase[r], Current(r), i>> \in ran

\* The statements of the current version that the run has behind it.
BehindOK(r) ==
  /\ at[r] \in 1..(Len(Steps(r)) + 1)
  /\ AllHeld(r) \/ NothingHeld(r)

RunOK(r) ==
  /\ pc[r] \in {"steps", "register failure"} => pending[r] # {}
  /\ pc[r] # "steps" => work[r] = <<>>
  /\ pc[r] = "steps" => BehindOK(r)
  /\ pc[r] = "steps" /\ phase[r] = "execute" =>
       \A v \in Versions \ pending[r] : Applied(v)

MigrationsInv ==
  /\ Typed
  /\ \A r \in Runs : RunOK(r)
  /\ SuccessIsApplied
  /\ RanIsPrefix

-----------------------------------------------------------------------------
(* Versions and their statements.                                          *)

LEMMA VersionsAreNumbers == Versions \subseteq Nat
  BY PlanAssumption DEF Versions

LEMMA StepsAreStatements ==
  ASSUME NEW v \in Versions, NEW p \in Phases
  PROVE  Plan[v][p] \in Seq(Statements)
<1>1. Plan[v][p] \in Seq(Range(Plan[v][p]))
  BY PlanAssumption DEF Versions, Phases
<1>2. Range(Plan[v][p]) \subseteq Statements
  BY DEF Statements
<1> QED
  BY <1>1, <1>2

LEMMA EmptyWork == <<>> \in Seq(Statements)
  OBVIOUS

\* A nonempty set of numbers has a smallest one.
LEMMA OldestVersion ==
  ASSUME NEW S \in SUBSET Nat, S # {}
  PROVE  Min(S) \in S /\ \A v \in S : Min(S) <= v
<1>1. PICK R : R = OpToRel(<, Nat)
  OBVIOUS
<1>2. IsWellFoundedOn(R, Nat)
  BY <1>1, NatLessThanWellFounded
<1>3. PICK m \in S : \A v \in S : <<v, m>> \notin R
  BY <1>2, WFMin
<1>4. \A v \in S : ~(v < m)
  BY <1>1, <1>3 DEF OpToRel
<1>5. \E n \in S : \A v \in S : n <= v
  BY <1>4
<1> QED
  BY <1>5 DEF Min

LEMMA OldestSteps ==
  ASSUME NEW S \in SUBSET Versions, S # {}, NEW p \in Phases
  PROVE  /\ Min(S) \in S /\ \A v \in S : Min(S) <= v
         /\ Plan[Min(S)][p] \in Seq(Statements)
<1>1. S \in SUBSET Nat
  BY VersionsAreNumbers
<1>2. Min(S) \in S /\ \A v \in S : Min(S) <= v
  BY <1>1, OldestVersion
<1> QED
  BY <1>2, StepsAreStatements

\* The version a run is at is one of those it has left, and the oldest.
LEMMA CurrentIs ==
  ASSUME Typed, NEW r \in Runs, pending[r] # {}
  PROVE  /\ Current(r) \in pending[r] /\ Current(r) \in Versions
         /\ \A v \in pending[r] : Current(r) <= v
         /\ Steps(r) \in Seq(Statements)
<1>1. pending[r] \in SUBSET Versions /\ phase[r] \in Phases
  BY DEF Typed
<1> QED
  BY <1>1, OldestSteps DEF Current, Steps

LEMMA PlaceIs ==
  ASSUME NEW v \in Versions, NEW p \in Phases, NEW i \in DOMAIN Plan[v][p]
  PROVE  <<p, v, i>> \in Places
<1>1. PICK P : P = {<<p, v, k>> : k \in DOMAIN Plan[v][p]}
  OBVIOUS
<1>2. P \in {{<<q, w, k>> : k \in DOMAIN Plan[w][q]} : q \in Phases, w \in Versions}
  BY <1>1
<1>3. <<p, v, i>> \in P
  BY <1>1
<1> QED
  BY <1>2, <1>3 DEF Places

\* Statements that take effect after all of the older versions.
LEMMA PrefixGrows ==
  ASSUME RanIsPrefix, NEW new, ran' = ran \cup new,
         \A x \in new : x[1] = "execute" =>
            \A v \in Versions : x[2] > v => Applied(v)
  PROVE  RanIsPrefix'
  BY DEF RanIsPrefix, Applied

-----------------------------------------------------------------------------
(* Runs.                                                                   *)

\* A run that does not move: what took effect is still there.
LEMMA OtherRun ==
  ASSUME NEW q, RunOK(q), ran \subseteq ran',
         pc'[q] = pc[q], phase'[q] = phase[q], pending'[q] = pending[q],
         at'[q] = at[q], work'[q] = work[q]
  PROVE  RunOK(q)'
<1>1. /\ Current(q)' = Current(q) /\ Steps(q)' = Steps(q)
      /\ InTransaction(q)' = InTransaction(q)
  BY DEF Current, Steps, InTransaction
<1>2. BehindOK(q) => BehindOK(q)'
  BY <1>1 DEF BehindOK, AllHeld, NothingHeld
<1>3. \A v : Applied(v) => Applied(v)'
  BY DEF Applied
<1> QED
  BY <1>2, <1>3 DEF RunOK

\* What a step of r has to keep: nothing is undone, what takes effect is in
\* order, and only what was applied counts as success.
LEMMA RunStep ==
  ASSUME MigrationsInv, NEW r \in Runs, Typed', RunOK(r)',
         \A q \in Runs \ {r} :
            /\ pc'[q] = pc[q] /\ phase'[q] = phase[q] /\ pending'[q] = pending[q]
            /\ at'[q] = at[q] /\ work'[q] = work[q],
         NEW new, ran' = ran \cup new,
         \A x \in new : x[1] = "execute" =>
            \A v \in Versions : x[2] > v => Applied(v),
         \A v \in Versions : registry'[v] = "success" =>
            registry[v] = "success" \/ Applied(v)'
  PROVE  MigrationsInv'
<1>1. ASSUME NEW q \in Runs PROVE RunOK(q)'
  <2>1. CASE q = r
    BY <2>1
  <2>2. CASE q # r
    BY <2>2, OtherRun DEF MigrationsInv
  <2> QED
    BY <2>1, <2>2
<1>2. RanIsPrefix'
  BY PrefixGrows DEF MigrationsInv
<1>3. \A v \in Versions : Applied(v) => Applied(v)'
  BY DEF Applied
<1>4. SuccessIsApplied'
  BY <1>3 DEF MigrationsInv, SuccessIsApplied, Applied
<1> QED
  BY <1>1, <1>2, <1>4 DEF MigrationsInv

\* A step in which no statement takes effect.
LEMMA QuietStep ==
  ASSUME MigrationsInv, NEW r \in Runs, Typed', RunOK(r)', ran' = ran,
         \A q \in Runs \ {r} :
            /\ pc'[q] = pc[q] /\ phase'[q] = phase[q] /\ pending'[q] = pending[q]
            /\ at'[q] = at[q] /\ work'[q] = work[q],
         \A v \in Versions : registry'[v] = "success" => registry[v] = "success"
  PROVE  MigrationsInv'
<1>1. PICK new : new = {}
  OBVIOUS
<1>2. ran' = ran \cup new /\ \A x \in new : FALSE
  BY <1>1
<1>3. \A x \in new : x[1] = "execute" => \A v \in Versions : x[2] > v => Applied(v)
  BY <1>2
<1>4. \A v \in Versions : registry'[v] = "success" => registry[v] = "success" \/ Applied(v)'
  OBVIOUS
<1> QED
  BY <1>2, <1>3, <1>4, RunStep

LEMMA InitMigrations == Init => MigrationsInv
<1> SUFFICES ASSUME Init PROVE MigrationsInv
  OBVIOUS
<1>1. <<>> \in Seq(Statements)
  OBVIOUS
<1> QED
  BY <1>1 DEF Init, MigrationsInv, Typed, RunOK, SuccessIsApplied, RanIsPrefix, Phases

LEMMA StartKeeps ==
  ASSUME MigrationsInv, NEW r \in Runs, Start(r)
  PROVE  MigrationsInv'
<1>1. /\ pc' = [pc EXCEPT ![r] = "read"] /\ phase' = [phase EXCEPT ![r] = "beforeDeploy"]
      /\ UNCHANGED <<registry, ran, pending, at, work>> /\ pc[r] = "down"
  BY DEF Start, Goto
<1>2. Typed'
  BY <1>1 DEF MigrationsInv, Typed, Phases
<1>3. RunOK(r)'
  BY <1>1 DEF MigrationsInv, Typed, RunOK
<1> QED
  BY <1>1, <1>2, <1>3, QuietStep DEF MigrationsInv, Typed

\* A crash, a refused statement or a registered failure leaves nothing of the
\* run's transaction.
LEMMA StopKeeps ==
  ASSUME MigrationsInv, NEW r \in Runs,
         NEW state \in {"down", "register failure"}, Goto(r, state),
         work' = [work EXCEPT ![r] = <<>>], UNCHANGED <<ran, phase, pending, at>>,
         state = "register failure" => pc[r] = "steps",
         registry' \in [Versions -> {"none", "success", "failed"}],
         \A v \in Versions : registry'[v] = "success" => registry[v] = "success"
  PROVE  MigrationsInv'
<1>1. pc' = [pc EXCEPT ![r] = state]
  BY DEF Goto
<1>2. <<>> \in Seq(Statements)
  BY EmptyWork
<1>3. Typed'
  BY <1>1, <1>2 DEF MigrationsInv, Typed
<1>4. RunOK(r)'
  BY <1>1 DEF MigrationsInv, Typed, RunOK
<1> QED
  BY <1>1, <1>3, <1>4, QuietStep DEF MigrationsInv, Typed

LEMMA CrashKeeps ==
  ASSUME MigrationsInv, NEW r \in Runs, Crash(r)
  PROVE  MigrationsInv'
  BY StopKeeps DEF Crash, MigrationsInv, Typed

LEMMA RefuseKeeps ==
  ASSUME MigrationsInv, NEW r \in Runs, Refuse(r)
  PROVE  MigrationsInv'
<1>1. PICK state \in {"down", "register failure"} : Goto(r, state)
  BY DEF Refuse
<1> QED
  BY <1>1, StopKeeps DEF Refuse, MigrationsInv, Typed

LEMMA RegisterFailureKeeps ==
  ASSUME MigrationsInv, NEW r \in Runs, RegisterFailure(r)
  PROVE  MigrationsInv'
<1>1. work[r] = <<>> /\ work \in [Runs -> Seq(Statements)]
  BY DEF RegisterFailure, MigrationsInv, RunOK, Typed
<1>2. work' = [work EXCEPT ![r] = <<>>]
  BY <1>1 DEF RegisterFailure
<1>3. /\ registry' \in [Versions -> {"none", "success", "failed"}]
      /\ \A v \in Versions : registry'[v] = "success" => registry[v] = "success"
  BY DEF RegisterFailure, MigrationsInv, Typed
<1> QED
  BY <1>2, <1>3, StopKeeps DEF RegisterFailure

\* A phase that is over: nothing is left of its transaction.
LEMMA EndPhaseKeeps ==
  ASSUME MigrationsInv, NEW r \in Runs, EndPhase(r)
  PROVE  /\ \E state \in {"read", "up"} : pc' = [pc EXCEPT ![r] = state]
         /\ phase' \in [Runs -> Phases]
         /\ \A q \in Runs \ {r} : phase'[q] = phase[q]
  BY DEF EndPhase, Goto, MigrationsInv, Typed, Phases

\* A run that begins a version has nothing behind it.
LEMMA VersionBegins ==
  ASSUME NEW r \in Runs, Typed', pending'[r] # {}, at'[r] = 1, work'[r] = <<>>
  PROVE  BehindOK(r)'
<1>1. pending'[r] \in SUBSET Versions /\ phase'[r] \in Phases
  BY DEF Typed
<1>2. Steps(r)' \in Seq(Statements)
  BY <1>1, OldestSteps DEF Current, Steps
<1>3. Len(Steps(r)') \in Nat
  BY <1>2
<1>4. at'[r] \in 1..(Len(Steps(r)') + 1)
  BY <1>3
<1>5. Len(work'[r]) = 0 /\ at'[r] - 1 = 0 /\ \A i \in 1..(at'[r] - 1) : FALSE
  OBVIOUS
<1>6. CASE Plan[Current(r)'].transactional
  <2>1. AllHeld(r)'
    BY <1>5, <1>6 DEF AllHeld
  <2> QED
    BY <1>4, <2>1 DEF BehindOK
<1>7. CASE ~Plan[Current(r)'].transactional
  <2>1. NothingHeld(r)'
    BY <1>5, <1>7 DEF NothingHeld, InTransaction
  <2> QED
    BY <1>4, <2>1 DEF BehindOK
<1> QED
  BY <1>6, <1>7

LEMMA ReadRegistryKeeps ==
  ASSUME MigrationsInv, NEW r \in Runs, ReadRegistry(r)
  PROVE  MigrationsInv'
<1>1. PICK left : left = {v \in Versions \ GetExecutedVersions : Plan[v][phase[r]] # <<>>}
  OBVIOUS
<1>2. /\ pending' = [pending EXCEPT ![r] = left] /\ at' = [at EXCEPT ![r] = 1]
      /\ UNCHANGED <<registry, ran, work>> /\ pc[r] = "read" /\ left \subseteq Versions
      /\ IF left = {} THEN EndPhase(r) ELSE Goto(r, "steps") /\ UNCHANGED phase
  BY <1>1 DEF ReadRegistry
<1>3. Typed /\ work[r] = <<>>
  BY <1>2 DEF MigrationsInv, RunOK
<1>4. CASE left = {}
  <2>1. PICK state \in {"read", "up"} : pc' = [pc EXCEPT ![r] = state]
    BY <1>2, <1>4, EndPhaseKeeps
  <2>2. /\ phase' \in [Runs -> Phases]
        /\ \A q \in Runs \ {r} : phase'[q] = phase[q]
    BY <1>2, <1>4, EndPhaseKeeps
  <2>3. Typed'
    BY <1>2, <1>3, <2>1, <2>2 DEF Typed
  <2>4. RunOK(r)'
    BY <1>2, <1>3, <2>1 DEF Typed, RunOK
  <2> QED
    BY <1>2, <1>3, <2>1, <2>2, <2>3, <2>4, QuietStep DEF MigrationsInv, Typed
<1>5. CASE left # {}
  <2>1. pc' = [pc EXCEPT ![r] = "steps"] /\ phase' = phase
    BY <1>2, <1>5 DEF Goto
  <2>2. Typed'
    BY <1>2, <1>3, <2>1 DEF Typed
  <2>3. pending'[r] = left /\ at'[r] = 1 /\ work'[r] = <<>> /\ pc'[r] = "steps"
    BY <1>2, <1>3, <2>1 DEF Typed
  <2>4. BehindOK(r)'
    BY <1>5, <2>2, <2>3, VersionBegins
  <2>5. ASSUME phase[r] = "execute", NEW v \in Versions \ left PROVE Applied(v)
    <3>1. CASE registry[v] = "success"
      BY <3>1 DEF MigrationsInv, SuccessIsApplied, Applied
    <3>2. CASE Plan[v].execute = <<>>
      BY <3>2 DEF Applied
    <3>3. registry[v] = "success" \/ Plan[v].execute = <<>>
      BY <1>1, <2>5 DEF GetExecutedVersions
    <3> QED
      BY <3>1, <3>2, <3>3
  <2>6. RunOK(r)'
    BY <1>2, <1>5, <2>1, <2>3, <2>4, <2>5 DEF RunOK, Applied
  <2> QED
    BY <1>2, <1>3, <2>1, <2>2, <2>6, QuietStep DEF MigrationsInv, Typed
<1> QED
  BY <1>4, <1>5

\* Where a run stands that runs the statements of a version.
LEMMA StepsIs ==
  ASSUME MigrationsInv, NEW r \in Runs, pc[r] = "steps"
  PROVE  /\ Typed /\ BehindOK(r) /\ pending[r] # {}
         /\ Current(r) \in pending[r] /\ Current(r) \in Versions
         /\ \A v \in pending[r] : Current(r) <= v
         /\ phase[r] \in Phases /\ Steps(r) = Plan[Current(r)][phase[r]]
         /\ Steps(r) \in Seq(Statements)
         /\ DOMAIN Steps(r) = 1..Len(Steps(r)) /\ Len(Steps(r)) \in Nat
<1>1. Typed /\ BehindOK(r) /\ pending[r] # {}
  BY DEF MigrationsInv, RunOK
<1>2. Steps(r) \in Seq(Statements)
  BY <1>1, CurrentIs
<1>3. DOMAIN Steps(r) = 1..Len(Steps(r)) /\ Len(Steps(r)) \in Nat
  BY <1>2
<1> QED
  BY <1>1, <1>2, <1>3, CurrentIs DEF Typed, Steps

\* The older versions of the one a run is at have been applied: by this run,
\* by another, or before it read the registry.
LEMMA OlderApplied ==
  ASSUME MigrationsInv, NEW r \in Runs, pc[r] = "steps", phase[r] = "execute",
         NEW v \in Versions, Current(r) > v
  PROVE  Applied(v)
<1>1. Current(r) \in Nat /\ v \in Nat
  BY StepsIs, VersionsAreNumbers
<1>2. v \notin pending[r]
  BY <1>1, StepsIs
<1> QED
  BY <1>2 DEF MigrationsInv, RunOK

\* The next statement of a version: it waits in the transaction, or it takes
\* effect, after all of the older versions.
LEMMA ExecuteKeeps ==
  ASSUME MigrationsInv, NEW r \in Runs, Execute(r)
  PROVE  MigrationsInv'
<1>1. pc[r] = "steps" /\ at[r] \in DOMAIN Steps(r)
  BY DEF Execute
<1>2. PICK s : s = Steps(r)[at[r]]
  OBVIOUS
<1>3. /\ at' = [at EXCEPT ![r] = at[r] + 1]
      /\ UNCHANGED <<registry, pc, phase, pending>>
      /\ IF InTransaction(r)
         THEN work' = [work EXCEPT ![r] = Append(work[r], s)] /\ UNCHANGED ran
         ELSE work[r] = <<>> /\ ran' = ran \cup {Place(r)} /\ UNCHANGED work
  BY <1>2 DEF Execute
<1>4. PICK v : v = Current(r)
  OBVIOUS
<1>5. PICK n : n = Len(Steps(r))
  OBVIOUS
<1>6. /\ Typed /\ BehindOK(r) /\ v \in Versions /\ phase[r] \in Phases
      /\ n \in Nat /\ at[r] \in 1..n /\ at[r] \in DOMAIN Plan[v][phase[r]]
      /\ s \in Statements
  BY <1>1, <1>2, <1>4, <1>5, StepsIs
<1>7. PICK k : k = at[r]
  OBVIOUS
<1>8. /\ at'[r] = k + 1 /\ at' \in [Runs -> Nat]
      /\ k \in Nat /\ k + 1 \in 1..(n + 1) /\ k + 1 - 1 = k
  <2>1. k \in Nat /\ k \in 1..n /\ n \in Nat
    BY <1>6, <1>7
  <2>2. k + 1 \in Nat /\ k + 1 \in 1..(n + 1) /\ k + 1 - 1 = k
    BY <2>1
  <2>3. at' = [at EXCEPT ![r] = k + 1] /\ at \in [Runs -> Nat]
    BY <1>3, <1>6, <1>7 DEF Typed
  <2> QED
    BY <2>1, <2>2, <2>3
<1>9. Current(r)' = v /\ Steps(r)' = Steps(r)
  BY <1>3, <1>4 DEF Current, Steps
<1>10. CASE InTransaction(r)
  <2>1. work' = [work EXCEPT ![r] = Append(work[r], s)] /\ ran' = ran
    BY <1>3, <1>10
  <2>2. work[r] \in Seq(Statements) /\ Len(work[r]) = k - 1
    BY <1>6, <1>7, <1>10 DEF Typed, BehindOK, AllHeld, NothingHeld
  <2>3. Append(work[r], s) \in Seq(Statements) /\ Len(Append(work[r], s)) = k
    BY <1>6, <1>8, <2>2
  <2>4. Typed'
    <3>1. work' \in [Runs -> Seq(Statements)]
      BY <1>6, <2>1, <2>3 DEF Typed
    <3> QED
      BY <1>3, <1>6, <1>8, <2>1, <3>1 DEF Typed
  <2>5. work'[r] = Append(work[r], s)
    BY <1>6, <2>1 DEF Typed
  <2>6. /\ Plan[v].transactional
        /\ \A i \in 1..k : i \in DOMAIN Steps(r) => ~IsDDL(Steps(r)[i])
    BY <1>4, <1>7, <1>10 DEF InTransaction
  <2>7. \A i \in 1..k : ~IsDDL(Steps(r)[i])
    BY <1>5, <1>6, <1>7, <2>6, StepsIs, <1>1
  <2>8. AllHeld(r)'
    BY <1>8, <1>9, <2>3, <2>5, <2>6, <2>7 DEF AllHeld
  <2>9. BehindOK(r)'
    BY <1>5, <1>8, <1>9, <2>8 DEF BehindOK
  <2>10. RunOK(r)'
    BY <1>1, <1>3, <2>1, <2>9 DEF MigrationsInv, RunOK, Applied
  <2> QED
    BY <1>3, <1>6, <2>1, <2>4, <2>10, QuietStep DEF Typed
<1>11. CASE ~InTransaction(r)
  <2>1. ran' = ran \cup {<<phase[r], v, k>>} /\ work' = work /\ work[r] = <<>>
    BY <1>3, <1>4, <1>7, <1>11 DEF Place
  <2>2. <<phase[r], v, k>> \in Places
    BY <1>6, <1>7, PlaceIs
  <2>3. Typed'
    BY <1>3, <1>6, <1>8, <2>1, <2>2 DEF Typed
  <2>4. \A i \in 1..(k - 1) : <<phase[r], v, i>> \in ran
    <3>1. CASE AllHeld(r)
      <4>1. k - 1 = 0
        BY <1>7, <2>1, <3>1 DEF AllHeld
      <4> QED
        BY <4>1
    <3>2. CASE NothingHeld(r)
      BY <1>4, <1>7, <3>2 DEF NothingHeld
    <3> QED
      BY <1>6, <3>1, <3>2 DEF BehindOK
  <2>5. \A i \in 1..k : <<phase[r], v, i>> \in ran'
    BY <1>8, <2>1, <2>4
  <2>6. BehindOK(r)'
    <3>1. ~InTransaction(r)'
      <4>1. \A i \in 1..k : i \in 1..(k + 1)
        BY <1>8
      <4> QED
        BY <1>4, <1>7, <1>8, <1>9, <1>11, <4>1 DEF InTransaction
    <3>2. NothingHeld(r)'
      BY <1>3, <1>8, <1>9, <2>1, <2>5, <3>1 DEF NothingHeld
    <3> QED
      BY <1>5, <1>8, <1>9, <3>2 DEF BehindOK
  <2>7. \A w : Applied(w) => Applied(w)'
    BY <2>1 DEF Applied
  <2>8. RunOK(r)'
    BY <1>1, <1>3, <2>1, <2>6, <2>7 DEF MigrationsInv, RunOK
  <2>9. PICK new : new = {<<phase[r], v, k>>}
    OBVIOUS
  <2>10. ASSUME NEW x \in new, x[1] = "execute", NEW w \in Versions, x[2] > w
         PROVE  Applied(w)
    BY <1>1, <1>4, <2>9, <2>10, OlderApplied
  <2>11. \A u \in Versions : registry'[u] = "success" =>
           registry[u] = "success" \/ Applied(u)'
    BY <1>3
  <2>12. \A q \in Runs \ {r} :
           /\ pc'[q] = pc[q] /\ phase'[q] = phase[q] /\ pending'[q] = pending[q]
           /\ at'[q] = at[q] /\ work'[q] = work[q]
    BY <1>3, <1>6, <2>1 DEF Typed
  <2>13. ran' = ran \cup new
    BY <2>1, <2>9
  <2> QED
    BY <2>3, <2>8, <2>10, <2>11, <2>12, <2>13, RunStep
<1> QED
  BY <1>10, <1>11

\* What a transaction holds is what the run has behind it.
LEMMA WorkIs ==
  ASSUME MigrationsInv, NEW r \in Runs, pc[r] = "steps", NEW n,
         n = at[r] - 1
  PROVE  /\ WorkPlaces(r) \subseteq Places
         /\ \A i \in 1..n : <<phase[r], Current(r), i>> \in ran \cup WorkPlaces(r)
         /\ \A x \in WorkPlaces(r) : x[1] = "execute" =>
              \A v \in Versions : x[2] > v => Applied(v)
<1>1. PICK c : c = Current(r)
  OBVIOUS
<1>2. PICK p : p = phase[r]
  OBVIOUS
<1>3. PICK m : m = Len(Steps(r))
  OBVIOUS
<1>4. /\ Typed /\ BehindOK(r) /\ c \in Versions /\ p \in Phases
      /\ m \in Nat /\ DOMAIN Plan[c][p] = 1..m
  BY <1>1, <1>2, <1>3, StepsIs
<1>5. n \in Nat /\ n <= m
  <2>1. at[r] \in 1..(m + 1)
    BY <1>3, <1>4 DEF BehindOK
  <2> QED
    BY <1>4, <2>1
<1>6. /\ DOMAIN work[r] \subseteq 1..n
      /\ \A i \in 1..n : <<p, c, i>> \in ran \/ i \in DOMAIN work[r]
  <2>1. CASE AllHeld(r)
    <3>1. work[r] \in Seq(Statements) /\ Len(work[r]) = n
      BY <1>4, <2>1 DEF Typed, AllHeld
    <3>2. DOMAIN work[r] = 1..n
      BY <3>1
    <3> QED
      BY <3>2
  <2>2. CASE NothingHeld(r)
    <3>1. DOMAIN work[r] = {}
      BY <2>2 DEF NothingHeld
    <3> QED
      BY <1>1, <1>2, <2>2, <3>1 DEF NothingHeld
  <2> QED
    BY <1>4, <2>1, <2>2 DEF BehindOK
<1>7. \A i \in 1..n : i \in 1..m
  BY <1>4, <1>5
<1>8. \A i \in DOMAIN work[r] : <<p, c, i>> \in Places
  BY <1>4, <1>6, <1>7, PlaceIs
<1>9. WorkPlaces(r) = {<<p, c, i>> : i \in DOMAIN work[r]}
  BY <1>1, <1>2 DEF WorkPlaces
<1>10. ASSUME NEW x \in WorkPlaces(r), x[1] = "execute", NEW v \in Versions, x[2] > v
       PROVE  Applied(v)
  <2>1. p = "execute" /\ c > v
    BY <1>9, <1>10
  <2> QED
    BY <1>1, <1>2, <2>1, OlderApplied
<1> QED
  BY <1>1, <1>2, <1>6, <1>8, <1>9, <1>10

\* What a DDL statement commits: all that is behind it.
LEMMA ImplicitCommitKeeps ==
  ASSUME MigrationsInv, NEW r \in Runs, ImplicitCommit(r)
  PROVE  MigrationsInv'
<1>1. PICK new : new = WorkPlaces(r)
  OBVIOUS
<1>2. /\ pc[r] = "steps" /\ at[r] \in DOMAIN Steps(r) /\ IsDDL(Steps(r)[at[r]])
      /\ ran' = ran \cup new /\ work' = [work EXCEPT ![r] = <<>>]
      /\ UNCHANGED <<registry, pc, phase, pending, at>>
  BY <1>1 DEF ImplicitCommit
<1>3. PICK n : n = at[r] - 1
  OBVIOUS
<1>4. /\ new \subseteq Places
      /\ \A i \in 1..n : <<phase[r], Current(r), i>> \in ran'
      /\ \A x \in new : x[1] = "execute" =>
           \A v \in Versions : x[2] > v => Applied(v)
  BY <1>1, <1>2, <1>3, WorkIs
<1>5. Typed /\ BehindOK(r) /\ at[r] \in Nat
  BY <1>2, StepsIs DEF Typed
<1>6. Typed'
  BY <1>2, <1>4, <1>5, EmptyWork DEF Typed
<1>7. Current(r)' = Current(r) /\ Steps(r)' = Steps(r) /\ at'[r] = at[r]
  BY <1>2 DEF Current, Steps
<1>8. ~InTransaction(r)'
  <2>1. at[r] \in 1..at[r]
    <3>1. at[r] \in 1..(Len(Steps(r)) + 1) /\ Len(Steps(r)) \in Nat
      BY <1>2, <1>5, StepsIs DEF BehindOK
    <3> QED
      BY <3>1
  <2> QED
    BY <1>2, <1>7, <2>1 DEF InTransaction
<1>9. work'[r] = <<>>
  BY <1>2, <1>5 DEF Typed
<1>10. BehindOK(r)'
  <2>1. NothingHeld(r)'
    BY <1>2, <1>3, <1>4, <1>7, <1>8, <1>9 DEF NothingHeld
  <2> QED
    BY <1>5, <1>7, <2>1 DEF BehindOK
<1>11. RunOK(r)'
  <2>1. \A v : Applied(v) => Applied(v)'
    BY <1>2 DEF Applied
  <2> QED
    BY <1>2, <1>9, <1>10, <2>1 DEF MigrationsInv, RunOK
<1>12. \A q \in Runs \ {r} :
         /\ pc'[q] = pc[q] /\ phase'[q] = phase[q] /\ pending'[q] = pending[q]
         /\ at'[q] = at[q] /\ work'[q] = work[q]
  BY <1>2, <1>5 DEF Typed
<1>13. \A v \in Versions : registry'[v] = "success" =>
         registry[v] = "success" \/ Applied(v)'
  BY <1>2
<1> QED
  BY <1>2, <1>4, <1>6, <1>11, <1>12, <1>13, RunStep

\* The end of a version: what the run has behind it is all of it, so it was
\* applied when it is registered.
LEMMA RegisterKeeps ==
  ASSUME MigrationsInv, NEW r \in Runs, Register(r)
  PROVE  MigrationsInv'
<1>1. PICK c : c = Current(r)
  OBVIOUS
<1>2. PICK p : p = phase[r]
  OBVIOUS
<1>3. PICK left : left = pending[r] \ {c}
  OBVIOUS
<1>4. PICK new : new = WorkPlaces(r)
  OBVIOUS
<1>5. /\ pc[r] = "steps" /\ at[r] \notin DOMAIN Steps(r)
      /\ registry' = IF p = "execute" THEN [registry EXCEPT ![c] = "success"] ELSE registry
      /\ ran' = ran \cup new
      /\ work' = [work EXCEPT ![r] = <<>>]
      /\ pending' = [pending EXCEPT ![r] = left]
      /\ at' = [at EXCEPT ![r] = 1]
      /\ IF left = {} THEN EndPhase(r) ELSE UNCHANGED <<pc, phase>>
  BY <1>1, <1>2, <1>3, <1>4 DEF Register
<1>6. PICK n : n = Len(Steps(r))
  OBVIOUS
<1>7. /\ Typed /\ BehindOK(r) /\ c \in Versions /\ p \in Phases /\ left \subseteq Versions
      /\ n \in Nat /\ DOMAIN Steps(r) = 1..n /\ DOMAIN Plan[c][p] = 1..n
  <2>1. /\ Typed /\ BehindOK(r) /\ c \in Versions /\ p \in Phases
        /\ n \in Nat /\ DOMAIN Steps(r) = 1..n /\ DOMAIN Plan[c][p] = 1..n
    BY <1>1, <1>2, <1>5, <1>6, StepsIs
  <2>2. left \subseteq Versions
    BY <1>3, <2>1 DEF Typed
  <2> QED
    BY <2>1, <2>2
<1>8. at[r] - 1 = n
  <2>1. PICK k : k = at[r]
    OBVIOUS
  <2>2. k \in 1..(n + 1) /\ k \notin 1..n /\ n \in Nat
    BY <1>5, <1>6, <1>7, <2>1 DEF BehindOK
  <2>3. k - 1 = n
    BY <2>2
  <2> QED
    BY <2>1, <2>3
<1>9. /\ new \subseteq Places
      /\ \A i \in 1..n : <<p, c, i>> \in ran'
      /\ \A x \in new : x[1] = "execute" =>
           \A v \in Versions : x[2] > v => Applied(v)
  BY <1>1, <1>2, <1>4, <1>5, <1>8, WorkIs
<1>11. p = "execute" => Applied(c)'
  BY <1>7, <1>9 DEF Applied
<1>13. /\ registry' \in [Versions -> {"none", "success", "failed"}]
       /\ \A v \in Versions : registry'[v] = "success" => registry[v] = "success" \/ Applied(v)'
  BY <1>5, <1>7, <1>11 DEF Typed
<1>14. /\ pc' \in [Runs -> {"down", "read", "steps", "register failure", "up"}]
       /\ phase' \in [Runs -> Phases]
       /\ \A q \in Runs \ {r} : pc'[q] = pc[q] /\ phase'[q] = phase[q]
       /\ left = {} => pc'[r] \in {"read", "up"}
  <2>1. CASE left = {}
    <3>1. EndPhase(r)
      BY <1>5, <2>1
    <3>2. PICK state \in {"read", "up"} : pc' = [pc EXCEPT ![r] = state]
      BY <3>1, EndPhaseKeeps
    <3> QED
      BY <1>7, <3>1, <3>2, EndPhaseKeeps DEF Typed
  <2>2. CASE left # {}
    BY <1>5, <1>7, <2>2 DEF Typed
  <2> QED
    BY <2>1, <2>2
<1>15. work' \in [Runs -> Seq(Statements)]
  BY <1>5, <1>7, EmptyWork DEF Typed
<1>16. Typed'
  BY <1>5, <1>7, <1>9, <1>13, <1>14, <1>15 DEF Typed
<1>17. pending'[r] = left /\ at'[r] = 1 /\ work'[r] = <<>>
  BY <1>5, <1>7 DEF Typed
<1>18. RunOK(r)'
  <2>1. CASE left = {}
    BY <1>14, <1>17, <2>1 DEF RunOK
  <2>2. CASE left # {}
    <3>1. pc'[r] = "steps" /\ phase'[r] = p
      BY <1>2, <1>5, <2>2
    <3>2. BehindOK(r)'
      BY <1>16, <1>17, <2>2, VersionBegins
    <3>3. ASSUME p = "execute", NEW v \in Versions \ left PROVE Applied(v)'
      <4>1. CASE v = c
        BY <1>11, <3>3, <4>1
      <4>2. CASE v # c
        BY <1>2, <1>3, <1>5, <3>3, <4>2 DEF MigrationsInv, RunOK, Applied
      <4> QED
        BY <4>1, <4>2
    <3> QED
      BY <1>17, <2>2, <3>1, <3>2, <3>3 DEF RunOK
  <2> QED
    BY <2>1, <2>2
<1>19. \A q \in Runs \ {r} :
         /\ pc'[q] = pc[q] /\ phase'[q] = phase[q] /\ pending'[q] = pending[q]
         /\ at'[q] = at[q] /\ work'[q] = work[q]
  BY <1>5, <1>7, <1>14 DEF Typed
<1> QED
  BY <1>5, <1>9, <1>13, <1>16, <1>18, <1>19, RunStep

-----------------------------------------------------------------------------
(* Every step.                                                             *)

LEMMA NextMigrations == MigrationsInv /\ [Next]_vars => MigrationsInv'
<1> SUFFICES ASSUME MigrationsInv, [Next]_vars PROVE MigrationsInv'
  OBVIOUS
<1>1. ASSUME NEW r \in Runs,
             \/ Start(r) \/ ReadRegistry(r) \/ Execute(r) \/ ImplicitCommit(r)
             \/ Register(r) \/ Refuse(r) \/ RegisterFailure(r) \/ Crash(r)
      PROVE  MigrationsInv'
  BY <1>1, StartKeeps, ReadRegistryKeeps, ExecuteKeeps, ImplicitCommitKeeps, RegisterKeeps,
     RefuseKeeps, RegisterFailureKeeps, CrashKeeps
<1>2. CASE UNCHANGED vars
  BY <1>2 DEF vars, MigrationsInv, Typed, RunOK, BehindOK, AllHeld, NothingHeld,
              Current, Steps, InTransaction, Applied, SuccessIsApplied, RanIsPrefix
<1> QED
  BY <1>1, <1>2 DEF Next

LEMMA TypeFollows == MigrationsInv => TypeOK
<1> SUFFICES ASSUME MigrationsInv PROVE TypeOK
  OBVIOUS
<1>1. ASSUME NEW r \in Runs, work[r] # <<>>
      PROVE  pc[r] = "steps" /\ Plan[Current(r)].transactional
  BY <1>1 DEF MigrationsInv, RunOK, BehindOK, AllHeld, NothingHeld
<1> QED
  BY <1>1 DEF MigrationsInv, Typed, RunOK, TypeOK

-----------------------------------------------------------------------------
(* Theorems.                                                               *)

\* Any number of containers that start, die and overlap keep the invariant:
\* what a run of MigrationRunner has behind it took effect or is in its open
\* transaction, and every version it does not have left to run was applied.
THEOREM MigrationsInvariant == Spec => []MigrationsInv
  BY InitMigrations, NextMigrations, PTL DEF Spec

\* Types, and that the statements of an open transaction are those of a run
\* in runMigration whose version is transactional.
THEOREM TypeCorrect == Spec => []TypeOK
  BY MigrationsInvariant, TypeFollows, PTL

\* A version registered in schema_migrations as successful (registerSuccess)
\* has had every statement of its execute phase take effect, whatever
\* crashed, failed or overlapped.
THEOREM SuccessIsAppliedCorrect == Spec => []SuccessIsApplied
<1>1. MigrationsInv => SuccessIsApplied
  BY DEF MigrationsInv
<1> QED
  BY <1>1, MigrationsInvariant, PTL

\* runPhase takes the versions oldest first, and no run, failed or overlapped,
\* lets a statement of one take effect before all those of the older ones.
THEOREM RanIsPrefixCorrect == Spec => []RanIsPrefix
<1>1. MigrationsInv => RanIsPrefix
  BY DEF MigrationsInv
<1> QED
  BY <1>1, MigrationsInvariant, PTL
=============================================================================
