---------------------------- MODULE Appointments ----------------------------
(***************************************************************************)
(* Scheduling of recurring jobs (AppointmentsQueueService and its callers).*)
(* Requests of the API switch appointments on and off: they clear the old  *)
(* scheduler from the BullMQ queue, add the new one and then write the     *)
(* settings row, one await at a time, with nothing to keep two of them     *)
(* apart.  When the container starts, the worker schedules the internal    *)
(* appointments it does not find.  The API and the worker are two          *)
(* processes of one container: each remembers in memory what it scheduled, *)
(* and when one dies the entrypoint stops both.                            *)
(*                                                                         *)
(* What a job does when it fires is elsewhere (LedgerSnapshots,            *)
(* MonthlyBuild, Charges, EmailQueue).                                     *)
(***************************************************************************)
EXTENDS Naturals, FiniteSets

CONSTANTS
  Requests,     \* requests of the API, each made once
  Regular,      \* keys <<type, client>> of appointments a client switches
  Internal,     \* keys of appointments only a super admin switches, for all
  System,       \* the key of the settings row of client 0
  Recurrences,  \* recurrences to choose from
  Default,      \* the one an appointment is defined with
  MaxCrashes    \* bound on restarts of the container

ASSUME DefaultAssumption == Default \in Recurrences
\* The worker is no request; clients have ids other than 0; there are internal
\* appointments.
ASSUME WorkerAssumption == "worker" \notin Requests
ASSUME SystemAssumption == System \notin Regular \cup Internal
ASSUME InternalAssumption == Internal # {}

VARIABLES
  queue,      \* BullMQ: schedulers, under today's key or one of an old release
  settings,   \* table appointment_settings, NoRow where there is none
  memory,     \* the keys each process remembers as scheduled
  pc,         \* where each actor stands
  todo,       \* keys it has left to schedule or to clear
  rows,       \* settings rows it has left to write
  wanted,     \* what it was asked to store
  match,      \* the schedulers of its key that it saw in the queue
  crashes,    \* restarts so far
  disturbed,  \* history: keys of which two changes overlapped or one was cut
  abandoned   \* history: internal keys a request set out to clear or failed on

vars == <<queue, settings, memory, pc, todo, rows, wanted, match, crashes,
          disturbed, abandoned>>

Actors == Requests \cup {"worker"}
Keys == Regular \cup Internal
Process(a) == IF a = "worker" THEN "worker" ELSE "api"
Nothing == [active |-> TRUE, recurrence |-> Default]
NoRow == [active |-> FALSE, recurrence |-> "none"]
Wishes == [active : BOOLEAN, recurrence : Recurrences]
Entry(k, recurrence) == [key |-> k, legacy |-> FALSE, recurrence |-> recurrence]
EntriesOf(k) == {e \in queue : e.key = k}

\* A container starts on the schedulers an old release left in the queue.
Init ==
  /\ queue \in SUBSET [key : Keys, legacy : {TRUE}, recurrence : {Default}]
  /\ settings = [k \in Keys \cup {System} |-> NoRow]
  /\ memory = [p \in {"api", "worker"} |-> {}]
  /\ pc = [a \in Actors |-> IF a = "worker" THEN "check" ELSE "idle"]
  /\ todo = [a \in Actors |-> IF a = "worker" THEN Internal ELSE {}]
  /\ rows = [a \in Actors |-> {}]
  /\ wanted = [a \in Actors |-> Nothing]
  /\ match = [a \in Actors |-> {}]
  /\ crashes = 0
  /\ disturbed = {}
  /\ abandoned = {}

-----------------------------------------------------------------------------
\* A request that is done forgets what it was asked to do.
Goto(a, state) ==
  /\ pc' = [pc EXCEPT ![a] = state]
  /\ wanted' = IF state = "done" THEN [wanted EXCEPT ![a] = Nothing] ELSE wanted
Current(a) == CHOOSE k \in todo[a] : TRUE
InFlight(a) == todo[a] \cup rows[a]

\* The keys of a change that begins while another is under way on them.
Overlap(keys) == keys \cap UNION {InFlight(a) : a \in Actors}

\* updateStatus, updateInternalAppointment: read the stored row, then set out
\* to schedule or clear every key.  The request gives any recurrence, or
\* keeps the stored or the default one.
Begin(r, keys, toWrite) ==
  /\ pc[r] = "idle"
  /\ \E wish \in Wishes :
       /\ wanted' = [wanted EXCEPT ![r] = wish]
       /\ abandoned' = IF wish.active THEN abandoned ELSE abandoned \cup (keys \cap Internal)
  /\ todo' = [todo EXCEPT ![r] = keys]
  /\ rows' = [rows EXCEPT ![r] = toWrite]
  /\ disturbed' = disturbed \cup Overlap(keys)
  /\ pc' = [pc EXCEPT ![r] = "list"]
  /\ UNCHANGED <<queue, settings, memory, match, crashes>>

UpdateStatus(r) == \E k \in Keys : Begin(r, {k}, {k})
UpdateInternal(r) == Begin(r, Internal, Internal \cup {System})

\* The debug controller clears a scheduler and leaves the settings alone.
DebugUnschedule(r) ==
  /\ pc[r] = "idle"
  /\ \E k \in Keys :
       /\ todo' = [todo EXCEPT ![r] = {k}]
       /\ disturbed' = disturbed \cup {k}
       /\ abandoned' = abandoned \cup ({k} \cap Internal)
  /\ wanted' = [wanted EXCEPT ![r].active = FALSE]
  /\ pc' = [pc EXCEPT ![r] = "list"]
  /\ UNCHANGED <<queue, settings, memory, rows, match, crashes>>

\* listAppointments asks isScheduled, which remembers what it finds.
ListAppointments(r) ==
  /\ pc[r] = "idle"
  /\ \E k \in Keys \ memory["api"] :
       /\ EntriesOf(k) # {}
       /\ match' = [match EXCEPT ![r] = EntriesOf(k)]
  /\ Goto(r, "found")
  /\ UNCHANGED <<queue, settings, memory, todo, rows, crashes, disturbed,
                 abandoned>>

RememberFound(r) ==
  /\ pc[r] = "found"
  /\ memory' = [memory EXCEPT !["api"] = @ \cup {e.key : e \in match[r]}]
  /\ match' = [match EXCEPT ![r] = {}]
  /\ Goto(r, "done")
  /\ UNCHANGED <<queue, settings, todo, rows, crashes, disturbed, abandoned>>

\* The initializers: isScheduled of each internal appointment and client, from
\* memory or from the queue; what is not found is scheduled as defined.
Initialize ==
  LET k == Current("worker")
      found == k \in memory["worker"] \/ EntriesOf(k) # {}
  IN  /\ pc["worker"] = "check"
      /\ IF todo["worker"] = {} THEN Goto("worker", "ready") /\ UNCHANGED <<todo, memory>>
         ELSE IF found
         THEN /\ todo' = [todo EXCEPT !["worker"] = @ \ {k}]
              /\ memory' = [memory EXCEPT !["worker"] = @ \cup {k}]
              /\ UNCHANGED <<pc, wanted>>
         ELSE /\ Goto("worker", "list")
              /\ UNCHANGED <<todo, memory>>
      /\ UNCHANGED <<queue, settings, rows, match, crashes, disturbed,
                     abandoned>>

\* After a key is scheduled or cleared: the next one, or the settings.
NextKey(a) ==
  LET left == todo[a] \ {Current(a)}
  IN  /\ todo' = [todo EXCEPT ![a] = left]
      /\ Goto(a, IF a = "worker" THEN "check" ELSE IF left # {} THEN "list"
                 ELSE IF rows[a] # {} THEN "upsert" ELSE "done")

\* Mutant: only schedulers under today's key are recognised.
ListSchedulersByKey(a) ==
  LET k == Current(a)
      matching == {e \in EntriesOf(k) : ~e.legacy}
  IN  /\ pc[a] = "list"
      /\ match' = [match EXCEPT ![a] = matching]
      /\ IF matching # {} \/ k \in memory[Process(a)] THEN Goto(a, "remove") /\ UNCHANGED todo
         ELSE IF wanted[a].active THEN Goto(a, "add") /\ UNCHANGED todo
         ELSE NextKey(a)
      /\ UNCHANGED <<queue, settings, memory, rows, crashes, disturbed, abandoned>>

\* clearFromQueue: look for the first scheduler of the key; with neither one
\* nor a memory of one there is nothing to clear.
ListSchedulers(a) ==
  LET k == Current(a) IN
  /\ pc[a] = "list"
  /\ IF EntriesOf(k) = {} THEN match' = [match EXCEPT ![a] = {}]
     ELSE \E e \in EntriesOf(k) : match' = [match EXCEPT ![a] = {e}]
  /\ IF EntriesOf(k) # {} \/ k \in memory[Process(a)]
     THEN Goto(a, "remove") /\ UNCHANGED todo
     ELSE IF wanted[a].active THEN Goto(a, "add") /\ UNCHANGED todo
     ELSE NextKey(a)
  /\ UNCHANGED <<queue, settings, memory, rows, crashes, disturbed, abandoned>>

\* removeJobScheduler: whatever is now under the key that was found.
RemoveScheduler(a) ==
  /\ pc[a] = "remove"
  /\ queue' = {e \in queue : \A m \in match[a] : e.key # m.key \/ e.legacy # m.legacy}
  /\ match' = [match EXCEPT ![a] = {}]
  /\ Goto(a, "forget")
  /\ UNCHANGED <<settings, memory, todo, rows, crashes, disturbed, abandoned>>

\* The direct removals have been tried: the process forgets the key.
Forget(a) ==
  /\ pc[a] = "forget"
  /\ memory' = [memory EXCEPT ![Process(a)] = @ \ {Current(a)}]
  /\ IF wanted[a].active THEN Goto(a, "add") /\ UNCHANGED todo ELSE NextKey(a)
  /\ UNCHANGED <<queue, settings, rows, match, crashes, disturbed, abandoned>>

\* Mutant: the scheduler is remembered but not added.
AddNothing(a) ==
  /\ pc[a] = "add"
  /\ Goto(a, "remember")
  /\ UNCHANGED <<queue, settings, memory, todo, rows, match, crashes,
                 disturbed, abandoned>>

\* queue.add with the key of the appointment: it replaces one under that key.
Add(a) ==
  LET k == Current(a) IN
  /\ pc[a] = "add"
  /\ queue' = {e \in queue : e.key # k \/ e.legacy} \cup {Entry(k, wanted[a].recurrence)}
  /\ Goto(a, "remember")
  /\ UNCHANGED <<settings, memory, todo, rows, match, crashes, disturbed,
                 abandoned>>

Remember(a) ==
  /\ pc[a] = "remember"
  /\ memory' = [memory EXCEPT ![Process(a)] = @ \cup {Current(a)}]
  /\ NextKey(a)
  /\ UNCHANGED <<queue, settings, rows, match, crashes, disturbed, abandoned>>

\* upsert, and upsertBulk after the row of the system: one row at a time.
Upsert(r) ==
  /\ pc[r] = "upsert"
  /\ \E k \in rows[r] :
       /\ System \in rows[r] => k = System
       /\ settings' = [settings EXCEPT ![k] = wanted[r]]
       /\ rows' = [rows EXCEPT ![r] = @ \ {k}]
       /\ Goto(r, IF rows[r] = {k} THEN "done" ELSE "upsert")
  /\ UNCHANGED <<queue, memory, todo, match, crashes, disturbed, abandoned>>

\* A call of Redis or MySQL fails in a request: it ends with an error where
\* it stands.
Fail(r) ==
  /\ pc[r] \in {"list", "remove", "add", "upsert"}
  /\ disturbed' = disturbed \cup InFlight(r)
  /\ abandoned' = abandoned \cup (InFlight(r) \cap Internal)
  /\ Goto(r, "done")
  /\ todo' = [todo EXCEPT ![r] = {}]
  /\ rows' = [rows EXCEPT ![r] = {}]
  /\ match' = [match EXCEPT ![r] = {}]
  /\ UNCHANGED <<queue, settings, memory, crashes>>

\* Mutant: the memory of the worker is restored after the restart.
CrashWithMemory ==
  /\ crashes < MaxCrashes
  /\ crashes' = crashes + 1
  /\ pc' = [a \in Actors |-> IF a = "worker" THEN "check"
                             ELSE IF pc[a] = "idle" THEN "idle" ELSE "done"]
  /\ todo' = [a \in Actors |-> IF a = "worker" THEN Internal ELSE {}]
  /\ rows' = [a \in Actors |-> {}]
  /\ match' = [a \in Actors |-> {}]
  /\ memory' = [memory EXCEPT !["worker"] = Keys]
  /\ disturbed' = disturbed \cup Internal \cup UNION {InFlight(r) : r \in Requests}
  /\ wanted' = [a \in Actors |-> Nothing]
  /\ UNCHANGED <<queue, settings, abandoned>>

\* A process of the container dies and the entrypoint stops the others; the
\* container starts again.  It schedules what is internal whatever the
\* settings say.
Crash ==
  /\ crashes < MaxCrashes
  /\ crashes' = crashes + 1
  /\ pc' = [a \in Actors |-> IF a = "worker" THEN "check"
                             ELSE IF pc[a] = "idle" THEN "idle" ELSE "done"]
  /\ todo' = [a \in Actors |-> IF a = "worker" THEN Internal ELSE {}]
  /\ rows' = [a \in Actors |-> {}]
  /\ match' = [a \in Actors |-> {}]
  /\ memory' = [p \in {"api", "worker"} |-> {}]
  /\ disturbed' = disturbed \cup Internal \cup UNION {InFlight(r) : r \in Requests}
  /\ wanted' = [a \in Actors |-> Nothing]
  /\ UNCHANGED <<queue, settings, abandoned>>

Queueing(a) ==
  ListSchedulers(a) \/ RemoveScheduler(a) \/ Forget(a) \/ Add(a) \/ Remember(a)

Next ==
  \/ \E r \in Requests :
       UpdateStatus(r) \/ UpdateInternal(r) \/ DebugUnschedule(r)
         \/ ListAppointments(r) \/ RememberFound(r) \/ Upsert(r) \/ Fail(r)
  \/ \E a \in Actors : Queueing(a)
  \/ Initialize
  \/ Crash

Spec == Init /\ [][Next]_vars

\* A process that is up gets on with what it has begun.
Fairness ==
  /\ WF_vars(Initialize)
  /\ \A a \in Actors : WF_vars(Queueing(a))
  /\ \A r \in Requests : WF_vars(Upsert(r) \/ RememberFound(r))

FairSpec == Spec /\ Fairness

-----------------------------------------------------------------------------
(* Correctness *)

TypeOK ==
  /\ queue \subseteq [key : Keys, legacy : BOOLEAN, recurrence : Recurrences]
  /\ settings \in [Keys \cup {System} -> Wishes \cup {NoRow}]
  /\ memory \in [{"api", "worker"} -> SUBSET Keys]
  /\ \A a \in Actors :
       /\ pc[a] \in {"list", "remove", "forget", "add", "remember"} => todo[a] # {}
       /\ pc[a] \in {"idle", "done", "ready"} => InFlight(a) = {}

\* However requests, initializers and restarts interleave, an appointment of
\* a client never has two schedulers, so that it does not run twice: an old
\* release's scheduler goes before the new one comes.
OneScheduler == \A k \in Keys : Cardinality(EntriesOf(k)) <= 1

\* Once nothing is under way on an appointment, its settings row and the
\* queue say the same, unless two changes of it overlapped, one was cut off,
\* the debug controller was used, or a restart scheduled it again.
SettingsAgree == \A k \in Keys \ disturbed :
  settings[k] # NoRow /\ (\A a \in Actors : k \notin InFlight(a)) =>
    {e.recurrence : e \in EntriesOf(k)} =
      IF settings[k].active THEN {settings[k].recurrence} ELSE {}

\* An internal appointment nobody set out to switch off is always scheduled
\* again, whatever crashes: what a crash between the clearing and the adding
\* has lost, the initializers of the restart put back.
InternalComesBack == \A k \in Internal :
  []<>(EntriesOf(k) # {} \/ k \in abandoned)
=============================================================================
