------------------------ MODULE Appointments_proofs ------------------------
(***************************************************************************)
(* Proofs about the scheduling of appointments, for any requests, clients, *)
(* recurrences and number of restarts.                                     *)
(*                                                                         *)
(* OneScheduler rests on what an actor knows of the old release's          *)
(* scheduler of its key: it has seen it and is about to remove it, or it   *)
(* is gone and, as nobody adds one, stays gone.  SettingsAgree rests on    *)
(* who is at work on a key: of a key that no two changes disturbed at most *)
(* one actor is, and where that actor stands says what the queue holds.    *)
(***************************************************************************)
EXTENDS Appointments, FiniteSetTheorems, TLAPS

Entries == [key : Keys, legacy : BOOLEAN, recurrence : Recurrences]

QueueingStates == {"list", "remove", "forget", "add", "remember"}
RequestStates == QueueingStates \cup {"idle", "found", "upsert", "done"}
WorkerStates == QueueingStates \cup {"check", "ready"}

Typed ==
  /\ queue \subseteq Entries
  /\ settings \in [Keys \cup {System} -> Wishes \cup {NoRow}]
  /\ memory \in [{"api", "worker"} -> SUBSET Keys]
  /\ pc \in [Actors -> RequestStates \cup WorkerStates]
  /\ todo \in [Actors -> SUBSET Keys]
  /\ rows \in [Actors -> SUBSET (Keys \cup {System})]
  /\ wanted \in [Actors -> Wishes]
  /\ match \in [Actors -> SUBSET Entries]

AtMostOne == \A e, f \in queue : e.key = f.key => e = f

\* What an actor has left to do where it stands, and what it knows of an old
\* release's scheduler of the key it is at.
ActorOK(a) ==
  /\ a = "worker" => pc[a] \in WorkerStates /\ rows[a] = {} /\ todo[a] \subseteq Internal
  /\ a # "worker" => pc[a] \in RequestStates
  /\ pc[a] \in QueueingStates => todo[a] # {}
  /\ pc[a] \in {"idle", "done", "ready", "found"} => InFlight(a) = {}
  /\ pc[a] = "upsert" => todo[a] = {}
  /\ pc[a] \in {"add", "remember"} => wanted[a].active
  /\ pc[a] = "remove" =>
       /\ \A m \in match[a] : m.key = Current(a)
       /\ \A e \in EntriesOf(Current(a)) : e.legacy => \E m \in match[a] : m.legacy
  /\ pc[a] \in {"forget", "add"} => \A e \in EntriesOf(Current(a)) : ~e.legacy

Agree(k, wish) ==
  {e.recurrence : e \in EntriesOf(k)} = IF wish.active THEN {wish.recurrence} ELSE {}

\* The queue while one actor is at work on the key: what it found is all there
\* is, then there is nothing, then what it was asked for.
ActorClean(a, k) ==
  /\ a # "worker" /\ k \in todo[a] => k \in rows[a]
  /\ pc[a] = "remove" /\ k = Current(a) =>
       \A e \in EntriesOf(k) : \E m \in match[a] : m.legacy = e.legacy
  /\ pc[a] = "forget" /\ k = Current(a) => EntriesOf(k) = {}
  /\ pc[a] = "remember" /\ k = Current(a) => EntriesOf(k) = {Entry(k, wanted[a].recurrence)}
  /\ k \in rows[a] /\ k \notin todo[a] => Agree(k, wanted[a])

Alone(k) == \A a, b \in Actors : k \in InFlight(a) /\ k \in InFlight(b) => a = b

\* A key nothing has disturbed.
Clean(k) ==
  /\ Alone(k)
  /\ k \in todo["worker"] => settings[k] = NoRow
  /\ \A a \in Actors : ActorClean(a, k)
  /\ settings[k] # NoRow /\ (\A a \in Actors : k \notin InFlight(a)) =>
       Agree(k, settings[k])

AppointmentsInv ==
  /\ Typed
  /\ AtMostOne
  /\ \A a \in Actors : ActorOK(a)
  /\ \A k \in Keys \ disturbed : Clean(k)

-----------------------------------------------------------------------------
\* What a step of a leaves alone.
OthersKept(a) ==
  \A b \in Actors \ {a} :
    /\ pc'[b] = pc[b] /\ todo'[b] = todo[b] /\ rows'[b] = rows[b]
    /\ wanted'[b] = wanted[b] /\ match'[b] = match[b]

LEMMA CurrentIn ==
  ASSUME NEW a, todo[a] # {}
  PROVE  Current(a) \in todo[a]
  BY DEF Current

\* Another actor stays as it is, as long as no old scheduler comes back.
LEMMA OtherActor ==
  ASSUME AppointmentsInv, NEW a \in Actors, OthersKept(a),
         \A e \in queue' : e \in queue \/ ~e.legacy,
         NEW b \in Actors \ {a}
  PROVE  ActorOK(b)'
<1>1. /\ pc'[b] = pc[b] /\ todo'[b] = todo[b] /\ rows'[b] = rows[b]
      /\ wanted'[b] = wanted[b] /\ match'[b] = match[b]
  BY DEF OthersKept
<1>2. InFlight(b)' = InFlight(b) /\ Current(b)' = Current(b)
  BY <1>1 DEF InFlight, Current
<1>3. \A e : e \in EntriesOf(Current(b))' /\ e.legacy => e \in EntriesOf(Current(b))
  BY <1>2 DEF EntriesOf
<1>4. ActorOK(b)
  BY DEF AppointmentsInv
<1>5. pc[b] = "remove" =>
        /\ \A m \in match[b] : m.key = Current(b)
        /\ \A e \in EntriesOf(Current(b))' : e.legacy => \E m \in match[b] : m.legacy
  BY <1>3, <1>4 DEF ActorOK
<1>6. pc[b] \in {"forget", "add"} => \A e \in EntriesOf(Current(b))' : ~e.legacy
  BY <1>3, <1>4 DEF ActorOK
<1> QED
  BY <1>1, <1>2, <1>4, <1>5, <1>6 DEF ActorOK

\* And so does what it has made of a key, if the queue has the same of it.
LEMMA OtherClean ==
  ASSUME AppointmentsInv, NEW a \in Actors, OthersKept(a), NEW b \in Actors \ {a},
         NEW k \in Keys, ActorClean(b, k),
         k \in InFlight(b) => EntriesOf(k)' = EntriesOf(k)
  PROVE  ActorClean(b, k)'
<1>1. /\ pc'[b] = pc[b] /\ todo'[b] = todo[b] /\ rows'[b] = rows[b]
      /\ wanted'[b] = wanted[b] /\ match'[b] = match[b]
  BY DEF OthersKept
<1>2. Current(b)' = Current(b) /\ InFlight(b)' = InFlight(b)
  BY <1>1 DEF Current, InFlight
<1>3. CASE k \in InFlight(b)
  <2>1. EntriesOf(k)' = EntriesOf(k)
    BY <1>3
  <2>2. Agree(k, wanted[b])' <=> Agree(k, wanted[b])
    BY <1>1, <2>1 DEF Agree
  <2> QED
    BY <1>1, <1>2, <2>1, <2>2 DEF ActorClean
<1>4. CASE k \notin InFlight(b)
  <2>1. k \notin todo[b] /\ k \notin rows[b]
    BY <1>4 DEF InFlight
  <2>2. ActorOK(b)
    BY DEF AppointmentsInv
  <2>3. pc[b] \in {"remove", "forget", "remember"} => Current(b) # k
    BY <2>1, <2>2, CurrentIn DEF ActorOK, QueueingStates
  <2> QED
    BY <1>1, <1>2, <2>1, <2>3 DEF ActorClean
<1> QED
  BY <1>3, <1>4

\* A step at the queue touches the key it is at and nothing else.
LEMMA QueueingKeeps ==
  ASSUME AppointmentsInv, NEW a \in Actors, OthersKept(a),
         settings' = settings, disturbed' = disturbed, rows'[a] = rows[a],
         todo'[a] \subseteq todo[a],
         \A k \in Keys \ InFlight(a) : EntriesOf(k)' = EntriesOf(k),
         \A e \in queue' : e \in queue \/ ~e.legacy,
         Typed', AtMostOne', ActorOK(a)',
         \A k \in Keys \ disturbed : ActorClean(a, k)'
  PROVE  AppointmentsInv'
<1>1. \A b \in Actors : ActorOK(b)'
  BY OtherActor
<1>2. ASSUME NEW k \in Keys \ disturbed PROVE Clean(k)'
  <2>0. Clean(k)
    BY DEF AppointmentsInv
  <2>1. /\ InFlight(a)' \subseteq InFlight(a)
        /\ \A b \in Actors \ {a} : InFlight(b)' = InFlight(b)
    BY DEF InFlight, OthersKept
  <2>2. Alone(k)'
    BY <2>0, <2>1 DEF Clean, Alone
  <2>3. ASSUME NEW b \in Actors PROVE ActorClean(b, k)'
    <3>1. CASE b = a
      BY <3>1
    <3>2. CASE b # a
      <4>1. k \in InFlight(b) => EntriesOf(k)' = EntriesOf(k)
        BY <2>0, <3>2 DEF Clean, Alone
      <4>2. ActorClean(b, k)
        BY <2>0 DEF Clean
      <4> QED
        BY <3>2, <4>1, <4>2, OtherClean
    <3> QED
      BY <3>1, <3>2
  <2>4. k \in todo'["worker"] => settings'[k] = NoRow
    <3>1. k \in todo'["worker"] => k \in todo["worker"]
      BY DEF OthersKept, Actors
    <3> QED
      BY <2>0, <3>1 DEF Clean
  <2>5. ASSUME settings[k] # NoRow, \A b \in Actors : k \notin InFlight(b)'
        PROVE  Agree(k, settings[k])'
    <3>1. k \notin InFlight(a)
      <4>1. k \notin rows[a]
        BY <2>5 DEF InFlight
      <4>2. k \in todo[a] => a = "worker"
        BY <2>0, <4>1 DEF Clean, ActorClean
      <4>3. k \notin todo[a]
        BY <2>0, <2>5, <4>2 DEF Clean
      <4> QED
        BY <4>1, <4>3 DEF InFlight
    <3>2. \A b \in Actors : k \notin InFlight(b)
      BY <2>1, <2>5, <3>1
    <3>3. Agree(k, settings[k]) /\ EntriesOf(k)' = EntriesOf(k)
      BY <2>0, <2>5, <3>1, <3>2 DEF Clean
    <3> QED
      BY <3>3 DEF Agree
  <2> QED
    BY <2>2, <2>3, <2>4, <2>5 DEF Clean
<1> QED
  BY <1>1, <1>2 DEF AppointmentsInv

-----------------------------------------------------------------------------
(* Steps at the queue.                                                     *)

LEMMA ActorType ==
  ASSUME AppointmentsInv, NEW a \in Actors
  PROVE  /\ Typed /\ ActorOK(a)
         /\ pc[a] \in QueueingStates => Current(a) \in todo[a] /\ Current(a) \in Keys
         /\ todo[a] \subseteq Keys /\ rows[a] \subseteq Keys \cup {System}
         /\ match[a] \subseteq Entries /\ wanted[a] \in Wishes /\ Nothing \in Wishes
         /\ Process(a) \in {"api", "worker"}
<1>1. Typed /\ ActorOK(a)
  BY DEF AppointmentsInv
<1>2. Nothing \in Wishes
  BY DefaultAssumption DEF Nothing, Wishes
<1>3. pc[a] \in QueueingStates => Current(a) \in todo[a]
  BY <1>1, CurrentIn DEF ActorOK
<1> QED
  BY <1>1, <1>2, <1>3 DEF Typed, Process

\* An actor that goes on without a change of what it has to do.
LEMMA GotoFacts ==
  ASSUME AppointmentsInv, NEW a \in Actors,
         NEW state \in RequestStates \cup WorkerStates, Goto(a, state)
  PROVE  /\ pc' \in [Actors -> RequestStates \cup WorkerStates] /\ pc'[a] = state
         /\ wanted' \in [Actors -> Wishes]
         /\ state # "done" => wanted' = wanted
         /\ \A b \in Actors \ {a} : pc'[b] = pc[b] /\ wanted'[b] = wanted[b]
<1>1. Typed /\ Nothing \in Wishes
  BY ActorType
<1> QED
  BY <1>1 DEF Goto, Typed

\* The next key, or what comes after the last: what the queue has of the key
\* that is done has to be what was asked for.
LEMMA NextKeyKeeps ==
  ASSUME AppointmentsInv, NEW a \in Actors, pc[a] \in QueueingStates, NextKey(a),
         queue' = queue, settings' = settings, rows' = rows, disturbed' = disturbed,
         memory' \in [{"api", "worker"} -> SUBSET Keys],
         match' \in [Actors -> SUBSET Entries],
         \A b \in Actors \ {a} : match'[b] = match[b],
         Current(a) \notin disturbed => Agree(Current(a), wanted[a])
  PROVE  AppointmentsInv'
<1>0. Typed /\ ActorOK(a) /\ Current(a) \in todo[a]
  BY ActorType
<1>1. PICK k : k = Current(a)
  OBVIOUS
<1>2. PICK left : left = todo[a] \ {k}
  OBVIOUS
<1>3. PICK to : to = IF a = "worker" THEN "check" ELSE IF left # {} THEN "list"
                     ELSE IF rows[a] # {} THEN "upsert" ELSE "done"
  OBVIOUS
<1>4. todo' = [todo EXCEPT ![a] = left] /\ Goto(a, to)
  BY <1>1, <1>2, <1>3 DEF NextKey
<1>5. to \in RequestStates \cup WorkerStates
  BY <1>3 DEF RequestStates, WorkerStates, QueueingStates
<1>6. /\ pc' \in [Actors -> RequestStates \cup WorkerStates] /\ pc'[a] = to
      /\ wanted' \in [Actors -> Wishes] /\ (to # "done" => wanted' = wanted)
      /\ \A b \in Actors \ {a} : pc'[b] = pc[b] /\ wanted'[b] = wanted[b]
  BY <1>4, <1>5, GotoFacts
<1>7. /\ todo' \in [Actors -> SUBSET Keys] /\ todo'[a] = left
      /\ \A b \in Actors \ {a} : todo'[b] = todo[b]
  BY <1>0, <1>2, <1>4 DEF Typed
<1>8. Typed'
  BY <1>0, <1>6, <1>7 DEF Typed
<1>9. OthersKept(a)
  BY <1>6, <1>7 DEF OthersKept
<1>10. ActorOK(a)'
  <2>1. pc'[a] \in {"done", "ready", "idle", "found"} => InFlight(a)' = {}
    BY <1>3, <1>6, <1>7 DEF InFlight
  <2> QED
    BY <1>0, <1>2, <1>3, <1>6, <1>7, <2>1 DEF ActorOK, WorkerStates, RequestStates, QueueingStates
<1>11. ASSUME NEW j \in Keys \ disturbed PROVE ActorClean(a, j)'
  <2>1. ActorClean(a, j)
    BY DEF AppointmentsInv, Clean
  <2>2. pc'[a] \notin {"remove", "forget", "remember"}
    BY <1>3, <1>6
  <2>3. a # "worker" /\ j \in todo'[a] => j \in rows'[a]
    BY <1>2, <1>7, <2>1 DEF ActorClean
  <2>4. ASSUME j \in rows'[a], j \notin todo'[a] PROVE Agree(j, wanted[a])'
    <3>1. a # "worker" /\ wanted'[a] = wanted[a]
      BY <1>0, <1>3, <1>6, <2>4 DEF ActorOK
    <3>2. Agree(j, wanted[a])
      BY <1>1, <1>2, <1>7, <2>1, <2>4 DEF ActorClean
    <3> QED
      BY <3>1, <3>2 DEF Agree, EntriesOf
  <2> QED
    BY <2>2, <2>3, <2>4 DEF ActorClean
<1>12. AtMostOne'
  BY DEF AppointmentsInv, AtMostOne
<1>13. \A j : EntriesOf(j)' = EntriesOf(j)
  BY DEF EntriesOf
<1> QED
  BY <1>2, <1>7, <1>8, <1>9, <1>10, <1>11, <1>12, <1>13, QueueingKeeps

\* A step to another state of the same key.
LEMMA SameKeyKeeps ==
  ASSUME AppointmentsInv, NEW a \in Actors,
         NEW k, k = Current(a),
         NEW state \in QueueingStates, pc[a] \in QueueingStates, Goto(a, state),
         settings' = settings, rows' = rows, todo' = todo, disturbed' = disturbed,
         queue' \subseteq Entries, AtMostOne',
         \A e \in queue' : e \in queue \/ ~e.legacy,
         \A j \in Keys : j # k => EntriesOf(j)' = EntriesOf(j),
         memory' \in [{"api", "worker"} -> SUBSET Keys],
         match' \in [Actors -> SUBSET Entries],
         \A b \in Actors \ {a} : match'[b] = match[b],
         state \in {"add", "remember"} => wanted[a].active,
         state = "remove" =>
           /\ \A m \in match'[a] : m.key = k
           /\ \A e \in EntriesOf(k)' : \E m \in match'[a] : m.legacy = e.legacy,
         state \in {"forget", "add"} => \A e \in EntriesOf(k)' : ~e.legacy,
         state = "forget" /\ k \notin disturbed => EntriesOf(k)' = {},
         state = "remember" /\ k \notin disturbed =>
           EntriesOf(k)' = {Entry(k, wanted[a].recurrence)}
  PROVE  AppointmentsInv'
<1>0. Typed /\ ActorOK(a) /\ Current(a) \in todo[a] /\ Current(a)' = Current(a)
  BY ActorType DEF Current
<1>1. state \in RequestStates \cup WorkerStates /\ state # "done"
  BY DEF RequestStates, QueueingStates
<1>2. /\ pc' \in [Actors -> RequestStates \cup WorkerStates] /\ pc'[a] = state
      /\ wanted' = wanted
      /\ \A b \in Actors \ {a} : pc'[b] = pc[b] /\ wanted'[b] = wanted[b]
  BY <1>1, GotoFacts
<1>3. Typed'
  BY <1>0, <1>2 DEF Typed
<1>4. OthersKept(a)
  BY <1>2 DEF OthersKept
<1>5. ActorOK(a)'
  BY <1>0, <1>2 DEF ActorOK, WorkerStates, RequestStates, QueueingStates
<1>6. ASSUME NEW j \in Keys \ disturbed PROVE ActorClean(a, j)'
  <2>1. ActorClean(a, j)
    BY DEF AppointmentsInv, Clean
  <2>2. j \in rows[a] /\ j \notin todo[a] => Agree(j, wanted[a])'
    <3>1. j \notin todo[a] => EntriesOf(j)' = EntriesOf(j)
      BY <1>0
    <3> QED
      BY <1>2, <2>1, <3>1 DEF ActorClean, Agree
  <2> QED
    BY <1>0, <1>2, <2>1, <2>2 DEF ActorClean
<1>7. \A j \in Keys \ InFlight(a) : EntriesOf(j)' = EntriesOf(j)
  BY <1>0 DEF InFlight
<1> QED
  BY <1>3, <1>4, <1>5, <1>6, <1>7, QueueingKeeps

LEMMA ListSchedulersKeeps ==
  ASSUME AppointmentsInv, NEW a \in Actors, ListSchedulers(a)
  PROVE  AppointmentsInv'
<1>1. PICK k : k = Current(a)
  OBVIOUS
<1>2. /\ pc[a] = "list" /\ queue' = queue /\ settings' = settings /\ memory' = memory
      /\ rows' = rows /\ disturbed' = disturbed
  BY DEF ListSchedulers
<1>3. PICK found :
        /\ match' = [match EXCEPT ![a] = found]
        /\ \/ EntriesOf(k) = {} /\ found = {}
           \/ \E e \in EntriesOf(k) : found = {e}
  BY <1>1 DEF ListSchedulers
<1>4. \/ Goto(a, "remove") /\ todo' = todo
      \/ Goto(a, "add") /\ todo' = todo /\ wanted[a].active /\ EntriesOf(k) = {}
      \/ NextKey(a) /\ ~wanted[a].active /\ EntriesOf(k) = {}
  BY <1>1 DEF ListSchedulers
<1>5. pc[a] \in QueueingStates
  BY <1>2 DEF QueueingStates
<1>6. Typed /\ AtMostOne /\ queue \subseteq Entries /\ k \in Keys
  BY <1>1, <1>5, ActorType DEF AppointmentsInv, Typed
<1>7. found \subseteq EntriesOf(k) /\ found \subseteq Entries
  BY <1>3, <1>6 DEF EntriesOf
<1>8. /\ match' \in [Actors -> SUBSET Entries] /\ match'[a] = found
      /\ \A b \in Actors \ {a} : match'[b] = match[b]
  BY <1>3, <1>6, <1>7 DEF Typed
<1>9. \A j : EntriesOf(j)' = EntriesOf(j)
  BY <1>2 DEF EntriesOf
<1>10. AtMostOne' /\ memory' \in [{"api", "worker"} -> SUBSET Keys]
  BY <1>2, <1>6 DEF AtMostOne, Typed
<1>11. CASE Goto(a, "remove") /\ todo' = todo
  <2>1. \A m \in found : m.key = k
    BY <1>7 DEF EntriesOf
  <2>2. \A e \in EntriesOf(k) : \E m \in found : m.legacy = e.legacy
    BY <1>3, <1>6 DEF AtMostOne, EntriesOf
  <2>3. "remove" \in QueueingStates
    BY DEF QueueingStates
  <2> QED
    BY <1>1, <1>2, <1>5, <1>6, <1>8, <1>9, <1>10, <1>11, <2>1, <2>2, <2>3, SameKeyKeeps
<1>12. CASE Goto(a, "add") /\ todo' = todo /\ wanted[a].active /\ EntriesOf(k) = {}
  <2>1. "add" \in QueueingStates
    BY DEF QueueingStates
  <2> QED
    BY <1>1, <1>2, <1>5, <1>6, <1>8, <1>9, <1>10, <1>12, <2>1, SameKeyKeeps
<1>13. CASE NextKey(a) /\ ~wanted[a].active /\ EntriesOf(k) = {}
  <2>1. Agree(k, wanted[a])
    BY <1>13 DEF Agree
  <2> QED
    BY <1>1, <1>2, <1>5, <1>8, <1>10, <1>13, <2>1, NextKeyKeeps
<1> QED
  BY <1>4, <1>11, <1>12, <1>13

LEMMA RemoveSchedulerKeeps ==
  ASSUME AppointmentsInv, NEW a \in Actors, RemoveScheduler(a)
  PROVE  AppointmentsInv'
<1>1. PICK k : k = Current(a)
  OBVIOUS
<1>2. /\ pc[a] = "remove" /\ settings' = settings /\ memory' = memory /\ todo' = todo
      /\ rows' = rows /\ disturbed' = disturbed /\ Goto(a, "forget")
      /\ match' = [match EXCEPT ![a] = {}]
      /\ queue' = {e \in queue : \A m \in match[a] : e.key # m.key \/ e.legacy # m.legacy}
  BY DEF RemoveScheduler
<1>3. pc[a] \in QueueingStates /\ "forget" \in QueueingStates
  BY <1>2 DEF QueueingStates
<1>4. Typed /\ ActorOK(a) /\ AtMostOne /\ k \in Keys /\ queue \subseteq Entries
  BY <1>1, <1>3, ActorType DEF AppointmentsInv, Typed
<1>5. /\ match' \in [Actors -> SUBSET Entries]
      /\ \A b \in Actors \ {a} : match'[b] = match[b]
  BY <1>2, <1>4 DEF Typed
<1>6. \A m \in match[a] : m.key = k
  BY <1>1, <1>2, <1>4 DEF ActorOK
<1>7. \A j : j # k => EntriesOf(j)' = EntriesOf(j)
  BY <1>2, <1>6 DEF EntriesOf
<1>8. \A e \in EntriesOf(k)' : ~e.legacy
  <2>1. ASSUME NEW e \in EntriesOf(k)', e.legacy PROVE FALSE
    <3>1. e \in queue /\ e.key = k /\ \A m \in match[a] : e.legacy # m.legacy
      BY <1>2, <1>6, <2>1 DEF EntriesOf
    <3>2. PICK m \in match[a] : m.legacy
      BY <1>1, <1>2, <1>4, <2>1, <3>1 DEF ActorOK, EntriesOf
    <3>3. e.legacy \in BOOLEAN /\ m.legacy \in BOOLEAN
      BY <1>4, <3>1, <3>2 DEF Entries, Typed
    <3> QED
      BY <2>1, <3>1, <3>2, <3>3
  <2> QED
    BY <2>1
<1>9. k \notin disturbed => EntriesOf(k)' = {}
  <2>1. k \notin disturbed => ActorClean(a, k)
    BY <1>4 DEF AppointmentsInv, Clean
  <2> QED
    BY <1>1, <1>2, <1>6, <2>1 DEF ActorClean, EntriesOf
<1>10. AtMostOne' /\ queue' \subseteq Entries /\ \A e \in queue' : e \in queue
  BY <1>2, <1>4 DEF AtMostOne
<1>11. memory' \in [{"api", "worker"} -> SUBSET Keys]
  BY <1>2, <1>4 DEF Typed
<1> QED
  BY <1>1, <1>2, <1>3, <1>5, <1>7, <1>8, <1>9, <1>10, <1>11, SameKeyKeeps

LEMMA ForgetKeeps ==
  ASSUME AppointmentsInv, NEW a \in Actors, Forget(a)
  PROVE  AppointmentsInv'
<1>1. PICK k : k = Current(a)
  OBVIOUS
<1>2. /\ pc[a] = "forget" /\ settings' = settings /\ queue' = queue /\ match' = match
      /\ rows' = rows /\ disturbed' = disturbed
      /\ memory' = [memory EXCEPT ![Process(a)] = @ \ {k}]
      /\ \/ Goto(a, "add") /\ todo' = todo /\ wanted[a].active
         \/ NextKey(a) /\ ~wanted[a].active
  BY <1>1 DEF Forget
<1>3. pc[a] \in QueueingStates /\ "add" \in QueueingStates
  BY <1>2 DEF QueueingStates
<1>4. Typed /\ ActorOK(a) /\ AtMostOne /\ k \in Keys /\ queue \subseteq Entries
  BY <1>1, <1>3, ActorType DEF AppointmentsInv, Typed
<1>5. memory' \in [{"api", "worker"} -> SUBSET Keys]
  BY <1>2, <1>4 DEF Typed
<1>6. match' \in [Actors -> SUBSET Entries] /\ AtMostOne'
  BY <1>2, <1>4 DEF Typed, AtMostOne
<1>7. \A j : EntriesOf(j)' = EntriesOf(j)
  BY <1>2 DEF EntriesOf
<1>8. CASE Goto(a, "add") /\ todo' = todo /\ wanted[a].active
  <2>1. \A e \in EntriesOf(k)' : ~e.legacy
    BY <1>1, <1>2, <1>4, <1>7 DEF ActorOK
  <2> QED
    BY <1>1, <1>2, <1>3, <1>4, <1>5, <1>6, <1>7, <1>8, <2>1, SameKeyKeeps
<1>9. CASE NextKey(a) /\ ~wanted[a].active
  <2>1. k \notin disturbed => ActorClean(a, k)
    BY <1>4 DEF AppointmentsInv, Clean
  <2>2. k \notin disturbed => Agree(k, wanted[a])
    BY <1>1, <1>2, <1>9, <2>1 DEF ActorClean, Agree
  <2> QED
    BY <1>1, <1>2, <1>3, <1>5, <1>6, <1>9, <2>2, NextKeyKeeps
<1> QED
  BY <1>2, <1>8, <1>9

LEMMA AddKeeps ==
  ASSUME AppointmentsInv, NEW a \in Actors, Add(a)
  PROVE  AppointmentsInv'
<1>1. PICK k : k = Current(a)
  OBVIOUS
<1>2. PICK new : new = Entry(k, wanted[a].recurrence)
  OBVIOUS
<1>3. /\ pc[a] = "add" /\ settings' = settings /\ memory' = memory /\ match' = match
      /\ todo' = todo /\ rows' = rows /\ disturbed' = disturbed /\ Goto(a, "remember")
      /\ queue' = {e \in queue : e.key # k \/ e.legacy} \cup {new}
  BY <1>1, <1>2 DEF Add
<1>4. pc[a] \in QueueingStates /\ "remember" \in QueueingStates
  BY <1>3 DEF QueueingStates
<1>5. Typed /\ ActorOK(a) /\ AtMostOne /\ k \in Keys /\ wanted[a] \in Wishes
  BY <1>1, <1>4, ActorType DEF AppointmentsInv
<1>6. new \in Entries /\ new.key = k /\ ~new.legacy
  BY <1>2, <1>5 DEF Entry, Entries, Wishes
<1>7. \A e \in EntriesOf(k) : ~e.legacy
  BY <1>1, <1>3, <1>5 DEF ActorOK
<1>8. EntriesOf(k)' = {new}
  BY <1>3, <1>6, <1>7 DEF EntriesOf
<1>9. \A j : j # k => EntriesOf(j)' = EntriesOf(j)
  BY <1>3, <1>6 DEF EntriesOf
<1>10. AtMostOne'
  <2>1. ASSUME NEW e \in queue', NEW f \in queue', e.key = f.key PROVE e = f
    <3>1. CASE e.key = k
      <4>1. e \in EntriesOf(k)' /\ f \in EntriesOf(k)'
        BY <2>1, <3>1 DEF EntriesOf
      <4> QED
        BY <1>8, <4>1
    <3>2. CASE e.key # k
      <4>1. e \in queue /\ f \in queue
        BY <1>3, <1>6, <2>1, <3>2
      <4> QED
        BY <1>5, <2>1, <4>1 DEF AtMostOne
    <3> QED
      BY <3>1, <3>2
  <2> QED
    BY <2>1 DEF AtMostOne
<1>11. queue' \subseteq Entries /\ \A e \in queue' : e \in queue \/ ~e.legacy
  BY <1>3, <1>5, <1>6 DEF Typed
<1>12. /\ memory' \in [{"api", "worker"} -> SUBSET Keys]
       /\ match' \in [Actors -> SUBSET Entries]
  BY <1>3, <1>5 DEF Typed
<1>13. wanted[a].active
  BY <1>3, <1>5 DEF ActorOK
<1> QED
  BY <1>1, <1>2, <1>3, <1>4, <1>8, <1>9, <1>10, <1>11, <1>12, <1>13, SameKeyKeeps

LEMMA RememberKeeps ==
  ASSUME AppointmentsInv, NEW a \in Actors, Remember(a)
  PROVE  AppointmentsInv'
<1>1. PICK k : k = Current(a)
  OBVIOUS
<1>2. /\ pc[a] = "remember" /\ settings' = settings /\ queue' = queue /\ match' = match
      /\ rows' = rows /\ disturbed' = disturbed /\ NextKey(a)
      /\ memory' = [memory EXCEPT ![Process(a)] = @ \cup {k}]
  BY <1>1 DEF Remember
<1>3. pc[a] \in QueueingStates
  BY <1>2 DEF QueueingStates
<1>4. Typed /\ ActorOK(a) /\ k \in Keys
  BY <1>1, <1>3, ActorType
<1>5. memory' \in [{"api", "worker"} -> SUBSET Keys]
  BY <1>2, <1>4 DEF Typed
<1>6. match' \in [Actors -> SUBSET Entries]
  BY <1>2, <1>4 DEF Typed
<1>7. ASSUME k \notin disturbed PROVE Agree(k, wanted[a])
  <2>1. ActorClean(a, k)
    BY <1>4, <1>7 DEF AppointmentsInv, Clean
  <2>2. EntriesOf(k) = {Entry(k, wanted[a].recurrence)} /\ wanted[a].active
    BY <1>1, <1>2, <1>4, <2>1 DEF ActorClean, ActorOK
  <2>3. Entry(k, wanted[a].recurrence).recurrence = wanted[a].recurrence
    BY DEF Entry
  <2> QED
    BY <2>2, <2>3 DEF Agree
<1> QED
  BY <1>1, <1>2, <1>3, <1>5, <1>6, <1>7, NextKeyKeeps

\* The initializers: a key found is done, one not found is scheduled.
LEMMA InitializeKeeps ==
  ASSUME AppointmentsInv, Initialize
  PROVE  AppointmentsInv'
<1>1. PICK a \in Actors : a = "worker"
  BY DEF Actors
<1>2. Typed /\ ActorOK(a) /\ AtMostOne /\ (todo[a] # {} => Current(a) \in todo[a])
  BY ActorType, CurrentIn DEF AppointmentsInv
<1>3. /\ pc[a] = "check" /\ queue' = queue /\ settings' = settings /\ rows' = rows
      /\ match' = match /\ disturbed' = disturbed
  BY <1>1 DEF Initialize
<1>4. PICK to \in {"ready", "check", "list"}, left \in SUBSET todo[a] :
        /\ pc' = [pc EXCEPT ![a] = to] /\ wanted' = wanted
        /\ todo' = [todo EXCEPT ![a] = left]
        /\ memory' \in [{"api", "worker"} -> SUBSET Keys]
        /\ to = "list" => left # {}
        /\ to = "ready" => left = {}
  <2>1. todo = [todo EXCEPT ![a] = todo[a]] /\ pc = [pc EXCEPT ![a] = "check"]
    BY <1>2, <1>3 DEF Typed
  <2>2. CASE todo[a] = {} /\ Goto(a, "ready") /\ todo' = todo /\ memory' = memory
    BY <1>2, <2>1, <2>2 DEF Goto, Typed
  <2>3. CASE /\ todo[a] # {} /\ pc' = pc /\ wanted' = wanted
             /\ todo' = [todo EXCEPT ![a] = @ \ {Current(a)}]
             /\ memory' = [memory EXCEPT !["worker"] = @ \cup {Current(a)}]
    <3>1. Current(a) \in Keys
      BY <1>2, <2>3 DEF Typed
    <3>2. memory' \in [{"api", "worker"} -> SUBSET Keys]
      BY <1>2, <2>3, <3>1 DEF Typed
    <3>3. todo' = [todo EXCEPT ![a] = todo[a] \ {Current(a)}]
      BY <2>3
    <3> QED
      BY <2>1, <2>3, <3>2, <3>3
  <2>4. CASE todo[a] # {} /\ Goto(a, "list") /\ todo' = todo /\ memory' = memory
    BY <1>2, <2>1, <2>4 DEF Goto, Typed
  <2> QED
    BY <1>1, <2>2, <2>3, <2>4 DEF Initialize
<1>5. /\ pc' \in [Actors -> RequestStates \cup WorkerStates] /\ pc'[a] = to
      /\ todo' \in [Actors -> SUBSET Keys] /\ todo'[a] = left
      /\ \A b \in Actors \ {a} : pc'[b] = pc[b] /\ todo'[b] = todo[b]
  BY <1>2, <1>4 DEF Typed, WorkerStates, QueueingStates
<1>6. Typed'
  BY <1>2, <1>3, <1>4, <1>5 DEF Typed
<1>7. OthersKept(a)
  BY <1>3, <1>4, <1>5 DEF OthersKept
<1>8. ActorOK(a)'
  <2>1. rows[a] = {} /\ left \subseteq Internal
    BY <1>1, <1>2, <1>4 DEF ActorOK
  <2>2. to = "ready" => InFlight(a)' = {}
    BY <1>3, <1>4, <1>5, <2>1 DEF InFlight
  <2> QED
    BY <1>1, <1>3, <1>4, <1>5, <2>1, <2>2 DEF ActorOK, WorkerStates, QueueingStates
<1>9. ASSUME NEW k \in Keys \ disturbed PROVE ActorClean(a, k)'
  BY <1>1, <1>2, <1>3, <1>4, <1>5 DEF ActorClean, ActorOK
<1>10. AtMostOne' /\ \A k : EntriesOf(k)' = EntriesOf(k)
  BY <1>2, <1>3 DEF AtMostOne, EntriesOf
<1> QED
  BY <1>3, <1>4, <1>5, <1>6, <1>7, <1>8, <1>9, <1>10, QueueingKeeps

\* listAppointments changes what the process remembers and nothing else.
LEMMA ListAppointmentsKeeps ==
  ASSUME AppointmentsInv, NEW a \in Requests, ListAppointments(a) \/ RememberFound(a)
  PROVE  AppointmentsInv'
<1>1. a \in Actors /\ a # "worker"
  BY WorkerAssumption DEF Actors
<1>2. Typed /\ ActorOK(a) /\ AtMostOne
  BY <1>1, ActorType DEF AppointmentsInv
<1>3. /\ pc[a] \in {"idle", "found"} /\ queue' = queue /\ settings' = settings
      /\ todo' = todo /\ rows' = rows /\ disturbed' = disturbed
  BY DEF ListAppointments, RememberFound
<1>4. PICK to \in {"found", "done"} : Goto(a, to)
  BY DEF ListAppointments, RememberFound
<1>5. /\ pc' \in [Actors -> RequestStates \cup WorkerStates] /\ pc'[a] = to
      /\ wanted' \in [Actors -> Wishes]
      /\ \A b \in Actors \ {a} : pc'[b] = pc[b] /\ wanted'[b] = wanted[b]
  <2>1. to \in RequestStates \cup WorkerStates
    BY DEF RequestStates
  <2> QED
    BY <1>1, <1>4, <2>1, GotoFacts
<1>6. PICK entries \in SUBSET Entries : match' = [match EXCEPT ![a] = entries]
  <2>1. \A k : EntriesOf(k) \in SUBSET Entries
    BY <1>2 DEF EntriesOf, Typed
  <2> QED
    BY <2>1 DEF ListAppointments, RememberFound
<1>7. /\ match' \in [Actors -> SUBSET Entries]
      /\ \A b \in Actors \ {a} : match'[b] = match[b]
  BY <1>2, <1>6 DEF Typed
<1>8. memory' \in [{"api", "worker"} -> SUBSET Keys]
  <2>1. CASE ListAppointments(a)
    BY <1>2, <2>1 DEF ListAppointments, Typed
  <2>2. CASE RememberFound(a)
    <3>1. {e.key : e \in match[a]} \subseteq Keys
      BY <1>1, <1>2 DEF Typed, Entries
    <3>2. memory' = [memory EXCEPT !["api"] = memory["api"] \cup {e.key : e \in match[a]}]
      BY <2>2 DEF RememberFound
    <3> QED
      BY <1>2, <3>1, <3>2 DEF Typed
  <2> QED
    BY <2>1, <2>2
<1>9. Typed'
  BY <1>2, <1>3, <1>5, <1>7, <1>8 DEF Typed
<1>10. OthersKept(a)
  BY <1>3, <1>5, <1>7 DEF OthersKept
<1>11. InFlight(a) = {} /\ InFlight(a)' = {}
  BY <1>2, <1>3 DEF ActorOK, InFlight
<1>12. ActorOK(a)'
  BY <1>1, <1>5, <1>11 DEF ActorOK, RequestStates, QueueingStates
<1>13. ASSUME NEW k \in Keys \ disturbed PROVE ActorClean(a, k)'
  BY <1>5, <1>11 DEF ActorClean, InFlight
<1>14. AtMostOne' /\ \A k : EntriesOf(k)' = EntriesOf(k)
  BY <1>2, <1>3 DEF AtMostOne, EntriesOf
<1> QED
  BY <1>1, <1>3, <1>9, <1>10, <1>12, <1>13, <1>14, QueueingKeeps

-----------------------------------------------------------------------------
(* Steps of a request at the settings.                                     *)

\* A request may take on keys nobody is at work on, unless they count as
\* disturbed from then on, and leaves a key when settings and queue agree.
LEMMA RequestKeeps ==
  ASSUME AppointmentsInv, NEW a \in Requests, OthersKept(a), queue' = queue,
         disturbed \subseteq disturbed', Typed', ActorOK(a)',
         \A k \in Keys \ disturbed' :
           /\ ActorClean(a, k)'
           /\ k \in InFlight(a)' =>
                k \in InFlight(a) \/ \A b \in Actors \ {a} : k \notin InFlight(b)
           /\ k \notin InFlight(a) => settings'[k] = settings[k]
           /\ k \in InFlight(a) /\ k \notin InFlight(a)' => Agree(k, settings'[k])
  PROVE  AppointmentsInv'
<1>0. a \in Actors /\ a # "worker" /\ "worker" \in Actors
  BY WorkerAssumption DEF Actors
<1>1. \A b \in Actors : ActorOK(b)'
  BY <1>0, OtherActor
<1>2. AtMostOne'
  BY DEF AppointmentsInv, AtMostOne
<1>3. \A k : EntriesOf(k)' = EntriesOf(k)
  BY DEF EntriesOf
<1>4. ASSUME NEW k \in Keys \ disturbed' PROVE Clean(k)'
  <2>0. Clean(k) /\ \A b \in Actors \ {a} : InFlight(b)' = InFlight(b)
    BY DEF AppointmentsInv, OthersKept, InFlight
  <2>1. Alone(k)'
    BY <1>0, <2>0 DEF Clean, Alone
  <2>2. \A b \in Actors : ActorClean(b, k)'
    BY <1>0, <1>3, <2>0, OtherClean DEF Clean
  <2>3. k \in todo'["worker"] => settings'[k] = NoRow
    <3>1. todo'["worker"] = todo["worker"]
      BY <1>0 DEF OthersKept
    <3>2. ASSUME k \in todo["worker"] PROVE settings'[k] = settings[k]
      <4>1. k \in InFlight("worker")
        BY <3>2 DEF InFlight
      <4>2. k \notin InFlight(a)
        BY <1>0, <2>0, <4>1 DEF Clean, Alone
      <4> QED
        BY <4>2
    <3> QED
      BY <2>0, <3>1, <3>2 DEF Clean
  <2>4. ASSUME settings'[k] # NoRow, \A b \in Actors : k \notin InFlight(b)'
        PROVE  Agree(k, settings'[k])
    <3>1. CASE k \in InFlight(a)
      BY <1>0, <2>4, <3>1
    <3>2. CASE k \notin InFlight(a)
      BY <2>0, <2>4, <3>2 DEF Clean
    <3> QED
      BY <3>1, <3>2
  <2>5. Agree(k, settings'[k]) => Agree(k, settings[k])'
    BY <1>3 DEF Agree
  <2> QED
    BY <2>1, <2>2, <2>3, <2>4, <2>5 DEF Clean
<1> QED
  BY <1>1, <1>2, <1>4 DEF AppointmentsInv

LEMMA BeginKeeps ==
  ASSUME AppointmentsInv, NEW a \in Requests, NEW keys \in SUBSET Keys, keys # {},
         NEW toWrite \in SUBSET (Keys \cup {System}),
         toWrite = keys \/ toWrite = keys \cup {System}, Begin(a, keys, toWrite)
  PROVE  AppointmentsInv'
<1>1. a \in Actors /\ a # "worker"
  BY WorkerAssumption DEF Actors
<1>2. Typed /\ ActorOK(a)
  BY <1>1, ActorType
<1>3. PICK wish \in Wishes : wanted' = [wanted EXCEPT ![a] = wish]
  BY DEF Begin
<1>4. /\ pc[a] = "idle" /\ pc' = [pc EXCEPT ![a] = "list"]
      /\ todo' = [todo EXCEPT ![a] = keys] /\ rows' = [rows EXCEPT ![a] = toWrite]
      /\ disturbed' = disturbed \cup Overlap(keys)
      /\ queue' = queue /\ settings' = settings /\ memory' = memory /\ match' = match
  BY DEF Begin
<1>5. /\ pc' \in [Actors -> RequestStates \cup WorkerStates] /\ pc'[a] = "list"
      /\ todo' \in [Actors -> SUBSET Keys] /\ todo'[a] = keys
      /\ rows' \in [Actors -> SUBSET (Keys \cup {System})] /\ rows'[a] = toWrite
      /\ wanted' \in [Actors -> Wishes]
      /\ \A b \in Actors \ {a} : /\ pc'[b] = pc[b] /\ todo'[b] = todo[b]
                                 /\ rows'[b] = rows[b] /\ wanted'[b] = wanted[b]
  BY <1>1, <1>2, <1>3, <1>4 DEF Typed, RequestStates, QueueingStates
<1>6. Typed'
  BY <1>2, <1>4, <1>5 DEF Typed
<1>7. OthersKept(a)
  BY <1>4, <1>5 DEF OthersKept
<1>8. ActorOK(a)'
  BY <1>1, <1>5 DEF ActorOK, RequestStates, QueueingStates
<1>9. InFlight(a) = {} /\ InFlight(a)' = keys \cup toWrite
  BY <1>2, <1>4, <1>5 DEF ActorOK, InFlight
<1>10. ASSUME NEW k \in Keys \ disturbed'
       PROVE  /\ ActorClean(a, k)'
              /\ k \in InFlight(a)' => \A b \in Actors \ {a} : k \notin InFlight(b)
  <2>1. k \in toWrite <=> k \in keys
    BY SystemAssumption DEF Keys
  <2>2. ActorClean(a, k)'
    BY <1>5, <2>1 DEF ActorClean
  <2>3. k \in keys => \A b \in Actors : k \notin InFlight(b)
    BY <1>4, <1>10 DEF Overlap
  <2> QED
    BY <1>9, <2>1, <2>2, <2>3
<1> QED
  BY <1>4, <1>6, <1>7, <1>8, <1>9, <1>10, RequestKeeps

LEMMA DebugUnscheduleKeeps ==
  ASSUME AppointmentsInv, NEW a \in Requests, DebugUnschedule(a)
  PROVE  AppointmentsInv'
<1>1. a \in Actors /\ a # "worker"
  BY WorkerAssumption DEF Actors
<1>2. Typed /\ ActorOK(a) /\ wanted[a] \in Wishes
  BY <1>1, ActorType
<1>3. PICK k \in Keys : todo' = [todo EXCEPT ![a] = {k}] /\ disturbed' = disturbed \cup {k}
  BY DEF DebugUnschedule
<1>4. PICK wish : wish = [wanted[a] EXCEPT !.active = FALSE]
  OBVIOUS
<1>5. /\ pc[a] = "idle" /\ pc' = [pc EXCEPT ![a] = "list"]
      /\ wanted' = [wanted EXCEPT ![a] = wish]
      /\ queue' = queue /\ settings' = settings /\ memory' = memory /\ rows' = rows
      /\ match' = match
  BY <1>4 DEF DebugUnschedule
<1>6. wish \in Wishes
  BY <1>2, <1>4 DEF Wishes
<1>7. /\ pc' \in [Actors -> RequestStates \cup WorkerStates] /\ pc'[a] = "list"
      /\ todo' \in [Actors -> SUBSET Keys] /\ todo'[a] = {k}
      /\ wanted' \in [Actors -> Wishes]
      /\ \A b \in Actors \ {a} : /\ pc'[b] = pc[b] /\ todo'[b] = todo[b]
                                 /\ wanted'[b] = wanted[b]
  BY <1>1, <1>2, <1>3, <1>5, <1>6 DEF Typed, RequestStates, QueueingStates
<1>8. Typed'
  BY <1>2, <1>5, <1>7 DEF Typed
<1>9. OthersKept(a)
  BY <1>5, <1>7 DEF OthersKept
<1>10. ActorOK(a)'
  BY <1>1, <1>7 DEF ActorOK, RequestStates, QueueingStates
<1>11. InFlight(a) = {} /\ rows[a] = {} /\ InFlight(a)' = {k}
  BY <1>2, <1>5, <1>7 DEF ActorOK, InFlight
<1>12. \A j \in Keys \ disturbed' : ActorClean(a, j)' /\ j \notin InFlight(a)'
  BY <1>3, <1>5, <1>7, <1>11 DEF ActorClean
<1> QED
  BY <1>3, <1>5, <1>8, <1>9, <1>10, <1>11, <1>12, RequestKeeps

LEMMA UpsertKeeps ==
  ASSUME AppointmentsInv, NEW a \in Requests, Upsert(a)
  PROVE  AppointmentsInv'
<1>1. a \in Actors /\ a # "worker"
  BY WorkerAssumption DEF Actors
<1>2. Typed /\ ActorOK(a) /\ wanted[a] \in Wishes /\ rows[a] \subseteq Keys \cup {System}
  BY <1>1, ActorType
<1>3. PICK k \in rows[a] :
        /\ settings' = [settings EXCEPT ![k] = wanted[a]]
        /\ rows' = [rows EXCEPT ![a] = @ \ {k}]
        /\ Goto(a, IF rows[a] = {k} THEN "done" ELSE "upsert")
  BY DEF Upsert
<1>4. PICK to : to = IF rows[a] = {k} THEN "done" ELSE "upsert"
  OBVIOUS
<1>5. /\ pc[a] = "upsert" /\ queue' = queue /\ memory' = memory /\ todo' = todo
      /\ match' = match /\ disturbed' = disturbed
  BY DEF Upsert
<1>6. /\ pc' \in [Actors -> RequestStates \cup WorkerStates] /\ pc'[a] = to
      /\ wanted' \in [Actors -> Wishes]
      /\ to # "done" => wanted' = wanted
      /\ \A b \in Actors \ {a} : pc'[b] = pc[b] /\ wanted'[b] = wanted[b]
  <2>1. to \in RequestStates \cup WorkerStates /\ Goto(a, to)
    BY <1>3, <1>4 DEF RequestStates
  <2> QED
    BY <1>1, <2>1, GotoFacts
<1>7. /\ rows' \in [Actors -> SUBSET (Keys \cup {System})] /\ rows'[a] = rows[a] \ {k}
      /\ \A b \in Actors \ {a} : rows'[b] = rows[b]
  BY <1>1, <1>2, <1>3 DEF Typed
<1>8. /\ settings' \in [Keys \cup {System} -> Wishes \cup {NoRow}] /\ settings'[k] = wanted[a]
      /\ \A j \in Keys : j # k => settings'[j] = settings[j]
  BY <1>2, <1>3 DEF Typed
<1>9. Typed'
  BY <1>2, <1>5, <1>6, <1>7, <1>8 DEF Typed
<1>10. OthersKept(a)
  BY <1>5, <1>6, <1>7 DEF OthersKept
<1>11. todo[a] = {} /\ InFlight(a) = rows[a] /\ InFlight(a)' = rows[a] \ {k}
  BY <1>2, <1>5, <1>7 DEF ActorOK, InFlight
<1>12. ActorOK(a)'
  BY <1>1, <1>4, <1>5, <1>6, <1>11 DEF ActorOK, RequestStates, QueueingStates
<1>13. ASSUME NEW j \in Keys \ disturbed
       PROVE  ActorClean(a, j)' /\ (j = k => Agree(j, wanted[a]))
  <2>1. ActorClean(a, j)
    BY <1>1 DEF AppointmentsInv, Clean
  <2>2. j \in rows[a] => Agree(j, wanted[a])
    BY <1>11, <2>1 DEF ActorClean
  <2>3. j \in rows'[a] => Agree(j, wanted[a])'
    <3>1. j \in rows'[a] => wanted'[a] = wanted[a]
      BY <1>4, <1>6, <1>7
    <3> QED
      BY <1>5, <1>7, <2>2, <3>1 DEF Agree, EntriesOf
  <2>4. pc'[a] \notin {"remove", "forget", "remember"} /\ todo'[a] = {}
    BY <1>4, <1>5, <1>6, <1>11
  <2> QED
    BY <2>2, <2>3, <2>4 DEF ActorClean
<1> QED
  BY <1>5, <1>8, <1>9, <1>10, <1>11, <1>12, <1>13, RequestKeeps

LEMMA FailKeeps ==
  ASSUME AppointmentsInv, NEW a \in Requests, Fail(a)
  PROVE  AppointmentsInv'
<1>1. a \in Actors /\ a # "worker"
  BY WorkerAssumption DEF Actors
<1>2. Typed /\ ActorOK(a)
  BY <1>1, ActorType
<1>3. /\ Goto(a, "done") /\ todo' = [todo EXCEPT ![a] = {}] /\ rows' = [rows EXCEPT ![a] = {}]
      /\ match' = [match EXCEPT ![a] = {}] /\ disturbed' = disturbed \cup InFlight(a)
      /\ queue' = queue /\ settings' = settings /\ memory' = memory
  BY DEF Fail
<1>4. /\ pc' \in [Actors -> RequestStates \cup WorkerStates] /\ pc'[a] = "done"
      /\ wanted' \in [Actors -> Wishes]
      /\ \A b \in Actors \ {a} : pc'[b] = pc[b] /\ wanted'[b] = wanted[b]
  <2>1. "done" \in RequestStates \cup WorkerStates
    BY DEF RequestStates
  <2> QED
    BY <1>1, <1>3, <2>1, GotoFacts
<1>5. /\ todo' \in [Actors -> SUBSET Keys] /\ todo'[a] = {}
      /\ rows' \in [Actors -> SUBSET (Keys \cup {System})] /\ rows'[a] = {}
      /\ match' \in [Actors -> SUBSET Entries]
      /\ \A b \in Actors \ {a} : /\ todo'[b] = todo[b] /\ rows'[b] = rows[b]
                                 /\ match'[b] = match[b]
  BY <1>1, <1>2, <1>3 DEF Typed
<1>6. Typed'
  BY <1>2, <1>3, <1>4, <1>5 DEF Typed
<1>7. OthersKept(a)
  BY <1>4, <1>5 DEF OthersKept
<1>8. InFlight(a)' = {}
  BY <1>5 DEF InFlight
<1>9. ActorOK(a)'
  BY <1>1, <1>4, <1>8 DEF ActorOK, RequestStates, QueueingStates
<1>10. \A k \in Keys \ disturbed' : ActorClean(a, k)' /\ k \notin InFlight(a)
  BY <1>3, <1>4, <1>5 DEF ActorClean
<1> QED
  BY <1>3, <1>6, <1>7, <1>8, <1>9, <1>10, RequestKeeps

-----------------------------------------------------------------------------
(* The restart, and the theorems.                                          *)

LEMMA CrashKeeps ==
  ASSUME AppointmentsInv, Crash
  PROVE  AppointmentsInv'
<1>0. Typed /\ AtMostOne /\ Nothing \in Wishes
  BY DefaultAssumption DEF AppointmentsInv, Nothing, Wishes
<1>1. /\ pc' = [a \in Actors |-> IF a = "worker" THEN "check"
                                 ELSE IF pc[a] = "idle" THEN "idle" ELSE "done"]
      /\ todo' = [a \in Actors |-> IF a = "worker" THEN Internal ELSE {}]
      /\ rows' = [a \in Actors |-> {}] /\ match' = [a \in Actors |-> {}]
      /\ memory' = [p \in {"api", "worker"} |-> {}]
      /\ wanted' = [a \in Actors |-> Nothing]
      /\ queue' = queue /\ settings' = settings
      /\ disturbed' = disturbed \cup Internal \cup UNION {InFlight(r) : r \in Requests}
  BY DEF Crash
<1>2. Typed'
  BY <1>0, <1>1 DEF Typed, RequestStates, WorkerStates, Keys
<1>3. ASSUME NEW a \in Actors PROVE ActorOK(a)'
  <2>1. CASE a = "worker"
    BY <1>1, <2>1 DEF ActorOK, WorkerStates, QueueingStates
  <2>2. CASE a # "worker"
    <3>1. pc'[a] \in {"idle", "done"} /\ InFlight(a)' = {}
      BY <1>1, <2>2 DEF InFlight
    <3> QED
      BY <2>2, <3>1 DEF ActorOK, RequestStates, QueueingStates
  <2> QED
    BY <2>1, <2>2
<1>4. AtMostOne' /\ \A k : EntriesOf(k)' = EntriesOf(k)
  BY <1>0, <1>1 DEF AtMostOne, EntriesOf
<1>5. ASSUME NEW k \in Keys \ disturbed' PROVE Clean(k)'
  <2>1. Clean(k) /\ k \notin Internal /\ \A r \in Requests : k \notin InFlight(r)
    BY <1>1, <1>5 DEF AppointmentsInv
  <2>2. k \notin InFlight("worker")
    <3>1. "worker" \in Actors
      BY DEF Actors
    <3>2. ActorOK("worker")
      BY <3>1 DEF AppointmentsInv
    <3> QED
      BY <2>1, <3>2 DEF ActorOK, InFlight
  <2>3. \A a \in Actors : k \notin InFlight(a)
    BY <2>1, <2>2 DEF Actors
  <2>4. \A a \in Actors : k \notin todo'[a] /\ k \notin rows'[a]
    BY <1>1, <2>1
  <2>5. \A a \in Actors : pc'[a] \notin {"remove", "forget", "remember"}
    BY <1>1
  <2>6. Alone(k)' /\ \A a \in Actors : ActorClean(a, k)'
    BY <2>4, <2>5 DEF Alone, InFlight, ActorClean
  <2>7. settings'[k] # NoRow => Agree(k, settings[k])'
    BY <1>1, <1>4, <2>1, <2>3 DEF Clean, Agree
  <2>8. k \notin todo'["worker"]
    BY <2>4 DEF Actors
  <2> QED
    BY <2>6, <2>7, <2>8 DEF Clean
<1> QED
  BY <1>2, <1>3, <1>4, <1>5 DEF AppointmentsInv

LEMMA InitAppointments == Init => AppointmentsInv
<1> SUFFICES ASSUME Init PROVE AppointmentsInv
  OBVIOUS
<1>0. Nothing \in Wishes /\ Default \in Recurrences
  BY DefaultAssumption DEF Nothing, Wishes
<1>1. queue \subseteq Entries /\ AtMostOne
  <2>1. \A e \in queue : e \in [key : Keys, legacy : {TRUE}, recurrence : {Default}]
    BY DEF Init
  <2>2. \A e \in queue : e \in Entries /\ e.legacy = TRUE /\ e.recurrence = Default
    BY <1>0, <2>1 DEF Entries
  <2>3. ASSUME NEW e \in queue
        PROVE  e = [key |-> e.key, legacy |-> TRUE, recurrence |-> Default]
    <3>1. /\ e \in [key : Keys, legacy : {TRUE}, recurrence : {Default}]
          /\ e.legacy = TRUE /\ e.recurrence = Default
      BY <2>1, <2>2
    <3> QED
      BY <3>1
  <2>4. \A e, f \in queue : e.key = f.key => e = f
    BY <2>3
  <2> QED
    BY <2>2, <2>4 DEF AtMostOne
<1>2. Typed
  BY <1>0, <1>1 DEF Init, Typed, RequestStates, WorkerStates, Keys
<1>3. ASSUME NEW a \in Actors PROVE ActorOK(a)
  <2>1. CASE a = "worker"
    BY <2>1 DEF Init, ActorOK, WorkerStates, QueueingStates
  <2>2. CASE a # "worker"
    <3>1. pc[a] = "idle" /\ InFlight(a) = {}
      BY <2>2 DEF Init, InFlight
    <3> QED
      BY <2>2, <3>1 DEF ActorOK, RequestStates, QueueingStates
  <2> QED
    BY <2>1, <2>2
<1>4. ASSUME NEW k \in Keys PROVE Clean(k)
  <2>1. settings[k] = NoRow
    BY DEF Init
  <2>2. \A a \in Actors : a # "worker" => InFlight(a) = {}
    BY DEF Init, InFlight
  <2>3. \A a \in Actors : ActorClean(a, k)
    BY <2>2 DEF Init, ActorClean, InFlight
  <2> QED
    BY <2>1, <2>2, <2>3 DEF Clean, Alone
<1> QED
  BY <1>1, <1>2, <1>3, <1>4 DEF AppointmentsInv

LEMMA NextAppointments == AppointmentsInv /\ [Next]_vars => AppointmentsInv'
<1> SUFFICES ASSUME AppointmentsInv, [Next]_vars PROVE AppointmentsInv'
  OBVIOUS
<1>1. CASE UNCHANGED vars
  <2>1. /\ queue' = queue /\ settings' = settings /\ memory' = memory /\ pc' = pc
        /\ todo' = todo /\ rows' = rows /\ wanted' = wanted /\ match' = match
        /\ disturbed' = disturbed
    BY <1>1 DEF vars
  <2>2. \A a : InFlight(a)' = InFlight(a) /\ Current(a)' = Current(a)
    BY <2>1 DEF InFlight, Current
  <2>3. \A k : EntriesOf(k)' = EntriesOf(k)
    BY <2>1 DEF EntriesOf
  <2>4. Typed' /\ AtMostOne'
    BY <2>1 DEF AppointmentsInv, Typed, AtMostOne
  <2>5. ASSUME NEW a \in Actors PROVE ActorOK(a)'
    <3>1. \A e : e \in EntriesOf(Current(a))' <=> e \in EntriesOf(Current(a))
      BY <2>1, <2>2 DEF EntriesOf
    <3> QED
      BY <2>1, <2>2, <3>1 DEF AppointmentsInv, ActorOK
  <2>6. ASSUME NEW k \in Keys \ disturbed PROVE Clean(k)'
    <3>1. Clean(k)
      BY DEF AppointmentsInv
    <3>2. \A w : Agree(k, w)' <=> Agree(k, w)
      BY <2>3 DEF Agree
    <3>3. ASSUME NEW a \in Actors PROVE ActorClean(a, k)'
      BY <2>1, <2>2, <2>3, <3>1, <3>2 DEF Clean, ActorClean, Agree
    <3> QED
      BY <2>1, <2>2, <2>3, <3>1, <3>3 DEF Clean, Alone, Agree
  <2> QED
    BY <2>1, <2>4, <2>5, <2>6 DEF AppointmentsInv
<1>2. ASSUME NEW r \in Requests,
             \/ UpdateStatus(r) \/ UpdateInternal(r) \/ DebugUnschedule(r)
             \/ ListAppointments(r) \/ RememberFound(r) \/ Upsert(r) \/ Fail(r)
      PROVE  AppointmentsInv'
  <2>1. CASE UpdateStatus(r)
    <3>1. PICK k \in Keys : Begin(r, {k}, {k})
      BY <2>1 DEF UpdateStatus
    <3> QED
      BY <3>1, BeginKeeps
  <2>2. CASE UpdateInternal(r)
    <3>1. Begin(r, Internal, Internal \cup {System})
      BY <2>2 DEF UpdateInternal
    <3>2. Internal \in SUBSET Keys /\ Internal \cup {System} \in SUBSET (Keys \cup {System})
      BY DEF Keys
    <3> QED
      BY <3>1, <3>2, InternalAssumption, BeginKeeps
  <2>3. CASE DebugUnschedule(r)
    BY <2>3, DebugUnscheduleKeeps
  <2>4. CASE ListAppointments(r) \/ RememberFound(r)
    BY <2>4, ListAppointmentsKeeps
  <2>5. CASE Upsert(r)
    BY <2>5, UpsertKeeps
  <2>6. CASE Fail(r)
    BY <2>6, FailKeeps
  <2> QED
    BY <1>2, <2>1, <2>2, <2>3, <2>4, <2>5, <2>6
<1>3. ASSUME NEW a \in Actors, Queueing(a) PROVE AppointmentsInv'
  BY <1>3, ListSchedulersKeeps, RemoveSchedulerKeeps, ForgetKeeps, AddKeeps,
     RememberKeeps DEF Queueing
<1>4. CASE Initialize
  BY <1>4, InitializeKeeps
<1>5. CASE Crash
  BY <1>5, CrashKeeps
<1> QED
  BY <1>1, <1>2, <1>3, <1>4, <1>5 DEF Next

\* What every actor knows of the key it is at, and what the queue holds of the
\* keys nothing has disturbed: AppointmentsInv holds in every state.
THEOREM AppointmentsInvariant == Spec => []AppointmentsInv
  BY InitAppointments, NextAppointments, PTL DEF Spec

LEMMA TypeFollows == AppointmentsInv => TypeOK
<1> SUFFICES ASSUME AppointmentsInv PROVE TypeOK
  OBVIOUS
<1>1. Typed
  BY DEF AppointmentsInv
<1>2. \A a \in Actors : ActorOK(a)
  BY DEF AppointmentsInv
<1> QED
  BY <1>1, <1>2 DEF TypeOK, Typed, Entries, ActorOK, QueueingStates

\* The queue, the settings and the processes' memories are well formed, and an
\* actor at the queue always has a key it is there for.
THEOREM TypeCorrect == Spec => []TypeOK
  BY AppointmentsInvariant, TypeFollows, PTL

LEMMA OneSchedulerFollows == AppointmentsInv => OneScheduler
<1> SUFFICES ASSUME AppointmentsInv, NEW k \in Keys PROVE Cardinality(EntriesOf(k)) <= 1
  BY DEF OneScheduler
<1>1. \A e, f \in EntriesOf(k) : e = f
  BY DEF AppointmentsInv, AtMostOne, EntriesOf
<1>2. CASE EntriesOf(k) = {}
  BY <1>2, FS_EmptySet
<1>3. CASE EntriesOf(k) # {}
  <2>1. PICK e : EntriesOf(k) = {e}
    BY <1>1, <1>3
  <2>2. Cardinality({e}) = 1
    BY FS_Singleton
  <2> QED
    BY <2>1, <2>2
<1> QED
  BY <1>2, <1>3

\* However many requests, initializers and restarts interleave, the queue never
\* holds two schedulers of one appointment, an old release's included.
THEOREM OneSchedulerCorrect == Spec => []OneScheduler
  BY AppointmentsInvariant, OneSchedulerFollows, PTL

LEMMA SettingsAgreeFollows == AppointmentsInv => SettingsAgree
  BY DEF AppointmentsInv, SettingsAgree, Clean, Agree

\* The stored setting of an appointment and the queue agree whenever nobody is
\* at work on it and nothing has disturbed it.
THEOREM SettingsAgreeCorrect == Spec => []SettingsAgree
  BY AppointmentsInvariant, SettingsAgreeFollows, PTL
=============================================================================
