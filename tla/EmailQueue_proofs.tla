------------------------- MODULE EmailQueue_proofs -------------------------
(***************************************************************************)
(* Proofs about the e-mail queue, for any number of mails and workers, any *)
(* number of deaths and any environment.                                   *)
(*                                                                         *)
(* SentAgainForAReason is not inductive: it does not count the mails that  *)
(* are still going to leave.  SendsOK adds them: a worker that lost its job*)
(* and has not heard from the provider yet may send once more, and the     *)
(* stall that took its job away pays for that.                             *)
(***************************************************************************)
EXTENDS EmailQueue, FiniteSetTheorems, TLAPS

Statuses ==
  {"none", "refused", "waiting", "active", "delayed", "completed", "failed"}

JobType == [status : Statuses, attempts : Nat, stalls : Nat,
            owner : Workers \cup {Nobody}]
BusyType == [mail : Users \cup {Nobody},
             outcome : {"none", "pending", "sent", "error"}]

Typed ==
  /\ job \in [Users -> JobType]
  /\ busy \in [Workers -> BusyType]
  /\ sent \in [Users -> Nat]
  /\ unsure \in [Users -> Nat]

\* A job in the queue has attempts and a stall left, and only an active one has
\* an owner.
JobOK(u) ==
  /\ job[u].owner # Nobody =>
       job[u].status = "active" /\ busy[job[u].owner].mail = u
  /\ job[u].attempts <= MaxAttempts /\ job[u].stalls <= MaxStalled + 1
  /\ job[u].status \in {"none", "refused", "waiting", "active", "delayed"} =>
       job[u].attempts < MaxAttempts /\ job[u].stalls <= MaxStalled
  /\ job[u].status \in {"none", "refused"} => sent[u] = 0

\* What a worker is doing is about a mail that was enqueued.
BusyOK(w) ==
  /\ busy[w].mail = Nobody <=> busy[w] = Idle
  /\ busy[w].outcome = "none" <=> busy[w] = Idle
  /\ busy[w] # Idle => job[busy[w].mail].status \notin {"none", "refused"}
  /\ busy[w].outcome = "sent" => sent[busy[w].mail] >= 1

\* Before the worker has started, nothing is in the queue.
StartsEmpty ==
  mailer.provider = "none" =>
    /\ \A u \in Users : job[u].status = "none"
    /\ \A w \in Workers : busy[w] = Idle

\* Workers that still wait for the provider, their job taken away.
Strays(u) ==
  {w \in Workers : /\ busy[w].mail = u /\ busy[w].outcome = "pending"
                   /\ job[u].owner # w}

\* The mail has left once for a job that completes, or that stalls next.
Left(u) ==
  IF \/ job[u].status = "completed"
     \/ /\ job[u].status = "active"
        /\ job[u].owner = Nobody \/ busy[job[u].owner].outcome = "sent"
  THEN 1 ELSE 0

SendsOK(u) ==
  sent[u] + Cardinality(Strays(u)) <= unsure[u] + job[u].stalls + Left(u)

\* As long as the lock is renewed in time, who works on a mail owns its job.
LockOwns ==
  /\ lock.duration > 5000 => LockKept
  /\ LockKept => \A w \in Workers : busy[w] # Idle => job[busy[w].mail].owner = w

MailInv ==
  /\ Typed
  /\ \A u \in Users : JobOK(u) /\ SendsOK(u)
  /\ \A w \in Workers : BusyOK(w)
  /\ StartsEmpty
  /\ NoMailLost
  /\ LockOwns

-----------------------------------------------------------------------------
LEMMA MaxOfTwo ==
  ASSUME NEW a \in Nat, NEW b \in Nat
  PROVE  Max({a, b}) = IF a >= b THEN a ELSE b
<1>1. PICK x : x = IF a >= b THEN a ELSE b
  OBVIOUS
<1>2. x \in {a, b} /\ \A y \in {a, b} : x >= y
  BY <1>1
<1>3. PICK m : m = Max({a, b})
  OBVIOUS
<1>4. m \in {a, b} /\ \A y \in {a, b} : m >= y
  BY <1>2, <1>3 DEF Max
<1> QED
  BY <1>1, <1>2, <1>3, <1>4

LEMMA MinOfTwo ==
  ASSUME NEW a \in Nat, NEW b \in Nat
  PROVE  Min({a, b}) = IF a <= b THEN a ELSE b
<1>1. PICK x : x = IF a <= b THEN a ELSE b
  OBVIOUS
<1>2. x \in {a, b} /\ \A y \in {a, b} : x <= y
  BY <1>1
<1>3. PICK m : m = Min({a, b})
  OBVIOUS
<1>4. m \in {a, b} /\ \A y \in {a, b} : m <= y
  BY <1>2, <1>3 DEF Min
<1> QED
  BY <1>1, <1>2, <1>3, <1>4

\* However the environment sets the lock, a lock longer than the shortest
\* renewal time is renewed before it runs out.
LEMMA LongLockIsKept ==
  ASSUME NEW setting \in LockSettings, LockDuration(setting) > 5000
  PROVE  LockRenewTime(setting) < LockDuration(setting)
<1>1. setting[1] \in Nat /\ setting[2] \in Nat
  BY SettingsAssumption
<1>2. PICK d : d = LockDuration(setting)
  OBVIOUS
<1>3. d \in Nat /\ d > 5000
  BY <1>1, <1>2, MaxOfTwo DEF LockDuration
<1>4. PICK h : h = d \div 2 /\ h \in Nat /\ h < d
  BY <1>3
<1>5. PICK r : r = Max({5000, setting[2]})
  OBVIOUS
<1>6. r \in Nat
  BY <1>1, <1>5, MaxOfTwo
<1>7. PICK m : m = Min({r, h})
  OBVIOUS
<1>8. m \in Nat /\ m < d
  BY <1>3, <1>4, <1>6, <1>7, MinOfTwo
<1>9. LockRenewTime(setting) = Max({5000, m})
  BY <1>2, <1>4, <1>5, <1>7 DEF LockRenewTime
<1>10. Max({5000, m}) < d
  BY <1>3, <1>8, MaxOfTwo
<1> QED
  BY <1>2, <1>9, <1>10

LEMMA StraysFinite ==
  ASSUME NEW S \in SUBSET Workers
  PROVE  IsFiniteSet(S) /\ Cardinality(S) \in Nat
  BY WorkersAssumption, FS_Subset, FS_CardinalityType

\* Who loses no stray's mail and no reason for one keeps the count.
LEMMA SendsKept ==
  ASSUME Typed, Typed', NEW u \in Users, SendsOK(u), Strays(u)' \subseteq Strays(u),
         sent'[u] = sent[u], unsure'[u] = unsure[u],
         job'[u].stalls + Left(u)' >= job[u].stalls + Left(u)
  PROVE  SendsOK(u)'
<1>1. Strays(u) \in SUBSET Workers /\ Strays(u)' \in SUBSET Workers
  BY DEF Strays
<1>2. /\ Cardinality(Strays(u)) \in Nat /\ Cardinality(Strays(u)') \in Nat
      /\ Cardinality(Strays(u)') <= Cardinality(Strays(u))
  BY <1>1, StraysFinite, FS_Subset
<1>3. /\ sent[u] \in Nat /\ unsure[u] \in Nat
      /\ job[u].stalls \in Nat /\ job'[u].stalls \in Nat
  BY DEF Typed, JobType
<1>4. Left(u) \in {0, 1} /\ Left(u)' \in {0, 1}
  BY DEF Left
<1> QED
  BY <1>2, <1>3, <1>4 DEF SendsOK

LEMMA InitMailInv == Init => MailInv
<1> SUFFICES ASSUME Init PROVE MailInv
  OBVIOUS
<1>1. Typed
  BY DEF Init, Typed, JobType, BusyType, Job, Idle, Statuses
<1>2. ASSUME NEW u \in Users PROVE JobOK(u) /\ SendsOK(u)
  <2>1. Strays(u) = {}
    BY DEF Init, Strays, Idle
  <2>2. Left(u) = 0
    BY DEF Init, Left, Job
  <2> QED
    BY <2>1, <2>2, FS_EmptySet, AttemptsAssumption
    DEF Init, JobOK, SendsOK, Job, MaxStalled
<1>3. \A w \in Workers : BusyOK(w)
  BY DEF Init, BusyOK, Idle
<1> QED
  BY <1>1, <1>2, <1>3
  DEF Init, MailInv, StartsEmpty, Job, NoMailLost, LockOwns, LockKept, Idle

-----------------------------------------------------------------------------
\* Booting fixes the lock while nobody has a job.
LEMMA BootMail == MailInv /\ Boot => MailInv'
<1> SUFFICES ASSUME MailInv, Boot PROVE MailInv'
  OBVIOUS
<1>1. /\ job' = job /\ busy' = busy /\ sent' = sent /\ unsure' = unsure
      /\ mailer'.provider # "none"
      /\ \A u \in Users : job[u].status = "none"
      /\ \A w \in Workers : busy[w] = Idle
  BY DEF Boot, MailInv, StartsEmpty
<1>2. PICK setting \in LockSettings :
        lock' = [duration |-> LockDuration(setting), renew |-> LockRenewTime(setting)]
  BY DEF Boot
<1>3. LockOwns'
  BY <1>1, <1>2, LongLockIsKept DEF LockOwns, LockKept
<1>4. \A u : JobOK(u)' <=> JobOK(u)
  BY <1>1 DEF JobOK
<1>5. \A u : SendsOK(u)' <=> SendsOK(u)
  BY <1>1 DEF SendsOK, Strays, Left
<1>6. \A w : BusyOK(w)' <=> BusyOK(w)
  BY <1>1 DEF BusyOK
<1> QED
  BY <1>1, <1>3, <1>4, <1>5, <1>6 DEF MailInv, Typed, StartsEmpty, NoMailLost

\* The mails are enqueued, or not.
LEMMA EnqueueMail == MailInv /\ UpcomingExpenses => MailInv'
<1> SUFFICES ASSUME MailInv, UpcomingExpenses PROVE MailInv'
  OBVIOUS
<1>1. /\ busy' = busy /\ sent' = sent /\ unsure' = unsure /\ lock' = lock
      /\ mailer' = mailer /\ mailer.provider # "none"
      /\ \A u \in Users : job[u].status = "none"
  BY DEF UpcomingExpenses
<1>2. PICK E \in SUBSET Users :
        job' = [u \in Users |-> IF u \in E THEN Job("waiting", 0, 0, Nobody)
                                ELSE Job("refused", 0, 0, Nobody)]
  BY DEF UpcomingExpenses
<1>3. \A u \in Users : /\ job'[u].status \in {"waiting", "refused"}
                       /\ job'[u].attempts = 0 /\ job'[u].stalls = 0
                       /\ job'[u].owner = Nobody /\ job'[u] \in JobType
  BY <1>2 DEF Job, JobType, Statuses
<1>4. Typed'
  BY <1>1, <1>2, <1>3 DEF MailInv, Typed
<1>5. \A w \in Workers : busy[w] = Idle
  BY <1>1 DEF MailInv, BusyOK, Typed, BusyType
<1>6. ASSUME NEW u \in Users PROVE JobOK(u)' /\ SendsOK(u)'
  <2>1. sent[u] = 0 /\ unsure[u] \in Nat
    BY <1>1 DEF MailInv, JobOK, Typed
  <2>2. Strays(u)' = {}
    BY <1>1, <1>5 DEF Strays, Idle
  <2>3. Left(u)' = 0
    BY <1>3 DEF Left
  <2>4. SendsOK(u)'
    BY <2>1, <2>2, <2>3, <1>1, <1>3, FS_EmptySet DEF SendsOK
  <2> QED
    BY <2>1, <2>4, <1>1, <1>3, AttemptsAssumption DEF JobOK, MaxStalled
<1>7. \A w \in Workers : BusyOK(w)'
  BY <1>1, <1>5 DEF BusyOK, Idle
<1>8. LockOwns'
  BY <1>1, <1>5 DEF MailInv, LockOwns, LockKept
<1> QED
  BY <1>1, <1>3, <1>4, <1>6, <1>7, <1>8 DEF MailInv, StartsEmpty, NoMailLost

\* A worker that has a mail has one of the users'.
LEMMA BusyMail ==
  ASSUME MailInv, NEW w \in Workers, busy[w] # Idle
  PROVE  busy[w].mail \in Users /\ busy[w].mail # Nobody
  BY DEF MailInv, BusyOK, Typed, BusyType

LEMMA TakeMail ==
  ASSUME MailInv, NEW w \in Workers, Take(w)
  PROVE  MailInv'
<1>0. Typed
  BY DEF MailInv
<1>1. PICK u \in Users :
        /\ job[u].status = "waiting"
        /\ job' = [job EXCEPT ![u].status = "active", ![u].owner = w]
        /\ busy' = [busy EXCEPT ![w] = [mail |-> u, outcome |-> "pending"]]
  BY DEF Take
<1>2. /\ busy[w] = Idle /\ sent' = sent /\ unsure' = unsure /\ lock' = lock
      /\ mailer' = mailer
  BY DEF Take
<1>3. /\ job'[u].status = "active" /\ job'[u].owner = w
      /\ job'[u].attempts = job[u].attempts /\ job'[u].stalls = job[u].stalls
      /\ job'[u] \in JobType
      /\ \A x \in Users \ {u} : job'[x] = job[x]
      /\ job' \in [Users -> JobType]
  BY <1>0, <1>1 DEF Typed, JobType, Statuses
<1>4. /\ busy'[w] = [mail |-> u, outcome |-> "pending"]
      /\ \A v \in Workers \ {w} : busy'[v] = busy[v]
      /\ busy' \in [Workers -> BusyType]
  BY <1>0, <1>1 DEF Typed, BusyType
<1>5. Typed'
  BY <1>0, <1>2, <1>3, <1>4 DEF Typed
<1>6. \A x \in Users : job[x].owner # w
  BY <1>2, WorkersAssumption DEF MailInv, JobOK, Idle
<1>7. job[u].owner = Nobody /\ Nobody \notin Workers /\ Nobody # u
  BY <1>1, WorkersAssumption DEF MailInv, JobOK
<1>8. ASSUME NEW x \in Users PROVE JobOK(x)' /\ SendsOK(x)'
  <2>1. JobOK(x) /\ SendsOK(x)
    BY DEF MailInv
  <2>2. JobOK(x)'
    <3>1. CASE x = u
      BY <3>1, <2>1, <1>1, <1>2, <1>3, <1>4 DEF JobOK
    <3>2. CASE x # u
      <4>1. job'[x] = job[x] /\ job[x].owner # w
        BY <3>2, <1>3, <1>6
      <4>2. job[x].owner # Nobody => busy'[job[x].owner] = busy[job[x].owner]
        BY <4>1, <1>0, <1>4 DEF Typed, JobType
      <4> QED
        BY <4>1, <4>2, <2>1, <1>2 DEF JobOK
    <3> QED
      BY <3>1, <3>2
  <2>3. Strays(x)' \subseteq Strays(x)
    <3> SUFFICES ASSUME NEW v \in Workers, busy'[v].mail = x,
                        busy'[v].outcome = "pending", job'[x].owner # v
                 PROVE  v \in Strays(x)
      BY DEF Strays
    <3>1. v # w
      BY <1>3, <1>4
    <3>2. busy[v].mail = x /\ busy[v].outcome = "pending"
      BY <3>1, <1>4
    <3>3. job[x].owner # v
      BY <3>1, <1>3, <1>7
    <3> QED
      BY <3>2, <3>3 DEF Strays
  <2>4. job'[x].stalls = job[x].stalls /\ Left(x)' = Left(x)
    <3>1. CASE x = u
      BY <3>1, <1>1, <1>3, <1>4, <1>7 DEF Left
    <3>2. CASE x # u
      <4>1. job'[x] = job[x] /\ job[x].owner # w
        BY <3>2, <1>3, <1>6
      <4>2. job[x].owner # Nobody => busy'[job[x].owner] = busy[job[x].owner]
        BY <4>1, <1>0, <1>4 DEF Typed, JobType
      <4> QED
        BY <4>1, <4>2 DEF Left
    <3> QED
      BY <3>1, <3>2
  <2>5. job[x].stalls \in Nat /\ Left(x) \in {0, 1}
    BY <1>0 DEF Typed, JobType, Left
  <2>6. SendsOK(x)'
    BY <2>1, <2>3, <2>4, <2>5, <1>0, <1>2, <1>5, SendsKept
  <2> QED
    BY <2>2, <2>6
<1>9. ASSUME NEW v \in Workers PROVE BusyOK(v)'
  <2>1. CASE v = w
    BY <2>1, <1>3, <1>4, <1>7 DEF BusyOK, Idle
  <2>2. CASE v # w
    <3>1. busy'[v] = busy[v] /\ BusyOK(v)
      BY <2>2, <1>4 DEF MailInv
    <3>2. busy[v] # Idle => busy[v].mail \in Users
      BY BusyMail
    <3>3. \A x \in Users : job[x].status \notin {"none", "refused"}
                             => job'[x].status \notin {"none", "refused"}
      BY <1>3
    <3> QED
      BY <3>1, <3>2, <3>3, <1>2 DEF BusyOK
  <2> QED
    BY <2>1, <2>2
<1>10. StartsEmpty'
  BY <1>1, <1>2 DEF MailInv, StartsEmpty
<1>11. NoMailLost'
  BY <1>2, <1>3 DEF MailInv, NoMailLost
<1>12. LockOwns'
  <2> SUFFICES ASSUME LockKept, NEW v \in Workers, busy'[v] # Idle
               PROVE  job'[busy'[v].mail].owner = v
    BY <1>2 DEF MailInv, LockOwns, LockKept
  <2>1. CASE v = w
    BY <2>1, <1>3, <1>4
  <2>2. CASE v # w
    <3>1. busy'[v] = busy[v] /\ busy[v].mail \in Users
      BY <2>2, <1>4, BusyMail
    <3>2. job[busy[v].mail].owner = v
      BY <3>1 DEF MailInv, LockOwns
    <3> QED
      BY <3>1, <3>2, <1>3, <1>7
  <2> QED
    BY <2>1, <2>2
<1> QED
  BY <1>5, <1>8, <1>9, <1>10, <1>11, <1>12 DEF MailInv

\* The provider takes the mail or not, and answers or not.
LEMMA SendMail ==
  ASSUME MailInv, NEW w \in Workers, Send(w)
  PROVE  MailInv'
<1>0. Typed
  BY DEF MailInv
<1>1. busy[w].outcome = "pending" /\ busy[w] # Idle
  BY DEF Send, Idle
<1>2. PICK u \in Users : busy[w].mail = u
  BY <1>1, BusyMail
<1>3. PICK leaves \in BOOLEAN, answers \in BOOLEAN :
        /\ answers => leaves
        /\ busy' = [busy EXCEPT ![w].outcome = IF answers THEN "sent" ELSE "error"]
        /\ sent' = [sent EXCEPT ![u] = @ + IF leaves THEN 1 ELSE 0]
        /\ unsure' = [unsure EXCEPT ![u] = @ + IF leaves /\ ~answers THEN 1 ELSE 0]
  BY <1>2 DEF Send
<1>4. job' = job /\ lock' = lock /\ mailer' = mailer
  BY DEF Send
<1>5. /\ busy' \in [Workers -> BusyType]
      /\ busy'[w].mail = u
      /\ busy'[w].outcome = IF answers THEN "sent" ELSE "error"
      /\ \A v \in Workers \ {w} : busy'[v] = busy[v]
      /\ \A v \in Workers : busy'[v].mail = busy[v].mail
  BY <1>0, <1>2, <1>3 DEF Typed, BusyType
<1>6. /\ sent' \in [Users -> Nat] /\ unsure' \in [Users -> Nat]
      /\ \A x \in Users \ {u} : sent'[x] = sent[x] /\ unsure'[x] = unsure[x]
      /\ sent'[u] = sent[u] + (IF leaves THEN 1 ELSE 0)
      /\ unsure'[u] = unsure[u] + (IF leaves /\ ~answers THEN 1 ELSE 0)
      /\ \A x \in Users : sent'[x] >= sent[x]
  BY <1>0, <1>3 DEF Typed
<1>7. Typed'
  BY <1>0, <1>4, <1>5, <1>6 DEF Typed
<1>8. job[u].status \notin {"none", "refused"}
  BY <1>1, <1>2 DEF MailInv, BusyOK
<1>9. ASSUME NEW x \in Users PROVE JobOK(x)'
  <2>1. JobOK(x)
    BY DEF MailInv
  <2>2. job[x].owner # Nobody => busy'[job[x].owner].mail = busy[job[x].owner].mail
    BY <1>0, <1>5 DEF Typed, JobType
  <2>3. job[x].status \in {"none", "refused"} => sent'[x] = sent[x]
    BY <1>6, <1>8
  <2> QED
    BY <2>1, <2>2, <2>3, <1>4 DEF JobOK
<1>10. ASSUME NEW x \in Users \ {u} PROVE SendsOK(x)'
  <2>1. SendsOK(x)
    BY DEF MailInv
  <2>2. Strays(x)' = Strays(x)
    BY <1>2, <1>4, <1>5 DEF Strays
  <2>3. Left(x)' = Left(x)
    <3>1. job[x].owner # Nobody =>
            job[x].owner # w /\ busy'[job[x].owner] = busy[job[x].owner]
      BY <1>0, <1>2, <1>5 DEF Typed, JobType, MailInv, JobOK
    <3> QED
      BY <3>1, <1>4 DEF Left
  <2> QED
    BY <2>1, <2>2, <2>3, <1>4, <1>6 DEF SendsOK
<1>11. SendsOK(u)'
  <2>0. /\ SendsOK(u) /\ sent[u] \in Nat /\ unsure[u] \in Nat /\ job[u].stalls \in Nat
        /\ Left(u) \in {0, 1} /\ Left(u)' \in {0, 1}
    BY <1>0 DEF MailInv, Typed, JobType, Left
  <2>1. Strays(u) \in SUBSET Workers /\ Strays(u)' = Strays(u) \ {w}
    BY <1>4, <1>5 DEF Strays
  <2>2. /\ IsFiniteSet(Strays(u)) /\ Cardinality(Strays(u)) \in Nat
        /\ Cardinality(Strays(u)') \in Nat
    BY <2>1, StraysFinite
  <2>3. CASE job[u].owner = w
    <3>1. w \notin Strays(u)
      BY <2>3 DEF Strays
    <3>2. Strays(u)' = Strays(u)
      BY <2>1, <3>1
    <3>3. job[u].status = "active" /\ w # Nobody
      BY <2>3, WorkersAssumption DEF MailInv, JobOK
    <3>4. Left(u) = 0 /\ (answers => Left(u)' = 1)
      BY <2>3, <3>3, <1>1, <1>4, <1>5 DEF Left
    <3> QED
      BY <3>2, <3>4, <2>0, <2>2, <1>3, <1>4, <1>6 DEF SendsOK
  <2>4. CASE job[u].owner # w
    <3>1. w \in Strays(u)
      BY <2>4, <1>1, <1>2 DEF Strays
    <3>2. Cardinality(Strays(u)') = Cardinality(Strays(u)) - 1
      BY <3>1, <2>1, <2>2, FS_RemoveElement
    <3>3. Left(u)' = Left(u)
      <4>1. job[u].owner # Nobody => busy'[job[u].owner] = busy[job[u].owner]
        BY <2>4, <1>0, <1>5 DEF Typed, JobType
      <4> QED
        BY <4>1, <1>4 DEF Left
    <3> QED
      BY <3>2, <3>3, <2>0, <2>2, <1>3, <1>4, <1>6 DEF SendsOK
  <2> QED
    BY <2>3, <2>4
<1>12. ASSUME NEW v \in Workers PROVE BusyOK(v)'
  <2>1. CASE v = w
    <3>1. busy'[w] # Idle /\ busy'[w].outcome # "none" /\ u # Nobody
      BY <1>5, WorkersAssumption DEF Idle
    <3>2. busy'[w].outcome = "sent" => sent'[u] >= 1
      BY <1>0, <1>3, <1>5, <1>6 DEF Typed
    <3> QED
      BY <2>1, <3>1, <3>2, <1>4, <1>5, <1>8 DEF BusyOK
  <2>2. CASE v # w
    <3>1. busy'[v] = busy[v] /\ BusyOK(v)
      BY <2>2, <1>5 DEF MailInv
    <3>2. busy[v].outcome = "sent" => busy[v].mail \in Users /\ busy[v] # Idle
      BY BusyMail DEF Idle
    <3>3. busy[v].outcome = "sent" => sent'[busy[v].mail] >= 1
      BY <3>1, <3>2, <1>0, <1>6 DEF BusyOK, Typed
    <3> QED
      BY <3>1, <3>3, <1>4 DEF BusyOK
  <2> QED
    BY <2>1, <2>2
<1>13. StartsEmpty'
  BY <1>1, <1>4 DEF MailInv, StartsEmpty
<1>14. NoMailLost'
  BY <1>0, <1>4, <1>6 DEF MailInv, NoMailLost, Typed
<1>15. LockOwns'
  <2>1. \A v \in Workers : busy'[v] # Idle => busy[v] # Idle
    BY <1>1, <1>5
  <2> QED
    BY <2>1, <1>4, <1>5 DEF MailInv, LockOwns, LockKept
<1> QED
  BY <1>7, <1>9, <1>10, <1>11, <1>12, <1>13, <1>14, <1>15 DEF MailInv

\* A step that takes a worker off its mail, and its job, if it is its own, to
\* another status without an owner.
LEMMA LeaveMail ==
  ASSUME MailInv, NEW w \in Workers, busy[w] # Idle, NEW u, u = busy[w].mail,
         busy' = [busy EXCEPT ![w] = Idle],
         NEW new \in JobType, job' = IF job[u].owner = w THEN [job EXCEPT ![u] = new]
                                     ELSE job,
         new.owner = Nobody, new.stalls = job[u].stalls,
         new.status \notin {"none", "refused"},
         new.attempts <= MaxAttempts,
         new.status \in {"waiting", "active", "delayed"} => new.attempts < MaxAttempts,
         new.status = "completed" => busy[w].outcome = "sent",
         busy[w].outcome = "sent" => new.status \in {"completed", "active"},
         new.status = "failed" => new.attempts = MaxAttempts,
         sent' = sent, unsure' = unsure, lock' = lock, mailer' = mailer
  PROVE  MailInv'
<1>0. Typed /\ u \in Users /\ Nobody \notin Workers /\ Nobody \notin Users
  BY BusyMail, WorkersAssumption DEF MailInv
<1>1. /\ busy'[w] = Idle /\ \A v \in Workers \ {w} : busy'[v] = busy[v]
      /\ busy' \in [Workers -> BusyType]
  BY <1>0 DEF Typed, BusyType, Idle
<1>2. /\ \A x \in Users : \/ job'[x] = job[x] /\ job[x].owner # w
                          \/ x = u /\ job[u].owner = w /\ job'[u] = new
      /\ job' \in [Users -> JobType]
  <2>1. \A x \in Users \ {u} : job[x].owner # w
    BY <1>0 DEF MailInv, JobOK
  <2> QED
    BY <2>1, <1>0 DEF Typed
<1>3. Typed'
  BY <1>0, <1>1, <1>2 DEF Typed
<1>4. ASSUME NEW x \in Users, job'[x] = job[x], job[x].owner # w
      PROVE  JobOK(x)' /\ SendsOK(x)'
  <2>1. JobOK(x) /\ SendsOK(x)
    BY DEF MailInv
  <2>2. job[x].owner # Nobody => busy'[job[x].owner] = busy[job[x].owner]
    BY <1>0, <1>1, <1>4 DEF Typed, JobType
  <2>3. JobOK(x)'
    BY <2>1, <2>2, <1>4 DEF JobOK
  <2>4. Left(x)' = Left(x)
    BY <2>2, <1>4 DEF Left
  <2>5. Strays(x)' \subseteq Strays(x)
    BY <1>0, <1>1, <1>4 DEF Strays, Idle
  <2>6. job[x].stalls \in Nat /\ Left(x) \in {0, 1}
    BY <1>0 DEF Typed, JobType, Left
  <2>7. SendsOK(x)'
    BY <2>1, <2>4, <2>5, <2>6, <1>0, <1>3, <1>4, SendsKept
  <2> QED
    BY <2>3, <2>7
<1>5. ASSUME job[u].owner = w, job'[u] = new PROVE JobOK(u)' /\ SendsOK(u)'
  <2>1. JobOK(u) /\ SendsOK(u) /\ job[u].status = "active"
    BY <1>0, <1>5 DEF MailInv, JobOK
  <2>2. JobOK(u)'
    BY <2>1, <1>5 DEF JobOK
  <2>3. Left(u)' >= Left(u)
    <3>1. Left(u) = IF busy[w].outcome = "sent" THEN 1 ELSE 0
      BY <2>1, <1>0, <1>5 DEF Left
    <3>2. busy[w].outcome = "sent" => Left(u)' = 1
      BY <1>5 DEF Left
    <3> QED
      BY <3>1, <3>2 DEF Left
  <2>4. Strays(u)' \subseteq Strays(u)
    BY <1>0, <1>1, <1>5 DEF Strays, Idle
  <2>5. job'[u].stalls + Left(u)' >= job[u].stalls + Left(u)
    BY <2>3, <1>0, <1>5 DEF Typed, JobType, Left
  <2>6. SendsOK(u)'
    BY <2>1, <2>4, <2>5, <1>0, <1>3, SendsKept
  <2> QED
    BY <2>2, <2>6
<1>6. ASSUME NEW v \in Workers PROVE BusyOK(v)'
  <2>1. CASE v = w
    BY <2>1, <1>1 DEF BusyOK, Idle
  <2>2. CASE v # w
    <3>1. busy'[v] = busy[v] /\ BusyOK(v)
      BY <2>2, <1>1 DEF MailInv
    <3>2. busy[v] # Idle => busy[v].mail \in Users
      BY BusyMail
    <3>3. \A x \in Users : job[x].status \notin {"none", "refused"}
                             => job'[x].status \notin {"none", "refused"}
      BY <1>2
    <3> QED
      BY <3>1, <3>2, <3>3 DEF BusyOK
  <2> QED
    BY <2>1, <2>2
<1>7. StartsEmpty'
  BY DEF MailInv, StartsEmpty
<1>8. NoMailLost'
  <2>1. busy[w].outcome = "sent" => sent[u] >= 1
    BY <1>0 DEF MailInv, BusyOK
  <2> QED
    BY <2>1, <1>2 DEF MailInv, NoMailLost
<1>9. LockOwns'
  <2> SUFFICES ASSUME LockKept, NEW v \in Workers, busy'[v] # Idle
               PROVE  job'[busy'[v].mail].owner = v
    BY DEF MailInv, LockOwns, LockKept
  <2>1. v # w /\ busy'[v] = busy[v] /\ busy[v].mail \in Users
    BY <1>1, BusyMail
  <2>2. job[busy[v].mail].owner = v
    BY <2>1 DEF MailInv, LockOwns
  <2> QED
    BY <2>1, <2>2, <1>2
<1> QED
  BY <1>2, <1>3, <1>4, <1>5, <1>6, <1>7, <1>8, <1>9 DEF MailInv

\* The processor returns or throws.
LEMMA FinishMail ==
  ASSUME MailInv, NEW w \in Workers, Finish(w)
  PROVE  MailInv'
<1>0. Typed
  BY DEF MailInv
<1>1. PICK u : u = busy[w].mail
  OBVIOUS
<1>2. /\ busy[w] # Idle /\ busy[w].outcome \in {"sent", "error"}
      /\ busy' = [busy EXCEPT ![w] = Idle]
      /\ sent' = sent /\ unsure' = unsure /\ lock' = lock /\ mailer' = mailer
  BY DEF Finish, Idle
<1>3. u \in Users /\ job[u] \in JobType
  BY <1>0, <1>1, <1>2, BusyMail DEF Typed
<1>4. CASE job[u].owner # w
  <2>1. PICK new : new = Job("active", 0, job[u].stalls, Nobody)
    OBVIOUS
  <2>2. new \in JobType /\ new.owner = Nobody /\ new.stalls = job[u].stalls
        /\ new.status = "active" /\ new.attempts = 0
    BY <2>1, <1>3 DEF Job, JobType, Statuses
  <2>3. job' = IF job[u].owner = w THEN [job EXCEPT ![u] = new] ELSE job
    BY <1>1, <1>4 DEF Finish
  <2>4. /\ new.attempts <= MaxAttempts /\ new.attempts < MaxAttempts
        /\ new.status \notin {"none", "refused", "completed", "failed"}
        /\ new.status \in {"completed", "active"}
    BY <2>2, AttemptsAssumption
  <2>5. /\ new.status # "completed" /\ new.status # "failed"
        /\ new.status \notin {"none", "refused"}
    BY <2>4
  <2> QED
    BY <1>1, <1>2, <2>2, <2>3, <2>4, <2>5, LeaveMail
<1>5. CASE job[u].owner = w
  <2>1. PICK new :
          new = Job(IF busy[w].outcome = "sent" THEN "completed"
                    ELSE IF job[u].attempts + 1 < MaxAttempts THEN "delayed" ELSE "failed",
                    job[u].attempts + 1, job[u].stalls, Nobody)
    OBVIOUS
  <2>2. job[u].attempts < MaxAttempts /\ job[u].attempts \in Nat
    BY <1>3, <1>5, WorkersAssumption DEF MailInv, JobOK, JobType
  <2>3. /\ new \in JobType /\ new.owner = Nobody /\ new.stalls = job[u].stalls
        /\ new.attempts = job[u].attempts + 1
        /\ new.status \in {"completed", "delayed", "failed"}
        /\ new.status = "completed" <=> busy[w].outcome = "sent"
        /\ new.status = "delayed" => new.attempts < MaxAttempts
        /\ new.status = "failed" => ~(new.attempts < MaxAttempts)
    BY <2>1, <2>2, <1>3 DEF Job, JobType, Statuses
  <2>4. /\ new.attempts <= MaxAttempts
        /\ new.status = "failed" => new.attempts = MaxAttempts
    BY <2>2, <2>3, AttemptsAssumption
  <2>5. job' = IF job[u].owner = w THEN [job EXCEPT ![u] = new] ELSE job
    BY <1>1, <1>5, <2>1, <1>0, <1>3 DEF Finish, Typed
  <2> QED
    BY <1>1, <1>2, <2>3, <2>4, <2>5, LeaveMail
<1> QED
  BY <1>4, <1>5

\* A worker dies with what it was doing.
LEMMA DieMail ==
  ASSUME MailInv, NEW w \in Workers, Die(w)
  PROVE  MailInv'
<1>0. Typed
  BY DEF MailInv
<1>1. PICK u : u = busy[w].mail
  OBVIOUS
<1>2. /\ busy[w] # Idle /\ busy' = [busy EXCEPT ![w] = Idle]
      /\ sent' = sent /\ unsure' = unsure /\ lock' = lock /\ mailer' = mailer
      /\ job' = [x \in Users |-> IF job[x].owner = w THEN [job[x] EXCEPT !.owner = Nobody]
                                 ELSE job[x]]
  BY DEF Die
<1>3. u \in Users /\ job[u] \in JobType
  BY <1>0, <1>1, <1>2, BusyMail DEF Typed
<1>4. \A x \in Users \ {u} : job[x].owner # w
  BY <1>1, WorkersAssumption DEF MailInv, JobOK
<1>5. CASE job[u].owner # w
  <2>1. PICK new : new = Job("active", 0, job[u].stalls, Nobody)
    OBVIOUS
  <2>2. new \in JobType /\ new.owner = Nobody /\ new.stalls = job[u].stalls
        /\ new.status = "active" /\ new.attempts = 0
    BY <2>1, <1>3 DEF Job, JobType, Statuses
  <2>3. job' = IF job[u].owner = w THEN [job EXCEPT ![u] = new] ELSE job
    BY <1>0, <1>2, <1>4, <1>5 DEF Typed
  <2>4. /\ new.attempts <= MaxAttempts /\ new.attempts < MaxAttempts
        /\ new.status \notin {"none", "refused", "completed", "failed"}
        /\ new.status \in {"completed", "active"}
    BY <2>2, AttemptsAssumption
  <2>5. /\ new.status # "completed" /\ new.status # "failed"
        /\ new.status \notin {"none", "refused"}
    BY <2>4
  <2> QED
    BY <1>1, <1>2, <2>2, <2>3, <2>4, <2>5, LeaveMail
<1>6. CASE job[u].owner = w
  <2>1. PICK new : new = [job[u] EXCEPT !.owner = Nobody]
    OBVIOUS
  <2>2. job[u].status = "active" /\ job[u].attempts < MaxAttempts /\ job[u].attempts \in Nat
    BY <1>3, <1>6, WorkersAssumption DEF MailInv, JobOK, JobType
  <2>3. /\ new \in JobType /\ new.owner = Nobody /\ new.stalls = job[u].stalls
        /\ new.attempts = job[u].attempts /\ new.status = "active"
    BY <2>1, <2>2, <1>3 DEF JobType
  <2>4. job' = IF job[u].owner = w THEN [job EXCEPT ![u] = new] ELSE job
    BY <1>0, <1>2, <1>3, <1>4, <1>6, <2>1 DEF Typed
  <2>5. new.attempts <= MaxAttempts
    BY <2>2, <2>3, AttemptsAssumption
  <2> QED
    BY <1>1, <1>2, <2>2, <2>3, <2>4, <2>5, LeaveMail
<1> QED
  BY <1>5, <1>6

\* A step that only moves the job of u leaves what is known about the others,
\* and what the workers do, as it was.
LEMMA OthersKeepMail ==
  ASSUME MailInv, NEW u \in Users, busy' = busy, sent' = sent, unsure' = unsure,
         \A x \in Users \ {u} : job'[x] = job[x],
         job[u].status \notin {"none", "refused"},
         job'[u].status \notin {"none", "refused"}
  PROVE  /\ \A x \in Users \ {u} : JobOK(x)' /\ SendsOK(x)'
         /\ \A w \in Workers : BusyOK(w)'
<1>1. ASSUME NEW x \in Users \ {u} PROVE JobOK(x)' /\ SendsOK(x)'
  <2>1. JobOK(x) /\ SendsOK(x) /\ job'[x] = job[x]
    BY DEF MailInv
  <2>2. JobOK(x)'
    BY <2>1 DEF JobOK
  <2>3. Strays(x)' = Strays(x) /\ Left(x)' = Left(x)
    BY <2>1 DEF Strays, Left
  <2> QED
    BY <2>1, <2>2, <2>3 DEF SendsOK
<1>2. ASSUME NEW w \in Workers PROVE BusyOK(w)'
  <2>1. BusyOK(w) /\ (busy[w] # Idle => busy[w].mail \in Users)
    BY BusyMail DEF MailInv
  <2>2. \A x \in Users : job[x].status \notin {"none", "refused"}
                           => job'[x].status \notin {"none", "refused"}
    OBVIOUS
  <2> QED
    BY <2>1, <2>2 DEF BusyOK
<1> QED
  BY <1>1, <1>2

\* The delay of the backoff is over.
LEMMA RetryMail ==
  ASSUME MailInv, NEW u \in Users, Retry(u)
  PROVE  MailInv'
<1>0. Typed /\ JobOK(u) /\ SendsOK(u)
  BY DEF MailInv
<1>1. /\ job[u].status = "delayed" /\ busy' = busy /\ sent' = sent
      /\ unsure' = unsure /\ lock' = lock /\ mailer' = mailer
  BY DEF Retry
<1>2. /\ job'[u].status = "waiting" /\ job'[u].owner = job[u].owner
      /\ job'[u].attempts = job[u].attempts /\ job'[u].stalls = job[u].stalls
      /\ job'[u] \in JobType
      /\ \A x \in Users \ {u} : job'[x] = job[x]
      /\ job' \in [Users -> JobType]
  BY <1>0 DEF Retry, Typed, JobType, Statuses
<1>3. Typed'
  BY <1>0, <1>1, <1>2 DEF Typed
<1>4. /\ \A x \in Users \ {u} : JobOK(x)' /\ SendsOK(x)'
      /\ \A w \in Workers : BusyOK(w)'
  BY <1>1, <1>2, OthersKeepMail
<1>5. JobOK(u)'
  BY <1>0, <1>1, <1>2 DEF JobOK
<1>6. Strays(u)' = Strays(u) /\ Left(u)' = Left(u)
  BY <1>1, <1>2 DEF Strays, Left
<1>7. SendsOK(u)'
  BY <1>0, <1>1, <1>2, <1>6 DEF SendsOK
<1>8. StartsEmpty'
  BY <1>1 DEF MailInv, StartsEmpty
<1>9. NoMailLost'
  BY <1>1, <1>2 DEF MailInv, NoMailLost
<1>10. \A x \in Users : job'[x].owner = job[x].owner
  BY <1>2
<1>11. LockOwns'
  BY <1>1, <1>10, BusyMail DEF MailInv, LockOwns, LockKept
<1> QED
  BY <1>3, <1>4, <1>5, <1>7, <1>8, <1>9, <1>11 DEF MailInv

\* The lock runs out.  What the owner may still send is paid by the stall.
LEMMA StallMail ==
  ASSUME MailInv, NEW u \in Users, Stall(u)
  PROVE  MailInv'
<1>0. /\ Typed /\ JobOK(u) /\ SendsOK(u) /\ job[u] \in JobType
      /\ Nobody \notin Workers
  BY WorkersAssumption DEF MailInv, Typed
<1>1. /\ job[u].status = "active" /\ (job[u].owner = Nobody \/ ~LockKept)
      /\ busy' = busy /\ sent' = sent
      /\ unsure' = unsure /\ lock' = lock /\ mailer' = mailer
  BY DEF Stall
<1>2. PICK new : new = Job(IF job[u].stalls < MaxStalled THEN "waiting" ELSE "failed",
                           job[u].attempts, job[u].stalls + 1, Nobody)
  OBVIOUS
<1>3. job' = [job EXCEPT ![u] = new]
  BY <1>0, <1>2 DEF Stall, Typed
<1>4. /\ new.status \in {"waiting", "failed"} /\ new.owner = Nobody
      /\ new.status = "waiting" <=> job[u].stalls < 1
      /\ new.attempts = job[u].attempts /\ new.stalls = job[u].stalls + 1
      /\ new \in JobType
  BY <1>0, <1>2 DEF Job, JobType, Statuses, MaxStalled
<1>5. /\ job'[u] = new /\ \A x \in Users \ {u} : job'[x] = job[x]
      /\ job' \in [Users -> JobType]
  BY <1>0, <1>3, <1>4 DEF Typed
<1>6. Typed'
  BY <1>0, <1>1, <1>5 DEF Typed
<1>7. /\ job[u].stalls \in Nat /\ job[u].stalls <= 1
      /\ job[u].attempts \in Nat /\ job[u].attempts < MaxAttempts
  BY <1>0, <1>1 DEF JobOK, JobType, MaxStalled
<1>8. /\ \A x \in Users \ {u} : JobOK(x)' /\ SendsOK(x)'
      /\ \A w \in Workers : BusyOK(w)'
  BY <1>1, <1>4, <1>5, OthersKeepMail
<1>9. JobOK(u)'
  BY <1>4, <1>5, <1>7, AttemptsAssumption DEF JobOK, MaxStalled
<1>10. Left(u)' = 0
  BY <1>4, <1>5 DEF Left
<1>11. SendsOK(u)'
  <2>1. CASE job[u].owner = Nobody \/ busy[job[u].owner].outcome = "sent"
    <3>1. Left(u) = 1
      BY <2>1, <1>1 DEF Left
    <3>2. Strays(u)' \subseteq Strays(u)
      BY <2>1, <1>0, <1>1 DEF Strays
    <3>3. job'[u].stalls + Left(u)' >= job[u].stalls + Left(u)
      BY <3>1, <1>4, <1>5, <1>7, <1>10
    <3> QED
      BY <3>2, <3>3, <1>0, <1>1, <1>6, SendsKept
  <2>2. CASE job[u].owner # Nobody /\ busy[job[u].owner].outcome # "sent"
    <3>1. Left(u) = 0
      BY <2>2, <1>1 DEF Left
    <3>2. PICK w \in Workers : w = job[u].owner
      BY <2>2, <1>0 DEF JobType
    <3>3. /\ Strays(u) \in SUBSET Workers /\ Strays(u)' \in SUBSET Workers
          /\ Strays(u) \cup {w} \in SUBSET Workers
          /\ Strays(u)' \subseteq Strays(u) \cup {w}
      BY <3>2, <1>1 DEF Strays
    <3>4. /\ IsFiniteSet(Strays(u)) /\ Cardinality(Strays(u)) \in Nat
          /\ IsFiniteSet(Strays(u) \cup {w}) /\ Cardinality(Strays(u)') \in Nat
      BY <3>3, StraysFinite
    <3>5. Cardinality(Strays(u) \cup {w}) \in {Cardinality(Strays(u)), Cardinality(Strays(u)) + 1}
      BY <3>4, FS_AddElement
    <3>6. Cardinality(Strays(u)') <= Cardinality(Strays(u) \cup {w})
      BY <3>3, <3>4, FS_Subset
    <3>7. sent[u] \in Nat /\ unsure[u] \in Nat
      BY <1>0 DEF Typed
    <3>8. PICK before \in Nat, after \in Nat :
            before = Cardinality(Strays(u)) /\ after = Cardinality(Strays(u)')
      BY <3>4
    <3>9. after <= before + 1
      BY <3>4, <3>5, <3>6, <3>8
    <3>10. sent[u] + before <= unsure[u] + job[u].stalls
      BY <3>1, <3>7, <3>8, <1>0, <1>7 DEF SendsOK
    <3> QED
      BY <3>7, <3>8, <3>9, <3>10, <1>1, <1>4, <1>5, <1>7, <1>10 DEF SendsOK
  <2> QED
    BY <2>1, <2>2
<1>12. StartsEmpty'
  BY <1>1 DEF MailInv, StartsEmpty
<1>13. NoMailLost'
  BY <1>1, <1>4, <1>5, <1>7 DEF MailInv, NoMailLost, MaxStalled
<1>14. LockOwns'
  <2> SUFFICES ASSUME LockKept, NEW v \in Workers, busy[v] # Idle
               PROVE  job'[busy[v].mail].owner = v
    BY <1>1 DEF MailInv, LockOwns, LockKept
  <2>1. job[busy[v].mail].owner = v /\ busy[v].mail \in Users
    BY BusyMail DEF MailInv, LockOwns
  <2>2. busy[v].mail # u
    BY <2>1, <1>0, <1>1
  <2> QED
    BY <2>1, <2>2, <1>5
<1> QED
  BY <1>6, <1>8, <1>9, <1>11, <1>12, <1>13, <1>14 DEF MailInv

-----------------------------------------------------------------------------
LEMMA NextMailInv == MailInv /\ [Next]_vars => MailInv'
<1> SUFFICES ASSUME MailInv, [Next]_vars PROVE MailInv'
  OBVIOUS
<1>1. CASE Boot
  BY <1>1, BootMail
<1>2. CASE UpcomingExpenses
  BY <1>2, EnqueueMail
<1>3. ASSUME NEW w \in Workers, Take(w) \/ Send(w) \/ Finish(w) \/ Die(w) PROVE MailInv'
  BY <1>3, TakeMail, SendMail, FinishMail, DieMail
<1>4. ASSUME NEW u \in Users, Retry(u) \/ Stall(u) PROVE MailInv'
  BY <1>4, RetryMail, StallMail
<1>5. CASE UNCHANGED vars
  <2>1. /\ mailer' = mailer /\ lock' = lock /\ job' = job /\ busy' = busy
        /\ sent' = sent /\ unsure' = unsure
    BY <1>5 DEF vars
  <2>2. \A u : (JobOK(u)' <=> JobOK(u)) /\ (SendsOK(u)' <=> SendsOK(u))
    BY <2>1 DEF JobOK, SendsOK, Strays, Left
  <2>3. \A w : BusyOK(w)' <=> BusyOK(w)
    BY <2>1 DEF BusyOK
  <2> QED
    BY <2>1, <2>2, <2>3 DEF MailInv, Typed, StartsEmpty, NoMailLost, LockOwns, LockKept
<1> QED
  BY <1>1, <1>2, <1>3, <1>4, <1>5 DEF Next

\* Who holds which job, and how often each mail may still leave: MailInv holds
\* in every state.
THEOREM MailInvariant == Spec => []MailInv
  BY InitMailInv, NextMailInv, PTL DEF Spec

\* Every state has the types of the queue: only an active job has an owner,
\* and no job spends more attempts or stalls than the settings give it.
THEOREM TypeCorrect == Spec => []TypeOK
<1>1. MailInv => TypeOK
  BY DEF MailInv, Typed, JobType, BusyType, Statuses, JobOK, TypeOK
<1> QED
  BY <1>1, MailInvariant, PTL

\* No mail is given up lightly: BullMQ completes a job only for the worker
\* that sent it, and fails it after the last attempt or the second stall.
THEOREM NoMailLostCorrect == Spec => []NoMailLost
<1>1. MailInv => NoMailLost
  BY DEF MailInv
<1> QED
  BY <1>1, MailInvariant, PTL

\* A mail leaves the provider once, and once more at most for every unsure
\* answer and for every lock that ran out, whatever the workers do meanwhile.
THEOREM SentAgainCorrect == Spec => []SentAgainForAReason
<1>1. ASSUME MailInv, NEW u \in Users
      PROVE  sent[u] <= 1 + unsure[u] + job[u].stalls
  <2>1. /\ sent[u] \in Nat /\ unsure[u] \in Nat /\ job[u].stalls \in Nat
        /\ SendsOK(u) /\ Left(u) \in {0, 1}
    BY <1>1 DEF MailInv, Typed, JobType, Left
  <2>2. Strays(u) \in SUBSET Workers
    BY DEF Strays
  <2>3. Cardinality(Strays(u)) \in Nat
    BY <2>2, StraysFinite
  <2> QED
    BY <2>1, <2>3 DEF SendsOK
<1>2. MailInv => SentAgainForAReason
  BY <1>1 DEF SentAgainForAReason
<1> QED
  BY <1>2, MailInvariant, PTL

\* With a lock above the shortest renewal time no two workers have one mail:
\* the configuration holds the renewal below the lock it is given.
THEOREM OneWorkerCorrect == Spec => []OneWorkerPerMail
<1>1. ASSUME MailInv, lock.duration > 5000, NEW v \in Workers, NEW w \in Workers,
             busy[v].mail = busy[w].mail, v # w, busy[v] # Idle
      PROVE  FALSE
  <2>1. busy[w] # Idle
    BY <1>1, BusyMail DEF Idle
  <2> QED
    BY <1>1, <2>1 DEF MailInv, LockOwns
<1>2. MailInv => OneWorkerPerMail
  BY <1>1 DEF OneWorkerPerMail
<1> QED
  BY <1>2, MailInvariant, PTL
=============================================================================
