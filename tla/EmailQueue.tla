----------------------------- MODULE EmailQueue -----------------------------
(***************************************************************************)
(* The e-mail queue (EmailService, the e-mail worker, MailerService) over  *)
(* BullMQ: jobs are enqueued by requests and by the appointment of         *)
(* upcoming expenses, taken by one worker at a time under a lock the       *)
(* worker renews, tried again with a growing delay, and handed to another  *)
(* worker when the lock runs out.  Workers die at any point.               *)
(*                                                                         *)
(* Times are milliseconds and only compared; the contents of a mail are    *)
(* left out.                                                               *)
(***************************************************************************)
EXTENDS Naturals, FiniteSets, FiniteSetsExt

CONSTANTS
  Users,         \* the users of a client: each is sent one mail
  Workers,       \* workers, or threads of one: EMAIL_WORKER_CONCURRENCY
  LockSettings,  \* pairs <<lock duration, renewal time>> of the environment
  MaxAttempts,   \* EMAIL_JOB_ATTEMPTS
  MaxDeaths,     \* bound on the workers that die
  Nobody         \* no worker, or one that has died

ASSUME AttemptsAssumption == MaxAttempts \in Nat \ {0}
ASSUME SettingsAssumption == LockSettings \subseteq Nat \X Nat
ASSUME WorkersAssumption == IsFiniteSet(Workers) /\ Nobody \notin Workers \cup Users

VARIABLES
  mailer,  \* which client the mailer has and which it uses
  lock,    \* lock duration and renewal time the worker was started with
  job,     \* the job of each user's mail in the queue
  busy,    \* what each worker is doing
  sent,    \* history: how often each mail left the provider
  unsure,  \* history: how often it left and the answer was an error
  deaths   \* workers that died so far

vars == <<mailer, lock, job, busy, sent, unsure, deaths>>

MaxStalled == 1  \* BullMQ's maxStalledCount
Job(status, attempts, stalls, owner) ==
  [status |-> status, attempts |-> attempts, stalls |-> stalls, owner |-> owner]
Idle == [mail |-> Nobody, outcome |-> "none"]

\* MailerService: the client the constructor builds and the one sendRaw uses.
BuiltClient(provider, env) ==
  IF provider = "ses" /\ env # "development" THEN "ses" ELSE "smtp"
UsedClient(provider) == IF provider = "ses" THEN "ses" ELSE "smtp"
Configured == BuiltClient(mailer.provider, mailer.env) = UsedClient(mailer.provider)

\* Mutant: the renewal time of the environment is not held below the lock.
LockRenewTimeRaw(setting) == Max({5000, setting[2]})

\* The lock and its renewal time, as the configuration and the worker bound them.
LockDuration(setting) == Max({1000, setting[1]})
LockRenewTime(setting) ==
  Max({5000, Min({Max({5000, setting[2]}), LockDuration(setting) \div 2})})
LockKept == lock.renew < lock.duration

Init ==
  /\ mailer = [provider |-> "none", env |-> "none"]
  /\ lock = [duration |-> 0, renew |-> 0]
  /\ job = [u \in Users |-> Job("none", 0, 0, Nobody)]
  /\ busy = [w \in Workers |-> Idle]
  /\ sent = [u \in Users |-> 0]
  /\ unsure = [u \in Users |-> 0]
  /\ deaths = 0

-----------------------------------------------------------------------------
\* The worker starts with the configuration of its environment.
Boot ==
  /\ mailer.provider = "none"
  /\ \E provider \in {"ses", "smtp"}, env \in {"development", "production"} :
       mailer' = [provider |-> provider, env |-> env]
  /\ \E setting \in LockSettings :
       lock' = [duration |-> LockDuration(setting), renew |-> LockRenewTime(setting)]
  /\ UNCHANGED <<job, busy, sent, unsure, deaths>>

\* UpcomingExpensesEmailAppointment: nothing to tell, nothing sent; else one
\* job per user at once, and Redis may refuse any of them.
UpcomingExpenses ==
  /\ mailer.provider # "none"
  /\ \A u \in Users : job[u].status = "none"
  /\ \E enqueued \in SUBSET Users \ {{}} :
       job' = [u \in Users |-> IF u \in enqueued THEN Job("waiting", 0, 0, Nobody)
                               ELSE Job("refused", 0, 0, Nobody)]
  /\ UNCHANGED <<mailer, lock, busy, sent, unsure, deaths>>

Take(w) ==
  /\ busy[w] = Idle
  /\ \E u \in Users :
       /\ job[u].status = "waiting"
       /\ job' = [job EXCEPT ![u].status = "active", ![u].owner = w]
       /\ busy' = [busy EXCEPT ![w] = [mail |-> u, outcome |-> "pending"]]
  /\ UNCHANGED <<mailer, lock, sent, unsure, deaths>>

\* sendRaw, sendTemplate: the provider takes the mail or not, and answers or
\* not; without a client nothing is sent.
Send(w) ==
  /\ busy[w].outcome = "pending"
  /\ \E leaves, answers \in BOOLEAN :
       /\ answers => leaves
       /\ ~Configured => ~leaves
       /\ busy' = [busy EXCEPT ![w].outcome = IF answers THEN "sent" ELSE "error"]
       /\ LET u == busy[w].mail
          IN  /\ sent' = [sent EXCEPT ![u] = @ + IF leaves THEN 1 ELSE 0]
              /\ unsure' = [unsure EXCEPT ![u] = @ + IF leaves /\ ~answers THEN 1 ELSE 0]
  /\ UNCHANGED <<mailer, lock, job, deaths>>

\* Mutant: the processor does not await the mailer, and every job completes.
FinishEarly(w) ==
  LET u == busy[w].mail IN
  /\ busy[w].outcome # "none"
  /\ busy' = [busy EXCEPT ![w] = Idle]
  /\ job' = IF job[u].owner = w THEN [job EXCEPT ![u].status = "completed", ![u].owner = Nobody]
            ELSE job
  /\ UNCHANGED <<mailer, lock, sent, unsure, deaths>>

\* Mutant: the processor throws after sending, too.
FinishThrowing(w) ==
  LET u == busy[w].mail IN
  /\ busy[w].outcome \in {"sent", "error"}
  /\ busy' = [busy EXCEPT ![w] = Idle]
  /\ job' = IF job[u].owner # w THEN job
            ELSE [job EXCEPT ![u] =
              Job(IF @.attempts + 1 < MaxAttempts THEN "delayed" ELSE "failed",
                  @.attempts + 1, @.stalls, Nobody)]
  /\ UNCHANGED <<mailer, lock, sent, unsure, deaths>>

\* The processor returns or throws.  BullMQ takes the result only from the
\* worker that holds the lock: completed (and removed), or another attempt.
Finish(w) ==
  LET u == busy[w].mail
      spent == job[u].attempts + 1
  IN  /\ busy[w].outcome \in {"sent", "error"}
      /\ busy' = [busy EXCEPT ![w] = Idle]
      /\ job' = IF job[u].owner # w THEN job
                ELSE [job EXCEPT ![u] = Job(
                  IF busy[w].outcome = "sent" THEN "completed"
                  ELSE IF spent < MaxAttempts THEN "delayed" ELSE "failed",
                  spent, @.stalls, Nobody)]
      /\ UNCHANGED <<mailer, lock, sent, unsure, deaths>>

\* The delay of the exponential backoff is over.
Retry(u) ==
  /\ job[u].status = "delayed"
  /\ job' = [job EXCEPT ![u].status = "waiting"]
  /\ UNCHANGED <<mailer, lock, busy, sent, unsure, deaths>>

\* A worker dies with what it was doing, and is started again.
Die(w) ==
  /\ deaths < MaxDeaths /\ busy[w] # Idle
  /\ deaths' = deaths + 1
  /\ busy' = [busy EXCEPT ![w] = Idle]
  /\ job' = [u \in Users |-> IF job[u].owner = w THEN [job[u] EXCEPT !.owner = Nobody]
                             ELSE job[u]]
  /\ UNCHANGED <<mailer, lock, sent, unsure>>

\* Mutant: nobody looks for the jobs of workers that died.
StallOfLiving(u) ==
  /\ job[u].status = "active" /\ job[u].owner # Nobody /\ ~LockKept
  /\ job' = [job EXCEPT ![u] = Job("waiting", @.attempts, @.stalls + 1, Nobody)]
  /\ UNCHANGED <<mailer, lock, busy, sent, unsure, deaths>>

\* The lock runs out: its worker is dead, or renews it too late.  The job is
\* handed on once; the next time it fails.
Stall(u) ==
  /\ job[u].status = "active"
  /\ job[u].owner = Nobody \/ ~LockKept
  /\ job' = [job EXCEPT ![u] =
       Job(IF @.stalls < MaxStalled THEN "waiting" ELSE "failed",
           @.attempts, @.stalls + 1, Nobody)]
  /\ UNCHANGED <<mailer, lock, busy, sent, unsure, deaths>>

Next ==
  \/ Boot
  \/ UpcomingExpenses
  \/ \E w \in Workers : Take(w) \/ Send(w) \/ Finish(w) \/ Die(w)
  \/ \E u \in Users : Retry(u) \/ Stall(u)

Spec == Init /\ [][Next]_vars

\* Workers that are up take jobs, providers answer or time out, delays pass.
Fairness ==
  /\ \A w \in Workers : WF_vars(Take(w)) /\ WF_vars(Send(w)) /\ WF_vars(Finish(w))
  /\ \A u \in Users : WF_vars(Retry(u)) /\ WF_vars(Stall(u))

FairSpec == Spec /\ Fairness

-----------------------------------------------------------------------------
(* Correctness *)

TypeOK ==
  /\ \A u \in Users :
       /\ job[u].status \in {"none", "refused", "waiting", "active", "delayed",
                             "completed", "failed"}
       /\ job[u].owner # Nobody => job[u].status = "active"
       /\ job[u].attempts <= MaxAttempts /\ job[u].stalls <= MaxStalled + 1
  /\ \A w \in Workers : busy[w].mail \in Users \cup {Nobody}

\* No mail is given up lightly: a job that completed has been sent, and one
\* that failed has used up its attempts or was stalled twice.
NoMailLost == \A u \in Users :
  /\ job[u].status = "completed" => sent[u] >= 1
  /\ job[u].status = "failed" =>
       job[u].attempts = MaxAttempts \/ job[u].stalls > MaxStalled

\* A mail is sent again only for a reason: a provider that took it and
\* answered with an error, or a lock that ran out.
SentAgainForAReason == \A u \in Users : sent[u] <= 1 + unsure[u] + job[u].stalls

\* Two workers never hold one mail, whatever the environment says about the
\* lock, as long as it lasts longer than the shortest renewal time.
OneWorkerPerMail ==
  lock.duration > 5000 =>
    \A v, w \in Workers : busy[v].mail = busy[w].mail /\ v # w => busy[v] = Idle

\* Every mail that was enqueued is sent or given up.
EveryMailEnds == \A u \in Users :
  job[u].status = "waiting" ~> job[u].status \in {"completed", "failed"}
=============================================================================
