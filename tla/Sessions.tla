------------------------------ MODULE Sessions ------------------------------
(***************************************************************************)
(* Sign-in and users: the guards, AuthService and AuthRepository (refresh  *)
(* tokens), ResetPasswordService, AuthRateLimitGuard over Redis, and       *)
(* UsersService.  Every request is a chain of awaits on Redis and MySQL,   *)
(* outside any transaction; requests interleave between them, fail at any  *)
(* of them, and the API may restart.                                       *)
(*                                                                         *)
(* A password is named after the request that set it.  Access tokens are   *)
(* left out: they are signed for an hour and looked up nowhere.            *)
(***************************************************************************)
EXTENDS Naturals, FiniteSets

CONSTANTS
  Requests,     \* requests, each made once
  Users,        \* users of one client, not all of them created yet
  First,        \* the user there is at the start, and its password
  NoUser,       \* no user; no password
  MaxAttempts,  \* attempts the rate limit lets through per window: 5
  MaxRestarts   \* bound on restarts of the API

ASSUME FirstAssumption == First \in Users
ASSUME AttemptsAssumption == MaxAttempts \in Nat \ {0}

VARIABLES
  hits,      \* Redis: attempts counted per path of one address
  expiring,  \* Redis: the paths whose counter has a time to live
  user,      \* table user
  rows,      \* table refresh_token: the requests that issued a user's tokens
  key,       \* Redis: the reset token each request made
  ignored,   \* User.ignoredProperties of the API process holds 'password'
  pc,        \* where each request stands
  req,       \* what it is, for which user, and what it read or was given
  restarts,  \* restarts so far
  ended,     \* history: users signed out with no save of a token under way
  newest,    \* history: the password written last
  uses       \* history: password changes per reset token

redis == <<hits, expiring, key>>
history == <<ended, newest, uses>>
vars == <<redis, user, rows, ignored, pc, req, restarts, history>>

Limited == {"login", "refresh", "forgot", "reset"}
Kinds == Limited \cup {"logout", "change", "update", "delete", "create"}
Roles == {"admin", "normal-user"}
NoRequest == [kind |-> "none", who |-> NoUser, role |-> "admin", token |-> NoUser]
Absent == [exists |-> FALSE, role |-> "normal-user", password |-> NoUser]

Init ==
  /\ hits = [k \in Limited |-> 0] /\ expiring = {}
  /\ user = [u \in Users |-> IF u # First THEN Absent
                             ELSE [exists |-> TRUE, role |-> "normal-user", password |-> First]]
  /\ rows = [u \in Users |-> IF u = First THEN {First} ELSE {}]
  /\ key = [r \in Requests |-> "none"]
  /\ ignored = FALSE
  /\ pc = [r \in Requests |-> "idle"]
  /\ req = [r \in Requests |-> NoRequest]
  /\ restarts = 0
  /\ ended = {}
  /\ newest = [u \in Users |-> user[u].password]
  /\ uses = [r \in Requests |-> 0]

-----------------------------------------------------------------------------
Kind(r) == req[r].kind
Who(r) == req[r].who

\* A request that is done forgets what it was about.
Goto(r, state) ==
  /\ pc' = [pc EXCEPT ![r] = state]
  /\ req' = IF state = "done" THEN [req EXCEPT ![r] = NoRequest] ELSE req

\* GlobalAuthGuard and RolesGuard: public routes pass; the others need the
\* origin, the CSRF token, an access token, and a role where one is asked.
\* updateUser refuses whoever is not an admin: the user in the request has a
\* userId and no id to compare.
Admitted(kind, role, csrf) ==
  \/ kind \in Limited \cup {"logout"}
  \/ csrf /\ (kind = "change" \/ role = "admin")

\* The first await of each handler.
FirstStep(kind) ==
  CASE kind = "login" -> "validate"   [] kind = "refresh" -> "find"
    [] kind = "logout" -> "revoke"    [] kind = "forgot" -> "set key"
    [] kind = "reset" -> "getdel"     [] kind = "change" -> "compare"
    [] kind = "update" -> "read user" [] kind = "delete" -> "delete user"
    [] kind = "create" -> "check name"

\* A request arrives and is let in; the rate limit comes first.
Arrive(r) ==
  /\ pc[r] = "idle"
  /\ \E kind \in Kinds, u \in Users, role \in Roles, csrf \in BOOLEAN :
       /\ Admitted(kind, role, csrf)
       /\ req' = [req EXCEPT ![r].kind = kind, ![r].who = u]
       /\ pc' = [pc EXCEPT ![r] = IF kind \in Limited THEN "incr" ELSE FirstStep(kind)]
  /\ UNCHANGED <<redis, user, rows, ignored, restarts, history>>

\* canActivate has let the request through to its handler.
Enter(r) == Goto(r, FirstStep(Kind(r)))

\* INCR, and EXPIRE only after the first; too many attempts end here.  An
\* error of Redis lets the request through, whether it comes before the attempt
\* was counted or the answer is lost after.
Incr(r) ==
  /\ pc[r] = "incr"
  /\ LET k == Kind(r) IN
     \/ Enter(r) /\ UNCHANGED hits
     \/ Enter(r) /\ hits' = [hits EXCEPT ![k] = @ + 1]
     \/ /\ hits' = [hits EXCEPT ![k] = @ + 1]
        /\ IF hits[k] = 0 THEN Goto(r, "expire")
           ELSE IF hits[k] < MaxAttempts THEN Enter(r) ELSE Goto(r, "done")
  /\ UNCHANGED <<expiring, key, user, rows, ignored, restarts, history>>

\* EXPIRE, whose error lets the request through too.
Expire(r) ==
  /\ pc[r] = "expire"
  /\ expiring' = expiring \cup {Kind(r)} \/ UNCHANGED expiring
  /\ Enter(r)
  /\ UNCHANGED <<hits, key, user, rows, ignored, restarts, history>>

\* Redis drops a counter whose time is over.
WindowEnds(k) ==
  /\ k \in expiring
  /\ hits' = [hits EXCEPT ![k] = 0]
  /\ expiring' = expiring \ {k}
  /\ UNCHANGED <<key, user, rows, ignored, pc, req, restarts, history>>

\* validateUser: the user's row and the password typed in.
Validate(r) ==
  /\ pc[r] = "validate"
  /\ \/ user[Who(r)].exists /\ user[Who(r)].password # NoUser /\ Goto(r, "delete row")
     \/ Goto(r, "done")
  /\ UNCHANGED <<redis, user, rows, ignored, restarts, history>>

\* Mutant: the signature is enough, the stored token is not looked up.
FindUnstored(r) ==
  /\ pc[r] = "find"
  /\ Goto(r, "find user") \/ Goto(r, "done")
  /\ UNCHANGED <<redis, user, rows, ignored, restarts, history>>

\* refreshAccessToken: CSRF and signature hold, a token is stored for the user,
\* and the two match.  bcrypt compares 72 bytes, which all of a user's signed tokens
\* have in common, so one the user has is never found to differ.
Find(r) ==
  /\ pc[r] = "find"
  /\ \/ rows[Who(r)] # {} /\ Goto(r, "find user")
     \/ Goto(r, "done")
  /\ UNCHANGED <<redis, user, rows, ignored, restarts, history>>

FindUser(r) ==
  /\ pc[r] = "find user"
  /\ Goto(r, IF user[Who(r)].exists THEN "delete row" ELSE "done")
  /\ UNCHANGED <<redis, user, rows, ignored, restarts, history>>

\* saveRefreshToken: a DELETE, and then an INSERT.
DeleteRow(r) ==
  /\ pc[r] = "delete row"
  /\ rows' = [rows EXCEPT ![Who(r)] = {}]
  /\ Goto(r, "insert row")
  /\ UNCHANGED <<redis, user, ignored, restarts, history>>

InsertRow(r) ==
  /\ pc[r] = "insert row"
  /\ rows' = [rows EXCEPT ![Who(r)] = @ \cup {r}]
  /\ ended' = IF Kind(r) = "login" THEN ended \ {Who(r)} ELSE ended
  /\ Goto(r, "done")
  /\ UNCHANGED <<redis, user, ignored, restarts, newest, uses>>

\* Requests that have found the user's session or password good.
Saving(u) == {r \in Requests :
  Who(r) = u /\ pc[r] \in {"find user", "delete row", "insert row"}}

\* deleteRefreshToken, by a logout, a deletion, or a change of role.
Revoke(r) ==
  /\ pc[r] = "revoke"
  /\ rows' = [rows EXCEPT ![Who(r)] = {}]
  /\ ended' = IF Saving(Who(r)) = {} THEN ended \cup {Who(r)} ELSE ended \ {Who(r)}
  /\ Goto(r, "done")
  /\ UNCHANGED <<redis, user, ignored, restarts, newest, uses>>

-----------------------------------------------------------------------------
\* process: the key, SET and then EXPIRE, and the mail that tells the token.
SetKey(r) ==
  /\ pc[r] = "set key"
  /\ IF user[Who(r)].exists
     THEN key' = [key EXCEPT ![r] = "set"] /\ Goto(r, "expire key")
     ELSE Goto(r, "done") /\ UNCHANGED key
  /\ UNCHANGED <<hits, expiring, user, rows, ignored, restarts, history>>

\* The request keeps the user the token is for, like the key's value does.
ExpireKey(r) ==
  /\ pc[r] = "expire key"
  /\ key' = [key EXCEPT ![r] = "mailed"]
  /\ pc' = [pc EXCEPT ![r] = "mailed"]
  /\ UNCHANGED <<hits, expiring, user, rows, ignored, req, restarts, history>>

KeyExpires(r) ==
  /\ key[r] = "mailed"
  /\ key' = [key EXCEPT ![r] = "none"]
  /\ UNCHANGED <<hits, expiring, user, rows, ignored, pc, req, restarts, history>>

\* Mutant: the token is read and stays until it expires.
GetDelKeeping(r) ==
  /\ pc[r] = "getdel"
  /\ \/ Goto(r, "done")
     \/ \E t \in Requests :
          /\ key[t] = "mailed"
          /\ req' = [req EXCEPT ![r].token = t, ![r].who = Who(t)]
          /\ pc' = [pc EXCEPT ![r] = "update password"]
  /\ UNCHANGED <<redis, user, rows, ignored, restarts, history>>

\* reset: the new password is checked first; then the token goes, whatever
\* becomes of the rest.
GetDel(r) ==
  /\ pc[r] = "getdel"
  /\ \/ Goto(r, "done") /\ UNCHANGED key
     \/ \E t \in Requests :
          /\ key[t] = "mailed"
          /\ key' = [key EXCEPT ![t] = "none"]
          /\ req' = [req EXCEPT ![r].token = t, ![r].who = Who(t)]
          /\ pc' = [pc EXCEPT ![r] = "update password"]
  /\ UNCHANGED <<hits, expiring, user, rows, ignored, restarts, history>>

\* resetPassword: the old password typed in against the stored one.
Compare(r) ==
  /\ pc[r] = "compare"
  /\ \/ user[Who(r)].exists /\ user[Who(r)].password # NoUser /\ Goto(r, "update password")
     \/ Goto(r, "done")
  /\ UNCHANGED <<redis, user, rows, ignored, restarts, history>>

\* attPasswordUser, updatePassword
UpdatePassword(r) ==
  /\ pc[r] = "update password"
  /\ IF user[Who(r)].exists
     THEN /\ user' = [user EXCEPT ![Who(r)].password = r]
          /\ newest' = [newest EXCEPT ![Who(r)] = r]
     ELSE UNCHANGED <<user, newest>>
  /\ uses' = IF Kind(r) = "reset" THEN [uses EXCEPT ![req[r].token] = @ + 1] ELSE uses
  /\ Goto(r, "done")
  /\ UNCHANGED <<redis, rows, ignored, restarts, ended>>

-----------------------------------------------------------------------------
\* updateUser: the whole row is read, and the password in it remembered.
ReadUser(r) ==
  /\ pc[r] = "read user"
  /\ IF user[Who(r)].exists
     THEN /\ \E role \in Roles : req' = [req EXCEPT ![r].role = role,
                                                    ![r].token = user[Who(r)].password]
          /\ pc' = [pc EXCEPT ![r] = IF req'[r].role = user[Who(r)].role
                                     THEN "save user" ELSE "save role"]
     ELSE Goto(r, "done")
  /\ UNCHANGED <<redis, user, rows, ignored, restarts, history>>

\* Mutant: every column is written, the password included.
SaveUserWhole(r) ==
  /\ pc[r] \in {"save user", "save role"}
  /\ user' = IF user[Who(r)].exists
             THEN [user EXCEPT ![Who(r)].role = req[r].role, ![Who(r)].password = req[r].token]
             ELSE user
  /\ Goto(r, IF pc[r] = "save role" THEN "revoke" ELSE "done")
  /\ UNCHANGED <<redis, rows, ignored, restarts, history>>

\* addIgnoredProperty adds 'password' to a static list, and the row is written
\* without it; a change of role ends the session.
SaveUser(r) ==
  /\ pc[r] \in {"save user", "save role"}
  /\ ignored' = TRUE
  /\ user' = IF user[Who(r)].exists THEN [user EXCEPT ![Who(r)].role = req[r].role] ELSE user
  /\ Goto(r, IF pc[r] = "save role" THEN "revoke" ELSE "done")
  /\ UNCHANGED <<redis, rows, restarts, history>>

DeleteUser(r) ==
  /\ pc[r] = "delete user"
  /\ user' = [user EXCEPT ![Who(r)] = Absent]
  /\ newest' = [newest EXCEPT ![Who(r)] = NoUser]
  /\ Goto(r, "revoke")
  /\ UNCHANGED <<redis, rows, ignored, restarts, ended, uses>>

\* createUser: the name is looked up, the password checked and hashed.
CheckName(r) ==
  /\ pc[r] = "check name"
  /\ Goto(r, IF user[Who(r)].exists THEN "done" ELSE "insert user")
  /\ UNCHANGED <<redis, user, rows, ignored, restarts, history>>

\* saveUser: the same list of ignored properties; a user without a password
\* is refused by MySQL or not, depending on its mode.
InsertUser(r) ==
  /\ pc[r] = "insert user"
  /\ LET password == IF ignored THEN NoUser ELSE r IN
     \/ (user[Who(r)].exists \/ ignored) /\ UNCHANGED <<user, newest>>
     \/ /\ ~user[Who(r)].exists
        /\ \E role \in Roles :
             user' = [user EXCEPT ![Who(r)] =
                        [exists |-> TRUE, role |-> role, password |-> password]]
        /\ newest' = [newest EXCEPT ![Who(r)] = password]
  /\ Goto(r, "done")
  /\ UNCHANGED <<redis, rows, ignored, restarts, ended, uses>>

\* MySQL or Redis fails under a request: it ends where it stands.
Fail(r) ==
  /\ pc[r] \notin {"idle", "incr", "expire", "mailed", "done"}
  /\ Goto(r, "done")
  /\ UNCHANGED <<redis, user, rows, ignored, restarts, history>>

\* The API restarts: what is in flight is gone, and so is the static list.
Restart ==
  /\ restarts < MaxRestarts
  /\ restarts' = restarts + 1
  /\ ignored' = FALSE
  /\ pc' = [r \in Requests |-> IF pc[r] \in {"idle", "mailed"} THEN pc[r] ELSE "done"]
  /\ req' = [r \in Requests |-> IF pc[r] \in {"idle", "mailed"} THEN req[r] ELSE NoRequest]
  /\ UNCHANGED <<redis, user, rows, history>>

\* The steps of a request that has arrived.
Progress(r) ==
  \/ Incr(r) \/ Expire(r)
  \/ Validate(r) \/ Find(r) \/ FindUser(r) \/ DeleteRow(r) \/ InsertRow(r) \/ Revoke(r)
  \/ SetKey(r) \/ ExpireKey(r) \/ GetDel(r) \/ Compare(r)
  \/ UpdatePassword(r) \/ ReadUser(r) \/ SaveUser(r) \/ DeleteUser(r)
  \/ CheckName(r) \/ InsertUser(r)

Next ==
  \/ \E r \in Requests : Arrive(r) \/ Progress(r) \/ KeyExpires(r) \/ Fail(r)
  \/ \E k \in Limited : WindowEnds(k)
  \/ Restart

Spec == Init /\ [][Next]_vars

-----------------------------------------------------------------------------
(* Correctness *)

\* A session that was ended, by a logout, a deletion or a change of role,
\* with no token being saved at that moment, stays ended until the next
\* login.
SessionEnds == \A u \in ended : rows[u] = {}

\* A reset token changes a password once, however many requests use it at
\* the same time.
ResetOnce == \A t \in Requests : uses[t] <= 1

\* An update of a user never brings back a password that was changed while
\* the update had the old row in hand.
PasswordKept == \A u \in Users : user[u].password = newest[u]
=============================================================================
