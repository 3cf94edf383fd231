--------------------------- MODULE Sessions_proofs ---------------------------
(***************************************************************************)
(* The safety properties of Sessions, proved for any number of requests    *)
(* and users, any limit and any number of restarts.                        *)
(*                                                                         *)
(* PasswordKept is nearly inductive.  ResetOnce needs to know that a token *)
(* goes from the queue of its mail to one request only (TokenTaken), and   *)
(* SessionEnds that whoever is about to save a token of a user who is      *)
(* signed out is signing in (OnlyLoginSaves).                              *)
(***************************************************************************)
EXTENDS Sessions, TLAPS

Tokens == Requests \cup {First, NoUser}

States == {"idle", "incr", "expire", "validate", "find", "find user",
           "delete row", "insert row", "revoke", "set key", "expire key",
           "mailed", "getdel", "compare", "update password", "read user",
           "save user", "save role", "delete user", "check name",
           "insert user", "done"}

Request == [kind : Kinds \cup {"none"}, who : Users \cup {NoUser},
            role : Roles, token : Tokens]

Row == [exists : BOOLEAN, role : Roles, password : Tokens]

TypeOK ==
  /\ hits \in [Limited -> Nat]
  /\ user \in [Users -> Row]
  /\ rows \in [Users -> SUBSET Tokens]
  /\ key \in [Requests -> {"none", "set", "mailed"}]
  /\ pc \in [Requests -> States]
  /\ req \in [Requests -> Request]
  /\ ended \subseteq Users
  /\ newest \in [Users -> Tokens]
  /\ uses \in [Requests -> Nat]

\* What kind of request stands where.
Stands == \A r \in Requests :
  /\ pc[r] \notin {"idle", "done"} => Who(r) \in Users
  /\ pc[r] \in {"incr", "expire"} => Kind(r) \in Limited
  /\ pc[r] = "validate" => Kind(r) = "login"
  /\ pc[r] = "compare" => Kind(r) = "change"

SavesToken(r) == pc[r] \in {"find user", "delete row", "insert row"}

\* Whoever is about to save a token of a user signed out is signing in.
OnlyLoginSaves == \A r \in Requests :
  SavesToken(r) /\ Who(r) \in ended => Kind(r) = "login"

\* Request r is about to use the reset token of request t.
Uses(r, t) ==
  pc[r] = "update password" /\ Kind(r) = "reset" /\ req[r].token = t

\* A token is in nobody's hands before its mail and in one request's after.
Taken(t) ==
  /\ pc[t] # "mailed" => key[t] # "mailed"
  /\ pc[t] # "mailed" \/ key[t] = "mailed" =>
       uses[t] = 0 /\ \A r \in Requests : ~Uses(r, t)
  /\ \A r \in Requests : Uses(r, t) => uses[t] = 0
  /\ \A q, r \in Requests : Uses(q, t) /\ Uses(r, t) => q = r

TokenTaken == \A t \in Requests : Taken(t)

IInv ==
  /\ TypeOK /\ Stands /\ OnlyLoginSaves /\ TokenTaken
  /\ SessionEnds /\ ResetOnce /\ PasswordKept

-----------------------------------------------------------------------------
(* Lemmas.                                                                 *)

\* A request that enters its handler stands at the first await of its kind.
LEMMA FirstSteps ==
  ASSUME NEW kind \in Kinds
  PROVE  /\ FirstStep(kind) \in {"validate", "find", "revoke", "set key", "getdel",
                                 "compare", "read user", "delete user", "check name"}
         /\ FirstStep(kind) = "validate" => kind = "login"
         /\ FirstStep(kind) = "compare" => kind = "change"
  BY DEF FirstStep, Kinds, Limited

\* The type of the control of a request after a step to a state.
LEMMA GotoType ==
  ASSUME TypeOK, NEW r \in Requests, NEW state \in States, Goto(r, state)
  PROVE  /\ pc' \in [Requests -> States]
         /\ req' \in [Requests -> Request]
<1>1. NoRequest \in Request
  BY DEF Request, NoRequest, Roles, Tokens
<1> QED
  BY <1>1 DEF TypeOK, Goto

\* What a request's step to a state does to the control, request by request.
LEMMA GotoStep ==
  ASSUME TypeOK, NEW r \in Requests, NEW state \in States, Goto(r, state)
  PROVE  /\ pc'[r] = state
         /\ state # "done" => req' = req
         /\ state = "done" => req'[r] = NoRequest
         /\ \A q \in Requests \ {r} : pc'[q] = pc[q] /\ req'[q] = req[q]
  BY DEF Goto, TypeOK

\* A request that passes the rate limit stands at the first await of its kind.
LEMMA EnterStep ==
  ASSUME TypeOK, NEW r \in Requests, Kind(r) \in Limited, Enter(r)
  PROVE  /\ pc' \in [Requests -> States]
         /\ req' = req
         /\ \A q \in Requests \ {r} : pc'[q] = pc[q]
         /\ pc'[r] \in {"validate", "find", "revoke", "set key", "getdel",
                         "compare", "read user", "delete user", "check name"}
         /\ pc'[r] = "validate" => Kind(r) = "login"
         /\ pc'[r] = "compare" => Kind(r) = "change"
<1>1. Kind(r) \in Kinds
  BY DEF Kinds
<1>2. FirstStep(Kind(r)) \in States /\ FirstStep(Kind(r)) # "done"
  BY <1>1, FirstSteps DEF States
<1>3. Goto(r, FirstStep(Kind(r)))
  BY DEF Enter
<1> QED
  BY <1>1, <1>2, <1>3, FirstSteps, GotoStep, GotoType

\* Every step keeps the types.
LEMMA StepKeepsType ==
  ASSUME TypeOK, Stands, [Next]_vars
  PROVE  TypeOK'
<1> USE DEF TypeOK, redis, history
<1>1. ASSUME NEW r \in Requests, Arrive(r) PROVE TypeOK'
  <2>1. PICK kind \in Kinds, u \in Users :
          /\ req' = [req EXCEPT ![r].kind = kind, ![r].who = u]
          /\ pc' = [pc EXCEPT ![r] = IF kind \in Limited THEN "incr" ELSE FirstStep(kind)]
    BY <1>1 DEF Arrive
  <2>2. FirstStep(kind) \in States
    BY FirstSteps DEF States
  <2>3. pc' \in [Requests -> States]
    BY <2>1, <2>2 DEF States
  <2>4. req' \in [Requests -> Request]
    <3>1. [req[r] EXCEPT !.kind = kind, !.who = u] \in Request
      BY DEF Request
    <3>2. req' = [req EXCEPT ![r] = [req[r] EXCEPT !.kind = kind, !.who = u]]
      BY <2>1
    <3> QED
      BY <3>1, <3>2
  <2>5. UNCHANGED <<hits, key, user, rows, ended, newest, uses>>
    BY <1>1 DEF Arrive
  <2> QED
    BY <2>3, <2>4, <2>5
<1>2. ASSUME NEW r \in Requests, Incr(r) PROVE TypeOK'
  <2>1. Kind(r) \in Limited
    BY <1>2 DEF Incr, Stands
  <2>2. pc' \in [Requests -> States] /\ req' \in [Requests -> Request]
    BY <1>2, <2>1, EnterStep, GotoType DEF Incr, States
  <2>3. hits' \in [Limited -> Nat]
    BY <1>2, <2>1 DEF Incr
  <2> QED
    BY <1>2, <2>2, <2>3 DEF Incr
<1>3. ASSUME NEW r \in Requests, Expire(r) PROVE TypeOK'
  <2>1. Kind(r) \in Limited
    BY <1>3 DEF Expire, Stands
  <2> QED
    BY <1>3, <2>1, EnterStep DEF Expire
<1>4. ASSUME NEW r \in Requests,
             Validate(r) \/ Find(r) \/ FindUser(r) \/ Compare(r) \/ CheckName(r) \/ Fail(r)
      PROVE TypeOK'
  <2>1. \E state \in States : Goto(r, state)
    BY <1>4 DEF Validate, Find, FindUser, Compare, CheckName, Fail, States
  <2>2. UNCHANGED <<redis, user, rows, history>>
    BY <1>4 DEF Validate, Find, FindUser, Compare, CheckName, Fail
  <2> QED
    BY <2>1, <2>2, GotoType
<1>5. ASSUME NEW r \in Requests, DeleteRow(r) \/ InsertRow(r) \/ Revoke(r) PROVE TypeOK'
  <2>1. \E state \in States : Goto(r, state)
    BY <1>5 DEF DeleteRow, InsertRow, Revoke, States
  <2>2. Who(r) \in Users /\ r \in Tokens
    BY <1>5 DEF Stands, DeleteRow, InsertRow, Revoke, Tokens
  <2>3. rows' \in [Users -> SUBSET Tokens] /\ ended' \subseteq Users
    <3>1. CASE DeleteRow(r)
      BY <2>2, <3>1 DEF DeleteRow
    <3>2. CASE InsertRow(r)
      BY <2>2, <3>2 DEF InsertRow
    <3>3. CASE Revoke(r)
      BY <2>2, <3>3 DEF Revoke
    <3> QED
      BY <1>5, <3>1, <3>2, <3>3
  <2>4. UNCHANGED <<redis, user, newest, uses>>
    BY <1>5 DEF DeleteRow, InsertRow, Revoke
  <2> QED
    BY <2>1, <2>3, <2>4, GotoType
<1>6. ASSUME NEW r \in Requests, SetKey(r) \/ ExpireKey(r) \/ KeyExpires(r) PROVE TypeOK'
  <2>1. CASE SetKey(r)
    BY <2>1, GotoType DEF SetKey, States
  <2>2. CASE ExpireKey(r)
    BY <2>2 DEF ExpireKey, States
  <2>3. CASE KeyExpires(r)
    BY <2>3 DEF KeyExpires
  <2> QED
    BY <1>6, <2>1, <2>2, <2>3
<1>7. ASSUME NEW r \in Requests, GetDel(r) PROVE TypeOK'
  <2>1. CASE Goto(r, "done") /\ UNCHANGED key
    BY <1>7, <2>1, GotoType DEF GetDel, States
  <2>2. ASSUME NEW t \in Requests,
               key' = [key EXCEPT ![t] = "none"],
               req' = [req EXCEPT ![r].token = t, ![r].who = Who(t)],
               pc' = [pc EXCEPT ![r] = "update password"]
        PROVE TypeOK'
    <3>1. t \in Tokens /\ Who(t) \in Users \cup {NoUser}
      BY DEF Who, Tokens, Request
    <3>2. [req[r] EXCEPT !.token = t, !.who = Who(t)] \in Request
      BY <3>1 DEF Request
    <3>3. req' = [req EXCEPT ![r] = [req[r] EXCEPT !.token = t, !.who = Who(t)]]
      BY <2>2
    <3>4. req' \in [Requests -> Request]
      BY <3>2, <3>3
    <3>5. pc' \in [Requests -> States] /\ key' \in [Requests -> {"none", "set", "mailed"}]
      BY <2>2 DEF States
    <3>6. UNCHANGED <<hits, user, rows, history>>
      BY <1>7 DEF GetDel
    <3> QED
      BY <3>4, <3>5, <3>6
  <2> QED
    BY <1>7, <2>1, <2>2 DEF GetDel
<1>8. ASSUME NEW r \in Requests, UpdatePassword(r) PROVE TypeOK'
  <2>1. Who(r) \in Users /\ r \in Tokens
    BY <1>8 DEF Stands, UpdatePassword, Tokens
  <2>2. pc' \in [Requests -> States] /\ req' \in [Requests -> Request]
    BY <1>8, GotoType DEF UpdatePassword, States
  <2>3. uses' \in [Requests -> Nat]
    <3>1. [uses EXCEPT ![req[r].token] = @ + 1] \in [Requests -> Nat]
      <4>1. CASE req[r].token \in Requests
        <5>1. uses[req[r].token] + 1 \in Nat
          BY <4>1
        <5> QED
          BY <5>1
      <4>2. CASE req[r].token \notin Requests
        BY <4>2
      <4> QED
        BY <4>1, <4>2
    <3> QED
      BY <1>8, <3>1 DEF UpdatePassword
  <2>4. user' \in [Users -> Row]
        /\ newest' \in [Users -> Tokens]
    <3>1. [user[Who(r)] EXCEPT !.password = r] \in Row
      BY <2>1 DEF Row
    <3>2. [user EXCEPT ![Who(r)].password = r]
            = [user EXCEPT ![Who(r)] = [user[Who(r)] EXCEPT !.password = r]]
      OBVIOUS
    <3>3. [user EXCEPT ![Who(r)].password = r] \in [Users -> Row]
      BY <3>1, <3>2
    <3> QED
      BY <1>8, <2>1, <3>3 DEF UpdatePassword
  <2> QED
    BY <1>8, <2>2, <2>3, <2>4 DEF UpdatePassword
<1>9. ASSUME NEW r \in Requests, ReadUser(r) PROVE TypeOK'
  <2>1. Who(r) \in Users
    BY <1>9 DEF Stands, ReadUser
  <2>2. CASE user[Who(r)].exists
    <3>1. PICK role \in Roles :
            req' = [req EXCEPT ![r].role = role, ![r].token = user[Who(r)].password]
      BY <1>9, <2>2 DEF ReadUser
    <3>2. user[Who(r)].password \in Tokens
      BY <2>1 DEF Row
    <3>3. [req[r] EXCEPT !.role = role, !.token = user[Who(r)].password] \in Request
      BY <3>2 DEF Request
    <3>4. req' = [req EXCEPT ![r] =
            [req[r] EXCEPT !.role = role, !.token = user[Who(r)].password]]
      BY <3>1
    <3>5. req' \in [Requests -> Request]
      BY <3>3, <3>4
    <3>6. pc' \in [Requests -> States]
      <4>1. PICK state \in {"save user", "save role"} : pc' = [pc EXCEPT ![r] = state]
        BY <1>9, <2>2 DEF ReadUser
      <4> QED
        BY <4>1 DEF States
    <3>7. UNCHANGED <<redis, user, rows, history>>
      BY <1>9 DEF ReadUser
    <3> QED
      BY <3>5, <3>6, <3>7
  <2>3. CASE ~user[Who(r)].exists
    BY <1>9, <2>3, GotoType DEF ReadUser, States
  <2> QED
    BY <2>2, <2>3
<1>10. ASSUME NEW r \in Requests, SaveUser(r) PROVE TypeOK'
  <2>1. user' \in [Users -> Row]
    <3>1. Who(r) \in Users
      BY <1>10 DEF Stands, SaveUser
    <3>2. [user[Who(r)] EXCEPT !.role = req[r].role] \in Row
      BY <3>1 DEF Row, Request
    <3>3. [user EXCEPT ![Who(r)].role = req[r].role]
            = [user EXCEPT ![Who(r)] = [user[Who(r)] EXCEPT !.role = req[r].role]]
      OBVIOUS
    <3>4. [user EXCEPT ![Who(r)].role = req[r].role] \in [Users -> Row]
      BY <3>2, <3>3
    <3> QED
      BY <1>10, <3>4 DEF SaveUser
  <2> QED
    BY <1>10, <2>1, GotoType DEF SaveUser, States
<1>11. ASSUME NEW r \in Requests, DeleteUser(r) PROVE TypeOK'
  <2>1. Absent \in Row
    BY DEF Row, Absent, Roles, Tokens
  <2>2. NoUser \in Tokens
    BY DEF Tokens
  <2> QED
    BY <1>11, <2>1, <2>2, GotoType DEF DeleteUser, States
<1>12. ASSUME NEW r \in Requests, InsertUser(r) PROVE TypeOK'
  <2>1. (IF ignored THEN NoUser ELSE r) \in Tokens
    BY DEF Tokens
  <2>2. user' \in [Users -> Row]
        /\ newest' \in [Users -> Tokens]
    <3>1. ASSUME NEW role \in Roles, NEW password \in Tokens
          PROVE  [exists |-> TRUE, role |-> role, password |-> password] \in Row
      BY DEF Row
    <3>2. CASE UNCHANGED <<user, newest>>
      BY <3>2
    <3>3. CASE ~UNCHANGED <<user, newest>>
      <4> DEFINE password == IF ignored THEN NoUser ELSE r
      <4>1. PICK role \in Roles :
              user' = [user EXCEPT ![Who(r)] =
                         [exists |-> TRUE, role |-> role, password |-> password]]
        BY <1>12, <3>3 DEF InsertUser
      <4>2. newest' = [newest EXCEPT ![Who(r)] = password]
        BY <1>12, <3>3 DEF InsertUser
      <4>3. password \in Tokens
        BY <2>1
      <4> HIDE DEF password
      <4> QED
        BY <4>1, <4>2, <4>3, <3>1
    <3> QED
      BY <3>2, <3>3
  <2> QED
    BY <1>12, <2>2, GotoType DEF InsertUser, States
<1>13. ASSUME NEW k \in Limited, WindowEnds(k) PROVE TypeOK'
  BY <1>13 DEF history, WindowEnds
<1>14. CASE Restart
  <2>1. NoRequest \in Request
    BY DEF Request, NoRequest, Roles, Tokens
  <2> QED
    BY <1>14, <2>1 DEF history, Restart, States
<1>15. CASE UNCHANGED vars
  BY <1>15 DEF vars
<1> QED
  BY <1>1, <1>2, <1>3, <1>4, <1>5, <1>6, <1>7, <1>8, <1>9, <1>10, <1>11, <1>12,
     <1>13, <1>14, <1>15 DEF Next, Progress

\* Every step leaves each request standing where its kind may stand.
LEMMA StepKeepsStands ==
  ASSUME TypeOK, Stands, TokenTaken, [Next]_vars
  PROVE  Stands'
<1> USE DEF Kind, Who
<1>1. ASSUME NEW r \in Requests, NEW state \in States, Goto(r, state),
             pc[r] \notin {"idle", "done"},
             state \notin {"incr", "expire", "validate", "compare"}
      PROVE  Stands'
  BY <1>1, GotoStep DEF Stands
<1>2. ASSUME NEW r \in Requests, Enter(r), Kind(r) \in Limited, Who(r) \in Users
      PROVE  Stands'
  BY <1>2, EnterStep DEF Stands
<1>3. ASSUME NEW r \in Requests, Arrive(r) PROVE Stands'
  <2>1. PICK kind \in Kinds, u \in Users :
          /\ req' = [req EXCEPT ![r].kind = kind, ![r].who = u]
          /\ pc' = [pc EXCEPT ![r] = IF kind \in Limited THEN "incr" ELSE FirstStep(kind)]
    BY <1>3 DEF Arrive
  <2>2. req'[r].kind = kind /\ req'[r].who = u
        /\ \A q \in Requests \ {r} : req'[q] = req[q] /\ pc'[q] = pc[q]
    BY <2>1 DEF TypeOK, Request
  <2>3. CASE kind \in Limited
    BY <2>1, <2>2, <2>3 DEF Stands, TypeOK
  <2>4. CASE kind \notin Limited
    BY <2>1, <2>2, <2>4, FirstSteps DEF Stands, TypeOK
  <2> QED
    BY <2>3, <2>4
<1>4. ASSUME NEW r \in Requests, Incr(r) PROVE Stands'
  <2>1. Kind(r) \in Limited /\ Who(r) \in Users
    BY <1>4 DEF Incr, Stands
  <2>2. Enter(r) \/ Goto(r, "expire") \/ Goto(r, "done")
    BY <1>4 DEF Incr
  <2>3. CASE Goto(r, "expire")
    BY <2>1, <2>3, GotoStep DEF Stands, States
  <2> QED
    BY <1>1, <1>2, <1>4, <2>1, <2>2, <2>3 DEF Incr, States
<1>5. ASSUME NEW r \in Requests, Expire(r) PROVE Stands'
  <2>1. Kind(r) \in Limited /\ Who(r) \in Users
    BY <1>5 DEF Expire, Stands
  <2> QED
    BY <1>2, <1>5, <2>1 DEF Expire
<1>6. ASSUME NEW r \in Requests,
             \/ Validate(r) \/ Find(r) \/ FindUser(r) \/ DeleteRow(r) \/ InsertRow(r)
             \/ Revoke(r) \/ SetKey(r) \/ Compare(r) \/ UpdatePassword(r)
             \/ SaveUser(r) \/ DeleteUser(r) \/ CheckName(r) \/ InsertUser(r) \/ Fail(r)
      PROVE  Stands'
  <2>1. pc[r] \notin {"idle", "done"}
    BY <1>6 DEF Validate, Find, FindUser, DeleteRow, InsertRow, Revoke, SetKey, Compare,
                UpdatePassword, SaveUser, DeleteUser, CheckName, InsertUser, Fail
  <2>2. PICK state \in {"done", "delete row", "find user", "insert row", "expire key",
                        "update password", "revoke", "insert user"} : Goto(r, state)
    BY <1>6 DEF Validate, Find, FindUser, DeleteRow, InsertRow, Revoke, SetKey, Compare,
                UpdatePassword, SaveUser, DeleteUser, CheckName, InsertUser, Fail
  <2> QED
    BY <1>1, <2>1, <2>2 DEF States
<1>7. ASSUME NEW r \in Requests, ExpireKey(r) PROVE Stands'
  BY <1>7 DEF ExpireKey, Stands, TypeOK
<1>8. ASSUME NEW r \in Requests, KeyExpires(r) PROVE Stands'
  BY <1>8 DEF KeyExpires, Stands
<1>9. ASSUME NEW r \in Requests, GetDel(r) PROVE Stands'
  <2>1. CASE Goto(r, "done")
    BY <1>1, <1>9, <2>1 DEF GetDel, States
  <2>2. ASSUME NEW t \in Requests, key[t] = "mailed",
               req' = [req EXCEPT ![r].token = t, ![r].who = Who(t)],
               pc' = [pc EXCEPT ![r] = "update password"]
        PROVE  Stands'
    <3>1. Who(t) \in Users
      BY <2>2 DEF TokenTaken, Taken, Stands
    <3>2. req'[r].who = Who(t)
          /\ \A q \in Requests \ {r} : req'[q] = req[q] /\ pc'[q] = pc[q]
      BY <2>2 DEF TypeOK, Request
    <3>3. pc'[r] = "update password"
      BY <2>2 DEF TypeOK
    <3> QED
      BY <3>1, <3>2, <3>3 DEF Stands
  <2> QED
    BY <1>9, <2>1, <2>2 DEF GetDel
<1>10. ASSUME NEW r \in Requests, ReadUser(r) PROVE Stands'
  <2>1. CASE user[Who(r)].exists
    <3>1. PICK role \in Roles :
            req' = [req EXCEPT ![r].role = role, ![r].token = user[Who(r)].password]
      BY <1>10, <2>1 DEF ReadUser
    <3>2. PICK state \in {"save user", "save role"} : pc' = [pc EXCEPT ![r] = state]
      BY <1>10, <2>1 DEF ReadUser
    <3>3. req'[r].who = req[r].who /\ pc'[r] = state
          /\ \A q \in Requests \ {r} : req'[q] = req[q] /\ pc'[q] = pc[q]
      BY <3>1, <3>2 DEF TypeOK, Request
    <3> QED
      BY <1>10, <3>2, <3>3 DEF ReadUser, Stands
  <2>2. CASE ~user[Who(r)].exists
    BY <1>1, <1>10, <2>2 DEF ReadUser, States
  <2> QED
    BY <2>1, <2>2
<1>11. ASSUME NEW k \in Limited, WindowEnds(k) PROVE Stands'
  BY <1>11 DEF history, WindowEnds, Stands
<1>12. CASE Restart
  BY <1>12 DEF history, Restart, Stands
<1>13. CASE UNCHANGED vars
  BY <1>13 DEF vars, Stands
<1> QED
  BY <1>3, <1>4, <1>5, <1>6, <1>7, <1>8, <1>9, <1>10, <1>11, <1>12, <1>13 DEF Next, Progress

\* Every step that writes a password notes it, and no other writes one.
LEMMA StepKeepsPassword ==
  ASSUME TypeOK, Stands, PasswordKept, [Next]_vars
  PROVE  PasswordKept'
<1>1. CASE UNCHANGED <<user, newest>>
  BY <1>1 DEF PasswordKept
<1>2. ASSUME NEW r \in Requests,
             \/ Arrive(r) \/ Incr(r) \/ Expire(r) \/ Validate(r) \/ Find(r) \/ FindUser(r)
             \/ DeleteRow(r) \/ InsertRow(r) \/ Revoke(r) \/ SetKey(r) \/ ExpireKey(r)
             \/ KeyExpires(r) \/ GetDel(r) \/ Compare(r) \/ ReadUser(r) \/ CheckName(r)
             \/ Fail(r)
      PROVE  UNCHANGED <<user, newest>>
  BY <1>2 DEF Arrive, Incr, Expire, Validate, Find, FindUser, DeleteRow, InsertRow, Revoke,
              SetKey, ExpireKey, KeyExpires, GetDel, Compare, ReadUser, CheckName, Fail, history
<1>3. ASSUME NEW r \in Requests, UpdatePassword(r) PROVE PasswordKept'
  BY <1>3 DEF UpdatePassword, PasswordKept, TypeOK, Row
<1>4. ASSUME NEW r \in Requests, SaveUser(r) PROVE PasswordKept'
  BY <1>4 DEF SaveUser, PasswordKept, TypeOK, Row, history
<1>5. ASSUME NEW r \in Requests, DeleteUser(r) PROVE PasswordKept'
  BY <1>5 DEF DeleteUser, PasswordKept, TypeOK, Absent
<1>6. ASSUME NEW r \in Requests, InsertUser(r) PROVE PasswordKept'
  <2> DEFINE password == IF ignored THEN NoUser ELSE r
  <2>1. CASE ~UNCHANGED <<user, newest>>
    <3>1. PICK role \in Roles :
            user' = [user EXCEPT ![Who(r)] =
                       [exists |-> TRUE, role |-> role, password |-> password]]
      BY <1>6, <2>1 DEF InsertUser
    <3>2. newest' = [newest EXCEPT ![Who(r)] = password]
      BY <1>6, <2>1 DEF InsertUser
    <3> HIDE DEF password
    <3> QED
      BY <3>1, <3>2 DEF PasswordKept, TypeOK
  <2> QED
    BY <1>1, <2>1
<1>7. (\E k \in Limited : WindowEnds(k)) \/ Restart \/ UNCHANGED vars => UNCHANGED <<user, newest>>
  BY DEF WindowEnds, Restart, vars, history
<1> QED
  BY <1>1, <1>2, <1>3, <1>4, <1>5, <1>6, <1>7 DEF Next, Progress

\* Whoever comes to save a token without signing in has found the user's row,
\* and a user who is signed out has none.
LEMMA StepKeepsSessions ==
  ASSUME TypeOK, Stands, OnlyLoginSaves, SessionEnds, [Next]_vars
  PROVE  OnlyLoginSaves' /\ SessionEnds'
<1> USE DEF Kind, Who
<1>1. ASSUME UNCHANGED <<rows, ended>>,
             \A q \in Requests : SavesToken(q)' =>
               \/ SavesToken(q) /\ req'[q] = req[q]
               \/ req'[q].kind = "login"
      PROVE  OnlyLoginSaves' /\ SessionEnds'
  BY <1>1 DEF OnlyLoginSaves, SessionEnds
<1>2. ASSUME NEW r \in Requests,
             \/ Arrive(r) \/ Incr(r) \/ Expire(r) \/ Validate(r) \/ FindUser(r)
             \/ SetKey(r) \/ ExpireKey(r) \/ KeyExpires(r) \/ GetDel(r) \/ Compare(r)
             \/ UpdatePassword(r) \/ ReadUser(r) \/ SaveUser(r) \/ DeleteUser(r)
             \/ CheckName(r) \/ InsertUser(r) \/ Fail(r)
      PROVE  OnlyLoginSaves' /\ SessionEnds'
  <2>1. UNCHANGED <<rows, ended>>
    BY <1>2 DEF Arrive, Incr, Expire, Validate, FindUser, SetKey, ExpireKey, KeyExpires,
                GetDel, Compare, UpdatePassword, ReadUser, SaveUser, DeleteUser, CheckName,
                InsertUser, Fail, history
  <2>2. \A q \in Requests \ {r} : pc'[q] = pc[q] /\ req'[q] = req[q]
    <3>1. CASE Incr(r) \/ Expire(r)
      BY <3>1, EnterStep, GotoStep DEF Incr, Expire, Stands, States
    <3>2. CASE ~(Incr(r) \/ Expire(r))
      BY <1>2, <3>2 DEF Arrive, Validate, FindUser, SetKey, ExpireKey, KeyExpires, GetDel,
                  Compare, UpdatePassword, ReadUser, SaveUser, DeleteUser, CheckName,
                  InsertUser, Fail, Goto, TypeOK
    <3> QED
      BY <3>1, <3>2
  <2>3. SavesToken(r)' =>
          (SavesToken(r) /\ req'[r] = req[r]) \/ req'[r].kind = "login"
    <3>1. CASE Arrive(r)
      <4>1. PICK kind \in Kinds :
              pc' = [pc EXCEPT ![r] = IF kind \in Limited THEN "incr" ELSE FirstStep(kind)]
        BY <3>1 DEF Arrive
      <4> QED
        BY <4>1, FirstSteps DEF SavesToken, TypeOK
    <3>2. CASE Incr(r) \/ Expire(r)
      BY <3>2, EnterStep, GotoStep DEF Incr, Expire, Stands, States, SavesToken
    <3>3. CASE Validate(r)
      BY <3>3, GotoStep DEF Validate, Stands, States, SavesToken
    <3>4. CASE FindUser(r)
      BY <3>4, GotoStep DEF FindUser, States, SavesToken
    <3>5. CASE \/ SetKey(r) \/ Compare(r) \/ UpdatePassword(r) \/ SaveUser(r)
               \/ DeleteUser(r) \/ CheckName(r) \/ InsertUser(r) \/ Fail(r)
      BY <3>5, GotoStep DEF SetKey, Compare, UpdatePassword, SaveUser, DeleteUser,
                  CheckName, InsertUser, Fail, States, SavesToken
    <3>6. CASE ExpireKey(r) \/ KeyExpires(r)
      BY <3>6 DEF ExpireKey, KeyExpires, SavesToken, TypeOK
    <3>7. CASE GetDel(r) \/ ReadUser(r)
      BY <3>7, GotoStep DEF GetDel, ReadUser, States, SavesToken, TypeOK
    <3> QED
      BY <1>2, <3>1, <3>2, <3>3, <3>4, <3>5, <3>6, <3>7
  <2> QED
    BY <1>1, <2>1, <2>2, <2>3 DEF SavesToken
<1>3. ASSUME NEW r \in Requests, Find(r) PROVE OnlyLoginSaves' /\ SessionEnds'
  <2>1. UNCHANGED <<rows, ended>>
    BY <1>3 DEF Find, history
  <2>2. \A q \in Requests \ {r} : pc'[q] = pc[q] /\ req'[q] = req[q]
    BY <1>3, GotoStep DEF Find, States
  <2>3. SavesToken(r)' => req'[r] = req[r] /\ rows[Who(r)] # {}
    BY <1>3, GotoStep DEF Find, States, SavesToken
  <2> QED
    BY <2>1, <2>2, <2>3 DEF OnlyLoginSaves, SessionEnds, SavesToken
<1>4. ASSUME NEW r \in Requests, DeleteRow(r) PROVE OnlyLoginSaves' /\ SessionEnds'
  <2>1. Goto(r, "insert row")
    BY <1>4 DEF DeleteRow
  <2>2. /\ req' = req /\ SavesToken(r)
        /\ \A q \in Requests \ {r} : pc'[q] = pc[q]
    BY <1>4, <2>1, GotoStep DEF States, SavesToken, DeleteRow
  <2>3. ended' = ended /\ rows' = [rows EXCEPT ![Who(r)] = {}]
    BY <1>4 DEF DeleteRow, history
  <2> QED
    BY <2>2, <2>3 DEF OnlyLoginSaves, SessionEnds, SavesToken, TypeOK
<1>5. ASSUME NEW r \in Requests, InsertRow(r) PROVE OnlyLoginSaves' /\ SessionEnds'
  <2>1. Goto(r, "done")
    BY <1>5 DEF InsertRow
  <2>2. /\ pc'[r] = "done" /\ SavesToken(r)
        /\ \A q \in Requests \ {r} : pc'[q] = pc[q] /\ req'[q] = req[q]
    BY <1>5, <2>1, GotoStep DEF States, SavesToken, InsertRow
  <2>3. /\ ended' = IF Kind(r) = "login" THEN ended \ {Who(r)} ELSE ended
        /\ rows' = [rows EXCEPT ![Who(r)] = @ \cup {r}]
    BY <1>5 DEF InsertRow
  <2>4. Who(r) \notin ended'
    BY <2>2, <2>3 DEF OnlyLoginSaves
  <2>5. \A q \in Requests : SavesToken(q)' => SavesToken(q) /\ req'[q] = req[q]
    BY <2>2 DEF SavesToken
  <2> QED
    BY <2>3, <2>4, <2>5 DEF OnlyLoginSaves, SessionEnds, TypeOK
<1>6. ASSUME NEW r \in Requests, Revoke(r) PROVE OnlyLoginSaves' /\ SessionEnds'
  <2>1. Goto(r, "done")
    BY <1>6 DEF Revoke
  <2>2. /\ pc'[r] = "done"
        /\ \A q \in Requests \ {r} : pc'[q] = pc[q] /\ req'[q] = req[q]
    BY <2>1, GotoStep DEF States
  <2>3. /\ ended' = IF Saving(Who(r)) = {} THEN ended \cup {Who(r)} ELSE ended \ {Who(r)}
        /\ rows' = [rows EXCEPT ![Who(r)] = {}]
    BY <1>6 DEF Revoke
  <2>4. \A q \in Requests : SavesToken(q)' => SavesToken(q) /\ req'[q] = req[q]
    BY <2>2 DEF SavesToken
  <2>5. Saving(Who(r)) = {} => \A q \in Requests : SavesToken(q) => Who(q) # Who(r)
    BY DEF Saving, SavesToken
  <2>6. OnlyLoginSaves'
    BY <2>3, <2>4, <2>5 DEF OnlyLoginSaves
  <2>7. SessionEnds'
    <3>1. Who(r) \in Users
      BY <1>6 DEF Revoke, Stands
    <3> QED
      BY <2>3, <3>1 DEF SessionEnds, TypeOK
  <2> QED
    BY <2>6, <2>7
<1>7. ASSUME NEW k \in Limited, WindowEnds(k) PROVE OnlyLoginSaves' /\ SessionEnds'
  BY <1>1, <1>7 DEF history, WindowEnds, SavesToken
<1>8. CASE Restart
  BY <1>1, <1>8 DEF history, Restart, SavesToken
<1>9. CASE UNCHANGED vars
  BY <1>1, <1>9 DEF vars, history, SavesToken
<1> QED
  BY <1>2, <1>3, <1>4, <1>5, <1>6, <1>7, <1>8, <1>9 DEF Next, Progress

\* A token is handed to one request, by GETDEL, and that request uses it once.
LEMMA StepKeepsToken ==
  ASSUME TypeOK, Stands, TokenTaken, ResetOnce, [Next]_vars
  PROVE  TokenTaken' /\ ResetOnce'
<1> USE DEF Kind, Who
<1>1. ASSUME UNCHANGED <<key, uses>>,
             \A q \in Requests : pc'[q] = "mailed" <=> pc[q] = "mailed",
             \A q \in Requests : pc'[q] = "update password" /\ req'[q].kind = "reset" =>
               pc[q] = "update password" /\ req'[q] = req[q]
      PROVE  TokenTaken' /\ ResetOnce'
  <2>1. \A q, t \in Requests : Uses(q, t)' => Uses(q, t)
    BY <1>1 DEF Uses
  <2>2. ASSUME NEW t \in Requests PROVE Taken(t)'
    <3>1. Taken(t)
      BY DEF TokenTaken
    <3> QED
      BY <1>1, <2>1, <3>1 DEF Taken
  <2> QED
    BY <1>1, <2>2 DEF TokenTaken, ResetOnce
<1>2. ASSUME NEW r \in Requests,
             \/ Arrive(r) \/ Incr(r) \/ Expire(r) \/ Validate(r) \/ Find(r) \/ FindUser(r)
             \/ DeleteRow(r) \/ InsertRow(r) \/ Revoke(r) \/ Compare(r) \/ ReadUser(r)
             \/ SaveUser(r) \/ DeleteUser(r) \/ CheckName(r) \/ InsertUser(r) \/ Fail(r)
      PROVE  TokenTaken' /\ ResetOnce'
  <2>1. UNCHANGED <<key, uses>> /\ pc[r] # "mailed"
    BY <1>2 DEF Arrive, Incr, Expire, Validate, Find, FindUser, DeleteRow, InsertRow, Revoke,
                Compare, ReadUser, SaveUser, DeleteUser, CheckName, InsertUser, Fail,
                redis, history
  <2>2. /\ \A q \in Requests \ {r} : pc'[q] = pc[q] /\ req'[q] = req[q]
        /\ pc'[r] # "mailed"
        /\ pc'[r] = "update password" => req'[r].kind = "change"
    <3>1. CASE Arrive(r)
      <4>1. PICK kind \in Kinds, u \in Users :
              /\ req' = [req EXCEPT ![r].kind = kind, ![r].who = u]
              /\ pc' = [pc EXCEPT ![r] = IF kind \in Limited THEN "incr" ELSE FirstStep(kind)]
        BY <3>1 DEF Arrive
      <4> QED
        BY <4>1, FirstSteps DEF TypeOK
    <3>2. CASE Incr(r) \/ Expire(r)
      BY <3>2, EnterStep, GotoStep DEF Incr, Expire, Stands, States
    <3>3. CASE Compare(r)
      BY <3>3, GotoStep DEF Compare, Stands, States
    <3>4. CASE ReadUser(r)
      BY <3>4, GotoStep DEF ReadUser, States, TypeOK
    <3>5. CASE \/ Validate(r) \/ Find(r) \/ FindUser(r) \/ DeleteRow(r) \/ InsertRow(r)
               \/ Revoke(r) \/ SaveUser(r) \/ DeleteUser(r) \/ CheckName(r)
               \/ InsertUser(r) \/ Fail(r)
      <4>1. PICK state \in {"done", "delete row", "find user", "insert row", "revoke",
                            "insert user"} : Goto(r, state)
        BY <3>5 DEF Validate, Find, FindUser, DeleteRow, InsertRow, Revoke, SaveUser,
                    DeleteUser, CheckName, InsertUser, Fail
      <4> QED
        BY <4>1, GotoStep DEF States
    <3> QED
      BY <1>2, <3>1, <3>2, <3>3, <3>4, <3>5
  <2> QED
    BY <1>1, <2>1, <2>2
<1>3. ASSUME NEW r \in Requests, SetKey(r) PROVE TokenTaken' /\ ResetOnce'
  <2>1. PICK state \in {"expire key", "done"} : Goto(r, state)
    BY <1>3 DEF SetKey
  <2>2. /\ pc[r] = "set key" /\ pc'[r] = state
        /\ \A q \in Requests \ {r} : pc'[q] = pc[q] /\ req'[q] = req[q]
    BY <1>3, <2>1, GotoStep DEF SetKey, States
  <2>3. /\ uses' = uses /\ key'[r] \in {key[r], "set"}
        /\ \A q \in Requests \ {r} : key'[q] = key[q]
    BY <1>3 DEF SetKey, TypeOK, history
  <2>4. \A q, t \in Requests : Uses(q, t)' => Uses(q, t)
    BY <2>2 DEF Uses
  <2>5. ASSUME NEW t \in Requests PROVE Taken(t)'
    <3>1. Taken(t) /\ (pc'[t] = "mailed" <=> pc[t] = "mailed")
      BY <2>2 DEF TokenTaken
    <3>2. key'[t] = "mailed" => key[t] = "mailed"
      BY <2>3
    <3> QED
      BY <2>3, <2>4, <3>1, <3>2 DEF Taken
  <2> QED
    BY <2>3, <2>5 DEF TokenTaken, ResetOnce
<1>4. ASSUME NEW r \in Requests, ExpireKey(r) PROVE TokenTaken' /\ ResetOnce'
  <2>1. /\ pc[r] = "expire key" /\ pc'[r] = "mailed" /\ key'[r] = "mailed"
        /\ \A q \in Requests \ {r} : pc'[q] = pc[q] /\ key'[q] = key[q]
        /\ req' = req /\ uses' = uses
    BY <1>4 DEF ExpireKey, TypeOK, history
  <2>2. \A q, t \in Requests : Uses(q, t)' => Uses(q, t)
    BY <2>1 DEF Uses
  <2>3. ASSUME NEW t \in Requests PROVE Taken(t)'
    <3>1. Taken(t)
      BY DEF TokenTaken
    <3> QED
      BY <2>1, <2>2, <3>1 DEF Taken
  <2> QED
    BY <2>1, <2>3 DEF TokenTaken, ResetOnce
<1>5. ASSUME NEW r \in Requests, KeyExpires(r) PROVE TokenTaken' /\ ResetOnce'
  <2>1. /\ key'[r] = "none" /\ \A q \in Requests \ {r} : key'[q] = key[q]
        /\ UNCHANGED <<pc, req, uses>>
    BY <1>5 DEF KeyExpires, TypeOK, history
  <2>2. \A q, t \in Requests : Uses(q, t)' => Uses(q, t)
    BY <2>1 DEF Uses
  <2>3. ASSUME NEW t \in Requests PROVE Taken(t)'
    <3>1. Taken(t) /\ (t = r => pc[t] = "mailed")
      BY <1>5 DEF TokenTaken, Taken, KeyExpires
    <3> QED
      BY <2>1, <2>2, <3>1 DEF Taken
  <2> QED
    BY <2>1, <2>3 DEF TokenTaken, ResetOnce
<1>6. ASSUME NEW r \in Requests, GetDel(r) PROVE TokenTaken' /\ ResetOnce'
  <2>1. CASE Goto(r, "done") /\ UNCHANGED key
    BY <1>1, <1>6, <2>1, GotoStep DEF GetDel, States, history
  <2>2. ASSUME NEW t \in Requests, key[t] = "mailed",
               key' = [key EXCEPT ![t] = "none"],
               req' = [req EXCEPT ![r].token = t, ![r].who = Who(t)],
               pc' = [pc EXCEPT ![r] = "update password"]
        PROVE  TokenTaken' /\ ResetOnce'
    <3>1. pc[r] = "getdel" /\ uses' = uses
      BY <1>6 DEF GetDel, history
    <3>2. /\ pc'[r] = "update password" /\ \A q \in Requests \ {r} : pc'[q] = pc[q]
          /\ key'[t] = "none" /\ \A q \in Requests \ {t} : key'[q] = key[q]
      BY <2>2 DEF TypeOK
    <3>3. req'[r].token = t /\ \A q \in Requests \ {r} : req'[q] = req[q]
      BY <2>2 DEF TypeOK, Request
    <3>4. pc[t] = "mailed" /\ uses[t] = 0 /\ \A q \in Requests : ~Uses(q, t)
      BY <2>2 DEF TokenTaken, Taken
    <3>5. \A q, l \in Requests : Uses(q, l)' => (q = r /\ l = t) \/ Uses(q, l)
      BY <3>2, <3>3 DEF Uses
    <3>6. \A l \in Requests : pc'[l] = "mailed" <=> pc[l] = "mailed"
      BY <3>1, <3>2
    <3>7. Taken(t)'
      BY <3>1, <3>2, <3>4, <3>5, <3>6 DEF Taken
    <3>8. ASSUME NEW l \in Requests \ {t} PROVE Taken(l)'
      <4>1. Taken(l)
        BY DEF TokenTaken
      <4> QED
        BY <3>1, <3>2, <3>5, <3>6, <4>1 DEF Taken
    <3> QED
      BY <3>1, <3>7, <3>8 DEF TokenTaken, ResetOnce
  <2> QED
    BY <1>6, <2>1, <2>2 DEF GetDel
<1>7. ASSUME NEW r \in Requests, UpdatePassword(r) PROVE TokenTaken' /\ ResetOnce'
  <2>1. /\ pc[r] = "update password" /\ pc'[r] = "done" /\ key' = key
        /\ \A q \in Requests \ {r} : pc'[q] = pc[q] /\ req'[q] = req[q]
    BY <1>7, GotoStep DEF UpdatePassword, States, redis
  <2>2. CASE Kind(r) = "reset"
    <3>1. uses' = [uses EXCEPT ![req[r].token] = @ + 1]
      BY <1>7, <2>2 DEF UpdatePassword
    <3>2. \A t \in Requests : uses'[t] = IF Uses(r, t) THEN uses[t] + 1 ELSE uses[t]
      BY <2>1, <2>2, <3>1 DEF TypeOK, Uses
    <3>3. \A q, t \in Requests : Uses(q, t)' => q # r /\ Uses(q, t)
      BY <2>1 DEF Uses
    <3>4. ASSUME NEW t \in Requests, Uses(r, t)
          PROVE  /\ uses'[t] = 1 /\ pc'[t] = "mailed" /\ key'[t] # "mailed"
                 /\ \A q \in Requests : ~Uses(q, t)'
      <4>1. Taken(t)
        BY DEF TokenTaken
      <4>2. uses[t] = 0 /\ pc[t] = "mailed" /\ key[t] # "mailed"
        BY <3>4, <4>1 DEF Taken
      <4>3. uses'[t] = 1 /\ pc'[t] = "mailed" /\ key'[t] # "mailed"
        <5>1. t # r
          BY <2>1, <4>2
        <5>2. uses'[t] = 1
          BY <3>2, <3>4, <4>2
        <5> QED
          BY <2>1, <4>2, <5>1, <5>2
      <4>4. \A q \in Requests : ~Uses(q, t)'
        BY <3>3, <3>4, <4>1 DEF Taken
      <4> QED
        BY <4>3, <4>4
    <3>5. \A q \in Requests : pc'[q] = "mailed" <=> pc[q] = "mailed"
      BY <2>1
    <3>6. ResetOnce'
      BY <3>2, <3>4 DEF ResetOnce
    <3>7. ASSUME NEW t \in Requests PROVE Taken(t)'
      <4>1. Taken(t)
        BY DEF TokenTaken
      <4>2. CASE Uses(r, t)
        BY <3>4, <4>2 DEF Taken
      <4>3. CASE ~Uses(r, t)
        BY <2>1, <3>2, <3>3, <3>5, <4>1, <4>3 DEF Taken
      <4> QED
        BY <4>2, <4>3
    <3> QED
      BY <3>6, <3>7 DEF TokenTaken
  <2>3. CASE Kind(r) # "reset"
    BY <1>1, <1>7, <2>1, <2>3 DEF UpdatePassword
  <2> QED
    BY <2>2, <2>3
<1>8. ASSUME NEW k \in Limited, WindowEnds(k) PROVE TokenTaken' /\ ResetOnce'
  BY <1>1, <1>8 DEF history, WindowEnds
<1>9. CASE Restart
  BY <1>1, <1>9 DEF history, Restart, redis
<1>10. CASE UNCHANGED vars
  BY <1>1, <1>10 DEF vars, redis, history
<1> QED
  BY <1>2, <1>3, <1>4, <1>5, <1>6, <1>7, <1>8, <1>9, <1>10 DEF Next, Progress

\* The inductive invariant holds in the initial states.
LEMMA InitIInv == Init => IInv
<1> SUFFICES ASSUME Init PROVE IInv
  OBVIOUS
<1>1. TypeOK
  <2>1. NoRequest \in Request /\ Absent \in Row
    BY DEF NoRequest, Request, Absent, Row, Roles, Tokens
  <2>2. [exists |-> TRUE, role |-> "normal-user", password |-> First] \in Row
    BY DEF Row, Roles, Tokens
  <2>3. user \in [Users -> Row]
    BY <2>1, <2>2 DEF Init
  <2>4. newest \in [Users -> Tokens]
    BY <2>3 DEF Init, Row
  <2> QED
    BY <2>1, <2>3, <2>4 DEF Init, TypeOK, States, Tokens
<1>2. Stands /\ OnlyLoginSaves /\ SessionEnds
  BY DEF Init, Stands, OnlyLoginSaves, SavesToken, SessionEnds
<1>4. TokenTaken /\ ResetOnce
  BY DEF Init, TokenTaken, Taken, Uses, ResetOnce
<1>5. PasswordKept
  BY DEF Init, PasswordKept
<1> QED
  BY <1>1, <1>2, <1>4, <1>5 DEF IInv

\* Every step keeps it.
LEMMA StepKeepsIInv == IInv /\ [Next]_vars => IInv'
  BY StepKeepsType, StepKeepsStands, StepKeepsPassword,
     StepKeepsSessions, StepKeepsToken DEF IInv

-----------------------------------------------------------------------------
(* Theorems.                                                               *)

\* The types of Sessions hold in every reachable state, with the rest of the
\* inductive invariant.
THEOREM Invariant == Spec => []IInv
  BY InitIInv, StepKeepsIInv, PTL DEF Spec

\* However refreshes, logins and logouts overlap, a session that was ended
\* with no token being saved stays ended until the next login.
THEOREM SignedOut == Spec => []SessionEnds
<1>1. IInv => SessionEnds
  BY DEF IInv
<1> QED
  BY <1>1, Invariant, PTL

\* However many requests bring the same reset token, one changes a password.
THEOREM ResetTokenOnce == Spec => []ResetOnce
<1>1. IInv => ResetOnce
  BY DEF IInv
<1> QED
  BY <1>1, Invariant, PTL

\* However updates of users and changes of passwords overlap, the password
\* in the row is the one written last.
THEOREM NewestPassword == Spec => []PasswordKept
<1>1. IInv => PasswordKept
  BY DEF IInv
<1> QED
  BY <1>1, Invariant, PTL
=============================================================================
