--------------------------- MODULE Charges_proofs ---------------------------
(***************************************************************************)
(* Proofs about charges, for any number of requests, revenues and charges. *)
(*                                                                         *)
(* The properties speak of what is committed; ChargesInv adds what a       *)
(* request has under way: the row it wrote to each table, what it is going *)
(* to commit, and exactly which locks it holds where it stands.  That the  *)
(* history ends in the status a charge has rests on the lock of the charge *)
(* from the UPDATE to the commit; that its revenue follows it does not.    *)
(***************************************************************************)
EXTENDS Charges, FiniteSetTheorems, WellFoundedInduction, TLAPS

States == RunningStates \cup {"idle", "refused", "committed", "rolledback"}
RowType == {ChargeRow(c) : c \in Txns} \cup {RevenueRow(r) : r \in Revenues} \cup {LastEvent}

Typed ==
  /\ status \in [Txns -> ChargeStatuses \cup {"none"}]
  /\ revenue \in [Revenues -> RevenueStatuses]
  /\ processing \subseteq [revenue : Revenues, by : Txns]
  /\ history \subseteq [id : Nat, charge : Txns, event : Transitions \cup {"create"},
                        by : Txns]
  /\ IsFiniteSet(history)
  /\ \A b \in booked : b.by \in Txns
  /\ pc \in [Txns -> States]
  /\ kind \in [Txns -> Kinds \cup {"none"}]
  /\ subject \in [Txns -> Txns \cup Revenues \cup {"none"}]
  /\ written \in [Txns -> ChargeStatuses \cup {"none"}]
  /\ synced \in [Txns -> RevenueStatuses \cup {"none"}]
  /\ held \in [Txns -> SUBSET RowType]

\* Where a request of each kind may stand once it has begun.
StatesOf(k) ==
  CASE k = "create" -> {"load", "processing", "insert", "log", "register", "tip",
                        "gateway", "commit", "committed"}
    [] k = "receive" -> {"register", "tip", "sync", "commit", "committed"}
    [] k \in {"edit", "remove"} -> {"sync", "commit", "committed"}
    [] k = "none" -> {"idle", "refused", "rolledback"}
    [] OTHER -> {"update", "log", "register", "tip", "commit", "committed"}
                \cup (IF k \in DOMAIN SyncedStatuses THEN {"sync"} ELSE {})

\* What its transaction wrote, and what it is about.
WrittenAt(k, state) ==
  IF k \in ByHand \cup {"none"} \/ state \in {"load", "processing", "insert", "update"}
  THEN {"none"}
  ELSE IF k # "create" THEN {Target[k]}
  ELSE IF state \in {"commit", "committed"} THEN {"DRAFT", "PROCESSING"}
  ELSE {"DRAFT"}

SyncedAt(k, state) ==
  IF k \in DOMAIN SyncedStatuses /\ state \in {"commit", "committed"}
  THEN SyncedStatuses[k] ELSE {"none"}

RequestOK(t) ==
  /\ pc[t] \in StatesOf(kind[t])
  /\ kind[t] \in {"create"} \cup ByHand => subject[t] \in Revenues
  /\ IsTransition(t) => subject[t] \in Txns /\ status[subject[t]] # "none"
  /\ written[t] \in WrittenAt(kind[t], pc[t])
  /\ synced[t] \in SyncedAt(kind[t], pc[t])
  /\ pc[t] = "tip" => Registers(t)

\* The locks a request holds where it stands.
LocksOf(t) ==
  {x \in {RevenueRow(RevenueOf(t))} :
     \/ kind[t] = "create" /\ pc[t] \in {"processing", "insert", "log", "register",
                                         "tip", "gateway", "commit"}
     \/ kind[t] \in DOMAIN SyncedStatuses /\ pc[t] = "commit"}
  \cup {x \in {ChargeRow(ChargeOf(t))} :
     /\ kind[t] \notin ByHand
     /\ pc[t] \in {"log", "register", "tip", "gateway", "sync", "commit"}}
  \cup {x \in {LastEvent} : Registers(t) /\ pc[t] \in {"gateway", "sync", "commit"}}

LocksOK ==
  /\ \A t \in Txns : held[t] = LocksOf(t)
  /\ \A t \in Txns : \A u \in Txns \ {t} : held[t] \cap held[u] = {}

\* A charge is there once the request that creates it has committed.
ChargeOK(c) == status[c] # "none" <=> kind[c] = "create" /\ pc[c] = "committed"

\* The rows a request has in the tables.
HasKey(t) ==
  /\ kind[t] = "create"
  /\ pc[t] \in {"insert", "log", "register", "tip", "gateway", "commit", "committed"}
HasBooked(t) ==
  /\ kind[t] \in DOMAIN EventType /\ RevenueOf(t) \in HasAccount
  /\ pc[t] \in {"gateway", "sync", "commit", "committed"}
HasLogged(t) ==
  /\ kind[t] \in Transitions \cup {"create"}
  /\ pc[t] \in {"register", "tip", "gateway", "sync", "commit", "committed"}

BookedRow(t) == [charge |-> ChargeOf(t), type |-> EventType[kind[t]], by |-> t]

RowsOK(t) ==
  /\ {p \in processing : p.by = t} = IF HasKey(t) THEN {ProcessingRow(t)} ELSE {}
  /\ {b \in booked : b.by = t} = IF HasBooked(t) THEN {BookedRow(t)} ELSE {}
  /\ \A h \in history : h.by = t =>
       /\ HasLogged(t) /\ h.charge = ChargeOf(t)
       /\ h.event = kind[t] \/ (kind[t] = "create" /\ h.event = "processing")
  /\ HasLogged(t) => \E h \in history : h.by = t /\ h.event = kind[t]

\* What a running request logged last is the last word on its charge.
LastWord(t) ==
  HasLogged(t) /\ Running(t) =>
    \E h \in history :
      /\ h.by = t /\ StatusAfter(h.event) = written[t]
      /\ \A g \in history : g.charge = ChargeOf(t) => g.id <= h.id

UniqueKey == \A p, q \in processing : p.revenue = q.revenue => p = q

ChargesInv ==
  /\ Typed
  /\ \A t \in Txns : RequestOK(t) /\ ChargeOK(t) /\ RowsOK(t) /\ LastWord(t)
  /\ LocksOK
  /\ UniqueKey
  /\ HistoryEndsInStatus
  /\ RevenueFollowsCharge

-----------------------------------------------------------------------------
\* A nonempty finite set of numbers has a largest one: of the subsets without
\* one, a smallest would not have one fewer element.
LEMMA FiniteHasLargest ==
  ASSUME NEW S \in SUBSET Nat, IsFiniteSet(S), S # {}
  PROVE  \E m \in S : \A i \in S : i <= m
<1>1. PICK B : B = {T \in SUBSET S : T # {} /\ \A m \in T : \E i \in T : ~(i <= m)}
  OBVIOUS
<1>2. PICK R : R = StrictSubsetOrdering(S)
  OBVIOUS
<1>3. FiniteSubsetsOf(S) = SUBSET S
  BY FS_FiniteSubsetsOfFinite
<1>4. IsWellFoundedOn(R, SUBSET S)
  BY <1>2, <1>3, FS_StrictSubsetOrderingWellFounded
<1>5. ASSUME B # {} PROVE FALSE
  <2>1. B \subseteq SUBSET S
    BY <1>1
  <2>2. PICK T \in B : \A U \in B : <<U, T>> \notin R
    BY <1>4, <1>5, <2>1, WFMin
  <2>3. PICK x : x \in T
    BY <1>1
  <2>4. T \in SUBSET S /\ x \in Nat /\ T \ {x} \in SUBSET S
    BY <1>1, <2>3
  <2>5. <<T \ {x}, T>> \in R
    BY <1>2, <2>3, <2>4 DEF StrictSubsetOrdering
  <2>6. T \ {x} \notin B
    BY <2>2, <2>5
  <2>7. CASE T \ {x} = {}
    BY <2>7, <1>1, <2>3, <2>4
  <2>8. CASE T \ {x} # {}
    <3>1. PICK m \in T \ {x} : \A i \in T \ {x} : i <= m
      BY <1>1, <2>4, <2>6, <2>8
    <3>2. m \in Nat /\ \A i \in T : i \in Nat
      BY <2>4, <3>1
    <3>3. \E n \in T : \A i \in T : i <= n
      <4>1. CASE x <= m
        BY <3>1, <4>1
      <4>2. CASE m <= x
        BY <2>3, <3>1, <3>2, <4>2
      <4> QED
        BY <2>4, <3>2, <4>1, <4>2
    <3> QED
      BY <1>1, <3>3
  <2> QED
    BY <2>7, <2>8
<1> QED
  BY <1>1, <1>5

\* The next id is larger than all that are there.
LEMMA NextIdIsNew ==
  ASSUME Typed
  PROVE  NextId \in Nat /\ \A h \in history : h.id < NextId
<1>1. CASE history = {}
  BY <1>1 DEF NextId
<1>2. CASE history # {}
  <2>1. PICK S : S = {h.id : h \in history}
    OBVIOUS
  <2>2. IsFiniteSet(S) /\ S \in SUBSET Nat /\ S # {}
    <3>1. PICK f : f = [h \in history |-> h.id]
      OBVIOUS
    <3>2. f \in [history -> S] /\ \A i \in S : \E h \in history : f[h] = i
      BY <2>1, <3>1
    <3>3. f \in Surjection(history, S)
      BY <3>2 DEF Surjection
    <3>4. IsFiniteSet(S)
      BY <3>3, FS_Surjection DEF Typed
    <3> QED
      BY <1>2, <2>1, <3>4 DEF Typed
  <2>3. PICK largest \in S : \A i \in S : i <= largest
    BY <2>2, FiniteHasLargest
  <2>4. largest >= largest /\ \A i \in S : largest >= i
    BY <2>2, <2>3
  <2>5. PICK m : m = Max(S)
    OBVIOUS
  <2>6. m \in S /\ \A i \in S : m >= i
    BY <2>3, <2>4, <2>5 DEF Max
  <2>7. NextId = m + 1 /\ m \in Nat
    BY <1>2, <2>1, <2>2, <2>5, <2>6 DEF NextId
  <2>8. \A h \in history : h.id \in S /\ h.id \in Nat
    BY <2>1, <2>2
  <2> QED
    BY <2>6, <2>7, <2>8
<1> QED
  BY <1>1, <1>2

-----------------------------------------------------------------------------
\* The tables of the operations, spelled out.
LEMMA KindFacts ==
  /\ Transitions = {"processing", "awaiting", "pay", "fail", "cancel", "expire", "refund"}
  /\ ByHand = {"receive", "edit", "remove"}
  /\ DOMAIN EventType = {"create", "pay", "cancel", "expire", "refund"}
  /\ DOMAIN SyncedStatuses =
       {"pay", "cancel", "expire", "refund", "receive", "edit", "remove"}
  /\ \A k \in Transitions : Target[k] \in ChargeStatuses /\ Target[k] # "DRAFT"
  /\ \A k \in DOMAIN SyncedStatuses : SyncedStatuses[k] \subseteq RevenueStatuses
  /\ SyncedStatuses["pay"] = {"paid"}
  /\ \A k \in {"cancel", "expire", "refund"} : SyncedStatuses[k] = {"pending"}
  /\ "none" \notin RevenueStatuses
  /\ \A k \in Transitions :
       /\ Target[k] = "PAID" <=> k = "pay"
       /\ Target[k] \in {"CANCELED", "EXPIRED"} <=> k \in {"cancel", "expire", "refund"}
  /\ \A k, l \in DOMAIN EventType : EventType[k] = EventType[l] => k = l
<1>1. Transitions = {"processing", "awaiting", "pay", "fail", "cancel", "expire", "refund"}
  BY DEF Transitions, Target
<1>2. DOMAIN EventType = {"create", "pay", "cancel", "expire", "refund"}
  BY DEF EventType
<1>3. DOMAIN SyncedStatuses =
        {"pay", "cancel", "expire", "refund", "receive", "edit", "remove"}
  BY DEF SyncedStatuses
<1>4. \A k \in Transitions :
        /\ Target[k] \in ChargeStatuses /\ Target[k] # "DRAFT"
        /\ Target[k] = "PAID" <=> k = "pay"
        /\ Target[k] \in {"CANCELED", "EXPIRED"} <=> k \in {"cancel", "expire", "refund"}
  BY <1>1 DEF Target, ChargeStatuses
<1>5. /\ \A k \in DOMAIN SyncedStatuses : SyncedStatuses[k] \subseteq RevenueStatuses
      /\ SyncedStatuses["pay"] = {"paid"}
      /\ \A k \in {"cancel", "expire", "refund"} : SyncedStatuses[k] = {"pending"}
  <2>1. /\ SyncedStatuses["pay"] = {"paid"}
        /\ \A k \in {"cancel", "expire", "refund"} : SyncedStatuses[k] = {"pending"}
        /\ SyncedStatuses["receive"] = {"paid", "partial", "pending", "reversed"}
        /\ SyncedStatuses["edit"] = ClientStatuses
        /\ SyncedStatuses["remove"] = {"cancelled", "archived"}
    BY DEF SyncedStatuses
  <2>2. /\ {"paid"} \subseteq RevenueStatuses /\ {"pending"} \subseteq RevenueStatuses
        /\ {"paid", "partial", "pending", "reversed"} \subseteq RevenueStatuses
        /\ {"cancelled", "archived"} \subseteq RevenueStatuses
    BY DEF RevenueStatuses
  <2> QED
    BY <1>3, <2>1, <2>2, StatusesAssumption
<1>6. \A k, l \in DOMAIN EventType : EventType[k] = EventType[l] => k = l
  BY <1>2 DEF EventType
<1>7. ByHand = {"receive", "edit", "remove"} /\ "none" \notin RevenueStatuses
  BY DEF ByHand, RevenueStatuses
<1> QED
  BY <1>1, <1>2, <1>3, <1>4, <1>5, <1>6, <1>7

\* The kind of a request.
LEMMA KindOf ==
  ASSUME Typed, NEW t \in Txns
  PROVE  /\ kind[t] \in Transitions \cup {"create", "none"} \cup ByHand
         /\ IsTransition(t) <=> kind[t] \notin {"create", "none"} \cup ByHand
<1>1. kind[t] \in Kinds \cup {"none"}
  BY DEF Typed
<1>2. kind[t] \in Transitions \cup {"create", "none"} \cup ByHand
  BY <1>1, KindsAssumption
<1>3. \A k \in Transitions : k \notin {"create", "none"} \cup ByHand
  BY KindFacts
<1> QED
  BY <1>2, <1>3 DEF IsTransition

-----------------------------------------------------------------------------
\* What a step of t leaves alone: the other requests and their rows.
OthersKept(t) ==
  /\ \A u \in Txns \ {t} :
       /\ pc'[u] = pc[u] /\ kind'[u] = kind[u] /\ subject'[u] = subject[u]
       /\ written'[u] = written[u] /\ synced'[u] = synced[u] /\ held'[u] = held[u]
  /\ \A p : p.by # t => (p \in processing' <=> p \in processing)
  /\ \A b : b.by # t => (b \in booked' <=> b \in booked)
  /\ \A h : h.by # t => (h \in history' <=> h \in history)

\* A charge stays about the revenue it was created from, as long as the
\* request that moves has not committed it.
LEMMA SameCharge ==
  ASSUME ChargesInv, NEW t \in Txns, pc[t] # "committed", OthersKept(t)
  PROVE  /\ \A c \in Charges : subject'[c] = subject[c] /\ pc'[c] = pc[c] /\ kind'[c] = kind[c]
         /\ \A u \in Txns \ {t} :
              /\ IsTransition(u)' = IsTransition(u)
              /\ ChargeOf(u)' = ChargeOf(u) /\ RevenueOf(u)' = RevenueOf(u)
              /\ Registers(u)' = Registers(u) /\ Running(u)' = Running(u)
              /\ HasKey(u)' = HasKey(u) /\ HasBooked(u)' = HasBooked(u)
              /\ HasLogged(u)' = HasLogged(u)
<1>1. \A c \in Charges : c # t /\ c \in Txns
  BY DEF ChargesInv, ChargeOK, Charges
<1>2. \A c \in Charges : subject'[c] = subject[c] /\ pc'[c] = pc[c] /\ kind'[c] = kind[c]
  BY <1>1 DEF OthersKept
<1>3. ASSUME NEW u \in Txns \ {t}
      PROVE  /\ IsTransition(u)' = IsTransition(u)
             /\ ChargeOf(u)' = ChargeOf(u) /\ RevenueOf(u)' = RevenueOf(u)
  <2>1. IsTransition(u) => subject[u] \in Charges
    BY DEF ChargesInv, RequestOK, Charges
  <2>2. IsTransition(u)' = IsTransition(u)
    BY DEF OthersKept, IsTransition
  <2>3. ChargeOf(u)' = ChargeOf(u)
    BY DEF OthersKept, ChargeOf
  <2>4. subject'[u] = subject[u]
    BY DEF OthersKept
  <2>5. RevenueOf(u)' = RevenueOf(u)
    BY <1>2, <2>1, <2>2, <2>4 DEF RevenueOf
  <2> QED
    BY <2>2, <2>3, <2>5
<1>4. ASSUME NEW u \in Txns \ {t}
      PROVE  /\ Registers(u)' = Registers(u) /\ Running(u)' = Running(u)
             /\ HasKey(u)' = HasKey(u) /\ HasBooked(u)' = HasBooked(u)
             /\ HasLogged(u)' = HasLogged(u)
  <2>1. pc'[u] = pc[u] /\ kind'[u] = kind[u]
    BY DEF OthersKept
  <2>2. RevenueOf(u)' = RevenueOf(u)
    BY <1>3
  <2> QED
    BY <2>1, <2>2 DEF Registers, Running, HasKey, HasBooked, HasLogged
<1> QED
  BY <1>2, <1>3, <1>4

\* Another request keeps what it wrote, as long as no row is logged of a
\* charge it has locked.
LEMMA OtherRequest ==
  ASSUME ChargesInv, NEW t \in Txns, pc[t] # "committed", OthersKept(t),
         \A c \in Txns : status[c] # "none" => status'[c] # "none",
         \A h \in history' \ history : ChargeRow(h.charge) \in held[t],
         NEW u \in Txns \ {t}
  PROVE  RequestOK(u)' /\ RowsOK(u)' /\ LastWord(u)' /\ held'[u] = LocksOf(u)'
<1>1. /\ pc'[u] = pc[u] /\ kind'[u] = kind[u] /\ subject'[u] = subject[u]
      /\ written'[u] = written[u] /\ synced'[u] = synced[u] /\ held'[u] = held[u]
  BY DEF OthersKept
<1>2. /\ IsTransition(u)' = IsTransition(u)
      /\ ChargeOf(u)' = ChargeOf(u) /\ RevenueOf(u)' = RevenueOf(u)
      /\ Registers(u)' = Registers(u) /\ Running(u)' = Running(u)
      /\ HasKey(u)' = HasKey(u) /\ HasBooked(u)' = HasBooked(u)
      /\ HasLogged(u)' = HasLogged(u)
  BY SameCharge
<1>3. RequestOK(u) /\ RowsOK(u) /\ LastWord(u) /\ held[u] = LocksOf(u)
  BY DEF ChargesInv, LocksOK
<1>4. RequestOK(u)'
  BY <1>1, <1>2, <1>3 DEF RequestOK
<1>5. held'[u] = LocksOf(u)'
  BY <1>1, <1>2, <1>3 DEF LocksOf
<1>6. RowsOK(u)'
  <2>1. ProcessingRow(u)' = ProcessingRow(u) /\ BookedRow(u)' = BookedRow(u)
    BY <1>1, <1>2 DEF ProcessingRow, BookedRow
  <2>2. {p \in processing' : p.by = u} = {p \in processing : p.by = u}
    BY DEF OthersKept
  <2>3. {b \in booked' : b.by = u} = {b \in booked : b.by = u}
    BY DEF OthersKept
  <2>4. \A h : h.by = u => (h \in history' <=> h \in history)
    BY DEF OthersKept
  <2> QED
    BY <1>1, <1>2, <1>3, <2>1, <2>2, <2>3, <2>4 DEF RowsOK
<1>7. LastWord(u)'
  <2> SUFFICES ASSUME HasLogged(u), Running(u)
               PROVE  \E h \in history' :
                        /\ h.by = u /\ StatusAfter(h.event) = written[u]
                        /\ \A g \in history' : g.charge = ChargeOf(u) => g.id <= h.id
    BY <1>1, <1>2 DEF LastWord
  <2>1. PICK h \in history :
          /\ h.by = u /\ StatusAfter(h.event) = written[u]
          /\ \A g \in history : g.charge = ChargeOf(u) => g.id <= h.id
    BY <1>3 DEF LastWord
  <2>2. h \in history'
    BY <2>1 DEF OthersKept
  <2>3. ChargeRow(ChargeOf(u)) \in held[u]
    BY <1>3, KindFacts DEF HasLogged, Running, RunningStates, LocksOf
  <2>4. \A x : x \notin held[t] \/ x \notin held[u]
    BY DEF ChargesInv, LocksOK
  <2>5. \A g \in history' \ history : g.charge # ChargeOf(u)
    BY <2>3, <2>4
  <2> QED
    BY <2>1, <2>2, <2>5
<1> QED
  BY <1>4, <1>5, <1>6, <1>7

\* Who has logged and not committed is running.
LEMMA LoggedRuns ==
  ASSUME ChargesInv, NEW t \in Txns, pc[t] # "committed", NEW h \in history, h.by = t
  PROVE  Running(t)
  BY DEF ChargesInv, RowsOK, HasLogged, Running, RunningStates

\* As long as nothing is committed, what is committed is as it was.
LEMMA CommittedKept ==
  ASSUME ChargesInv, NEW t \in Txns, pc[t] # "committed", pc'[t] # "committed",
         OthersKept(t), status' = status, revenue' = revenue, RowsOK(t)'
  PROVE  /\ \A c \in Txns : ChargeOK(c)'
         /\ HistoryEndsInStatus' /\ RevenueFollowsCharge'
<1>1. /\ \A c \in Charges : subject'[c] = subject[c] /\ pc'[c] = pc[c] /\ kind'[c] = kind[c]
      /\ \A u \in Txns \ {t} : Running(u)' = Running(u)
  BY SameCharge
<1>2. Charges' = Charges
  BY DEF Charges
<1>3. ASSUME NEW c \in Txns PROVE ChargeOK(c)'
  <2>1. ChargeOK(c) /\ (c # t => pc'[c] = pc[c] /\ kind'[c] = kind[c])
    BY DEF ChargesInv, OthersKept
  <2> QED
    BY <2>1 DEF ChargeOK
<1>4. \A r : WrittenByHand(r)' = WrittenByHand(r)
  BY DEF WrittenByHand, OthersKept
<1>5. RevenueFollowsCharge'
  BY <1>1, <1>2, <1>4 DEF ChargesInv, RevenueFollowsCharge
<1>7. \A h \in history' : h.by = t => Running(t)'
  BY DEF RowsOK, HasLogged, Running, RunningStates
<1>8. \A h \in history : h.by = t => Running(t)
  BY LoggedRuns
<1>9. \A h \in history : h.by \in Txns
  BY DEF ChargesInv, Typed
<1>10. \A h : h.by # t => (h \in history' <=> h \in history)
  BY DEF OthersKept
<1>11. ASSUME NEW h PROVE (h \in history' /\ ~Running(h.by)') <=> (h \in history /\ ~Running(h.by))
  BY <1>1, <1>7, <1>8, <1>9, <1>10
<1>12. \A c : HistoryOf(c)' = HistoryOf(c)
  BY <1>11 DEF HistoryOf
<1>13. \A c, h : h \in HistoryOf(c) => h \in history /\ h \in history'
  BY <1>11 DEF HistoryOf
<1>14. HistoryEndsInStatus'
  BY <1>2, <1>12, <1>13 DEF ChargesInv, HistoryEndsInStatus, IsLast
<1> QED
  BY <1>3, <1>5, <1>14

\* A step of t that commits nothing only has to keep what is said of t.
LEMMA StepKeeps ==
  ASSUME ChargesInv, NEW t \in Txns, pc[t] # "committed", pc'[t] # "committed",
         OthersKept(t), status' = status, revenue' = revenue, Typed',
         RequestOK(t)', RowsOK(t)', LastWord(t)', held'[t] = LocksOf(t)', UniqueKey',
         \A h \in history' \ history : ChargeRow(h.charge) \in held[t],
         \A u \in Txns \ {t} : held'[t] \cap held[u] = {}
  PROVE  ChargesInv'
<1>1. /\ \A c \in Txns : ChargeOK(c)'
      /\ HistoryEndsInStatus' /\ RevenueFollowsCharge'
  BY CommittedKept
<1>2. \A u \in Txns \ {t} : RequestOK(u)' /\ RowsOK(u)' /\ LastWord(u)' /\ held'[u] = LocksOf(u)'
  BY OtherRequest
<1>3. LocksOK'
  BY <1>2 DEF ChargesInv, LocksOK, OthersKept
<1> QED
  BY <1>1, <1>2, <1>3 DEF ChargesInv

-----------------------------------------------------------------------------
LEMMA InitCharges == Init => ChargesInv
<1> SUFFICES ASSUME Init PROVE ChargesInv
  OBVIOUS
<1>1. Typed
  BY FS_EmptySet, StatusesAssumption DEF Init, Typed, States
<1>2. ASSUME NEW t \in Txns
      PROVE  RequestOK(t) /\ ChargeOK(t) /\ RowsOK(t) /\ LastWord(t) /\ held[t] = LocksOf(t)
  <2>1. /\ pc[t] = "idle" /\ kind[t] = "none" /\ written[t] = "none" /\ synced[t] = "none"
        /\ status[t] = "none" /\ held[t] = {}
        /\ processing = {} /\ history = {} /\ booked = {}
    BY DEF Init
  <2>2. ~IsTransition(t) /\ ~Registers(t) /\ kind[t] \notin DOMAIN SyncedStatuses
    BY <2>1, KindFacts DEF IsTransition, Registers
  <2>3. RequestOK(t)
    BY <2>1, <2>2, KindFacts DEF RequestOK, StatesOf, WrittenAt, SyncedAt
  <2>4. LocksOf(t) = {}
    BY <2>1, <2>2 DEF LocksOf
  <2>5. ~HasKey(t) /\ ~HasBooked(t) /\ ~HasLogged(t)
    BY <2>1, <2>2 DEF HasKey, HasBooked, HasLogged
  <2>6. RowsOK(t)
    BY <2>1, <2>5 DEF RowsOK
  <2> QED
    BY <2>1, <2>3, <2>4, <2>5, <2>6 DEF ChargeOK, LastWord
<1>3. Charges = {} /\ \A c : HistoryOf(c) = {}
  BY DEF Init, Charges, HistoryOf
<1>4. \A t \in Txns : held[t] = {}
  BY DEF Init
<1> QED
  BY <1>1, <1>2, <1>3, <1>4
  DEF Init, ChargesInv, LocksOK, UniqueKey, HistoryEndsInStatus, RevenueFollowsCharge

-----------------------------------------------------------------------------
\* A running request moves on and writes no row.
LEMMA MoveKeeps ==
  ASSUME ChargesInv, NEW t \in Txns, Running(t), NEW to \in RunningStates,
         pc' = [pc EXCEPT ![t] = to], kind' = kind, subject' = subject,
         status' = status, revenue' = revenue,
         processing' = processing, history' = history, booked' = booked,
         written' \in [Txns -> ChargeStatuses \cup {"none"}],
         synced' \in [Txns -> RevenueStatuses \cup {"none"}],
         held' \in [Txns -> SUBSET RowType],
         \A u \in Txns \ {t} :
           written'[u] = written[u] /\ synced'[u] = synced[u] /\ held'[u] = held[u],
         HasKey(t)' = HasKey(t), HasBooked(t)' = HasBooked(t),
         HasLogged(t)' = HasLogged(t), HasLogged(t) => written'[t] = written[t],
         RequestOK(t)', held'[t] = LocksOf(t)',
         \A u \in Txns \ {t} : held'[t] \cap held[u] = {}
  PROVE  ChargesInv'
<1>0. Typed /\ RowsOK(t) /\ LastWord(t)
  BY DEF ChargesInv
<1>1. pc'[t] = to /\ pc' \in [Txns -> States] /\ \A u \in Txns \ {t} : pc'[u] = pc[u]
  BY <1>0 DEF Typed, States
<1>2. pc[t] # "committed" /\ pc'[t] # "committed"
  BY <1>1 DEF Running, RunningStates
<1>3. OthersKept(t)
  BY <1>1 DEF OthersKept
<1>4. Typed'
  BY <1>0, <1>1 DEF Typed
<1>5. ChargeOf(t)' = ChargeOf(t) /\ RevenueOf(t)' = RevenueOf(t)
  BY DEF ChargeOf, RevenueOf, IsTransition
<1>6. RowsOK(t)'
  BY <1>0, <1>5 DEF RowsOK, ProcessingRow, BookedRow
<1>7. LastWord(t)'
  BY <1>0, <1>5 DEF LastWord
<1>8. UniqueKey'
  BY DEF ChargesInv, UniqueKey
<1> QED
  BY <1>2, <1>3, <1>4, <1>6, <1>7, <1>8, StepKeeps

\* The kind of a request that stands where it stands.
LEMMA KindAt ==
  ASSUME ChargesInv, NEW t \in Txns
  PROVE  /\ pc[t] \in {"load", "processing", "insert", "gateway"} => kind[t] = "create"
         /\ pc[t] = "update" => kind[t] \in Transitions
         /\ pc[t] = "log" => kind[t] \in Transitions \cup {"create"}
         /\ pc[t] = "sync" => kind[t] \in DOMAIN SyncedStatuses
         /\ pc[t] \in {"idle", "refused", "rolledback"} <=> kind[t] = "none"
<1>1. /\ kind[t] \in Transitions \cup {"create", "none"} \cup ByHand
      /\ IsTransition(t) <=> kind[t] \notin {"create", "none"} \cup ByHand
  BY KindOf DEF ChargesInv
<1>2. pc[t] \in StatesOf(kind[t])
  BY DEF ChargesInv, RequestOK
<1>3. CASE kind[t] = "create"
  BY <1>2, <1>3, KindFacts DEF StatesOf
<1>4. CASE kind[t] \in ByHand
  BY <1>2, <1>4, KindFacts DEF StatesOf
<1>5. CASE kind[t] = "none"
  BY <1>2, <1>5, KindFacts DEF StatesOf
<1>6. CASE kind[t] \in Transitions
  <2>1. kind[t] \notin {"create", "none"} \cup ByHand
    BY <1>6, KindFacts
  <2> QED
    BY KindFacts, <1>2, <1>6, <2>1 DEF StatesOf
<1> QED
  BY <1>1, <1>3, <1>4, <1>5, <1>6

\* Who runs is about a revenue there is, and about a charge unless it writes the
\* revenue by hand.
LEMMA AboutWhat ==
  ASSUME ChargesInv, NEW t \in Txns, kind[t] # "none"
  PROVE  /\ RevenueOf(t) \in Revenues
         /\ kind[t] \notin ByHand => ChargeOf(t) \in Txns
         /\ IsTransition(t) => /\ ChargeOf(t) = subject[t] /\ ChargeOf(t) \in Charges
                               /\ RevenueOf(t) = subject[ChargeOf(t)]
         /\ kind[t] = "create" => ChargeOf(t) = t /\ RevenueOf(t) = subject[t]
<1>1. /\ kind[t] \in Transitions \cup {"create", "none"} \cup ByHand
      /\ IsTransition(t) <=> kind[t] \notin {"create", "none"} \cup ByHand
  BY KindOf DEF ChargesInv
<1>2. RequestOK(t)
  BY DEF ChargesInv
<1>3. \A c \in Charges : c \in Txns /\ subject[c] \in Revenues
  BY DEF ChargesInv, ChargeOK, RequestOK, Charges
<1>4. CASE IsTransition(t)
  <2>1. subject[t] \in Charges /\ kind[t] \notin {"create"} \cup ByHand
    BY <1>1, <1>2, <1>4 DEF RequestOK, Charges
  <2> QED
    BY <1>3, <1>4, <2>1 DEF RevenueOf, ChargeOf
<1>5. CASE ~IsTransition(t)
  BY <1>1, <1>2, <1>5 DEF RequestOK, RevenueOf, ChargeOf
<1> QED
  BY <1>4, <1>5

\* A lock that is taken is no one else's.
LEMMA LockTaken ==
  ASSUME ChargesInv, NEW t \in Txns, NEW x \in RowType, Lock(t, x)
  PROVE  /\ held' \in [Txns -> SUBSET RowType]
         /\ held'[t] = held[t] \cup {x}
         /\ \A u \in Txns \ {t} : held'[u] = held[u] /\ held'[t] \cap held[u] = {}
<1>1. held \in [Txns -> SUBSET RowType]
  BY DEF ChargesInv, Typed
<1>2. held' = [held EXCEPT ![t] = held[t] \cup {x}] /\ \A u \in Txns \ {t} : x \notin held[u]
  BY DEF Lock, Free
<1>3. /\ held' \in [Txns -> SUBSET RowType]
      /\ held'[t] = held[t] \cup {x}
      /\ \A u \in Txns \ {t} : held'[u] = held[u]
  BY <1>1, <1>2
<1>4. \A u \in Txns \ {t} : held[t] \cap held[u] = {}
  BY DEF ChargesInv, LocksOK
<1> QED
  BY <1>2, <1>3, <1>4

LEMMA LoadEntityCharges ==
  ASSUME ChargesInv, NEW t \in Txns, LoadEntity(t)
  PROVE  ChargesInv'
<1>0. Typed /\ RequestOK(t) /\ held[t] = LocksOf(t)
  BY DEF ChargesInv, LocksOK
<1>1. /\ pc[t] = "load" /\ pc' = [pc EXCEPT ![t] = "processing"]
      /\ Lock(t, RevenueRow(subject[t]))
      /\ kind' = kind /\ subject' = subject /\ written' = written /\ synced' = synced
      /\ status' = status /\ revenue' = revenue
      /\ processing' = processing /\ history' = history /\ booked' = booked
  BY DEF LoadEntity, Goto, committed, rows
<1>2. kind[t] = "create" /\ Running(t) /\ pc'[t] = "processing"
  BY <1>0, <1>1, KindAt DEF Running, RunningStates, Typed
<1>3. RevenueOf(t) = subject[t] /\ subject[t] \in Revenues
  BY <1>2, AboutWhat
<1>4. RevenueRow(subject[t]) \in RowType
  BY <1>3 DEF RowType
<1>5. /\ held' \in [Txns -> SUBSET RowType]
      /\ held'[t] = held[t] \cup {RevenueRow(subject[t])}
      /\ \A u \in Txns \ {t} : held'[u] = held[u] /\ held'[t] \cap held[u] = {}
  BY <1>1, <1>4, LockTaken
<1>6. RevenueOf(t)' = RevenueOf(t) /\ ~IsTransition(t)'
  BY <1>1, <1>2, KindFacts DEF RevenueOf, IsTransition
<1>7. held'[t] = LocksOf(t)'
  BY <1>0, <1>1, <1>2, <1>3, <1>5, <1>6, KindFacts DEF LocksOf
<1>8. RequestOK(t)'
  BY <1>0, <1>1, <1>2, <1>3, <1>6, KindFacts DEF RequestOK, StatesOf, WrittenAt, SyncedAt
<1>9. /\ HasKey(t)' = HasKey(t) /\ HasBooked(t)' = HasBooked(t)
      /\ HasLogged(t)' = HasLogged(t)
  BY <1>1, <1>2 DEF HasKey, HasBooked, HasLogged
<1>10. "processing" \in RunningStates
  BY DEF RunningStates
<1> QED
  BY <1>0, <1>1, <1>2, <1>5, <1>7, <1>8, <1>9, <1>10, MoveKeeps DEF Typed

\* The new charge is nobody else's before its request commits.
LEMMA SaveChargeCharges ==
  ASSUME ChargesInv, NEW t \in Txns, SaveCharge(t)
  PROVE  ChargesInv'
<1>0. Typed /\ RequestOK(t) /\ held[t] = LocksOf(t)
  BY DEF ChargesInv, LocksOK
<1>1. /\ pc[t] = "insert" /\ pc' = [pc EXCEPT ![t] = "log"]
      /\ written' = [written EXCEPT ![t] = "DRAFT"]
      /\ held' = [held EXCEPT ![t] = held[t] \cup {ChargeRow(t)}]
      /\ kind' = kind /\ subject' = subject /\ synced' = synced
      /\ status' = status /\ revenue' = revenue
      /\ processing' = processing /\ history' = history /\ booked' = booked
  BY DEF SaveCharge, Goto, committed, rows
<1>2. kind[t] = "create" /\ Running(t) /\ pc'[t] = "log"
  BY <1>0, <1>1, KindAt DEF Running, RunningStates, Typed
<1>3. /\ written' \in [Txns -> ChargeStatuses \cup {"none"}] /\ written'[t] = "DRAFT"
      /\ \A u \in Txns \ {t} : written'[u] = written[u]
  BY <1>0, <1>1 DEF Typed, ChargeStatuses
<1>4. /\ held' \in [Txns -> SUBSET RowType] /\ held'[t] = held[t] \cup {ChargeRow(t)}
      /\ \A u \in Txns \ {t} : held'[u] = held[u]
  BY <1>0, <1>1 DEF Typed, RowType
<1>5. ASSUME NEW u \in Txns \ {t} PROVE held'[t] \cap held[u] = {}
  <2>1. held[t] \cap held[u] = {} /\ held[u] = LocksOf(u)
    BY DEF ChargesInv, LocksOK
  <2>2. t \notin Charges
    BY <1>1 DEF ChargesInv, ChargeOK, Charges
  <2>3. kind[u] \notin {"none"} \cup ByHand => ChargeOf(u) # t
    BY <2>2, AboutWhat, KindOf, <1>0
  <2>4. ChargeRow(t) \notin LocksOf(u)
    BY <2>3, KindAt DEF LocksOf, ChargeRow, RevenueRow, LastEvent
  <2> QED
    BY <1>4, <2>1, <2>4
<1>6. RevenueOf(t)' = RevenueOf(t) /\ ~IsTransition(t)' /\ ChargeOf(t)' = t
      /\ Registers(t)' = Registers(t)
  BY <1>1, <1>2, KindFacts DEF RevenueOf, IsTransition, ChargeOf, Registers
<1>7. held'[t] = LocksOf(t)'
  BY <1>0, <1>1, <1>2, <1>4, <1>6, KindFacts DEF LocksOf
<1>8. RequestOK(t)'
  BY <1>0, <1>1, <1>2, <1>3, <1>6, KindFacts DEF RequestOK, StatesOf, WrittenAt, SyncedAt
<1>9. /\ HasKey(t)' = HasKey(t) /\ HasBooked(t)' = HasBooked(t)
      /\ HasLogged(t)' = HasLogged(t) /\ ~HasLogged(t)
  BY <1>1, <1>2 DEF HasKey, HasBooked, HasLogged
<1>10. "log" \in RunningStates
  BY DEF RunningStates
<1> QED
  BY <1>0, <1>1, <1>2, <1>3, <1>4, <1>5, <1>7, <1>8, <1>9, <1>10, MoveKeeps DEF Typed

LEMMA UpdateStatusCharges ==
  ASSUME ChargesInv, NEW t \in Txns, UpdateStatus(t)
  PROVE  ChargesInv'
<1>0. Typed /\ RequestOK(t) /\ held[t] = LocksOf(t)
  BY DEF ChargesInv, LocksOK
<1>1. /\ pc[t] = "update" /\ pc' = [pc EXCEPT ![t] = "log"]
      /\ written' = [written EXCEPT ![t] = Target[kind[t]]]
      /\ Lock(t, ChargeRow(subject[t]))
      /\ kind' = kind /\ subject' = subject /\ synced' = synced
      /\ status' = status /\ revenue' = revenue
      /\ processing' = processing /\ history' = history /\ booked' = booked
  BY DEF UpdateStatus, Goto, committed, rows
<1>2. kind[t] \in Transitions /\ Running(t) /\ pc'[t] = "log"
  BY <1>0, <1>1, KindAt DEF Running, RunningStates, Typed
<1>3. /\ kind[t] \notin {"create", "none"} \cup ByHand /\ IsTransition(t)
      /\ Target[kind[t]] \in ChargeStatuses
  BY <1>2, KindFacts DEF IsTransition
<1>4. /\ written' \in [Txns -> ChargeStatuses \cup {"none"}]
      /\ written'[t] = Target[kind[t]]
      /\ \A u \in Txns \ {t} : written'[u] = written[u]
  BY <1>0, <1>1, <1>3 DEF Typed
<1>5. ChargeOf(t) = subject[t] /\ subject[t] \in Txns
  BY <1>0, <1>3 DEF ChargeOf, RequestOK
<1>6. ChargeRow(subject[t]) \in RowType
  BY <1>5 DEF RowType
<1>7. /\ held' \in [Txns -> SUBSET RowType]
      /\ held'[t] = held[t] \cup {ChargeRow(subject[t])}
      /\ \A u \in Txns \ {t} : held'[u] = held[u] /\ held'[t] \cap held[u] = {}
  BY <1>1, <1>6, LockTaken
<1>8. RevenueOf(t)' = RevenueOf(t) /\ IsTransition(t)' /\ ChargeOf(t)' = subject[t]
  BY <1>1, <1>3, <1>5 DEF RevenueOf, IsTransition, ChargeOf
<1>9. held'[t] = LocksOf(t)'
  BY <1>0, <1>1, <1>2, <1>3, <1>7, <1>8 DEF LocksOf
<1>10. RequestOK(t)'
  BY <1>0, <1>1, <1>2, <1>3, <1>4, <1>8 DEF RequestOK, StatesOf, WrittenAt, SyncedAt
<1>11. /\ HasKey(t)' = HasKey(t) /\ HasBooked(t)' = HasBooked(t)
       /\ HasLogged(t)' = HasLogged(t) /\ ~HasLogged(t)
  BY <1>1, <1>2, <1>3 DEF HasKey, HasBooked, HasLogged
<1>12. "log" \in RunningStates
  BY DEF RunningStates
<1> QED
  BY <1>0, <1>1, <1>2, <1>4, <1>7, <1>9, <1>10, <1>11, <1>12, MoveKeeps DEF Typed

\* Where a request goes once its event is registered, or skipped.
LEMMA AfterRegisterState ==
  ASSUME ChargesInv, NEW t \in Txns, pc[t] \in {"register", "tip"}
  PROVE  /\ AfterRegister(t) \in {"sync", "gateway", "commit"}
         /\ AfterRegister(t) \in StatesOf(kind[t])
         /\ AfterRegister(t) = "commit" => kind[t] \notin DOMAIN SyncedStatuses
         /\ kind[t] # "none" /\ (kind[t] \in ByHand => kind[t] = "receive")
<1>1. /\ kind[t] \in Transitions \cup {"create"} \cup ByHand
      /\ pc[t] \in StatesOf(kind[t])
  BY KindOf, KindAt DEF ChargesInv, RequestOK
<1> QED
  BY <1>1, KindFacts DEF AfterRegister, StatesOf

LEMMA SkipRegisterCharges ==
  ASSUME ChargesInv, NEW t \in Txns, SkipRegister(t)
  PROVE  ChargesInv'
<1>0. Typed /\ RequestOK(t) /\ held[t] = LocksOf(t)
  BY DEF ChargesInv, LocksOK
<1>1. PICK to : to = AfterRegister(t)
  OBVIOUS
<1>2. /\ pc[t] = "register" /\ pc' = [pc EXCEPT ![t] = to] /\ ~Registers(t)
      /\ written' = written /\ held' = held
      /\ kind' = kind /\ subject' = subject /\ synced' = synced
      /\ status' = status /\ revenue' = revenue
      /\ processing' = processing /\ history' = history /\ booked' = booked
  BY <1>1 DEF SkipRegister, Goto, committed, rows
<1>3. /\ to \in {"sync", "gateway", "commit"} /\ to \in StatesOf(kind[t])
      /\ to = "commit" => kind[t] \notin DOMAIN SyncedStatuses
      /\ kind[t] # "none" /\ kind[t] \notin ByHand
  BY <1>1, <1>2, AfterRegisterState, KindFacts DEF Registers
<1>4. Running(t) /\ pc'[t] = to /\ to \in RunningStates
  BY <1>0, <1>2, <1>3 DEF Running, RunningStates, Typed
<1>5. /\ RevenueOf(t)' = RevenueOf(t) /\ IsTransition(t)' = IsTransition(t)
      /\ ChargeOf(t)' = ChargeOf(t) /\ Registers(t)' = Registers(t)
  BY <1>2 DEF RevenueOf, IsTransition, ChargeOf, Registers
<1>6. held'[t] = LocksOf(t)'
  BY <1>0, <1>2, <1>3, <1>4, <1>5 DEF LocksOf, StatesOf
<1>7. RequestOK(t)'
  BY <1>0, <1>2, <1>3, <1>4, <1>5 DEF RequestOK, WrittenAt, SyncedAt
<1>8. /\ HasKey(t)' = HasKey(t) /\ HasBooked(t)' = HasBooked(t)
      /\ HasLogged(t)' = HasLogged(t)
  BY <1>2, <1>3, <1>4, <1>5 DEF HasKey, HasBooked, HasLogged, Registers, StatesOf
<1>9. \A u \in Txns \ {t} : held'[t] \cap held[u] = {}
  BY <1>2 DEF ChargesInv, LocksOK
<1> QED
  BY <1>0, <1>2, <1>4, <1>6, <1>7, <1>8, <1>9, MoveKeeps DEF Typed

LEMMA AskTipCharges ==
  ASSUME ChargesInv, NEW t \in Txns, AskTip(t)
  PROVE  ChargesInv'
<1>0. Typed /\ RequestOK(t) /\ held[t] = LocksOf(t)
  BY DEF ChargesInv, LocksOK
<1>1. /\ pc[t] = "register" /\ pc' = [pc EXCEPT ![t] = "tip"] /\ Registers(t)
      /\ written' = written /\ held' = held
      /\ kind' = kind /\ subject' = subject /\ synced' = synced
      /\ status' = status /\ revenue' = revenue
      /\ processing' = processing /\ history' = history /\ booked' = booked
  BY DEF AskTip, Goto, committed, rows
<1>2. Running(t) /\ pc'[t] = "tip" /\ "tip" \in RunningStates
  BY <1>0, <1>1 DEF Running, RunningStates, Typed
<1>3. "tip" \in StatesOf(kind[t])
  BY <1>0, <1>1, KindFacts, KindOf DEF RequestOK, StatesOf
<1>4. /\ RevenueOf(t)' = RevenueOf(t) /\ IsTransition(t)' = IsTransition(t)
      /\ ChargeOf(t)' = ChargeOf(t) /\ Registers(t)' = Registers(t)
  BY <1>1 DEF RevenueOf, IsTransition, ChargeOf, Registers
<1>5. held'[t] = LocksOf(t)'
  BY <1>0, <1>1, <1>2, <1>4 DEF LocksOf
<1>6. RequestOK(t)'
  BY <1>0, <1>1, <1>2, <1>3, <1>4 DEF RequestOK, WrittenAt, SyncedAt
<1>7. /\ HasKey(t)' = HasKey(t) /\ HasBooked(t)' = HasBooked(t)
      /\ HasLogged(t)' = HasLogged(t)
  BY <1>1, <1>2, <1>4 DEF HasKey, HasBooked, HasLogged
<1>8. \A u \in Txns \ {t} : held'[t] \cap held[u] = {}
  BY <1>1 DEF ChargesInv, LocksOK
<1> QED
  BY <1>0, <1>1, <1>2, <1>5, <1>6, <1>7, <1>8, MoveKeeps DEF Typed

LEMMA SyncRevenueCharges ==
  ASSUME ChargesInv, NEW t \in Txns, SyncRevenue(t)
  PROVE  ChargesInv'
<1>0. Typed /\ RequestOK(t) /\ held[t] = LocksOf(t)
  BY DEF ChargesInv, LocksOK
<1>1. /\ pc[t] = "sync" /\ pc' = [pc EXCEPT ![t] = "commit"]
      /\ \E s \in SyncedStatuses[kind[t]] : synced' = [synced EXCEPT ![t] = s]
      /\ Lock(t, RevenueRow(RevenueOf(t)))
      /\ kind' = kind /\ subject' = subject /\ written' = written
      /\ status' = status /\ revenue' = revenue
      /\ processing' = processing /\ history' = history /\ booked' = booked
  BY DEF SyncRevenue, Goto, committed, rows
<1>2. /\ kind[t] \in DOMAIN SyncedStatuses /\ kind[t] \notin {"create", "none"}
      /\ Running(t) /\ pc'[t] = "commit"
  BY <1>0, <1>1, KindAt, KindFacts DEF Running, RunningStates, Typed
<1>3. PICK new \in SyncedStatuses[kind[t]] :
        new \in RevenueStatuses /\ synced' = [synced EXCEPT ![t] = new]
  BY <1>1, <1>2, KindFacts
<1>4. /\ synced' \in [Txns -> RevenueStatuses \cup {"none"}]
      /\ synced'[t] \in SyncedStatuses[kind[t]]
      /\ \A u \in Txns \ {t} : synced'[u] = synced[u]
  BY <1>0, <1>1, <1>3 DEF Typed
<1>5. RevenueOf(t) \in Revenues
  BY <1>2, AboutWhat
<1>6. RevenueRow(RevenueOf(t)) \in RowType
  BY <1>5 DEF RowType
<1>7. /\ held' \in [Txns -> SUBSET RowType]
      /\ held'[t] = held[t] \cup {RevenueRow(RevenueOf(t))}
      /\ \A u \in Txns \ {t} : held'[u] = held[u] /\ held'[t] \cap held[u] = {}
  BY <1>1, <1>6, LockTaken
<1>8. /\ RevenueOf(t)' = RevenueOf(t) /\ IsTransition(t)' = IsTransition(t)
      /\ ChargeOf(t)' = ChargeOf(t) /\ Registers(t)' = Registers(t)
  BY <1>1 DEF RevenueOf, IsTransition, ChargeOf, Registers
<1>9. held'[t] = LocksOf(t)'
  BY <1>0, <1>1, <1>2, <1>7, <1>8 DEF LocksOf
<1>10. RequestOK(t)'
  <2>1. "commit" \in StatesOf(kind[t])
    BY <1>2, KindFacts DEF StatesOf
  <2> QED
    BY <2>1, <1>0, <1>1, <1>2, <1>4, <1>8 DEF RequestOK, WrittenAt, SyncedAt
<1>11. /\ HasKey(t)' = HasKey(t) /\ HasBooked(t)' = HasBooked(t)
       /\ HasLogged(t)' = HasLogged(t)
  BY <1>1, <1>2, <1>8 DEF HasKey, HasBooked, HasLogged
<1>12. "commit" \in RunningStates
  BY DEF RunningStates
<1> QED
  BY <1>0, <1>1, <1>2, <1>4, <1>7, <1>9, <1>10, <1>11, <1>12, MoveKeeps DEF Typed

-----------------------------------------------------------------------------
\* The row that is logged comes after all the others.
LEMMA RowLogged ==
  ASSUME Typed, NEW t \in Txns, ChargeOf(t) \in Txns,
         NEW e \in Transitions \cup {"create"}, LogRow(t, e)
  PROVE  /\ \E new : /\ new.by = t /\ new.charge = ChargeOf(t) /\ new.event = e
                     /\ history' = history \cup {new}
                     /\ \A g \in history' : g.id <= new.id
         /\ history' \subseteq [id : Nat, charge : Txns, event : Transitions \cup {"create"},
                                by : Txns]
         /\ IsFiniteSet(history')
<1>1. NextId \in Nat /\ \A h \in history : h.id < NextId /\ h.id \in Nat
  BY NextIdIsNew DEF Typed
<1>2. PICK new : new = [id |-> NextId, charge |-> ChargeOf(t), event |-> e, by |-> t]
  OBVIOUS
<1>3. history' = history \cup {new}
  BY <1>2 DEF LogRow
<1>4. new \in [id : Nat, charge : Txns, event : Transitions \cup {"create"}, by : Txns]
  BY <1>1, <1>2
<1>5. new.by = t /\ new.charge = ChargeOf(t) /\ new.event = e /\ new.id = NextId
  BY <1>2
<1>6. \A g \in history' : g.id <= new.id
  BY <1>1, <1>3, <1>5
<1>7. IsFiniteSet(history')
  BY <1>3, FS_AddElement DEF Typed
<1> QED
  BY <1>3, <1>4, <1>5, <1>6, <1>7 DEF Typed

\* A running request logs an event of its charge, whose row it has locked.
LEMMA LogKeeps ==
  ASSUME ChargesInv, NEW t \in Txns, pc[t] \in {"log", "gateway"},
         NEW to \in {"register", "commit"}, pc' = [pc EXCEPT ![t] = to],
         NEW e \in Transitions \cup {"create"}, LogRow(t, e),
         kind' = kind, subject' = subject, synced' = synced, held' = held,
         status' = status, revenue' = revenue,
         processing' = processing, booked' = booked,
         written' \in [Txns -> ChargeStatuses \cup {"none"}],
         \A u \in Txns \ {t} : written'[u] = written[u],
         HasKey(t)' = HasKey(t), HasBooked(t)' = HasBooked(t), HasLogged(t)',
         e = kind[t] \/ (kind[t] = "create" /\ e = "processing" /\ HasLogged(t)),
         StatusAfter(e) = written'[t],
         RequestOK(t)', LocksOf(t)' = LocksOf(t)
  PROVE  ChargesInv'
<1>0. Typed /\ RowsOK(t) /\ LastWord(t) /\ held[t] = LocksOf(t)
  BY DEF ChargesInv, LocksOK
<1>1. pc'[t] = to /\ pc' \in [Txns -> States] /\ \A u \in Txns \ {t} : pc'[u] = pc[u]
  BY <1>0 DEF Typed, States, RunningStates
<1>2. kind[t] \in Transitions \cup {"create"} /\ kind[t] \notin {"none"} \cup ByHand
  BY KindAt, KindFacts
<1>3. ChargeOf(t) \in Txns
  BY <1>2, AboutWhat
<1>4. PICK new : /\ new.by = t /\ new.charge = ChargeOf(t) /\ new.event = e
                 /\ history' = history \cup {new}
                 /\ \A g \in history' : g.id <= new.id
  BY <1>0, <1>3, RowLogged
<1>5. Typed'
  BY <1>0, <1>1, <1>3, RowLogged DEF Typed
<1>6. OthersKept(t)
  BY <1>1, <1>4 DEF OthersKept
<1>7. /\ ChargeOf(t)' = ChargeOf(t) /\ RevenueOf(t)' = RevenueOf(t)
  BY DEF ChargeOf, RevenueOf, IsTransition
<1>8. \A h \in history : h.by = t => h.charge = ChargeOf(t)
                                      /\ (h.event = kind[t] \/ (kind[t] = "create" /\ h.event = "processing"))
  BY <1>0 DEF RowsOK
<1>9. HasLogged(t)' => \E h \in history' : h.by = t /\ h.event = kind[t]
  <2>1. CASE e = kind[t]
    BY <2>1, <1>4
  <2>2. CASE HasLogged(t)
    BY <2>2, <1>0, <1>4 DEF RowsOK
  <2> QED
    BY <2>1, <2>2
<1>10. RowsOK(t)'
  BY <1>0, <1>4, <1>7, <1>8, <1>9 DEF RowsOK, ProcessingRow, BookedRow
<1>11. LastWord(t)'
  BY <1>4, <1>7 DEF LastWord
<1>12. UniqueKey'
  BY DEF ChargesInv, UniqueKey
<1>13. ChargeRow(ChargeOf(t)) \in held[t]
  BY <1>0, <1>2 DEF LocksOf
<1>14. \A h \in history' \ history : ChargeRow(h.charge) \in held[t]
  BY <1>4, <1>13
<1>15. \A u \in Txns \ {t} : held'[t] \cap held[u] = {}
  BY DEF ChargesInv, LocksOK
<1>16. held'[t] = LocksOf(t)'
  BY <1>0
<1>17. pc[t] # "committed" /\ pc'[t] # "committed"
  BY <1>1
<1> QED
  BY <1>5, <1>6, <1>10, <1>11, <1>12, <1>14, <1>15, <1>16, <1>17, StepKeeps

LEMMA LogEventCharges ==
  ASSUME ChargesInv, NEW t \in Txns, LogEvent(t)
  PROVE  ChargesInv'
<1>0. Typed /\ RequestOK(t)
  BY DEF ChargesInv
<1>1. /\ pc[t] = "log" /\ pc' = [pc EXCEPT ![t] = "register"] /\ LogRow(t, kind[t])
      /\ kind' = kind /\ subject' = subject /\ synced' = synced /\ held' = held
      /\ written' = written /\ status' = status /\ revenue' = revenue
      /\ processing' = processing /\ booked' = booked
  BY DEF LogEvent, Goto, committed
<1>2. /\ kind[t] \in Transitions \cup {"create"} /\ kind[t] \notin {"none"} \cup ByHand
      /\ pc'[t] = "register"
  BY <1>0, <1>1, KindAt, KindFacts DEF Typed
<1>3. /\ RevenueOf(t)' = RevenueOf(t) /\ IsTransition(t)' = IsTransition(t)
      /\ ChargeOf(t)' = ChargeOf(t) /\ Registers(t)' = Registers(t)
  BY <1>1 DEF RevenueOf, IsTransition, ChargeOf, Registers
<1>4. LocksOf(t)' = LocksOf(t)
  BY <1>1, <1>2, <1>3 DEF LocksOf
<1>5. StatusAfter(kind[t]) = written[t]
  BY <1>0, <1>1, <1>2 DEF RequestOK, WrittenAt, StatusAfter
<1>6. RequestOK(t)'
  <2>1. "register" \in StatesOf(kind[t])
    BY <1>2, KindFacts DEF StatesOf
  <2> QED
    BY <2>1, <1>0, <1>1, <1>2, <1>3 DEF RequestOK, WrittenAt, SyncedAt
<1>7. /\ HasKey(t)' = HasKey(t) /\ HasBooked(t)' = HasBooked(t) /\ HasLogged(t)'
  BY <1>1, <1>2, <1>3 DEF HasKey, HasBooked, HasLogged
<1> QED
  BY <1>0, <1>1, <1>2, <1>4, <1>5, <1>6, <1>7, LogKeeps DEF Typed

LEMMA SendToGatewayCharges ==
  ASSUME ChargesInv, NEW t \in Txns, SendToGateway(t)
  PROVE  ChargesInv'
<1>0. Typed /\ RequestOK(t)
  BY DEF ChargesInv
<1>1. /\ pc[t] = "gateway" /\ pc' = [pc EXCEPT ![t] = "commit"]
      /\ LogRow(t, "processing") /\ written' = [written EXCEPT ![t] = "PROCESSING"]
      /\ kind' = kind /\ subject' = subject /\ synced' = synced /\ held' = held
      /\ status' = status /\ revenue' = revenue
      /\ processing' = processing /\ booked' = booked
  BY DEF SendToGateway, Goto, committed
<1>2. kind[t] = "create" /\ pc'[t] = "commit" /\ "processing" \in Transitions
  BY <1>0, <1>1, KindAt, KindFacts DEF Typed
<1>3. /\ written' \in [Txns -> ChargeStatuses \cup {"none"}] /\ written'[t] = "PROCESSING"
      /\ \A u \in Txns \ {t} : written'[u] = written[u]
  BY <1>0, <1>1 DEF Typed, ChargeStatuses
<1>4. /\ RevenueOf(t)' = RevenueOf(t) /\ IsTransition(t)' = IsTransition(t)
      /\ ChargeOf(t)' = ChargeOf(t) /\ Registers(t)' = Registers(t)
  BY <1>1 DEF RevenueOf, IsTransition, ChargeOf, Registers
<1>5. LocksOf(t)' = LocksOf(t)
  BY <1>1, <1>2, <1>4, KindFacts DEF LocksOf
<1>6. StatusAfter("processing") = written'[t]
  BY <1>3 DEF StatusAfter, Target
<1>7. RequestOK(t)'
  <2>1. "commit" \in StatesOf("create") /\ "create" \notin DOMAIN SyncedStatuses
    BY KindFacts DEF StatesOf
  <2> QED
    BY <2>1, <1>0, <1>1, <1>2, <1>3, <1>4, KindFacts DEF RequestOK, WrittenAt, SyncedAt
<1>8. /\ HasKey(t)' = HasKey(t) /\ HasBooked(t)' = HasBooked(t)
      /\ HasLogged(t)' /\ HasLogged(t)
  BY <1>1, <1>2, <1>4 DEF HasKey, HasBooked, HasLogged
<1> QED
  BY <1>1, <1>2, <1>3, <1>5, <1>6, <1>7, <1>8, LogKeeps

-----------------------------------------------------------------------------
\* The unique key lets a row in that no other row stands in the way of.
LEMMA SaveProcessingCharges ==
  ASSUME ChargesInv, NEW t \in Txns, SaveProcessing(t)
  PROVE  ChargesInv'
<1>0. Typed /\ RequestOK(t) /\ RowsOK(t) /\ held[t] = LocksOf(t)
  BY DEF ChargesInv, LocksOK
<1>1. /\ pc[t] = "processing" /\ pc' = [pc EXCEPT ![t] = "insert"]
      /\ processing' = processing \cup {ProcessingRow(t)}
      /\ \A p \in processing : p.revenue # subject[t]
      /\ kind' = kind /\ subject' = subject /\ written' = written /\ synced' = synced
      /\ held' = held /\ status' = status /\ revenue' = revenue
      /\ history' = history /\ booked' = booked
  BY DEF SaveProcessing, Goto, committed
<1>2. /\ kind[t] = "create" /\ pc'[t] = "insert" /\ pc' \in [Txns -> States]
      /\ \A u \in Txns \ {t} : pc'[u] = pc[u]
  BY <1>0, <1>1, KindAt DEF Typed, States, RunningStates
<1>3. /\ RevenueOf(t)' = RevenueOf(t) /\ ~IsTransition(t)' /\ ChargeOf(t)' = ChargeOf(t)
      /\ Registers(t)' = Registers(t)
  BY <1>1, <1>2, KindFacts DEF RevenueOf, IsTransition, ChargeOf, Registers
<1>4. PICK row : row = ProcessingRow(t)
  OBVIOUS
<1>5. /\ row = [revenue |-> subject[t], by |-> t] /\ ProcessingRow(t)' = row
      /\ row.by = t /\ row.revenue = subject[t]
      /\ row \in [revenue : Revenues, by : Txns]
  BY <1>0, <1>1, <1>2, <1>4 DEF ProcessingRow, RequestOK
<1>6. Typed'
  BY <1>0, <1>1, <1>2, <1>4, <1>5 DEF Typed
<1>7. OthersKept(t)
  BY <1>1, <1>2, <1>4, <1>5 DEF OthersKept
<1>8. RequestOK(t)'
  BY <1>0, <1>1, <1>2, <1>3, KindFacts DEF RequestOK, StatesOf, WrittenAt, SyncedAt
<1>9. RowsOK(t)'
  <2>1. ~HasKey(t) /\ HasKey(t)' /\ ~HasBooked(t) /\ ~HasBooked(t)'
        /\ ~HasLogged(t) /\ ~HasLogged(t)'
    BY <1>1, <1>2 DEF HasKey, HasBooked, HasLogged
  <2>2. {p \in processing' : p.by = t} = {row}
    BY <2>1, <1>0, <1>1, <1>4, <1>5 DEF RowsOK
  <2> QED
    BY <2>1, <2>2, <1>0, <1>1, <1>5 DEF RowsOK
<1>10. LastWord(t)'
  BY <1>2 DEF LastWord, HasLogged
<1>11. held'[t] = LocksOf(t)'
  BY <1>0, <1>1, <1>2, <1>3, KindFacts DEF LocksOf
<1>12. UniqueKey'
  BY <1>1, <1>4, <1>5 DEF ChargesInv, UniqueKey
<1>13. \A u \in Txns \ {t} : held'[t] \cap held[u] = {}
  BY <1>1 DEF ChargesInv, LocksOK
<1>14. pc[t] # "committed" /\ pc'[t] # "committed" /\ history' \ history = {}
  BY <1>1, <1>2
<1> QED
  BY <1>1, <1>6, <1>7, <1>8, <1>9, <1>10, <1>11, <1>12, <1>13, <1>14, StepKeeps

LEMMA RegisterCharges ==
  ASSUME ChargesInv, NEW t \in Txns, Register(t)
  PROVE  ChargesInv'
<1>0. Typed /\ RequestOK(t) /\ RowsOK(t) /\ LastWord(t) /\ held[t] = LocksOf(t)
  BY DEF ChargesInv, LocksOK
<1>1. PICK to : to = AfterRegister(t)
  OBVIOUS
<1>2. PICK new : new = IF kind[t] = "receive" THEN {} ELSE {BookedRow(t)}
  OBVIOUS
<1>3. /\ pc[t] = "tip" /\ pc' = [pc EXCEPT ![t] = to] /\ Registers(t)
      /\ Lock(t, LastEvent) /\ booked' = booked \cup new
      /\ kind' = kind /\ subject' = subject /\ written' = written /\ synced' = synced
      /\ status' = status /\ revenue' = revenue
      /\ processing' = processing /\ history' = history
  BY <1>0, <1>1, <1>2 DEF Register, Goto, committed, BookedRow, RequestOK
<1>4. /\ to \in {"sync", "gateway", "commit"} /\ to \in StatesOf(kind[t])
      /\ to = "commit" => kind[t] \notin DOMAIN SyncedStatuses
      /\ kind[t] # "none"
  BY <1>1, <1>3, AfterRegisterState
<1>5. /\ pc'[t] = to /\ pc' \in [Txns -> States]
      /\ \A u \in Txns \ {t} : pc'[u] = pc[u]
  BY <1>0, <1>3, <1>4 DEF Typed, States, RunningStates
<1>6. LastEvent \in RowType
  BY DEF RowType
<1>7. /\ held' \in [Txns -> SUBSET RowType]
      /\ held'[t] = held[t] \cup {LastEvent}
      /\ \A u \in Txns \ {t} : held'[u] = held[u] /\ held'[t] \cap held[u] = {}
  BY <1>3, <1>6, LockTaken
<1>8. /\ RevenueOf(t)' = RevenueOf(t) /\ IsTransition(t)' = IsTransition(t)
      /\ ChargeOf(t)' = ChargeOf(t) /\ Registers(t)' = Registers(t)
  BY <1>3 DEF RevenueOf, IsTransition, ChargeOf, Registers
<1>9. BookedRow(t)' = BookedRow(t) /\ ProcessingRow(t)' = ProcessingRow(t)
  BY <1>3, <1>8 DEF BookedRow, ProcessingRow
<1>10. \A b \in new : b.by = t
  BY <1>2 DEF BookedRow
<1>11. Typed'
  BY <1>0, <1>3, <1>5, <1>7, <1>10 DEF Typed
<1>12. OthersKept(t)
  BY <1>3, <1>5, <1>7, <1>10 DEF OthersKept
<1>13. RequestOK(t)'
  BY <1>0, <1>3, <1>4, <1>5, <1>8 DEF RequestOK, WrittenAt, SyncedAt
<1>14. held'[t] = LocksOf(t)'
  BY <1>0, <1>3, <1>4, <1>5, <1>7, <1>8 DEF LocksOf, StatesOf
<1>15. /\ HasKey(t)' = HasKey(t) /\ HasLogged(t)' = HasLogged(t)
       /\ ~HasBooked(t) /\ (HasBooked(t)' <=> kind[t] \notin ByHand)
  BY <1>3, <1>4, <1>5, <1>8, KindFacts DEF HasKey, HasBooked, HasLogged, Registers, StatesOf
<1>16. {b \in booked' : b.by = t} = IF HasBooked(t)' THEN {BookedRow(t)} ELSE {}
  <2>1. {b \in booked : b.by = t} = {}
    BY <1>0, <1>15 DEF RowsOK
  <2>2. {b \in booked' : b.by = t} = new
    BY <2>1, <1>3, <1>10
  <2> QED
    BY <2>2, <1>2, <1>3, <1>15, KindFacts DEF Registers
<1>17. RowsOK(t)'
  BY <1>0, <1>3, <1>8, <1>9, <1>15, <1>16 DEF RowsOK
<1>18. LastWord(t)'
  BY <1>0, <1>3, <1>8, <1>15 DEF LastWord, Running, RunningStates
<1>19. UniqueKey'
  BY <1>3 DEF ChargesInv, UniqueKey
<1>20. pc[t] # "committed" /\ pc'[t] # "committed" /\ history' \ history = {}
  BY <1>3, <1>4, <1>5
<1> QED
  BY <1>3, <1>7, <1>11, <1>12, <1>13, <1>14, <1>17, <1>18, <1>19, <1>20, StepKeeps

\* A request that has neither begun nor been undone has no rows and no locks.
LEMMA IdleHasNothing ==
  ASSUME ChargesInv, NEW t \in Txns, kind[t] = "none"
  PROVE  /\ ~HasKey(t) /\ ~HasBooked(t) /\ ~HasLogged(t) /\ held[t] = {}
         /\ \A p \in processing : p.by # t
         /\ \A b \in booked : b.by # t
         /\ \A h \in history : h.by # t
         /\ written[t] = "none" /\ synced[t] = "none"
<1>1. RequestOK(t) /\ RowsOK(t) /\ held[t] = LocksOf(t)
  BY DEF ChargesInv, LocksOK
<1>2. /\ ~HasKey(t) /\ ~HasBooked(t) /\ ~HasLogged(t)
      /\ kind[t] \notin DOMAIN SyncedStatuses /\ ~IsTransition(t)
      /\ pc[t] \in {"idle", "refused", "rolledback"}
  BY KindFacts, KindAt DEF HasKey, HasBooked, HasLogged, IsTransition
<1>3. held[t] = {}
  BY <1>1, <1>2 DEF LocksOf
<1>4. {p \in processing : p.by = t} = {} /\ {b \in booked : b.by = t} = {}
  BY <1>1, <1>2 DEF RowsOK
<1>5. \A h \in history : h.by # t
  BY <1>1, <1>2 DEF RowsOK
<1> QED
  BY <1>1, <1>2, <1>3, <1>4, <1>5 DEF RequestOK, WrittenAt, SyncedAt

\* A request that starts, or is refused before its transaction wrote anything.
LEMMA StartKeeps ==
  ASSUME ChargesInv, NEW t \in Txns, pc[t] = "idle",
         NEW to \in {"load", "register", "sync", "update", "refused"}, pc' = [pc EXCEPT ![t] = to],
         NEW k \in Kinds \cup {"none"}, kind' = [kind EXCEPT ![t] = k],
         NEW about \in Txns \cup Revenues \cup {"none"},
         subject' = [subject EXCEPT ![t] = about],
         status' = status, revenue' = revenue,
         processing' = processing, history' = history, booked' = booked,
         written' = written, synced' = synced, held' = held,
         to \in StatesOf(k), to = "register" => k = "receive",
         to = "sync" => k \in {"edit", "remove"},
         k \in {"create"} \cup ByHand => about \in Revenues,
         k \in Transitions => about \in Charges
  PROVE  ChargesInv'
<1>0. Typed
  BY DEF ChargesInv
<1>1. kind[t] = "none"
  BY KindAt
<1>2. /\ pc' \in [Txns -> States] /\ kind' \in [Txns -> Kinds \cup {"none"}]
      /\ subject' \in [Txns -> Txns \cup Revenues \cup {"none"}]
      /\ pc'[t] = to /\ kind'[t] = k /\ subject'[t] = about
      /\ \A u \in Txns \ {t} : pc'[u] = pc[u] /\ kind'[u] = kind[u] /\ subject'[u] = subject[u]
  BY <1>0 DEF Typed, States, RunningStates
<1>3. Typed'
  BY <1>0, <1>2 DEF Typed
<1>4. OthersKept(t)
  BY <1>2 DEF OthersKept
<1>5. /\ held[t] = {} /\ written[t] = "none" /\ synced[t] = "none"
      /\ \A p \in processing : p.by # t
      /\ \A b \in booked : b.by # t
      /\ \A h \in history : h.by # t
  BY <1>1, IdleHasNothing
<1>6. ~HasKey(t)' /\ ~HasBooked(t)' /\ ~HasLogged(t)'
  BY <1>2, KindFacts DEF HasKey, HasBooked, HasLogged
<1>7. RowsOK(t)' /\ LastWord(t)'
  BY <1>5, <1>6 DEF RowsOK, LastWord
<1>8. RequestOK(t)'
  <2>1. IsTransition(t)' => subject'[t] \in Txns /\ status'[subject'[t]] # "none"
    BY <1>2 DEF IsTransition, Charges
  <2>2. to = "refused" => k = "none"
    BY KindFacts DEF StatesOf
  <2>3. "none" \in WrittenAt(k, to) /\ SyncedAt(k, to) = {"none"}
    BY <2>2, KindFacts DEF WrittenAt, SyncedAt
  <2> QED
    BY <2>1, <2>3, <1>2, <1>5 DEF RequestOK
<1>9. held'[t] = LocksOf(t)'
  BY <1>2, <1>5, KindFacts DEF LocksOf, Registers
<1>10. UniqueKey'
  BY DEF ChargesInv, UniqueKey
<1>11. \A u \in Txns \ {t} : held'[t] \cap held[u] = {}
  BY <1>5
<1>12. pc'[t] # "committed" /\ history' \ history = {}
  BY <1>2
<1> QED
  BY <1>3, <1>4, <1>7, <1>8, <1>9, <1>10, <1>11, <1>12, StepKeeps

LEMMA BeginCharges ==
  ASSUME ChargesInv, NEW t \in Txns, Begin(t)
  PROVE  ChargesInv'
<1>1. PICK k \in Kinds \cap ({"create"} \cup ByHand), r \in Revenues :
        /\ kind' = [kind EXCEPT ![t] = k]
        /\ subject' = [subject EXCEPT ![t] = r]
        /\ pc' = [pc EXCEPT ![t] = FirstState(k)]
  BY DEF Begin, Goto
<1>2. /\ pc[t] = "idle" /\ status' = status /\ revenue' = revenue
      /\ processing' = processing /\ history' = history /\ booked' = booked
      /\ written' = written /\ synced' = synced /\ held' = held
  BY DEF Begin, committed, rows
<1>3. PICK to : to = FirstState(k)
  OBVIOUS
<1>4. /\ to \in {"load", "register", "sync"} /\ (to = "register" => k = "receive")
      /\ (to = "sync" => k \in {"edit", "remove"})
      /\ to \in StatesOf(k) /\ k \notin Transitions
  BY <1>3, KindFacts DEF StatesOf, FirstState
<1> QED
  BY <1>1, <1>2, <1>3, <1>4, StartKeeps

LEMMA ValidateCharges ==
  ASSUME ChargesInv, NEW t \in Txns, Validate(t)
  PROVE  ChargesInv'
<1>0. Typed /\ kind[t] = "none" /\ pc[t] = "idle"
  BY KindAt DEF ChargesInv, Validate
<1>1. /\ status' = status /\ revenue' = revenue
      /\ processing' = processing /\ history' = history /\ booked' = booked
      /\ written' = written /\ synced' = synced /\ held' = held
  BY DEF Validate, committed, rows
<1>2. CASE \E k \in Kinds \cap Transitions, c \in Txns :
             /\ status[c] # "none"
             /\ kind' = [kind EXCEPT ![t] = k]
             /\ subject' = [subject EXCEPT ![t] = c]
             /\ pc' = [pc EXCEPT ![t] = "update"]
  <2>1. PICK k \in Kinds \cap Transitions, c \in Charges :
             /\ kind' = [kind EXCEPT ![t] = k]
             /\ subject' = [subject EXCEPT ![t] = c]
             /\ pc' = [pc EXCEPT ![t] = "update"]
    BY <1>2 DEF Charges
  <2>2. "update" \in StatesOf(k) /\ k \notin {"create"} \cup ByHand /\ c \in Txns
    BY KindFacts DEF StatesOf, Charges
  <2> QED
    BY <1>0, <1>1, <2>1, <2>2, StartKeeps
<1>3. CASE kind' = kind /\ subject' = subject /\ pc' = [pc EXCEPT ![t] = "refused"]
  <2>1. /\ kind' = [kind EXCEPT ![t] = "none"]
        /\ subject' = [subject EXCEPT ![t] = subject[t]]
        /\ subject[t] \in Txns \cup Revenues \cup {"none"}
    BY <1>0, <1>3 DEF Typed
  <2>2. "refused" \in StatesOf("none") /\ "none" \notin Transitions \cup {"create"} \cup ByHand
    BY KindFacts DEF StatesOf
  <2>3. PICK about : about = subject[t]
    OBVIOUS
  <2> QED
    BY <1>0, <1>1, <1>3, <2>1, <2>2, <2>3, StartKeeps
<1> QED
  BY <1>2, <1>3 DEF Validate, Goto

\* A rollback takes back every row, and the locks.
LEMMA RollbackCharges ==
  ASSUME ChargesInv, NEW t \in Txns, pc[t] # "committed", Rollback(t)
  PROVE  ChargesInv'
<1>0. Typed
  BY DEF ChargesInv
<1>1. /\ processing' = {p \in processing : p.by # t}
      /\ history' = {h \in history : h.by # t}
      /\ booked' = {b \in booked : b.by # t}
      /\ status' = status /\ revenue' = revenue
      /\ pc' = [pc EXCEPT ![t] = "rolledback"]
      /\ kind' = [kind EXCEPT ![t] = "none"]
      /\ subject' = [subject EXCEPT ![t] = "none"]
      /\ written' = [written EXCEPT ![t] = "none"]
      /\ synced' = [synced EXCEPT ![t] = "none"]
      /\ held' = [held EXCEPT ![t] = {}]
  BY DEF Rollback, Forget, Goto, committed
<1>2. /\ pc' \in [Txns -> States] /\ kind' \in [Txns -> Kinds \cup {"none"}]
      /\ subject' \in [Txns -> Txns \cup Revenues \cup {"none"}]
      /\ written' \in [Txns -> ChargeStatuses \cup {"none"}]
      /\ synced' \in [Txns -> RevenueStatuses \cup {"none"}]
      /\ held' \in [Txns -> SUBSET RowType]
      /\ pc'[t] = "rolledback" /\ kind'[t] = "none" /\ written'[t] = "none"
      /\ synced'[t] = "none" /\ held'[t] = {}
      /\ \A u \in Txns \ {t} :
           /\ pc'[u] = pc[u] /\ kind'[u] = kind[u] /\ subject'[u] = subject[u]
           /\ written'[u] = written[u] /\ synced'[u] = synced[u] /\ held'[u] = held[u]
  BY <1>0, <1>1 DEF Typed, States
<1>3. Typed'
  <2>1. IsFiniteSet(history') /\ history' \subseteq history
    BY <1>0, <1>1, FS_Subset DEF Typed
  <2>2. processing' \subseteq processing /\ booked' \subseteq booked
    BY <1>1
  <2> QED
    BY <2>1, <2>2, <1>0, <1>1, <1>2 DEF Typed
<1>4. OthersKept(t)
  BY <1>1, <1>2 DEF OthersKept
<1>5. /\ ~HasKey(t)' /\ ~HasBooked(t)' /\ ~HasLogged(t)' /\ ~IsTransition(t)'
      /\ kind'[t] \notin DOMAIN SyncedStatuses /\ kind'[t] \notin {"create"} \cup ByHand
  BY <1>2, KindFacts DEF HasKey, HasBooked, HasLogged, IsTransition
<1>6. RowsOK(t)' /\ LastWord(t)'
  BY <1>1, <1>5 DEF RowsOK, LastWord
<1>7. RequestOK(t)'
  BY <1>2, <1>5, KindFacts DEF RequestOK, StatesOf, WrittenAt, SyncedAt
<1>8. held'[t] = LocksOf(t)'
  BY <1>2, <1>5 DEF LocksOf
<1>9. UniqueKey'
  BY <1>1 DEF ChargesInv, UniqueKey
<1>10. /\ \A u \in Txns \ {t} : held'[t] \cap held[u] = {}
       /\ pc'[t] # "committed" /\ history' \ history = {}
  BY <1>1, <1>2
<1> QED
  BY <1>1, <1>3, <1>4, <1>6, <1>7, <1>8, <1>9, <1>10, StepKeeps

-----------------------------------------------------------------------------
\* Of the requests past the unique key, one is about each revenue.
LEMMA OneKey ==
  ASSUME ChargesInv, NEW a \in Txns, NEW b \in Txns, HasKey(a), HasKey(b),
         subject[a] = subject[b]
  PROVE  a = b
<1>1. {p \in processing : p.by = a} = {ProcessingRow(a)}
      /\ {p \in processing : p.by = b} = {ProcessingRow(b)}
  BY DEF ChargesInv, RowsOK
<1>2. ProcessingRow(a) \in processing /\ ProcessingRow(b) \in processing
  BY <1>1
<1>3. ProcessingRow(a) = ProcessingRow(b)
  BY <1>2 DEF ChargesInv, UniqueKey, ProcessingRow
<1> QED
  BY <1>3 DEF ProcessingRow

\* So a revenue has one charge.
LEMMA OneCharge ==
  ASSUME ChargesInv, NEW c \in Charges, NEW d \in Txns, HasKey(d), subject[c] = subject[d]
  PROVE  c = d
<1>1. c \in Txns /\ HasKey(c)
  BY DEF ChargesInv, ChargeOK, Charges, HasKey
<1> QED
  BY <1>1, OneKey

-----------------------------------------------------------------------------
\* What a commit changes, and what the request had under way.
LEMMA CommitFacts ==
  ASSUME ChargesInv, NEW t \in Txns, Commit(t)
  PROVE  /\ pc[t] = "commit" /\ pc'[t] = "committed" /\ kind[t] # "none"
         /\ kind' = kind /\ subject' = subject /\ written' = written /\ synced' = synced
         /\ processing' = processing /\ history' = history /\ booked' = booked
         /\ held'[t] = {} /\ OthersKept(t) /\ Typed'
         /\ kind[t] \in Transitions \cup {"create"} \cup ByHand
         /\ kind[t] \in ByHand => status' = status
         /\ kind[t] \notin ByHand =>
              /\ ChargeOf(t) \in Txns /\ status' = [status EXCEPT ![ChargeOf(t)] = written[t]]
              /\ written[t] \in ChargeStatuses
         /\ synced[t] = "none" => revenue' = revenue
         /\ synced[t] # "none" => revenue' = [revenue EXCEPT ![RevenueOf(t)] = synced[t]]
         /\ RevenueOf(t) \in Revenues
         /\ synced[t] \in IF kind[t] \in DOMAIN SyncedStatuses THEN SyncedStatuses[kind[t]]
                          ELSE {"none"}
<1>0. Typed /\ RequestOK(t)
  BY DEF ChargesInv
<1>1. /\ pc[t] = "commit" /\ pc' = [pc EXCEPT ![t] = "committed"]
      /\ held' = [held EXCEPT ![t] = {}]
      /\ kind' = kind /\ subject' = subject /\ written' = written /\ synced' = synced
      /\ processing' = processing /\ history' = history /\ booked' = booked
      /\ status' = IF written[t] = "none" THEN status
                   ELSE [status EXCEPT ![ChargeOf(t)] = written[t]]
      /\ revenue' = IF synced[t] = "none" THEN revenue
                    ELSE [revenue EXCEPT ![RevenueOf(t)] = synced[t]]
  BY DEF Commit, Goto, rows
<1>2. kind[t] \in Transitions \cup {"create"} \cup ByHand /\ kind[t] # "none"
  BY <1>0, <1>1, KindOf, KindAt
<1>3. RevenueOf(t) \in Revenues /\ (kind[t] \notin ByHand => ChargeOf(t) \in Txns)
  BY <1>2, AboutWhat
<1>4. /\ pc' \in [Txns -> States] /\ pc'[t] = "committed"
      /\ held' \in [Txns -> SUBSET RowType] /\ held'[t] = {}
      /\ \A u \in Txns \ {t} : pc'[u] = pc[u] /\ held'[u] = held[u]
  BY <1>0, <1>1 DEF Typed, States
<1>5. OthersKept(t)
  BY <1>1, <1>4 DEF OthersKept
<1>6. written[t] \in WrittenAt(kind[t], "commit")
  BY <1>0, <1>1 DEF RequestOK
<1>7. kind[t] \in ByHand => written[t] = "none"
  BY <1>6 DEF WrittenAt
<1>8. kind[t] \notin ByHand => written[t] \in ChargeStatuses
  <2>1. CASE kind[t] = "create"
    BY <2>1, <1>6 DEF WrittenAt, ChargeStatuses
  <2>2. CASE kind[t] \in Transitions
    <3>1. kind[t] \notin {"create", "none"} \cup ByHand /\ Target[kind[t]] \in ChargeStatuses
      BY <2>2, KindFacts
    <3> QED
      BY <3>1, <1>6 DEF WrittenAt
  <2> QED
    BY <1>2, <2>1, <2>2
<1>9. "none" \notin ChargeStatuses
  BY DEF ChargeStatuses
<1>10. synced[t] \in IF kind[t] \in DOMAIN SyncedStatuses THEN SyncedStatuses[kind[t]]
                     ELSE {"none"}
  BY <1>0, <1>1 DEF RequestOK, SyncedAt
<1>11. status' \in [Txns -> ChargeStatuses \cup {"none"}]
  BY <1>0, <1>1, <1>2, <1>3, <1>7, <1>8 DEF Typed
<1>12. revenue' \in [Revenues -> RevenueStatuses]
  <2>1. synced[t] \in RevenueStatuses \cup {"none"} /\ revenue \in [Revenues -> RevenueStatuses]
    BY <1>0 DEF Typed
  <2> QED
    BY <2>1, <1>1, <1>3
<1>13. Typed'
  BY <1>0, <1>1, <1>4, <1>11, <1>12 DEF Typed
<1> QED
  BY <1>1, <1>2, <1>3, <1>4, <1>5, <1>7, <1>8, <1>9, <1>10, <1>13

\* A commit adds to the charges the one it creates.
LEMMA CommitStatus ==
  ASSUME ChargesInv, NEW t \in Txns, Commit(t)
  PROVE  /\ Charges' = IF kind[t] = "create" THEN Charges \cup {t} ELSE Charges
         /\ t \notin Charges
         /\ \A c \in Txns : c # ChargeOf(t) \/ kind[t] \in ByHand => status'[c] = status[c]
         /\ kind[t] \notin ByHand => /\ ChargeOf(t) \in Charges'
                                   /\ status'[ChargeOf(t)] = written[t]
         /\ \A c \in Txns : status[c] # "none" => status'[c] # "none"
<1>1. /\ status \in [Txns -> ChargeStatuses \cup {"none"}] /\ "none" \notin ChargeStatuses
      /\ pc[t] = "commit"
  BY CommitFacts DEF ChargesInv, Typed, ChargeStatuses
<1>2. t \notin Charges
  BY <1>1 DEF ChargesInv, ChargeOK, Charges
<1>3. CASE kind[t] \in ByHand
  <2>1. status' = status
    BY <1>3, CommitFacts
  <2> QED
    BY <1>2, <1>3, <2>1, KindFacts DEF Charges
<1>4. CASE kind[t] \notin ByHand
  <2>1. PICK c0 : c0 = ChargeOf(t)
    OBVIOUS
  <2>2. /\ c0 \in Txns /\ status' = [status EXCEPT ![c0] = written[t]]
        /\ written[t] \in ChargeStatuses /\ kind[t] # "none"
    BY <1>4, <2>1, CommitFacts
  <2>3. status'[c0] = written[t] /\ \A c \in Txns : c # c0 => status'[c] = status[c]
    BY <1>1, <2>2
  <2>4. CASE kind[t] = "create"
    <3>1. c0 = t
      BY <2>1, <2>4 DEF ChargeOf
    <3>2. Charges' = Charges \cup {t}
      BY <1>1, <2>2, <2>3, <3>1 DEF Charges
    <3> QED
      BY <1>1, <1>2, <1>4, <2>1, <2>2, <2>3, <2>4, <3>1, <3>2
  <2>5. CASE kind[t] # "create"
    <3>1. c0 \in Charges
      BY <1>4, <2>1, <2>2, <2>5, AboutWhat, KindOf DEF ChargesInv
    <3>2. Charges' = Charges
      BY <1>1, <2>2, <2>3, <3>1 DEF Charges
    <3> QED
      BY <1>1, <1>2, <1>4, <2>1, <2>2, <2>3, <2>5, <3>1, <3>2
  <2> QED
    BY <2>4, <2>5
<1> QED
  BY <1>3, <1>4

\* The request that commits keeps its rows, and gives back its locks.
LEMMA CommitRequest ==
  ASSUME ChargesInv, NEW t \in Txns, Commit(t)
  PROVE  RequestOK(t)' /\ RowsOK(t)' /\ LastWord(t)' /\ held'[t] = LocksOf(t)'
<1>1. /\ pc[t] = "commit" /\ pc'[t] = "committed" /\ kind[t] # "none"
      /\ kind' = kind /\ subject' = subject /\ written' = written /\ synced' = synced
      /\ processing' = processing /\ history' = history /\ booked' = booked
      /\ held'[t] = {}
      /\ kind[t] \in Transitions \cup {"create"} \cup ByHand
  BY CommitFacts
<1>2. RequestOK(t) /\ RowsOK(t)
  BY DEF ChargesInv
<1>3. /\ RevenueOf(t)' = RevenueOf(t) /\ IsTransition(t)' = IsTransition(t)
      /\ ChargeOf(t)' = ChargeOf(t) /\ BookedRow(t)' = BookedRow(t)
      /\ ProcessingRow(t)' = ProcessingRow(t)
  BY <1>1 DEF RevenueOf, IsTransition, ChargeOf, BookedRow, ProcessingRow
<1>4. RequestOK(t)'
  <2>1. "committed" \in StatesOf(kind[t])
    BY <1>1, KindFacts DEF StatesOf
  <2>2. IsTransition(t) => status'[subject[t]] # "none"
    BY <1>2, CommitStatus DEF RequestOK
  <2>3. WrittenAt(kind[t], "committed") = WrittenAt(kind[t], "commit")
        /\ SyncedAt(kind[t], "committed") = SyncedAt(kind[t], "commit")
    BY DEF WrittenAt, SyncedAt
  <2> QED
    BY <1>1, <1>2, <1>3, <2>1, <2>2, <2>3 DEF RequestOK
<1>5. /\ HasKey(t)' = HasKey(t) /\ HasBooked(t)' = HasBooked(t)
      /\ HasLogged(t)' = HasLogged(t)
  BY <1>1, <1>3 DEF HasKey, HasBooked, HasLogged
<1>6. RowsOK(t)'
  BY <1>1, <1>2, <1>3, <1>5 DEF RowsOK
<1>7. LastWord(t)'
  BY <1>1 DEF LastWord, Running, RunningStates
<1>8. held'[t] = LocksOf(t)'
  BY <1>1 DEF LocksOf
<1> QED
  BY <1>4, <1>6, <1>7, <1>8

\* The history of the charge that is committed goes on with the rows of the
\* request, the last of which is the last of all.
LEMMA CommitHistory ==
  ASSUME ChargesInv, NEW t \in Txns, Commit(t)
  PROVE  HistoryEndsInStatus'
<1>1. /\ pc[t] = "commit" /\ pc'[t] = "committed" /\ history' = history
      /\ kind[t] \in Transitions \cup {"create"} \cup ByHand /\ OthersKept(t)
  BY CommitFacts
<1>2. RowsOK(t) /\ LastWord(t) /\ HistoryEndsInStatus /\ Typed
  BY DEF ChargesInv
<1>3. /\ Running(t) /\ ~Running(t)' /\ \A u \in Txns \ {t} : Running(u)' = Running(u)
      /\ \A h \in history : h.by \in Txns
  BY <1>1, <1>2 DEF Running, RunningStates, OthersKept, Typed
<1>4. \A c : HistoryOf(c)' = HistoryOf(c) \cup {h \in history : h.charge = c /\ h.by = t}
  BY <1>1, <1>3 DEF HistoryOf
<1>5. \A h \in history : h.by = t => HasLogged(t) /\ h.charge = ChargeOf(t)
  BY <1>2 DEF RowsOK
<1>6. HasLogged(t) <=> kind[t] \notin ByHand
  BY <1>1, KindFacts DEF HasLogged
<1>7. \A c \in Txns : c # ChargeOf(t) \/ kind[t] \in ByHand =>
        HistoryOf(c)' = HistoryOf(c) /\ status'[c] = status[c]
  BY <1>4, <1>5, <1>6, CommitStatus
<1>8. ASSUME NEW c \in Charges'
      PROVE  \E h \in history' : IsLast(h, c)' /\ StatusAfter(h.event) = status'[c]
  <2>1. CASE c # ChargeOf(t) \/ kind[t] \in ByHand
    <3>1. c \in Txns /\ HistoryOf(c)' = HistoryOf(c) /\ status'[c] = status[c] /\ c \in Charges
      BY <2>1, <1>7 DEF Charges
    <3>2. PICK h \in history : IsLast(h, c) /\ StatusAfter(h.event) = status[c]
      BY <3>1, <1>2 DEF HistoryEndsInStatus
    <3>3. IsLast(h, c)'
      BY <3>1, <3>2 DEF IsLast
    <3> QED
      BY <3>1, <3>2, <3>3, <1>1
  <2>2. CASE c = ChargeOf(t) /\ kind[t] \notin ByHand
    <3>1. PICK h \in history :
            /\ h.by = t /\ StatusAfter(h.event) = written[t]
            /\ \A g \in history : g.charge = ChargeOf(t) => g.id <= h.id
      BY <2>2, <1>2, <1>3, <1>6 DEF LastWord
    <3>2. h.charge = c /\ status'[c] = written[t]
      BY <2>2, <3>1, <1>5, CommitStatus
    <3>3. h \in HistoryOf(c)' /\ \A g \in HistoryOf(c)' : g.id <= h.id
      BY <2>2, <3>1, <3>2, <1>1, <1>4 DEF HistoryOf
    <3>4. IsLast(h, c)'
      BY <3>3 DEF IsLast
    <3> QED
      BY <3>1, <3>2, <3>4, <1>1
  <2> QED
    BY <2>1, <2>2
<1>9. ASSUME NEW c \in Txns, c \notin Charges' PROVE HistoryOf(c)' = {}
  <2>1. c # ChargeOf(t) \/ kind[t] \in ByHand
    BY <1>9, CommitStatus
  <2>2. c \in Txns \ Charges
    BY <2>1, <1>7, <1>9 DEF Charges
  <2> QED
    BY <2>1, <2>2, <1>2, <1>7 DEF HistoryEndsInStatus
<1> QED
  BY <1>8, <1>9 DEF HistoryEndsInStatus

\* The revenue that is committed with a charge is the one the charge, and no
\* other charge, was created from.
LEMMA CommitRevenue ==
  ASSUME ChargesInv, NEW t \in Txns, Commit(t)
  PROVE  RevenueFollowsCharge'
<1>1. /\ pc[t] = "commit" /\ pc'[t] = "committed"
      /\ kind' = kind /\ subject' = subject
      /\ kind[t] \in Transitions \cup {"create"} \cup ByHand /\ OthersKept(t)
      /\ RevenueOf(t) \in Revenues
  BY CommitFacts
<1>2. /\ synced[t] = "none" => revenue' = revenue
      /\ synced[t] # "none" => revenue' = [revenue EXCEPT ![RevenueOf(t)] = synced[t]]
      /\ synced[t] \in IF kind[t] \in DOMAIN SyncedStatuses THEN SyncedStatuses[kind[t]]
                       ELSE {"none"}
  BY CommitFacts
<1>3. /\ RevenueFollowsCharge
      /\ revenue \in [Revenues -> RevenueStatuses]
      /\ written[t] \in WrittenAt(kind[t], "commit")
  BY <1>1 DEF ChargesInv, Typed, RequestOK
<1>4. \A r \in Revenues : r # RevenueOf(t) => revenue'[r] = revenue[r]
  BY <1>2, <1>3
<1>5. \A r : WrittenByHand(r) => WrittenByHand(r)'
  BY <1>1 DEF WrittenByHand, OthersKept
<1>6. \A c \in Charges : c \in Txns /\ HasKey(c) /\ subject[c] \in Revenues /\ c \in Charges'
  BY CommitStatus DEF ChargesInv, ChargeOK, RequestOK, HasKey, Charges
<1>7. CASE kind[t] \in ByHand
  <2>1. RevenueOf(t) = subject[t] /\ Charges' = Charges
    BY <1>7, CommitStatus, KindFacts DEF RevenueOf, IsTransition
  <2>2. WrittenByHand(subject[t])'
    BY <1>1, <1>7 DEF WrittenByHand
  <2>3. \A c \in Charges : status'[c] = status[c]
    BY <1>6, <1>7, CommitStatus
  <2> QED
    BY <1>1, <1>3, <1>4, <1>5, <1>6, <2>1, <2>2, <2>3 DEF RevenueFollowsCharge
<1>8. CASE kind[t] = "create"
  <2>1. /\ RevenueOf(t) = subject[t] /\ ChargeOf(t) = t /\ Charges' = Charges \cup {t}
        /\ t \notin Charges /\ revenue' = revenue
    BY <1>2, <1>8, CommitStatus, KindFacts DEF RevenueOf, IsTransition, ChargeOf
  <2>2. status'[t] = written[t] /\ written[t] \in {"DRAFT", "PROCESSING"}
    BY KindFacts, <1>3, <1>8, <2>1, CommitStatus DEF WrittenAt
  <2>3. HasKey(t)
    BY <1>1, <1>8 DEF HasKey
  <2>4. \A c \in Charges : subject[c] # subject[t] /\ c # t /\ status'[c] = status[c]
    BY <2>1, <2>3, <1>6, OneCharge, CommitStatus
  <2> QED
    BY <1>1, <1>3, <1>5, <2>1, <2>2, <2>4 DEF RevenueFollowsCharge
<1>9. CASE kind[t] \in Transitions
  <2>1. kind[t] \notin {"create", "none"} \cup ByHand /\ IsTransition(t)
    BY <1>9, KindFacts DEF IsTransition
  <2>2. PICK c0 : c0 = ChargeOf(t)
    OBVIOUS
  <2>3. c0 \in Charges /\ RevenueOf(t) = subject[c0] /\ Charges' = Charges
    BY <2>1, <2>2, AboutWhat, CommitStatus
  <2>4. status'[c0] = Target[kind[t]]
    BY <1>3, <2>1, <2>2, CommitStatus DEF WrittenAt
  <2>5. \A c \in Charges : c # c0 => subject[c] # subject[c0] /\ status'[c] = status[c]
    BY <1>6, <2>2, <2>3, OneCharge, CommitStatus
  <2>6. \A c \in Charges : c # c0 => revenue'[subject[c]] = revenue[subject[c]]
    BY <1>4, <1>6, <2>3, <2>5
  <2>7. /\ status'[c0] = "PAID" => revenue'[subject[c0]] = "paid"
        /\ status'[c0] \in {"CANCELED", "EXPIRED"} => revenue'[subject[c0]] = "pending"
    <3>1. /\ status'[c0] = "PAID" => kind[t] = "pay"
          /\ status'[c0] \in {"CANCELED", "EXPIRED"} =>
               kind[t] \in {"cancel", "expire", "refund"}
      BY <1>9, <2>4, KindFacts
    <3>2. kind[t] = "pay" => synced[t] = "paid"
      BY <1>2, KindFacts
    <3>3. kind[t] \in {"cancel", "expire", "refund"} => synced[t] = "pending"
      BY <1>2, KindFacts
    <3> QED
      BY <3>1, <3>2, <3>3, <1>1, <1>2, <1>3, <2>3
  <2> QED
    BY <1>1, <1>3, <1>5, <2>3, <2>5, <2>6, <2>7 DEF RevenueFollowsCharge
<1> QED
  BY <1>1, <1>7, <1>8, <1>9

LEMMA CommitCharges ==
  ASSUME ChargesInv, NEW t \in Txns, Commit(t)
  PROVE  ChargesInv'
<1>1. /\ pc[t] = "commit" /\ pc'[t] = "committed" /\ OthersKept(t) /\ Typed'
      /\ kind' = kind /\ processing' = processing /\ history' = history /\ held'[t] = {}
  BY CommitFacts
<1>2. \A c \in Txns : status[c] # "none" => status'[c] # "none"
  BY CommitStatus
<1>3. \A u \in Txns \ {t} : RequestOK(u)' /\ RowsOK(u)' /\ LastWord(u)' /\ held'[u] = LocksOf(u)'
  BY <1>1, <1>2, OtherRequest
<1>4. RequestOK(t)' /\ RowsOK(t)' /\ LastWord(t)' /\ held'[t] = LocksOf(t)'
  BY CommitRequest
<1>5. ASSUME NEW c \in Txns PROVE ChargeOK(c)'
  <2>1. ChargeOK(c) /\ (c # t => pc'[c] = pc[c])
    BY <1>1 DEF ChargesInv, OthersKept
  <2>2. c \in Charges' <=> c \in Charges \/ (c = t /\ kind[t] = "create")
    BY CommitStatus
  <2> QED
    BY <1>1, <2>1, <2>2 DEF ChargeOK, Charges
<1>6. LocksOK'
  BY <1>1, <1>3, <1>4 DEF ChargesInv, LocksOK, OthersKept
<1>7. UniqueKey'
  BY <1>1 DEF ChargesInv, UniqueKey
<1> QED
  BY <1>1, <1>3, <1>4, <1>5, <1>6, <1>7, CommitHistory, CommitRevenue DEF ChargesInv

-----------------------------------------------------------------------------
\* Only who runs waits for a row.
LEMMA WaiterRuns ==
  ASSUME NEW t, NEW u, WaitsFor(t, u)
  PROVE  pc[t] \in {"load", "update", "tip", "sync"}
  BY DEF WaitsFor, Wanted

LEMMA StepCharges ==
  ASSUME ChargesInv, NEW t \in Txns, Step(t)
  PROVE  ChargesInv'
<1>1. CASE Begin(t)
  BY <1>1, BeginCharges
<1>2. CASE Validate(t)
  BY <1>2, ValidateCharges
<1>3. CASE LoadEntity(t)
  BY <1>3, LoadEntityCharges
<1>4. CASE SaveProcessing(t)
  BY <1>4, SaveProcessingCharges
<1>5. CASE RefuseSecond(t)
  <2>1. pc[t] # "committed" /\ Rollback(t)
    BY <1>5 DEF RefuseSecond
  <2> QED
    BY <2>1, RollbackCharges
<1>6. CASE SaveCharge(t)
  BY <1>6, SaveChargeCharges
<1>7. CASE UpdateStatus(t)
  BY <1>7, UpdateStatusCharges
<1>8. CASE LogEvent(t)
  BY <1>8, LogEventCharges
<1>9. CASE SkipRegister(t)
  BY <1>9, SkipRegisterCharges
<1>10. CASE Register(t)
  BY <1>10, RegisterCharges
<1>16. CASE AskTip(t)
  BY <1>16, AskTipCharges
<1>11. CASE SendToGateway(t)
  BY <1>11, SendToGatewayCharges
<1>12. CASE SyncRevenue(t)
  BY <1>12, SyncRevenueCharges
<1>13. CASE Commit(t)
  BY <1>13, CommitCharges
<1>14. CASE DeadlockVictim(t)
  <2>1. PICK S \in SUBSET Txns : t \in S /\ Deadlocked(S)
    BY <1>14 DEF DeadlockVictim
  <2>2. PICK u \in S : WaitsFor(t, u)
    BY <2>1 DEF Deadlocked
  <2>3. pc[t] # "committed" /\ Rollback(t)
    BY <1>14, <2>2, WaiterRuns DEF DeadlockVictim
  <2> QED
    BY <2>3, RollbackCharges
<1>15. CASE Fail(t)
  <2>1. pc[t] # "committed" /\ Rollback(t)
    BY <1>15 DEF Fail, Running, RunningStates
  <2> QED
    BY <2>1, RollbackCharges
<1> QED
  BY <1>1, <1>2, <1>3, <1>4, <1>5, <1>6, <1>7, <1>8, <1>9, <1>10, <1>11, <1>12, <1>13,
     <1>14, <1>15, <1>16 DEF Step

LEMMA IdleCharges ==
  ASSUME ChargesInv, UNCHANGED vars
  PROVE  ChargesInv'
<1> USE DEF vars, committed, rows
<1>1. Typed' /\ UniqueKey' /\ LocksOK'
  BY DEF ChargesInv, Typed, UniqueKey, LocksOK, LocksOf, Registers, RevenueOf, ChargeOf, IsTransition
<1>2. ASSUME NEW t \in Txns
      PROVE  RequestOK(t)' /\ ChargeOK(t)' /\ RowsOK(t)' /\ LastWord(t)'
  <2>1. RequestOK(t)'
    BY DEF ChargesInv, RequestOK, IsTransition, Registers, RevenueOf
  <2>2. ChargeOK(t)'
    BY DEF ChargesInv, ChargeOK
  <2>3. RevenueOf(t)' = RevenueOf(t) /\ ChargeOf(t)' = ChargeOf(t)
    BY DEF RevenueOf, ChargeOf, IsTransition
  <2>4. RowsOK(t)'
    BY <2>3 DEF ChargesInv, RowsOK, HasKey, HasBooked, HasLogged, ProcessingRow, BookedRow
  <2>5. LastWord(t)'
    BY <2>3 DEF ChargesInv, LastWord, HasLogged, Running
  <2> QED
    BY <2>1, <2>2, <2>4, <2>5
<1>3. /\ Charges' = Charges /\ \A c : HistoryOf(c)' = HistoryOf(c)
      /\ \A r : WrittenByHand(r)' = WrittenByHand(r)
  BY DEF Charges, HistoryOf, WrittenByHand, Running
<1>4. HistoryEndsInStatus'
  BY <1>3 DEF ChargesInv, HistoryEndsInStatus, IsLast
<1>5. RevenueFollowsCharge'
  BY <1>3 DEF ChargesInv, RevenueFollowsCharge
<1> QED
  BY <1>1, <1>2, <1>4, <1>5 DEF ChargesInv

LEMMA NextCharges == ChargesInv /\ [Next]_vars => ChargesInv'
<1> SUFFICES ASSUME ChargesInv, [Next]_vars PROVE ChargesInv'
  OBVIOUS
<1>1. CASE UNCHANGED vars
  BY <1>1, IdleCharges
<1>2. CASE Next
  BY <1>2, StepCharges DEF Next
<1> QED
  BY <1>1, <1>2

\* What every request has under way, written and locked agrees with where it
\* stands, in every reachable state.
THEOREM ChargesInvariant == Spec => []ChargesInv
  BY InitCharges, NextCharges, PTL DEF Spec

-----------------------------------------------------------------------------
\* Who has a row in a table is running or has committed.
LEMMA RowOwner ==
  ASSUME ChargesInv, NEW t \in Txns, HasKey(t) \/ HasBooked(t) \/ HasLogged(t)
  PROVE  Running(t) \/ pc[t] = "committed"
  BY DEF HasKey, HasBooked, HasLogged, Running, RunningStates

LEMMA ChargesInvType == ChargesInv => TypeOK
<1> SUFFICES ASSUME ChargesInv PROVE TypeOK
  OBVIOUS
<1>1. Typed /\ \A t \in Txns : RowsOK(t) /\ held[t] = LocksOf(t)
  BY DEF ChargesInv, LocksOK
<1>2. ASSUME NEW t \in Txns, Running(t) PROVE RevenueOf(t) \in Revenues
  <2>1. kind[t] # "none"
    BY <1>2, KindAt DEF Running, RunningStates
  <2> QED
    BY <2>1, AboutWhat
<1>3. ASSUME NEW t \in Txns, held[t] # {} PROVE Running(t)
  BY <1>1, <1>3 DEF LocksOf, Running, RunningStates
<1>4. ASSUME NEW p \in processing PROVE Running(p.by) \/ pc[p.by] = "committed"
  <2>1. p.by \in Txns
    BY <1>1 DEF Typed
  <2>2. HasKey(p.by)
    BY <1>1, <2>1 DEF RowsOK
  <2> QED
    BY <2>1, <2>2, RowOwner
<1>5. ASSUME NEW b \in booked PROVE Running(b.by) \/ pc[b.by] = "committed"
  <2>1. b.by \in Txns
    BY <1>1 DEF Typed
  <2>2. HasBooked(b.by)
    BY <1>1, <2>1 DEF RowsOK
  <2> QED
    BY <2>1, <2>2, RowOwner
<1>6. ASSUME NEW h \in history PROVE Running(h.by) \/ pc[h.by] = "committed"
  <2>1. h.by \in Txns
    BY <1>1 DEF Typed
  <2>2. HasLogged(h.by)
    BY <1>1, <2>1 DEF RowsOK
  <2> QED
    BY <2>1, <2>2, RowOwner
<1> QED
  BY <1>1, <1>2, <1>3, <1>4, <1>5, <1>6 DEF TypeOK, Typed, States

\* Rows belong to requests that run or have committed, and locks to requests
\* that run: a rollback or a refusal leaves neither behind.
THEOREM TypeCorrect == Spec => []TypeOK
  BY ChargesInvariant, ChargesInvType, PTL

\* The history of every charge ends with the event that gave it its status,
\* whatever requests were validated against the same old status.
THEOREM HistoryEndsInStatusCorrect == Spec => []HistoryEndsInStatus
<1>1. ChargesInv => HistoryEndsInStatus
  BY DEF ChargesInv
<1> QED
  BY <1>1, ChargesInvariant, PTL

\* As long as nobody pays, edits or deletes a revenue by hand, it is paid with
\* its charge and pending with a charge that is cancelled, expired or refunded,
\* whatever status the client created it with.
THEOREM RevenueFollowsChargeCorrect == Spec => []RevenueFollowsCharge
<1>1. ChargesInv => RevenueFollowsCharge
  BY DEF ChargesInv
<1> QED
  BY <1>1, ChargesInvariant, PTL

\* A revenue has at most one charge, however many requests to create one race.
THEOREM OneChargePerRevenueCorrect == Spec => []OneChargePerRevenue
<1>1. ASSUME ChargesInv PROVE OneChargePerRevenue
  <2>1. \A d \in Charges : d \in Txns /\ HasKey(d)
    BY <1>1 DEF ChargesInv, ChargeOK, Charges, HasKey
  <2> QED
    BY <1>1, <2>1, OneCharge DEF OneChargePerRevenue
<1> QED
  BY <1>1, ChargesInvariant, PTL

\* The charge events the ledger was told of are those of the history, by the
\* same requests: who has committed wrote both rows or has no account.
THEOREM BookedFollowsHistoryCorrect == Spec => []BookedFollowsHistory
<1>1. ASSUME ChargesInv, NEW c \in Charges, NEW k \in DOMAIN EventType
      PROVE  {b.by : b \in {x \in booked :
                x.charge = c /\ x.type = EventType[k] /\ ~Running(x.by)}}
             = IF subject[c] \in HasAccount
               THEN {h.by : h \in {x \in HistoryOf(c) : x.event = k}}
               ELSE {}
  <2>1. PICK B : B = {x \in booked : x.charge = c /\ x.type = EventType[k] /\ ~Running(x.by)}
    OBVIOUS
  <2>2. PICK H : H = {x \in HistoryOf(c) : x.event = k}
    OBVIOUS
  <2>3. PICK Done : Done = {u \in Txns : pc[u] = "committed" /\ kind[u] = k /\ ChargeOf(u) = c}
    OBVIOUS
  <2>4. k \in Transitions \cup {"create"} /\ k \notin {"processing", "none"} \cup ByHand
    BY KindFacts
  <2>5. \A u \in Txns : RowsOK(u)
    BY <1>1 DEF ChargesInv
  <2>6. \A u \in Done : RevenueOf(u) = subject[c] /\ HasLogged(u) /\ ~Running(u)
    <3> SUFFICES ASSUME NEW u \in Done
                 PROVE  RevenueOf(u) = subject[c] /\ HasLogged(u) /\ ~Running(u)
      OBVIOUS
    <3>1. u \in Txns /\ pc[u] = "committed" /\ kind[u] = k /\ ChargeOf(u) = c
      BY <2>3
    <3>2. RevenueOf(u) = subject[c]
      BY <1>1, <2>4, <3>1, AboutWhat DEF IsTransition
    <3> QED
      BY <2>4, <3>1, <3>2 DEF HasLogged, Running, RunningStates
  <2>7. ASSUME NEW b \in B PROVE b.by \in Done /\ subject[c] \in HasAccount
    <3>1. /\ b \in booked /\ b.charge = c /\ b.type = EventType[k] /\ ~Running(b.by)
          /\ b.by \in Txns
      BY <1>1, <2>1, <2>7 DEF ChargesInv, Typed
    <3>2. PICK u \in Txns : u = b.by
      BY <3>1
    <3>3. HasBooked(u) /\ b = BookedRow(u)
      BY <2>5, <3>1, <3>2 DEF RowsOK
    <3>4. ChargeOf(u) = c /\ EventType[kind[u]] = EventType[k] /\ kind[u] \in DOMAIN EventType
      BY <3>1, <3>3 DEF BookedRow, HasBooked
    <3>5. kind[u] = k /\ pc[u] = "committed"
      BY <3>1, <3>2, <3>3, <3>4, KindFacts, RowOwner, <1>1
    <3>6. u \in Done /\ RevenueOf(u) \in HasAccount
      BY <2>3, <3>3, <3>4, <3>5 DEF HasBooked
    <3> QED
      BY <2>6, <3>2, <3>6
  <2>8. ASSUME subject[c] \in HasAccount, NEW u \in Done
        PROVE  u \in {b.by : b \in B}
    <3>1. u \in Txns /\ kind[u] = k /\ ChargeOf(u) = c /\ pc[u] = "committed"
      BY <2>3
    <3>2. HasBooked(u)
      BY <2>6, <2>8, <3>1 DEF HasBooked
    <3>3. BookedRow(u) \in booked
      BY <2>5, <3>1, <3>2 DEF RowsOK
    <3>4. BookedRow(u) \in B /\ BookedRow(u).by = u
      BY <2>1, <2>6, <3>1, <3>3 DEF BookedRow
    <3> QED
      BY <3>4
  <2>9. ASSUME NEW h \in H PROVE h.by \in Done
    <3>1. /\ h \in history /\ h.charge = c /\ ~Running(h.by) /\ h.event = k /\ h.by \in Txns
      BY <1>1, <2>2, <2>9 DEF HistoryOf, ChargesInv, Typed
    <3>2. /\ HasLogged(h.by) /\ ChargeOf(h.by) = c /\ kind[h.by] = k
      BY <2>4, <2>5, <3>1 DEF RowsOK
    <3>3. pc[h.by] = "committed"
      BY <1>1, <3>1, <3>2, RowOwner
    <3> QED
      BY <2>3, <3>1, <3>2, <3>3
  <2>10. ASSUME NEW u \in Done PROVE u \in {h.by : h \in H}
    <3>1. u \in Txns /\ kind[u] = k /\ HasLogged(u) /\ ChargeOf(u) = c
      BY <2>3, <2>6
    <3>2. PICK h \in history : h.by = u /\ h.event = k
      BY <2>5, <3>1 DEF RowsOK
    <3>3. h.charge = c
      BY <2>5, <3>1, <3>2 DEF RowsOK
    <3>4. h \in H
      BY <2>2, <2>6, <3>2, <3>3 DEF HistoryOf
    <3> QED
      BY <3>2, <3>4
  <2>11. {h.by : h \in H} = Done
    BY <2>9, <2>10
  <2>12. {b.by : b \in B} = IF subject[c] \in HasAccount THEN Done ELSE {}
    BY <2>7, <2>8
  <2> QED
    BY <2>1, <2>2, <2>11, <2>12
<1>2. ChargesInv => BookedFollowsHistory
  BY <1>1 DEF BookedFollowsHistory
<1> QED
  BY <1>2, ChargesInvariant, PTL

-----------------------------------------------------------------------------
\* Who waits and holds a row is inserting its event or about to tell the
\* revenue; of those only a create has locked a revenue.
LEMMA WaitingHolder ==
  ASSUME ChargesInv, NEW u \in Txns, pc[u] \in {"load", "update", "tip", "sync"},
         NEW x \in held[u]
  PROVE  /\ pc[u] \in {"tip", "sync"}
         /\ x = LastEvent => pc[u] = "sync"
         /\ \A r : x = RevenueRow(r) =>
              pc[u] = "tip" /\ kind[u] = "create" /\ RevenueOf(u) = r
         /\ kind[u] \notin {"edit", "remove"}
<1>1. x \in LocksOf(u)
  BY DEF ChargesInv, LocksOK
<1>2. pc[u] \in {"tip", "sync"}
  BY <1>1 DEF LocksOf
<1>3. x = LastEvent => pc[u] = "sync"
  BY <1>1 DEF LocksOf, LastEvent, ChargeRow, RevenueRow
<1>4. ASSUME NEW r, x = RevenueRow(r)
      PROVE  pc[u] = "tip" /\ kind[u] = "create" /\ RevenueOf(u) = r
  BY <1>1, <1>4 DEF LocksOf, LastEvent, ChargeRow, RevenueRow
<1>5. kind[u] \notin {"edit", "remove"}
  BY <1>1, <1>2, KindFacts DEF LocksOf, Registers
<1> QED
  BY <1>2, <1>3, <1>4, <1>5

\* In a deadlock, whoever waits for a revenue waits for a create.
LEMMA SyncMeetsCreate ==
  ASSUME ChargesInv, NEW S \in SUBSET Txns, Deadlocked(S), NEW y \in S, pc[y] = "sync"
  PROVE  \E z \in S : /\ kind[z] = "create" /\ pc[z] = "tip"
                      /\ RevenueOf(z) = RevenueOf(y)
<1>1. PICK z \in S : WaitsFor(y, z)
  BY DEF Deadlocked
<1>2. PICK v \in S : WaitsFor(z, v)
  BY DEF Deadlocked
<1>3. pc[z] \in {"load", "update", "tip", "sync"}
  BY <1>2, WaiterRuns
<1>4. RevenueRow(RevenueOf(y)) \in held[z]
  BY <1>1 DEF WaitsFor, Wanted
<1>5. z \in Txns
  OBVIOUS
<1> QED
  BY <1>3, <1>4, <1>5, WaitingHolder

\* In a deadlock no two of which have locked the gap above the last event, some
\* request that others wait for waits for a revenue.
LEMMA SomeoneSyncs ==
  ASSUME ChargesInv, NEW S \in SUBSET Txns, Deadlocked(S),
         \A t, u \in S : pc[t] = "tip" /\ pc[u] = "tip" => t = u
  PROVE  \E y \in S : pc[y] = "sync" /\ held[y] # {}
<1>1. PICK t \in S, u \in S, v \in S, w \in S :
        WaitsFor(t, u) /\ WaitsFor(u, v) /\ WaitsFor(v, w)
  BY DEF Deadlocked
<1>2. /\ u \in Txns /\ v \in Txns
      /\ pc[u] \in {"load", "update", "tip", "sync"}
      /\ pc[v] \in {"load", "update", "tip", "sync"}
  BY <1>1, WaiterRuns
<1>3. PICK x \in held[u] : TRUE
  BY <1>1 DEF WaitsFor
<1>4. pc[u] \in {"tip", "sync"}
  BY <1>2, <1>3, WaitingHolder
<1>5. CASE pc[u] = "sync"
  BY <1>3, <1>5
<1>6. CASE pc[u] = "tip"
  <2>1. LastEvent \in held[v]
    BY <1>1, <1>6 DEF WaitsFor, Wanted
  <2>2. pc[v] = "sync"
    BY <1>2, <2>1, WaitingHolder
  <2> QED
    BY <2>1, <2>2
<1> QED
  BY <1>4, <1>5, <1>6

\* Apart from the transactions that wait at the gap above the last event,
\* requests on charges never deadlock among themselves: a request that waits
\* for a revenue in a deadlock is a payment by hand, for the charge of the
\* revenue would be the one that is only being created.
THEOREM KnownDeadlocksCorrect == Spec => []KnownDeadlocks
<1>1. ASSUME ChargesInv, NEW S \in SUBSET Txns, Deadlocked(S),
             \A t, u \in S : pc[t] = "tip" /\ pc[u] = "tip" => t = u
      PROVE  {"create", "receive"} \subseteq {kind[t] : t \in S}
  <2>1. PICK y \in S : pc[y] = "sync" /\ held[y] # {}
    BY <1>1, SomeoneSyncs
  <2>2. PICK z \in S : /\ kind[z] = "create" /\ pc[z] = "tip"
                       /\ RevenueOf(z) = RevenueOf(y)
    BY <1>1, <2>1, SyncMeetsCreate
  <2>3. z \in Txns /\ y \in Txns /\ HasKey(z) /\ z \notin Charges
    BY <1>1, <2>2 DEF HasKey, ChargesInv, ChargeOK, Charges
  <2>4. RevenueOf(z) = subject[z]
    BY <1>1, <2>2, <2>3, AboutWhat
  <2>5. kind[y] \in DOMAIN SyncedStatuses /\ kind[y] \notin {"edit", "remove"}
    BY <1>1, <2>1, <2>3, KindAt, WaitingHolder
  <2>6. ASSUME kind[y] # "receive" PROVE FALSE
    <3>1. IsTransition(y) /\ kind[y] # "none"
      BY <2>5, <2>6, KindFacts DEF IsTransition
    <3>2. ChargeOf(y) \in Charges /\ RevenueOf(y) = subject[ChargeOf(y)]
      BY <1>1, <2>3, <3>1, AboutWhat
    <3>3. ChargeOf(y) = z
      BY <1>1, <2>2, <2>3, <2>4, <3>2, OneCharge
    <3> QED
      BY <2>3, <3>2, <3>3
  <2> QED
    BY <2>2, <2>6
<1>2. ASSUME NEW S \in SUBSET Txns, NEW a \in S, NEW b \in S,
             pc[a] = "tip", pc[b] = "tip", a # b
      PROVE  Deadlocked({t \in S : pc[t] = "tip"})
  <2>1. PICK T : T = {t \in S : pc[t] = "tip"}
    OBVIOUS
  <2>2. a \in T /\ b \in T
    BY <1>2, <2>1
  <2>3. ASSUME NEW t \in T PROVE \E u \in T : WaitsFor(t, u)
    <3>1. PICK u \in T : u # t
      BY <1>2, <2>2
    <3>2. WaitsFor(t, u)
      BY <2>1, <3>1 DEF WaitsFor
    <3> QED
      BY <3>2
  <2> QED
    BY <2>1, <2>2, <2>3 DEF Deadlocked
<1>3. ChargesInv => KnownDeadlocks
  BY <1>1, <1>2 DEF KnownDeadlocks
<1> QED
  BY <1>3, ChargesInvariant, PTL
=============================================================================
