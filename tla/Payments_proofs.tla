-------------------------- MODULE Payments_proofs --------------------------
(***************************************************************************)
(* Proofs about payments, for any number of requests, entities and amounts.*)
(*                                                                         *)
(* The properties speak of committed payments; PaymentsInv adds what each  *)
(* request has under way where it stands: the row it inserted and the      *)
(* event it registered for it, whose amounts are opposites or equals, the  *)
(* payment it reverses, the rows it has locked.  One request at a time has *)
(* an event registered, so that what it saw of the payments when it        *)
(* registered it is what there still is when it commits.  What is said of  *)
(* the cash and of the reversal dates is under the conditions the          *)
(* properties state; the rest is true whatever the clients send.           *)
(*                                                                         *)
(* Total is a fold.  What it adds up to is proved from its definition, by  *)
(* looking at a smallest set for which a claim would be wrong.             *)
(***************************************************************************)
EXTENDS Payments, FiniteSetTheorems, WellFoundedInduction, TLAPS

States ==
  {"idle", "reverse", "register", "tip", "mark", "status", "check", "remove",
   "edit", "commit", "committed", "rolledback", "refused", "invoice_not_found"}

Rows ==
  [id : Nat \ {0}, entity : Entities, value : Int, reversed : BOOLEAN, of : Nat]
Views == [payments : SUBSET Rows, value : [Entities -> Nat]]
Writes == UNION {[E -> Statuses] : E \in SUBSET Entities}

Typed ==
  /\ payments \subseteq Rows /\ IsFiniteSet(payments)
  /\ status \in [Entities -> Statuses]
  /\ value \in [Entities -> Nat]
  /\ cash \in [Entities -> Int]
  /\ lastId \in Nat
  /\ pc \in [Txns -> States]
  /\ op \in [Txns -> Ops]
  /\ target \in [Txns -> SUBSET (Rows \cup Statuses)]
  /\ seen \in [Txns -> SUBSET Views]
  /\ row \in [Txns -> SUBSET Rows]
  /\ posted \in [Txns -> SUBSET Int]
  /\ written \in [Txns -> Writes]
  /\ todo \in [Txns -> Seq(Entities)]

\* Where a request of each kind may stand.
StatesOf(kind) ==
  CASE kind \in {"pay", "repost"} ->
         {"idle", "register", "tip", "status", "commit", "committed",
          "rolledback", "invoice_not_found"}
    [] kind = "reverse" ->
         {"idle", "reverse", "register", "tip", "mark", "status", "commit",
          "committed", "rolledback", "refused", "invoice_not_found"}
    [] kind = "edit" -> {"idle", "edit", "committed", "rolledback"}
    [] OTHER -> {"idle", "check", "remove", "commit", "committed", "rolledback",
                 "refused"}

IsPayment(t) == op[t].kind \in {"pay", "repost", "reverse"}

\* What a request has at hand where it stands.
HasRow(t) == IsPayment(t) /\ pc[t] \in {"register", "tip", "mark", "status", "commit"}
HasEvent(t) == IsPayment(t) /\ pc[t] \in {"mark", "status", "commit"}
HasTarget(t) ==
  /\ op[t].kind = "reverse"
  /\ pc[t] \in {"reverse", "register", "tip", "mark", "status", "commit"}

\* The row it inserted is the payment it was asked for, or the reversal of the
\* payment it looked at.
RowOK(t, p) ==
  /\ p.entity = op[t].entity
  /\ op[t].kind # "repost" => ~p.reversed
  /\ op[t].kind # "reverse" => p.value = op[t].amount /\ p.of = 0
  /\ op[t].kind = "reverse" =>
       p.value = -Magnitude(op[t].amount) /\ \A q \in target[t] : p.of = q.id

\* The payment it reverses is committed, though perhaps no longer as it was.
TargetOK(t, q) ==
  q \in Rows /\ \E p \in payments : p.id = q.id

RequestOK(t) ==
  /\ pc[t] \in StatesOf(op[t].kind)
  /\ \/ HasRow(t) /\ \E p \in Rows : row[t] = {p} /\ RowOK(t, p)
     \/ row[t] = {} /\ (~HasRow(t) \/ op[t].kind = "repost")
  /\ IF HasTarget(t) THEN \E q \in Rows : target[t] = {q} /\ TargetOK(t, q)
     ELSE IF pc[t] = "edit" THEN target[t] \subseteq Statuses ELSE target[t] = {}
  /\ posted[t] = IF HasEvent(t) THEN {DestinationAmount(Event(t))} ELSE {}
  /\ HasEvent(t) \/ pc[t] \in {"check", "remove"} => seen[t] # {}
  /\ IsPayment(t) /\ ~HasEvent(t) => seen[t] = {}
  /\ \/ DOMAIN written[t] = {}
     \/ IsPayment(t) /\ pc[t] = "commit" /\ DOMAIN written[t] = {op[t].entity}
     \/ op[t].kind = "delete" /\ pc[t] \in {"check", "remove", "commit"}
  /\ pc[t] \in {"check", "remove"} => todo[t] # <<>>

\* Ids are given out once.
IdsOK ==
  /\ \A p \in payments : p.id <= lastId /\ p.of <= lastId
  /\ \A p, q \in payments : p.id = q.id => p = q
  /\ \A t \in Txns : \A p \in row[t] : p.id <= lastId /\ p.of <= lastId
  /\ \A t \in Txns : op[t].kind # "repost" => \A p \in row[t] :
       /\ \A q \in payments : q.id # p.id
       /\ \A u \in Txns \ {t} : \A q \in row[u] : q.id # p.id

\* What is reversed is a payment.
ReversalsOK == \A q \in payments : q.of # 0 => \E p \in payments : p.id = q.of

OneHolder == \A t, u \in Txns : HoldsChain(t) /\ HoldsChain(u) => t = u

PaymentsInv ==
  /\ Typed
  /\ \A t \in Txns : RequestOK(t)
  /\ IdsOK
  /\ ReversalsOK
  /\ OneHolder
  /\ ReversedIsMarked
  /\ CashFollowsPayments

\* While entities are only paid and reversed, nobody else commits a payment
\* from the moment a request saw those of its entity until it commits, and the
\* status it is going to commit is the one they and its own row imply.
OnlyPaid == \A o \in Ops : o.kind \in {"pay", "reverse"}

ViewOK(t) ==
  HasEvent(t) =>
    /\ seen[t] = {[payments |-> payments, value |-> value]}
    /\ pc[t] = "commit" =>
         LET e == op[t].entity
         IN  /\ e \in DOMAIN written[t]
             /\ written[t][e] = StatusFrom(PaymentsOf(e, Overlay(payments, row[t])), value[e])

StatusInv == PaymentsInv /\ StatusFollowsPayments /\ \A t \in Txns : ViewOK(t)

-----------------------------------------------------------------------------
(* Total.                                                                  *)

\* Of the subsets of a finite set for which something is wrong, there is one
\* all smaller subsets of which are right.
LEMMA SmallestSubset ==
  ASSUME NEW S, IsFiniteSet(S), NEW B \in SUBSET SUBSET S, B # {}
  PROVE  \E T \in B : T \subseteq S /\ \A U \in SUBSET T : U # T => U \notin B
<1>1. PICK R : R = StrictSubsetOrdering(S)
  OBVIOUS
<1>2. FiniteSubsetsOf(S) = SUBSET S
  BY FS_FiniteSubsetsOfFinite
<1>3. IsWellFoundedOn(R, SUBSET S)
  BY <1>1, <1>2, FS_StrictSubsetOrderingWellFounded
<1>4. PICK T \in B : \A U \in B : <<U, T>> \notin R
  BY <1>3, WFMin
<1>5. ASSUME NEW U \in SUBSET T, U # T PROVE U \notin B
  <2>1. <<U, T>> \in R
    BY <1>1, <1>5 DEF StrictSubsetOrdering
  <2> QED
    BY <1>4, <2>1
<1> QED
  BY <1>4, <1>5

\* The element a fold over s takes first, and the function it defines.
First(s) == CHOOSE x \in s : TRUE
Sums(f, S) ==
  f = [s \in SUBSET S |->
         IF s = {} THEN 0 ELSE First(s).value + f[s \ {First(s)}]]

LEMMA TotalIsChosen ==
  ASSUME NEW S
  PROVE  Total(S) = (CHOOSE f : Sums(f, S))[S]
  BY DEF Total, MapThenSumSet, MapThenFoldSet, Sums, First

LEMMA FirstIn ==
  ASSUME NEW s, s # {}
  PROVE  First(s) \in s
  BY DEF First

\* There is at most one such function.
LEMMA SumsUnique ==
  ASSUME NEW S, IsFiniteSet(S), NEW f, NEW g, Sums(f, S), Sums(g, S)
  PROVE  f = g
<1>1. PICK B : B = {s \in SUBSET S : f[s] # g[s]}
  OBVIOUS
<1>2. ASSUME B # {} PROVE FALSE
  <2>1. PICK T \in B : T \subseteq S /\ \A U \in SUBSET T : U # T => U \notin B
    BY <1>1, <1>2, SmallestSubset
  <2>2. CASE T = {}
    BY <1>1, <2>1, <2>2 DEF Sums
  <2>3. CASE T # {}
    <3>1. PICK U : U = T \ {First(T)}
      OBVIOUS
    <3>2. U \in SUBSET T /\ U # T /\ U \in SUBSET S
      BY <2>1, <2>3, <3>1, FirstIn
    <3>3. f[U] = g[U]
      BY <1>1, <2>1, <3>2
    <3>4. f[T] = First(T).value + f[U] /\ g[T] = First(T).value + g[U]
      BY <2>1, <2>3, <3>1 DEF Sums
    <3> QED
      BY <1>1, <2>1, <3>3, <3>4
  <2> QED
    BY <2>2, <2>3
<1>3. \A s \in SUBSET S : f[s] = g[s]
  BY <1>1, <1>2
<1> QED
  BY <1>3 DEF Sums

\* Where there is one, it gives the totals of all the subsets.
LEMMA SumsGiveTotals ==
  ASSUME NEW S, IsFiniteSet(S), NEW f, Sums(f, S), NEW T \in SUBSET S
  PROVE  Total(T) = f[T]
<1>1. PICK g : g = [s \in SUBSET T |-> f[s]]
  OBVIOUS
<1>2. Sums(g, T)
  <2>1. ASSUME NEW s \in SUBSET T
        PROVE  g[s] = IF s = {} THEN 0 ELSE First(s).value + g[s \ {First(s)}]
    <3>1. s \in SUBSET S /\ s \ {First(s)} \in SUBSET T
      OBVIOUS
    <3>2. f[s] = IF s = {} THEN 0 ELSE First(s).value + f[s \ {First(s)}]
      BY <3>1 DEF Sums
    <3> QED
      BY <1>1, <3>1, <3>2
  <2> QED
    BY <1>1, <2>1 DEF Sums
<1>3. PICK h : h = CHOOSE k : Sums(k, T)
  OBVIOUS
<1>4. Sums(h, T) /\ IsFiniteSet(T)
  BY <1>2, <1>3, FS_Subset
<1>5. h = g
  BY <1>2, <1>4, SumsUnique
<1> QED
  BY <1>1, <1>3, <1>5, TotalIsChosen

\* There is one.
LEMMA SumsExist ==
  ASSUME NEW S, IsFiniteSet(S)
  PROVE  \E f : Sums(f, S)
<1>1. PICK B : B = {T \in SUBSET S : ~ \E f : Sums(f, T)}
  OBVIOUS
<1>2. ASSUME B # {} PROVE FALSE
  <2>0. B \in SUBSET SUBSET S
    BY <1>1
  <2>1. PICK T \in B : T \subseteq S /\ \A U \in SUBSET T : U # T => U \notin B
    BY <1>2, <2>0, SmallestSubset
  <2>2. PICK f : f = [s \in SUBSET T |->
                        IF s = {} THEN 0 ELSE First(s).value + Total(s \ {First(s)})]
    OBVIOUS
  <2>3. ASSUME NEW U \in SUBSET T, U # T
        PROVE  Total(U) = f[U]
    <3>1. IsFiniteSet(U)
      BY <2>1, FS_Subset
    <3>2. PICK g : Sums(g, U)
      BY <1>1, <2>1, <2>3
    <3>3. Total(U) = g[U]
      BY <3>1, <3>2, SumsGiveTotals
    <3>4. CASE U = {}
      BY <2>2, <3>2, <3>3, <3>4 DEF Sums
    <3>5. CASE U # {}
      <4>1. PICK V : V = U \ {First(U)}
        OBVIOUS
      <4>2. Total(V) = g[V]
        BY <3>1, <3>2, <4>1, SumsGiveTotals
      <4>3. g[U] = First(U).value + g[V]
        BY <3>2, <3>5, <4>1 DEF Sums
      <4> QED
        BY <2>2, <3>3, <3>5, <4>1, <4>2, <4>3
    <3> QED
      BY <3>4, <3>5
  <2>4. ASSUME NEW s \in SUBSET T
        PROVE  f[s] = IF s = {} THEN 0 ELSE First(s).value + f[s \ {First(s)}]
    <3>1. CASE s = {}
      BY <2>2, <3>1
    <3>2. CASE s # {}
      <4>1. s \ {First(s)} \in SUBSET T /\ s \ {First(s)} # T
        BY <3>2, FirstIn
      <4>2. Total(s \ {First(s)}) = f[s \ {First(s)}]
        BY <2>3, <4>1
      <4> QED
        BY <2>2, <3>2, <4>2
    <3> QED
      BY <3>1, <3>2
  <2>5. Sums(f, T)
    BY <2>2, <2>4 DEF Sums
  <2> QED
    BY <1>1, <2>1, <2>5
<1> QED
  BY <1>1, <1>2

\* A total, one element after the other.
LEMMA TotalStep ==
  ASSUME NEW S, IsFiniteSet(S)
  PROVE  /\ S = {} => Total(S) = 0
         /\ S # {} => Total(S) = First(S).value + Total(S \ {First(S)})
<1>1. PICK f : Sums(f, S)
  BY SumsExist
<1>2. Total(S) = f[S] /\ Total(S \ {First(S)}) = f[S \ {First(S)}]
  BY <1>1, SumsGiveTotals
<1> QED
  BY <1>1, <1>2 DEF Sums

Valued(S) == IsFiniteSet(S) /\ \A x \in S : x.value \in Int

LEMMA ValuedSubset ==
  ASSUME NEW S, Valued(S), NEW T \in SUBSET S
  PROVE  Valued(T)
  BY FS_Subset DEF Valued

LEMMA TotalType ==
  ASSUME NEW S, Valued(S)
  PROVE  Total(S) \in Int
<1>1. PICK B : B = {T \in SUBSET S : Total(T) \notin Int}
  OBVIOUS
<1>2. ASSUME B # {} PROVE FALSE
  <2>0. B \in SUBSET SUBSET S /\ IsFiniteSet(S)
    BY <1>1 DEF Valued
  <2>1. PICK T \in B : T \subseteq S /\ \A U \in SUBSET T : U # T => U \notin B
    BY <1>2, <2>0, SmallestSubset
  <2>2. IsFiniteSet(T)
    BY <2>0, <2>1, FS_Subset
  <2>3. CASE T = {}
    <3>1. Total(T) = 0
      BY <2>2, <2>3, TotalStep
    <3>2. Total(T) \notin Int
      BY <1>1, <2>1
    <3> QED
      BY <3>1, <3>2
  <2>4. CASE T # {}
    <3>1. PICK U : U = T \ {First(T)}
      OBVIOUS
    <3>2. U \in SUBSET S /\ U \in SUBSET T /\ U # T /\ First(T).value \in Int
      BY <2>1, <2>4, <3>1, FirstIn DEF Valued
    <3>3. Total(U) \in Int
      BY <1>1, <2>1, <3>2
    <3>4. Total(T) = First(T).value + Total(U)
      BY <2>2, <2>4, <3>1, TotalStep
    <3> QED
      BY <1>1, <2>1, <3>2, <3>3, <3>4
  <2> QED
    BY <2>3, <2>4
<1> QED
  BY <1>1, <1>2

\* Any element may be taken first.
LEMMA TotalRemove ==
  ASSUME NEW S, Valued(S), NEW x \in S
  PROVE  Total(S) = x.value + Total(S \ {x})
<1>1. PICK B : B = {T \in SUBSET S : \E y \in T : Total(T) # y.value + Total(T \ {y})}
  OBVIOUS
<1>2. ASSUME B # {} PROVE FALSE
  <2>0. B \in SUBSET SUBSET S /\ IsFiniteSet(S)
    BY <1>1 DEF Valued
  <2>1. PICK T \in B : T \subseteq S /\ \A U \in SUBSET T : U # T => U \notin B
    BY <1>2, <2>0, SmallestSubset
  <2>2. PICK y \in T : Total(T) # y.value + Total(T \ {y})
    BY <1>1, <2>1
  <2>3. IsFiniteSet(T) /\ T # {}
    BY <2>0, <2>1, <2>2, FS_Subset
  <2>4. PICK z : z = First(T)
    OBVIOUS
  <2>5. z \in T /\ Total(T) = z.value + Total(T \ {z})
    BY <2>3, <2>4, FirstIn, TotalStep
  <2>6. z # y
    BY <2>2, <2>5
  <2>7. PICK V : V = T \ {y, z}
    OBVIOUS
  <2>8. /\ T \ {z} \in SUBSET T /\ T \ {z} # T /\ T \ {z} \notin B
        /\ T \ {y} \in SUBSET T /\ T \ {y} # T /\ T \ {y} \notin B
    BY <2>1, <2>2, <2>5
  <2>9. /\ y \in T \ {z} /\ (T \ {z}) \ {y} = V
        /\ z \in T \ {y} /\ (T \ {y}) \ {z} = V
        /\ T \ {y} \in SUBSET S /\ T \ {z} \in SUBSET S
    BY <2>1, <2>2, <2>5, <2>6, <2>7
  <2>10. Total(T \ {z}) = y.value + Total(V)
    BY <1>1, <2>8, <2>9
  <2>11. Total(T \ {y}) = z.value + Total(V)
    BY <1>1, <2>8, <2>9
  <2>12. Total(V) \in Int /\ y.value \in Int /\ z.value \in Int
    <3>1. V \in SUBSET S
      BY <2>1, <2>7
    <3>2. Valued(V)
      BY <3>1, ValuedSubset
    <3> QED
      BY <3>2, <2>1, <2>5, TotalType DEF Valued
  <2> QED
    BY <2>2, <2>5, <2>10, <2>11, <2>12
<1>3. S \notin B
  BY <1>2
<1> QED
  BY <1>1, <1>3

\* A new element adds its value.
LEMMA TotalAdd ==
  ASSUME NEW S, Valued(S), NEW x, x \notin S, x.value \in Int
  PROVE  Total(S \cup {x}) = x.value + Total(S) /\ Valued(S \cup {x})
<1>1. Valued(S \cup {x})
  BY FS_AddElement DEF Valued
<1>2. (S \cup {x}) \ {x} = S /\ x \in S \cup {x}
  OBVIOUS
<1>3. Total(S \cup {x}) = x.value + Total((S \cup {x}) \ {x})
  BY <1>1, <1>2, TotalRemove
<1> QED
  BY <1>1, <1>2, <1>3

\* Elements may be replaced, one by one, by others of the same value.
LEMMA TotalSameValues ==
  ASSUME NEW S, Valued(S), NEW f,
         \A x \in S : f[x].value = x.value,
         \A x, y \in S : f[x] = f[y] => x = y
  PROVE  Total({f[x] : x \in S}) = Total(S)
<1>1. PICK B : B = {T \in SUBSET S : Total({f[x] : x \in T}) # Total(T)}
  OBVIOUS
<1>2. ASSUME B # {} PROVE FALSE
  <2>0. B \in SUBSET SUBSET S /\ IsFiniteSet(S)
    BY <1>1 DEF Valued
  <2>1. PICK T \in B : T \subseteq S /\ \A U \in SUBSET T : U # T => U \notin B
    BY <1>2, <2>0, SmallestSubset
  <2>2. Valued(T)
    BY <2>1, ValuedSubset
  <2>3. CASE T = {}
    <3>1. {f[x] : x \in T} = T
      BY <2>3
    <3> QED
      BY <1>1, <2>1, <3>1
  <2>4. CASE T # {}
    <3>1. PICK y \in T : TRUE
      BY <2>4
    <3>2. PICK U : U = T \ {y}
      OBVIOUS
    <3>3. PICK image : image = {f[x] : x \in U}
      OBVIOUS
    <3>4. U \in SUBSET T /\ U # T /\ U \in SUBSET S /\ y \in S
      BY <2>1, <3>1, <3>2
    <3>5. Total(image) = Total(U)
      BY <1>1, <2>1, <3>3, <3>4
    <3>6. {f[x] : x \in T} = image \cup {f[y]} /\ f[y] \notin image
      BY <3>1, <3>2, <3>3, <3>4
    <3>7. Valued(image)
      <4>1. IsFiniteSet(U)
        BY <2>2, <3>4, FS_Subset DEF Valued
      <4>2. PICK g : g = [x \in U |-> f[x]]
        OBVIOUS
      <4>3. g \in [U -> image] /\ \A z \in image : \E x \in U : g[x] = z
        BY <3>3, <4>2
      <4>4. g \in Surjection(U, image)
        BY <4>3 DEF Surjection
      <4>5. IsFiniteSet(image)
        BY <4>1, <4>4, FS_Surjection
      <4>6. \A z \in image : z.value \in Int
        BY <3>3, <3>4 DEF Valued
      <4> QED
        BY <4>5, <4>6 DEF Valued
    <3>8. f[y].value = y.value /\ y.value \in Int
      BY <3>4 DEF Valued
    <3>9. Total(image \cup {f[y]}) = y.value + Total(image)
      BY <3>6, <3>7, <3>8, TotalAdd
    <3>10. Total(T) = y.value + Total(U)
      BY <2>2, <3>1, <3>2, TotalRemove
    <3> QED
      BY <1>1, <2>1, <3>5, <3>6, <3>9, <3>10
  <2> QED
    BY <2>3, <2>4
<1>3. S \notin B
  BY <1>2
<1> QED
  BY <1>1, <1>3

-----------------------------------------------------------------------------
(* Requests.                                                               *)

\* What a step of t leaves alone.
OthersKept(t) ==
  \A u \in Txns \ {t} :
    /\ pc'[u] = pc[u] /\ target'[u] = target[u] /\ seen'[u] = seen[u]
    /\ row'[u] = row[u] /\ posted'[u] = posted[u] /\ written'[u] = written[u]
    /\ todo'[u] = todo[u]

LEMMA OpType ==
  ASSUME Typed, NEW t \in Txns
  PROVE  /\ op[t].kind \in {"pay", "repost", "reverse", "edit", "delete"}
         /\ op[t].entity \in Entities /\ op[t].amount \in Int
         /\ op[t].series \in Seq(Entities)
         /\ op[t].kind \in {"pay", "repost"} \/ op[t].amount \in Nat
         /\ op[t].kind = "delete" => op[t].series # <<>>
         /\ KindOf[op[t].entity] \in PaymentTypes
  BY OpsAssumption, KindAssumption DEF Typed, Operations

\* What a request is that stands where it stands.
LEMMA KindAt ==
  ASSUME PaymentsInv, NEW t \in Txns
  PROVE  /\ pc[t] \in {"register", "tip", "status"} => IsPayment(t)
         /\ pc[t] \in {"reverse", "mark"} => op[t].kind = "reverse"
         /\ pc[t] \in {"check", "remove"} => op[t].kind = "delete"
         /\ pc[t] = "edit" => op[t].kind = "edit"
         /\ pc[t] = "commit" => IsPayment(t) \/ op[t].kind = "delete"
<1>1. op[t].kind \in {"pay", "repost", "reverse", "edit", "delete"} /\ pc[t] \in StatesOf(op[t].kind)
  BY OpType DEF PaymentsInv, RequestOK
<1> QED
  BY <1>1 DEF StatesOf, IsPayment

\* The others stay as they are, as long as the payments they reverse stay.
LEMMA OtherRequest ==
  ASSUME PaymentsInv, NEW t \in Txns, OthersKept(t), op' = op,
         \A p \in payments : \E q \in payments' : q.id = p.id,
         NEW u \in Txns \ {t}
  PROVE  RequestOK(u)'
<1>1. /\ pc'[u] = pc[u] /\ target'[u] = target[u] /\ seen'[u] = seen[u]
      /\ row'[u] = row[u] /\ posted'[u] = posted[u] /\ written'[u] = written[u]
      /\ todo'[u] = todo[u]
  BY DEF OthersKept
<1>2. /\ IsPayment(u)' = IsPayment(u) /\ HasRow(u)' = HasRow(u)
      /\ HasEvent(u)' = HasEvent(u) /\ HasTarget(u)' = HasTarget(u) /\ Event(u)' = Event(u)
  BY <1>1 DEF IsPayment, HasRow, HasEvent, HasTarget, Event
<1>3. RequestOK(u)
  BY DEF PaymentsInv
<1>4. ASSUME NEW p, RowOK(u, p) PROVE RowOK(u, p)'
  BY <1>1, <1>4 DEF RowOK
<1>5. ASSUME NEW q, TargetOK(u, q) PROVE TargetOK(u, q)'
  BY <1>5 DEF TargetOK
<1>6. \/ HasRow(u)' /\ \E p \in Rows : row'[u] = {p} /\ RowOK(u, p)'
      \/ row'[u] = {} /\ (~HasRow(u)' \/ op'[u].kind = "repost")
  BY <1>1, <1>2, <1>3, <1>4 DEF RequestOK
<1>7. IF HasTarget(u)' THEN \E q \in Rows : target'[u] = {q} /\ TargetOK(u, q)'
      ELSE IF pc'[u] = "edit" THEN target'[u] \subseteq Statuses ELSE target'[u] = {}
  BY <1>1, <1>2, <1>3, <1>5 DEF RequestOK
<1> QED
  BY <1>1, <1>2, <1>3, <1>6, <1>7 DEF RequestOK

\* A step of t that commits no payment only has to keep what is said of t, to
\* give a new row a new id or, if the client sent one, that of a payment, and to
\* register its event when no one else has one.
LEMMA LocalKeeps ==
  ASSUME PaymentsInv, NEW t \in Txns, OthersKept(t), op' = op,
         payments' = payments, cash' = cash, Typed', RequestOK(t)',
         lastId' >= lastId,
         \A p \in row'[t] :
           \/ p \in row[t]
           \/ p.id = lastId + 1 /\ p.id <= lastId' /\ p.of <= lastId'
           \/ /\ op[t].kind = "repost" /\ p.of <= lastId'
              /\ \E q \in payments : q.id = p.id,
         posted'[t] # {} => posted[t] # {} \/ \A u \in Txns \ {t} : ~HoldsChain(u)
  PROVE  PaymentsInv'
<1>0. Typed
  BY DEF PaymentsInv
<1>1. \A u \in Txns : RequestOK(u)'
  BY OtherRequest
<1>2. IdsOK'
  <2>1. lastId \in Nat /\ lastId' \in Nat
    BY <1>0 DEF Typed
  <2>2. \A p \in payments : p.id \in Nat /\ p.of \in Nat
    BY <1>0 DEF Typed, Rows
  <2>3. \A u \in Txns : \A p \in row[u] : p.id \in Nat /\ p.of \in Nat
    BY <1>0 DEF Typed, Rows
  <2>4. \A u \in Txns \ {t} : row'[u] = row[u]
    BY DEF OthersKept
  <2>5. ASSUME NEW p \in row'[t]
        PROVE  p.id <= lastId' /\ p.of <= lastId'
    <3>1. CASE p \in row[t]
      BY <2>1, <2>3, <3>1 DEF PaymentsInv, IdsOK
    <3>2. CASE \E q \in payments : q.id = p.id /\ p.of <= lastId'
      BY <2>1, <2>2, <3>2 DEF PaymentsInv, IdsOK
    <3> QED
      BY <2>5, <3>1, <3>2
  <2>6. ASSUME NEW p \in row'[t], op[t].kind # "repost"
        PROVE  /\ \A q \in payments : q.id # p.id
               /\ \A u \in Txns \ {t} : \A q \in row[u] : q.id # p.id
    <3>1. CASE p \in row[t]
      BY <2>6, <3>1 DEF PaymentsInv, IdsOK
    <3>2. CASE p.id = lastId + 1
      <4>1. \A q \in payments : q.id <= lastId
        BY DEF PaymentsInv, IdsOK
      <4>2. \A u \in Txns : \A q \in row[u] : q.id <= lastId
        BY DEF PaymentsInv, IdsOK
      <4> QED
        BY <2>1, <2>2, <2>3, <3>2, <4>1, <4>2
    <3> QED
      BY <2>6, <3>1, <3>2
  <2>7. \A p \in payments' : p.id <= lastId' /\ p.of <= lastId'
    BY <2>1, <2>2 DEF PaymentsInv, IdsOK
  <2>8. \A p, q \in payments' : p.id = q.id => p = q
    BY DEF PaymentsInv, IdsOK
  <2>9. ASSUME NEW u \in Txns \ {t}, NEW p \in row'[u]
        PROVE  p.id <= lastId' /\ p.of <= lastId'
    BY <2>1, <2>3, <2>4 DEF PaymentsInv, IdsOK
  <2>10. ASSUME NEW u \in Txns \ {t}, NEW p \in row'[u], op[u].kind # "repost"
         PROVE  /\ \A q \in payments' : q.id # p.id
                /\ \A v \in Txns \ {u} : \A q \in row'[v] : q.id # p.id
    <3>1. p \in row[u]
      BY <2>4
    <3>2. \A q \in payments : q.id # p.id
      BY <2>10, <3>1 DEF PaymentsInv, IdsOK
    <3>3. ASSUME NEW q \in row'[t] PROVE q.id # p.id
      <4>1. CASE q \in row[t]
        BY <2>10, <3>1, <4>1 DEF PaymentsInv, IdsOK
      <4>2. CASE q.id = lastId + 1
        <5>1. p.id <= lastId /\ p.id \in Nat
          BY <2>3, <3>1 DEF PaymentsInv, IdsOK
        <5> QED
          BY <2>1, <4>2, <5>1
      <4>3. CASE \E x \in payments : x.id = q.id
        BY <3>2, <4>3
      <4> QED
        BY <4>1, <4>2, <4>3
    <3>4. \A v \in Txns \ {u} : v # t => \A q \in row'[v] : q.id # p.id
      BY <2>4, <2>10, <3>1 DEF PaymentsInv, IdsOK
    <3> QED
      BY <3>2, <3>3, <3>4
  <2>11. \A u \in Txns : \A p \in row'[u] : p.id <= lastId' /\ p.of <= lastId'
    BY <2>5, <2>9
  <2>12. \A u \in Txns : op'[u].kind # "repost" => \A p \in row'[u] :
           /\ \A q \in payments' : q.id # p.id
           /\ \A v \in Txns \ {u} : \A q \in row'[v] : q.id # p.id
    BY <2>4, <2>6, <2>10
  <2> QED
    BY <2>7, <2>8, <2>11, <2>12 DEF IdsOK
<1>3. OneHolder'
  BY DEF PaymentsInv, OneHolder, HoldsChain, OthersKept
<1>4. ReversalsOK' /\ ReversedIsMarked'
  BY DEF PaymentsInv, ReversalsOK, ReversedIsMarked, NoReposts
<1>5. CashFollowsPayments'
  BY DEF PaymentsInv, CashFollowsPayments, CommittedPaymentsOf, NoReposts, NoNegatives
<1> QED
  BY <1>1, <1>2, <1>3, <1>4, <1>5 DEF PaymentsInv

LEMMA NothingWritten == Nothing \in Writes /\ DOMAIN Nothing = {}
<1>1. Nothing \in [{} -> Statuses] /\ DOMAIN Nothing = {}
  BY DEF Nothing
<1>2. {} \in SUBSET Entities
  OBVIOUS
<1> QED
  BY <1>1, <1>2 DEF Writes

LEMMA NoPayments ==
  /\ Total({}) = 0 /\ IsFiniteSet({})
  /\ \A e : PaymentsOf(e, {}) = {}
<1>1. IsFiniteSet({})
  BY FS_EmptySet
<1>2. \A e : PaymentsOf(e, {}) = {}
  BY DEF PaymentsOf
<1> QED
  BY <1>1, <1>2, TotalStep

LEMMA InitPayments == Init => PaymentsInv
<1> SUFFICES ASSUME Init PROVE PaymentsInv
  OBVIOUS
<1>1. Typed
  <2>1. written \in [Txns -> Writes]
    BY NothingWritten DEF Init
  <2>2. value \in [Entities -> Nat]
    BY ValueAssumption DEF Init
  <2>3. <<>> \in Seq(Entities)
    OBVIOUS
  <2>4. todo \in [Txns -> Seq(Entities)]
    BY <2>3 DEF Init
  <2>5. /\ target \in [Txns -> SUBSET (Rows \cup Statuses)]
        /\ seen \in [Txns -> SUBSET Views]
        /\ row \in [Txns -> SUBSET Rows]
        /\ posted \in [Txns -> SUBSET Int]
    BY DEF Init
  <2>6. pc \in [Txns -> States] /\ status \in [Entities -> Statuses]
    BY DEF Init, States, Statuses
  <2>7. cash \in [Entities -> Int] /\ lastId \in Nat /\ payments \subseteq Rows
    BY DEF Init
  <2>8. IsFiniteSet(payments)
    BY NoPayments DEF Init
  <2>9. op \in [Txns -> Ops]
    BY DEF Init
  <2> QED
    BY <2>1, <2>2, <2>4, <2>5, <2>6, <2>7, <2>8, <2>9 DEF Typed
<1>2. ASSUME NEW t \in Txns PROVE RequestOK(t)
  <2>1. /\ pc[t] = "idle" /\ target[t] = {} /\ seen[t] = {} /\ row[t] = {}
        /\ posted[t] = {} /\ written[t] = Nothing
    BY DEF Init
  <2>2. ~HasRow(t) /\ ~HasEvent(t) /\ ~HasTarget(t)
    BY <2>1 DEF HasRow, HasEvent, HasTarget
  <2>3. "idle" \in StatesOf(op[t].kind)
    BY <1>1, OpType DEF StatesOf
  <2> QED
    BY <2>1, <2>2, <2>3, NothingWritten DEF RequestOK
<1>3. IdsOK /\ ReversalsOK /\ OneHolder /\ ReversedIsMarked
  BY DEF Init, IdsOK, ReversalsOK, OneHolder, HoldsChain, ReversedIsMarked
<1>4. CashFollowsPayments
  <2>1. \A e \in Entities : cash[e] = 0 /\ CommittedPaymentsOf(e) = {}
    BY NoPayments DEF Init, CommittedPaymentsOf
  <2>2. \A e \in Entities : Total(CommittedPaymentsOf(e)) = 0
    BY <2>1, NoPayments
  <2>3. (\A n \in Int : -n = 0 - n) /\ 0 - 0 = 0
    OBVIOUS
  <2> QED
    BY <2>1, <2>2, <2>3 DEF CashFollowsPayments
<1> QED
  BY <1>1, <1>2, <1>3, <1>4 DEF PaymentsInv

\* A request that ends has nothing any more.
LEMMA EndFacts ==
  ASSUME Typed, NEW t \in Txns,
         NEW outcome \in {"committed", "rolledback", "refused", "invoice_not_found"},
         End(t, outcome), op' = op, outcome \in StatesOf(op[t].kind)
  PROVE  /\ OthersKept(t) /\ RequestOK(t)' /\ row'[t] = {} /\ posted'[t] = {}
         /\ pc' \in [Txns -> States]
         /\ target' \in [Txns -> SUBSET (Rows \cup Statuses)]
         /\ seen' \in [Txns -> SUBSET Views]
         /\ row' \in [Txns -> SUBSET Rows]
         /\ posted' \in [Txns -> SUBSET Int]
         /\ written' \in [Txns -> Writes]
         /\ todo' \in [Txns -> Seq(Entities)]
<1>1. /\ pc' = [pc EXCEPT ![t] = outcome] /\ target' = [target EXCEPT ![t] = {}]
      /\ seen' = [seen EXCEPT ![t] = {}] /\ row' = [row EXCEPT ![t] = {}]
      /\ posted' = [posted EXCEPT ![t] = {}] /\ written' = [written EXCEPT ![t] = Nothing]
      /\ todo' = [todo EXCEPT ![t] = <<>>]
  BY DEF End, Goto
<1>2. pc' \in [Txns -> States] /\ pc'[t] = outcome /\ \A u \in Txns \ {t} : pc'[u] = pc[u]
  BY <1>1 DEF Typed, States
<1>3. /\ target' \in [Txns -> SUBSET (Rows \cup Statuses)] /\ target'[t] = {}
      /\ \A u \in Txns \ {t} : target'[u] = target[u]
  BY <1>1 DEF Typed
<1>4. /\ seen' \in [Txns -> SUBSET Views] /\ seen'[t] = {}
      /\ row' \in [Txns -> SUBSET Rows] /\ row'[t] = {}
      /\ posted' \in [Txns -> SUBSET Int] /\ posted'[t] = {}
      /\ \A u \in Txns \ {t} : seen'[u] = seen[u] /\ row'[u] = row[u] /\ posted'[u] = posted[u]
  BY <1>1 DEF Typed
<1>5. /\ written' \in [Txns -> Writes] /\ written'[t] = Nothing
      /\ \A u \in Txns \ {t} : written'[u] = written[u]
  BY <1>1, NothingWritten DEF Typed
<1>6. /\ todo' \in [Txns -> Seq(Entities)]
      /\ \A u \in Txns \ {t} : todo'[u] = todo[u]
  BY <1>1 DEF Typed
<1>7. OthersKept(t)
  BY <1>2, <1>3, <1>4, <1>5, <1>6 DEF OthersKept
<1>8. RequestOK(t)'
  <2>1. ~HasRow(t)' /\ ~HasEvent(t)' /\ ~HasTarget(t)'
    BY <1>2 DEF HasRow, HasEvent, HasTarget
  <2> QED
    BY <1>2, <1>3, <1>4, <1>5, <2>1, NothingWritten DEF RequestOK
<1> QED
  BY <1>2, <1>3, <1>4, <1>5, <1>6, <1>7, <1>8

LEMMA EndKeeps ==
  ASSUME PaymentsInv, NEW t \in Txns,
         NEW outcome \in {"committed", "rolledback", "refused", "invoice_not_found"},
         End(t, outcome), op' = op, outcome \in StatesOf(op[t].kind),
         payments' = payments, cash' = cash, lastId' = lastId,
         status' \in [Entities -> Statuses], value' \in [Entities -> Nat]
  PROVE  PaymentsInv'
<1>0. Typed
  BY DEF PaymentsInv
<1>1. /\ OthersKept(t) /\ RequestOK(t)' /\ row'[t] = {} /\ posted'[t] = {}
  BY <1>0, EndFacts
<1>2. Typed'
  BY <1>0, EndFacts DEF Typed
<1>3. lastId' >= lastId
  BY <1>0 DEF Typed
<1> QED
  BY <1>1, <1>2, <1>3, LocalKeeps

LEMMA FailPayments ==
  ASSUME PaymentsInv, NEW t \in Txns, Fail(t)
  PROVE  PaymentsInv'
<1>1. /\ End(t, "rolledback") /\ op' = op /\ payments' = payments /\ cash' = cash
      /\ lastId' = lastId /\ status' = status /\ value' = value
  BY DEF Fail, database
<1>2. "rolledback" \in StatesOf(op[t].kind)
  BY DEF StatesOf
<1> QED
  BY <1>1, <1>2, EndKeeps DEF PaymentsInv, Typed

LEMMA InvoiceNotFoundPayments ==
  ASSUME PaymentsInv, NEW t \in Txns, InvoiceNotFound(t)
  PROVE  PaymentsInv'
<1>1. /\ End(t, "invoice_not_found") /\ op' = op /\ payments' = payments /\ cash' = cash
      /\ lastId' = lastId /\ status' = status /\ value' = value /\ pc[t] = "status"
  BY DEF InvoiceNotFound, database
<1>2. "invoice_not_found" \in StatesOf(op[t].kind)
  BY <1>1, KindAt DEF StatesOf, IsPayment
<1> QED
  BY <1>1, <1>2, EndKeeps DEF PaymentsInv, Typed

LEMMA SaveFormPayments ==
  ASSUME PaymentsInv, NEW t \in Txns, SaveForm(t)
  PROVE  PaymentsInv'
<1>1. /\ End(t, "committed") /\ op' = op /\ payments' = payments /\ cash' = cash
      /\ lastId' = lastId /\ pc[t] = "edit"
      /\ value' = [value EXCEPT ![op[t].entity] = op[t].amount]
  BY DEF SaveForm
<1>2. PICK old \in target[t] : status' = [status EXCEPT ![op[t].entity] = old]
  BY DEF SaveForm
<1>3. op[t].kind = "edit" /\ RequestOK(t)
  BY <1>1, KindAt DEF PaymentsInv
<1>4. Typed /\ op[t].entity \in Entities /\ op[t].amount \in Nat
  BY <1>3, OpType DEF PaymentsInv
<1>5. "committed" \in StatesOf(op[t].kind) /\ ~HasTarget(t)
  BY <1>3 DEF StatesOf, HasTarget
<1>6. old \in Statuses
  BY <1>1, <1>2, <1>3, <1>5 DEF RequestOK
<1>7. status' \in [Entities -> Statuses] /\ value' \in [Entities -> Nat]
  BY <1>1, <1>2, <1>4, <1>6 DEF Typed
<1> QED
  BY <1>1, <1>5, <1>7, EndKeeps

\* A request moves on: whatever it has at hand afterwards is as it should be.
LEMMA SavePaymentPayments ==
  ASSUME PaymentsInv, NEW t \in Txns, SavePayment(t)
  PROVE  PaymentsInv'
<1>0. Typed /\ RequestOK(t)
  BY DEF PaymentsInv
<1>1. PICK new : new = NewRow(t, op[t].entity, op[t].amount, 0)
  OBVIOUS
<1>2. /\ pc[t] = "idle" /\ op[t].kind = "pay" /\ pc' = [pc EXCEPT ![t] = "register"]
      /\ row' = [row EXCEPT ![t] = {new}] /\ lastId' = lastId + 1
      /\ payments' = payments /\ status' = status /\ value' = value /\ cash' = cash
      /\ op' = op /\ target' = target /\ seen' = seen /\ posted' = posted
      /\ written' = written /\ todo' = todo
  BY <1>1 DEF SavePayment, InsertPayment, Goto, database
<1>3. op[t].entity \in Entities /\ op[t].amount \in Int /\ lastId \in Nat
  BY <1>0, OpType DEF Typed
<1>4. /\ new \in Rows /\ new.id = lastId + 1 /\ new.of = 0 /\ new.entity = op[t].entity
      /\ new.value = op[t].amount /\ ~new.reversed
  BY <1>1, <1>3 DEF NewRow, Rows
<1>5. /\ pc' \in [Txns -> States] /\ pc'[t] = "register"
      /\ row' \in [Txns -> SUBSET Rows] /\ row'[t] = {new}
      /\ \A u \in Txns \ {t} : pc'[u] = pc[u] /\ row'[u] = row[u]
  BY <1>0, <1>2, <1>4 DEF Typed, States
<1>6. Typed'
  BY <1>0, <1>2, <1>3, <1>5 DEF Typed
<1>7. OthersKept(t)
  BY <1>2, <1>5 DEF OthersKept
<1>8. RequestOK(t)'
  <2>1. HasRow(t)' /\ ~HasEvent(t)' /\ ~HasTarget(t)' /\ IsPayment(t)
        /\ ~HasEvent(t) /\ ~HasTarget(t)
    BY <1>2, <1>5 DEF HasRow, HasEvent, HasTarget, IsPayment
  <2>2. RowOK(t, new)'
    BY <1>2, <1>4 DEF RowOK
  <2>3. "register" \in StatesOf("pay")
    BY DEF StatesOf
  <2>4. DOMAIN written[t] = {}
    BY <1>0, <1>2 DEF RequestOK
  <2> QED
    BY <1>0, <1>2, <1>4, <1>5, <2>1, <2>2, <2>3, <2>4 DEF RequestOK, IsPayment
<1>9. /\ lastId' >= lastId
      /\ \A p \in row'[t] : p.id = lastId + 1 /\ p.id <= lastId' /\ p.of <= lastId'
  BY <1>2, <1>3, <1>4, <1>5
<1>10. posted'[t] # {} => posted[t] # {}
  BY <1>2
<1> QED
  BY <1>2, <1>6, <1>7, <1>8, <1>9, <1>10, LocalKeeps

LEMMA SaveRepostedPayments ==
  ASSUME PaymentsInv, NEW t \in Txns, SaveReposted(t)
  PROVE  PaymentsInv'
<1>0. Typed /\ RequestOK(t) /\ IdsOK
  BY DEF PaymentsInv
<1>1. op[t].entity \in Entities /\ op[t].amount \in Int /\ lastId \in Nat
  BY <1>0, OpType DEF Typed
<1>2. PICK sent :
        /\ \E reversed \in BOOLEAN :
             sent = [NewRow(t, op[t].entity, op[t].amount, 0) EXCEPT !.reversed = reversed]
        /\ \/ InsertPayment(t, sent)
           \/ \E p \in payments : OverwritePayment(t, {[sent EXCEPT !.id = p.id]})
           \/ OverwritePayment(t, {})
  BY DEF SaveReposted
<1>3. \E reversed \in BOOLEAN :
        sent = [id |-> lastId + 1, entity |-> op[t].entity, value |-> op[t].amount,
                reversed |-> reversed, of |-> 0]
  BY <1>2 DEF NewRow
<1>4. PICK rows \in SUBSET Rows, last \in Nat :
        /\ pc' = [pc EXCEPT ![t] = "register"]
        /\ row' = [row EXCEPT ![t] = rows] /\ lastId' = last /\ last >= lastId
        /\ \/ rows = {}
           \/ \E new \in Rows :
                /\ rows = {new} /\ new.of = 0 /\ new.entity = op[t].entity
                /\ new.value = op[t].amount
                /\ \/ new.id = lastId + 1 /\ last = lastId + 1
                   \/ \E q \in payments : q.id = new.id
  <2>1. CASE InsertPayment(t, sent)
    <3>1. /\ sent \in Rows /\ sent.of = 0 /\ sent.entity = op[t].entity
          /\ sent.value = op[t].amount /\ sent.id = lastId + 1
      BY <1>1, <1>3 DEF Rows
    <3>2. lastId + 1 \in Nat /\ lastId + 1 >= lastId
      BY <1>1
    <3> QED
      BY <2>1, <3>1, <3>2 DEF InsertPayment, Goto
  <2>2. CASE \E p \in payments : OverwritePayment(t, {[sent EXCEPT !.id = p.id]})
    <3>1. PICK new : /\ OverwritePayment(t, {new})
                     /\ \E p \in payments : new = [sent EXCEPT !.id = p.id]
      BY <2>2
    <3>2. PICK p \in payments : new = [sent EXCEPT !.id = p.id] /\ p.id \in Nat \ {0}
      BY <1>0, <3>1 DEF Typed, Rows
    <3>3. /\ new \in Rows /\ new.of = 0 /\ new.entity = op[t].entity
          /\ new.value = op[t].amount /\ new.id = p.id
      BY <1>1, <1>3, <3>2 DEF Rows
    <3>4. /\ pc' = [pc EXCEPT ![t] = "register"] /\ row' = [row EXCEPT ![t] = {new}]
          /\ lastId' = lastId /\ lastId >= lastId /\ {new} \in SUBSET Rows
          /\ \E q \in payments : q.id = new.id
      BY <1>1, <3>1, <3>2, <3>3 DEF OverwritePayment, Goto
    <3> QED
      BY <1>1, <3>3, <3>4
  <2>3. CASE OverwritePayment(t, {})
    <3>1. /\ pc' = [pc EXCEPT ![t] = "register"] /\ row' = [row EXCEPT ![t] = {}]
          /\ lastId' = lastId /\ lastId >= lastId /\ {} \in SUBSET Rows
      BY <1>1, <2>3 DEF OverwritePayment, Goto
    <3> QED
      BY <1>1, <3>1
  <2> QED
    BY <1>2, <2>1, <2>2, <2>3
<1>5. /\ pc[t] = "idle" /\ op[t].kind = "repost"
      /\ payments' = payments /\ status' = status /\ value' = value /\ cash' = cash
      /\ op' = op /\ target' = target /\ seen' = seen /\ posted' = posted
      /\ written' = written /\ todo' = todo
  BY DEF SaveReposted, database
<1>6. /\ pc' \in [Txns -> States] /\ pc'[t] = "register"
      /\ row' \in [Txns -> SUBSET Rows] /\ row'[t] = rows
      /\ \A u \in Txns \ {t} : pc'[u] = pc[u] /\ row'[u] = row[u]
  BY <1>0, <1>4 DEF Typed, States
<1>7. Typed'
  BY <1>0, <1>4, <1>5, <1>6 DEF Typed
<1>8. OthersKept(t)
  BY <1>5, <1>6 DEF OthersKept
<1>9. RequestOK(t)'
  <2>1. HasRow(t)' /\ ~HasEvent(t)' /\ ~HasTarget(t)' /\ IsPayment(t)
        /\ ~HasEvent(t) /\ ~HasTarget(t)
    BY <1>5, <1>6 DEF HasRow, HasEvent, HasTarget, IsPayment
  <2>2. rows = {} \/ \E p \in Rows : rows = {p} /\ RowOK(t, p)'
    BY <1>4, <1>5 DEF RowOK
  <2>3. "register" \in StatesOf("repost")
    BY DEF StatesOf
  <2>4. DOMAIN written[t] = {}
    BY <1>0, <1>5 DEF RequestOK
  <2> QED
    BY <1>0, <1>5, <1>6, <2>1, <2>2, <2>3, <2>4 DEF RequestOK, IsPayment
<1>10. \A p \in row'[t] :
         \/ p.id = lastId + 1 /\ p.id <= lastId' /\ p.of <= lastId'
         \/ p.of <= lastId' /\ \E q \in payments : q.id = p.id
  BY <1>1, <1>4, <1>6
<1>11. lastId' >= lastId /\ (posted'[t] # {} => posted[t] # {})
  BY <1>4, <1>5
<1> QED
  BY <1>5, <1>7, <1>8, <1>9, <1>10, <1>11, LocalKeeps

LEMMA VerifyReversePayments ==
  ASSUME PaymentsInv, NEW t \in Txns, VerifyReverse(t)
  PROVE  PaymentsInv'
<1>0. Typed /\ RequestOK(t)
  BY DEF PaymentsInv
<1>1. PICK p \in payments :
        \/ pc' = [pc EXCEPT ![t] = "refused"] /\ target' = target
        \/ pc' = [pc EXCEPT ![t] = "reverse"] /\ target' = [target EXCEPT ![t] = {p}]
  BY DEF VerifyReverse, Goto
<1>2. /\ pc[t] = "idle" /\ op[t].kind = "reverse"
      /\ payments' = payments /\ status' = status /\ value' = value /\ cash' = cash
      /\ lastId' = lastId /\ op' = op /\ seen' = seen /\ row' = row /\ posted' = posted
      /\ written' = written /\ todo' = todo
  BY DEF VerifyReverse, database
<1>3. p \in payments /\ p \in Rows
  BY <1>0, <1>1 DEF Typed
<1>4. /\ target[t] = {} /\ row[t] = {} /\ posted[t] = {} /\ seen[t] = {}
      /\ DOMAIN written[t] = {} /\ IsPayment(t)
  BY <1>0, <1>2 DEF RequestOK, HasRow, HasEvent, HasTarget, IsPayment
<1>5. PICK to \in {"refused", "reverse"} :
        /\ pc' = [pc EXCEPT ![t] = to]
        /\ target' = [target EXCEPT ![t] = IF to = "reverse" THEN {p} ELSE {}]
  <2>1. target = [target EXCEPT ![t] = {}]
    BY <1>0, <1>4 DEF Typed
  <2> QED
    BY <1>1, <2>1
<1>6. /\ pc' \in [Txns -> States] /\ pc'[t] = to
      /\ target' \in [Txns -> SUBSET (Rows \cup Statuses)]
      /\ target'[t] = IF to = "reverse" THEN {p} ELSE {}
      /\ \A u \in Txns \ {t} : pc'[u] = pc[u] /\ target'[u] = target[u]
  BY <1>0, <1>3, <1>5 DEF Typed, States
<1>7. Typed'
  BY <1>0, <1>2, <1>6 DEF Typed
<1>8. OthersKept(t)
  BY <1>2, <1>6 DEF OthersKept
<1>9. RequestOK(t)'
  <2>1. /\ ~HasRow(t)' /\ ~HasEvent(t)' /\ (HasTarget(t)' <=> to = "reverse")
    BY <1>2, <1>6 DEF HasRow, HasEvent, HasTarget
  <2>2. TargetOK(t, p)'
    BY <1>1, <1>2, <1>3 DEF TargetOK
  <2>3. to \in StatesOf("reverse")
    BY DEF StatesOf
  <2> QED
    BY <1>2, <1>3, <1>4, <1>6, <2>1, <2>2, <2>3 DEF RequestOK
<1>10. lastId' >= lastId /\ row'[t] = {} /\ posted'[t] = {}
  BY <1>0, <1>2, <1>4 DEF Typed
<1> QED
  BY <1>2, <1>7, <1>8, <1>9, <1>10, LocalKeeps

LEMMA MagnitudeType ==
  ASSUME NEW n \in Int
  PROVE  Magnitude(n) \in Nat /\ -Magnitude(n) \in Int
  BY DEF Magnitude

LEMMA SaveReversalPayments ==
  ASSUME PaymentsInv, NEW t \in Txns, SaveReversal(t)
  PROVE  PaymentsInv'
<1>0. Typed /\ RequestOK(t)
  BY DEF PaymentsInv
<1>1. PICK p \in target[t] :
        InsertPayment(t, NewRow(t, op[t].entity, -Magnitude(op[t].amount), p.id))
  BY DEF SaveReversal
<1>2. PICK new : new = NewRow(t, op[t].entity, -Magnitude(op[t].amount), p.id)
  OBVIOUS
<1>3. /\ pc[t] = "reverse" /\ pc' = [pc EXCEPT ![t] = "register"]
      /\ row' = [row EXCEPT ![t] = {new}] /\ lastId' = lastId + 1
      /\ payments' = payments /\ status' = status /\ value' = value /\ cash' = cash
      /\ op' = op /\ target' = target /\ seen' = seen /\ posted' = posted
      /\ written' = written /\ todo' = todo
  BY <1>1, <1>2 DEF SaveReversal, InsertPayment, Goto, database
<1>4. /\ op[t].kind = "reverse" /\ op[t].amount \in Int /\ lastId \in Nat
      /\ op[t].entity \in Entities
  BY <1>0, <1>3, OpType, KindAt DEF Typed
<1>5. /\ HasTarget(t) /\ ~HasRow(t) /\ ~HasEvent(t) /\ IsPayment(t)
      /\ HasTarget(t)' /\ HasRow(t)'
  <2>1. pc'[t] = "register"
    BY <1>0, <1>3 DEF Typed
  <2> QED
    BY <1>3, <1>4, <2>1 DEF HasTarget, HasRow, HasEvent, IsPayment
<1>6. target[t] = {p} /\ TargetOK(t, p) /\ p \in Rows
  BY <1>0, <1>1, <1>5 DEF RequestOK
<1>7. p.id \in Nat /\ p.id <= lastId
  BY <1>6 DEF TargetOK, Rows, PaymentsInv, IdsOK
<1>8. -Magnitude(op[t].amount) \in Int
  BY <1>4, MagnitudeType
<1>9. /\ new \in Rows /\ new.id = lastId + 1 /\ new.of = p.id /\ new.entity = op[t].entity
      /\ new.value = -Magnitude(op[t].amount) /\ ~new.reversed
  BY <1>2, <1>4, <1>7, <1>8 DEF NewRow, Rows
<1>10. /\ pc' \in [Txns -> States] /\ pc'[t] = "register"
       /\ row' \in [Txns -> SUBSET Rows] /\ row'[t] = {new}
       /\ \A u \in Txns \ {t} : pc'[u] = pc[u] /\ row'[u] = row[u]
  BY <1>0, <1>3, <1>9 DEF Typed, States
<1>11. Typed'
  BY <1>0, <1>3, <1>4, <1>10 DEF Typed
<1>12. OthersKept(t)
  BY <1>3, <1>10 DEF OthersKept
<1>13. RequestOK(t)'
  <2>1. RowOK(t, new)'
    BY <1>3, <1>4, <1>6, <1>9 DEF RowOK
  <2>2. TargetOK(t, p)'
    BY <1>3, <1>6 DEF TargetOK
  <2>3. "register" \in StatesOf("reverse") /\ ~HasEvent(t)'
    BY <1>10 DEF StatesOf, HasEvent
  <2>4. DOMAIN written[t] = {} /\ posted[t] = {} /\ seen[t] = {}
    BY <1>0, <1>3, <1>4, <1>5 DEF RequestOK
  <2>5. \E q \in Rows : row'[t] = {q} /\ RowOK(t, q)'
    BY <1>9, <1>10, <2>1
  <2>6. \E q \in Rows : target'[t] = {q} /\ TargetOK(t, q)'
    BY <1>3, <1>6, <2>2
  <2> QED
    BY <1>3, <1>4, <1>5, <1>10, <2>3, <2>4, <2>5, <2>6 DEF RequestOK
<1>14. /\ lastId' >= lastId
       /\ \A q \in row'[t] : q.id = lastId + 1 /\ q.id <= lastId' /\ q.of <= lastId'
  BY <1>3, <1>4, <1>7, <1>9, <1>10
<1>15. posted'[t] # {} => posted[t] # {}
  BY <1>3
<1> QED
  BY <1>3, <1>11, <1>12, <1>13, <1>14, <1>15, LocalKeeps

LEMMA EventType ==
  ASSUME Typed, NEW t \in Txns
  PROVE  DestinationAmount(Event(t)) \in Int
<1>1. PICK kind, n : kind = KindOf[op[t].entity] /\ n = op[t].amount
  OBVIOUS
<1>2. n \in Int
  BY <1>1, OpType
<1>3. NormalizeAmount(n, kind) \in Int
  BY <1>2 DEF NormalizeAmount, Magnitude
<1>4. NormalizeReversalAmount(n, kind) \in Int
  BY <1>3 DEF NormalizeReversalAmount
<1>5. Event(t).amount \in Int
  <2>1. Event(t).amount \in {NormalizeAmount(n, kind), NormalizeReversalAmount(n, kind)}
    BY <1>1 DEF Event
  <2> QED
    BY <1>3, <1>4, <2>1
<1> QED
  BY <1>5 DEF DestinationAmount, Magnitude

\* The event of a payment moves what the payment is worth: towards the tenant
\* for a revenue, away from it otherwise.
LEMMA EventAmount ==
  ASSUME Typed, NEW t \in Txns, IsPayment(t), op[t].amount \in Nat
  PROVE  \A p : RowOK(t, p) =>
           DestinationAmount(Event(t)) =
             IF KindOf[op[t].entity] = "revenue" THEN p.value ELSE -p.value
<1>1. PICK kind : kind = KindOf[op[t].entity]
  OBVIOUS
<1>2. PICK n : n = op[t].amount
  OBVIOUS
<1>3. kind \in {"expense", "revenue", "invoice"} /\ n \in Nat
  BY <1>1, <1>2, OpType DEF PaymentTypes
<1>4. Magnitude(n) = n /\ Magnitude(-n) = n /\ -(-n) = n
  BY <1>3 DEF Magnitude
<1>5. CASE op[t].kind # "reverse"
  <2>1. \A p : RowOK(t, p) => p.value = n
    BY <1>2, <1>5 DEF RowOK
  <2>2. CASE kind = "revenue"
    <3>1. Event(t) = [type |-> "REVENUE_RECEIVED", referenceType |-> kind, amount |-> n]
      BY <1>1, <1>2, <1>4, <1>5, <2>2 DEF Event, NormalizeAmount, ResolveEventType
    <3>2. IsCredit(Event(t)) /\ Event(t).amount = n
      BY <3>1 DEF IsCredit, CreditTypes
    <3> QED
      BY <1>1, <1>3, <1>4, <2>1, <2>2, <3>2 DEF DestinationAmount
  <2>3. CASE kind \in {"expense", "invoice"}
    <3>1. Event(t) = [type |-> "PAYMENT_POSTED", referenceType |-> kind, amount |-> -n]
      BY <1>1, <1>2, <1>4, <1>5, <2>3 DEF Event, NormalizeAmount, ResolveEventType
    <3>2. ~IsCredit(Event(t)) /\ Event(t).amount = -n
      BY <3>1 DEF IsCredit, CreditTypes
    <3> QED
      BY <1>1, <1>3, <1>4, <2>1, <2>3, <3>2 DEF DestinationAmount
  <2> QED
    BY <1>3, <2>2, <2>3
<1>6. CASE op[t].kind = "reverse"
  <2>1. \A p : RowOK(t, p) => p.value = -n
    BY <1>2, <1>4, <1>6 DEF RowOK
  <2>2. CASE kind = "revenue"
    <3>1. Event(t) = [type |-> "REVERSAL", referenceType |-> kind, amount |-> -n]
      BY <1>1, <1>2, <1>4, <1>6, <2>2 DEF Event, NormalizeAmount, NormalizeReversalAmount
    <3>2. ~IsCredit(Event(t)) /\ Event(t).amount = -n
      BY <2>2, <3>1 DEF IsCredit, CreditTypes
    <3> QED
      BY <1>1, <1>3, <1>4, <2>1, <2>2, <3>2 DEF DestinationAmount
  <2>3. CASE kind \in {"expense", "invoice"}
    <3>1. Event(t) = [type |-> "REVERSAL", referenceType |-> kind, amount |-> -(-n)]
      BY <1>1, <1>2, <1>4, <1>6, <2>3 DEF Event, NormalizeAmount, NormalizeReversalAmount
    <3>2. IsCredit(Event(t)) /\ Event(t).amount = n
      BY <1>4, <2>3, <3>1 DEF IsCredit, CreditTypes
    <3> QED
      BY <1>1, <1>3, <1>4, <2>1, <2>3, <3>2 DEF DestinationAmount
  <2> QED
    BY <1>3, <2>2, <2>3
<1> QED
  BY <1>5, <1>6 DEF IsPayment

\* What a request sees is well formed.
LEMMA ReadViewType ==
  ASSUME Typed
  PROVE  ReadView \in SUBSET Views /\ ReadView # {}
  BY DEF Typed, ReadView, Views

LEMMA AskTipPayments ==
  ASSUME PaymentsInv, NEW t \in Txns, AskTip(t)
  PROVE  PaymentsInv'
<1>0. Typed /\ RequestOK(t)
  BY DEF PaymentsInv
<1>1. /\ pc[t] = "register" /\ pc' = [pc EXCEPT ![t] = "tip"]
      /\ payments' = payments /\ status' = status /\ value' = value /\ cash' = cash
      /\ lastId' = lastId /\ op' = op /\ target' = target /\ row' = row
      /\ seen' = seen /\ posted' = posted /\ written' = written /\ todo' = todo
  BY DEF AskTip, Goto, database, locals
<1>2. IsPayment(t)
  BY <1>1, KindAt
<1>3. /\ pc' \in [Txns -> States] /\ pc'[t] = "tip"
      /\ \A u \in Txns \ {t} : pc'[u] = pc[u]
  BY <1>0, <1>1 DEF Typed, States
<1>4. Typed'
  BY <1>0, <1>1, <1>3 DEF Typed
<1>5. OthersKept(t)
  BY <1>1, <1>3 DEF OthersKept
<1>6. RequestOK(t)'
  <2>1. /\ HasRow(t) /\ ~HasEvent(t) /\ (HasTarget(t) <=> op[t].kind = "reverse")
        /\ IsPayment(t)' /\ HasRow(t)' /\ ~HasEvent(t)'
        /\ (HasTarget(t)' <=> op[t].kind = "reverse")
    BY <1>1, <1>2, <1>3 DEF IsPayment, HasRow, HasEvent, HasTarget
  <2>2. \A p : RowOK(t, p) => RowOK(t, p)'
    BY <1>1 DEF RowOK
  <2>3. \A q : TargetOK(t, q) => TargetOK(t, q)'
    BY <1>1 DEF TargetOK
  <2>4. "tip" \in StatesOf(op[t].kind)
    BY <1>2 DEF StatesOf, IsPayment
  <2>5. DOMAIN written[t] = {} /\ seen[t] = {} /\ posted[t] = {}
    BY <1>0, <1>1, <1>2, <2>1 DEF RequestOK, IsPayment
  <2>6. \/ \E p \in Rows : row'[t] = {p} /\ RowOK(t, p)'
        \/ row'[t] = {} /\ op'[t].kind = "repost"
    BY <1>0, <1>1, <2>1, <2>2 DEF RequestOK
  <2>7. IF HasTarget(t)' THEN \E q \in Rows : target'[t] = {q} /\ TargetOK(t, q)'
        ELSE target'[t] = {}
    BY <1>0, <1>1, <2>1, <2>3 DEF RequestOK
  <2> QED
    BY <1>1, <1>2, <1>3, <2>1, <2>4, <2>5, <2>6, <2>7 DEF RequestOK
<1>7. lastId' >= lastId
  BY <1>0, <1>1 DEF Typed
<1> QED
  BY <1>1, <1>4, <1>5, <1>6, <1>7, LocalKeeps

LEMMA RegisterPayments ==
  ASSUME PaymentsInv, NEW t \in Txns, Register(t)
  PROVE  PaymentsInv'
<1>0. Typed /\ RequestOK(t)
  BY DEF PaymentsInv
<1>1. PICK to : to = (IF op[t].kind = "reverse" THEN "mark" ELSE "status")
  OBVIOUS
<1>2. PICK view : view = IF seen[t] = {} THEN ReadView ELSE seen[t]
  OBVIOUS
<1>3. PICK amount : amount = DestinationAmount(Event(t))
  OBVIOUS
<1>4. /\ pc[t] = "tip" /\ pc' = [pc EXCEPT ![t] = to]
      /\ posted' = [posted EXCEPT ![t] = {amount}]
      /\ seen' = [seen EXCEPT ![t] = view]
      /\ payments' = payments /\ status' = status /\ value' = value /\ cash' = cash
      /\ lastId' = lastId /\ op' = op /\ target' = target /\ row' = row
      /\ written' = written /\ todo' = todo
      /\ \A u \in Txns \ {t} : ~HoldsChain(u)
  <2>1. seen' = [seen EXCEPT ![t] = IF seen[t] = {} THEN ReadView ELSE seen[t]]
    BY DEF Register
  <2> QED
    BY <1>1, <1>2, <1>3, <2>1 DEF Register, Goto, database
<1>5. /\ IsPayment(t) /\ HasRow(t) /\ ~HasEvent(t)
      /\ (HasTarget(t) <=> op[t].kind = "reverse")
  BY <1>4, KindAt DEF IsPayment, HasRow, HasEvent, HasTarget
<1>6. view \in SUBSET Views /\ view # {} /\ amount \in Int
  BY <1>0, <1>2, <1>3, ReadViewType, EventType DEF Typed
<1>7. /\ pc' \in [Txns -> States] /\ pc'[t] = to
      /\ \A u \in Txns \ {t} : pc'[u] = pc[u]
  BY <1>0, <1>1, <1>4 DEF Typed, States
<1>8. /\ posted' \in [Txns -> SUBSET Int] /\ posted'[t] = {amount}
      /\ seen' \in [Txns -> SUBSET Views] /\ seen'[t] = view
      /\ \A u \in Txns \ {t} : posted'[u] = posted[u] /\ seen'[u] = seen[u]
  BY <1>0, <1>4, <1>6 DEF Typed
<1>9. Typed'
  BY <1>0, <1>4, <1>7, <1>8 DEF Typed
<1>10. OthersKept(t)
  BY <1>4, <1>7, <1>8 DEF OthersKept
<1>11. RequestOK(t)'
  <2>1. /\ IsPayment(t)' /\ HasRow(t)' /\ HasEvent(t)'
        /\ (HasTarget(t)' <=> op[t].kind = "reverse") /\ pc'[t] # "edit"
        /\ pc'[t] \notin {"check", "remove"}
    BY <1>1, <1>4, <1>5, <1>7 DEF IsPayment, HasRow, HasEvent, HasTarget
  <2>2. \/ \E p \in Rows : row'[t] = {p} /\ RowOK(t, p)'
        \/ row'[t] = {} /\ op'[t].kind = "repost"
    <3>1. \A p : RowOK(t, p) => RowOK(t, p)'
      BY <1>4 DEF RowOK
    <3> QED
      BY <1>0, <1>4, <1>5, <3>1 DEF RequestOK
  <2>3. IF HasTarget(t)' THEN \E q \in Rows : target'[t] = {q} /\ TargetOK(t, q)'
        ELSE target'[t] = {}
    <3>1. \A q : TargetOK(t, q) => TargetOK(t, q)'
      BY <1>4 DEF TargetOK
    <3> QED
      BY <1>0, <1>4, <1>5, <2>1, <3>1 DEF RequestOK
  <2>4. to \in StatesOf(op[t].kind)
    BY <1>1, <1>5 DEF StatesOf, IsPayment
  <2>5. posted'[t] = {DestinationAmount(Event(t))'}
    BY <1>3, <1>4, <1>8 DEF Event
  <2>6. DOMAIN written[t] = {}
    BY <1>0, <1>4, <1>5 DEF RequestOK, IsPayment
  <2> QED
    BY <1>4, <1>6, <1>7, <1>8, <2>1, <2>2, <2>3, <2>4, <2>5, <2>6 DEF RequestOK
<1>12. lastId' >= lastId
  BY <1>0, <1>4 DEF Typed
<1> QED
  BY <1>4, <1>9, <1>10, <1>11, <1>12, LocalKeeps

LEMMA UpdateReverseDatePayments ==
  ASSUME PaymentsInv, NEW t \in Txns, UpdateReverseDate(t)
  PROVE  PaymentsInv'
<1>0. Typed /\ RequestOK(t)
  BY DEF PaymentsInv
<1>1. /\ pc[t] = "mark" /\ pc' = [pc EXCEPT ![t] = "status"]
      /\ payments' = payments /\ status' = status /\ value' = value /\ cash' = cash
      /\ lastId' = lastId /\ op' = op /\ target' = target /\ row' = row
      /\ seen' = seen /\ posted' = posted /\ written' = written /\ todo' = todo
  BY DEF UpdateReverseDate, Goto, database, locals
<1>2. op[t].kind = "reverse"
  BY <1>1, KindAt
<1>3. /\ pc' \in [Txns -> States] /\ pc'[t] = "status"
      /\ \A u \in Txns \ {t} : pc'[u] = pc[u]
  BY <1>0, <1>1 DEF Typed, States
<1>4. Typed'
  BY <1>0, <1>1, <1>3 DEF Typed
<1>5. OthersKept(t)
  BY <1>1, <1>3 DEF OthersKept
<1>6. RequestOK(t)'
  <2>1. /\ IsPayment(t) /\ HasRow(t) /\ HasEvent(t) /\ HasTarget(t)
        /\ IsPayment(t)' /\ HasRow(t)' /\ HasEvent(t)' /\ HasTarget(t)'
    BY <1>1, <1>2, <1>3 DEF IsPayment, HasRow, HasEvent, HasTarget
  <2>2. \A p : RowOK(t, p) => RowOK(t, p)'
    BY <1>1 DEF RowOK
  <2>3. \A q : TargetOK(t, q) => TargetOK(t, q)'
    BY <1>1 DEF TargetOK
  <2>4. Event(t)' = Event(t)
    BY <1>1 DEF Event
  <2>5. "status" \in StatesOf(op[t].kind)
    BY <1>2 DEF StatesOf
  <2>6. DOMAIN written[t] = {}
    BY <1>0, <1>1, <1>2 DEF RequestOK
  <2> QED
    BY <1>0, <1>1, <1>3, <2>1, <2>2, <2>3, <2>4, <2>5, <2>6 DEF RequestOK
<1>7. lastId' >= lastId
  BY <1>0, <1>1 DEF Typed
<1> QED
  BY <1>1, <1>4, <1>5, <1>6, <1>7, LocalKeeps

LEMMA StatusType ==
  ASSUME NEW rows, NEW amount
  PROVE  StatusFrom(rows, amount) \in Statuses
  BY DEF StatusFrom, DefineStatus, Statuses

\* Writing one more row.
LEMMA WrittenRow ==
  ASSUME NEW w \in Writes, NEW e \in Entities, NEW new \in Statuses
  PROVE  LET v == [f \in DOMAIN w \cup {e} |-> IF f = e THEN new ELSE w[f]]
         IN  v \in Writes /\ DOMAIN v = DOMAIN w \cup {e} /\ v[e] = new
<1>1. PICK E \in SUBSET Entities : w \in [E -> Statuses]
  BY DEF Writes
<1>2. PICK v : v = [f \in DOMAIN w \cup {e} |-> IF f = e THEN new ELSE w[f]]
  OBVIOUS
<1>3. E \cup {e} \in SUBSET Entities /\ v \in [E \cup {e} -> Statuses]
  BY <1>1, <1>2
<1>4. v \in Writes
  BY <1>3 DEF Writes
<1> QED
  BY <1>2, <1>4

LEMMA SetStatusFacts ==
  ASSUME Typed, NEW t \in Txns, NEW e \in Entities, NEW new \in Statuses,
         SetStatus(t, e, new)
  PROVE  /\ written' \in [Txns -> Writes]
         /\ DOMAIN written'[t] = DOMAIN written[t] \cup {e} /\ written'[t][e] = new
         /\ \A u \in Txns \ {t} : written'[u] = written[u] /\ e \notin DOMAIN written[u]
<1>1. PICK v : v = [f \in DOMAIN written[t] \cup {e} |->
                      IF f = e THEN new ELSE written[t][f]]
  OBVIOUS
<1>2. written[t] \in Writes
  BY DEF Typed
<1>3. v \in Writes /\ DOMAIN v = DOMAIN written[t] \cup {e} /\ v[e] = new
  BY <1>1, <1>2, WrittenRow
<1>4. written' = [written EXCEPT ![t] = v]
  BY <1>1 DEF SetStatus
<1>5. /\ written' \in [Txns -> Writes] /\ written'[t] = v
      /\ \A u \in Txns \ {t} : written'[u] = written[u]
  BY <1>3, <1>4 DEF Typed
<1> QED
  BY <1>3, <1>5 DEF SetStatus, RowLocked

LEMMA UpdateStatusPayments ==
  ASSUME PaymentsInv, NEW t \in Txns, UpdateStatus(t)
  PROVE  PaymentsInv'
<1>0. Typed /\ RequestOK(t)
  BY DEF PaymentsInv
<1>1. PICK e : e = op[t].entity
  OBVIOUS
<1>2. PICK new \in Statuses : SetStatus(t, e, new)
  BY <1>1, StatusType DEF UpdateStatus
<1>3. /\ pc[t] = "status" /\ pc' = [pc EXCEPT ![t] = "commit"]
      /\ payments' = payments /\ status' = status /\ value' = value /\ cash' = cash
      /\ lastId' = lastId /\ op' = op /\ target' = target /\ row' = row
      /\ seen' = seen /\ posted' = posted /\ todo' = todo
  BY DEF UpdateStatus, Goto, database
<1>4. IsPayment(t) /\ e \in Entities
  BY <1>0, <1>1, <1>3, KindAt, OpType
<1>5. /\ pc' \in [Txns -> States] /\ pc'[t] = "commit"
      /\ \A u \in Txns \ {t} : pc'[u] = pc[u]
  BY <1>0, <1>3 DEF Typed, States
<1>6. DOMAIN written[t] = {}
  BY <1>0, <1>3, <1>4 DEF RequestOK, IsPayment
<1>7. /\ written' \in [Txns -> Writes] /\ DOMAIN written'[t] = {e}
      /\ \A u \in Txns \ {t} : written'[u] = written[u]
  <2>1. DOMAIN written'[t] = DOMAIN written[t] \cup {e}
    BY <1>0, <1>2, <1>4, SetStatusFacts
  <2> QED
    BY <1>0, <1>2, <1>4, <1>6, <2>1, SetStatusFacts
<1>8. Typed'
  BY <1>0, <1>3, <1>5, <1>7 DEF Typed
<1>9. OthersKept(t)
  BY <1>3, <1>5, <1>7 DEF OthersKept
<1>10. RequestOK(t)'
  <2>1. /\ HasRow(t) /\ HasEvent(t) /\ (HasTarget(t) <=> op[t].kind = "reverse")
        /\ IsPayment(t)' /\ HasRow(t)' /\ HasEvent(t)'
        /\ (HasTarget(t)' <=> op[t].kind = "reverse")
    BY <1>3, <1>4, <1>5 DEF IsPayment, HasRow, HasEvent, HasTarget
  <2>2. \A p : RowOK(t, p) => RowOK(t, p)'
    BY <1>3 DEF RowOK
  <2>3. \A q : TargetOK(t, q) => TargetOK(t, q)'
    BY <1>3 DEF TargetOK
  <2>4. Event(t)' = Event(t)
    BY <1>3 DEF Event
  <2>5. "commit" \in StatesOf(op[t].kind)
    BY <1>4 DEF StatesOf, IsPayment
  <2>6. \/ \E p \in Rows : row'[t] = {p} /\ RowOK(t, p)'
        \/ row'[t] = {} /\ op'[t].kind = "repost"
    BY <1>0, <1>3, <2>1, <2>2 DEF RequestOK
  <2>7. IF HasTarget(t)' THEN \E q \in Rows : target'[t] = {q} /\ TargetOK(t, q)'
        ELSE target'[t] = {}
    BY <1>0, <1>3, <2>1, <2>3 DEF RequestOK
  <2>8. posted'[t] = {DestinationAmount(Event(t))'} /\ seen'[t] # {}
    BY <1>0, <1>3, <2>1, <2>4 DEF RequestOK
  <2>9. DOMAIN written'[t] = {op'[t].entity}
    BY <1>1, <1>3, <1>7
  <2> QED
    BY <1>3, <1>5, <2>1, <2>5, <2>6, <2>7, <2>8, <2>9 DEF RequestOK
<1>11. lastId' >= lastId
  BY <1>0, <1>3 DEF Typed
<1> QED
  BY <1>3, <1>8, <1>9, <1>10, <1>11, LocalKeeps

LEMMA BeginDeletePayments ==
  ASSUME PaymentsInv, NEW t \in Txns, BeginDelete(t)
  PROVE  PaymentsInv'
<1>0. Typed /\ RequestOK(t)
  BY DEF PaymentsInv
<1>1. /\ pc[t] = "idle" /\ op[t].kind = "delete" /\ pc' = [pc EXCEPT ![t] = "check"]
      /\ todo' = [todo EXCEPT ![t] = op[t].series]
      /\ seen' = [seen EXCEPT ![t] = ReadView]
      /\ payments' = payments /\ status' = status /\ value' = value /\ cash' = cash
      /\ lastId' = lastId /\ op' = op /\ target' = target /\ row' = row
      /\ posted' = posted /\ written' = written
  BY DEF BeginDelete, Goto, database
<1>2. op[t].series \in Seq(Entities) /\ op[t].series # <<>>
  BY <1>0, <1>1, OpType
<1>3. /\ pc' \in [Txns -> States] /\ pc'[t] = "check"
      /\ \A u \in Txns \ {t} : pc'[u] = pc[u]
  BY <1>0, <1>1 DEF Typed, States
<1>4. /\ todo' \in [Txns -> Seq(Entities)] /\ todo'[t] # <<>>
      /\ seen' \in [Txns -> SUBSET Views] /\ seen'[t] # {}
      /\ \A u \in Txns \ {t} : todo'[u] = todo[u] /\ seen'[u] = seen[u]
  BY <1>0, <1>1, <1>2, ReadViewType DEF Typed
<1>5. Typed'
  BY <1>0, <1>1, <1>3, <1>4 DEF Typed
<1>6. OthersKept(t)
  BY <1>1, <1>3, <1>4 DEF OthersKept
<1>7. RequestOK(t)'
  <2>1. /\ ~HasRow(t) /\ ~HasEvent(t) /\ ~HasTarget(t) /\ ~IsPayment(t)'
        /\ ~HasRow(t)' /\ ~HasEvent(t)' /\ ~HasTarget(t)'
    BY <1>1, <1>3 DEF IsPayment, HasRow, HasEvent, HasTarget
  <2>2. "check" \in StatesOf("delete")
    BY DEF StatesOf
  <2>3. row[t] = {} /\ target[t] = {} /\ posted[t] = {}
    BY <1>0, <1>1, <2>1 DEF RequestOK
  <2> QED
    BY <1>1, <1>3, <1>4, <2>1, <2>2, <2>3 DEF RequestOK
<1>8. lastId' >= lastId
  BY <1>0, <1>1 DEF Typed
<1> QED
  BY <1>1, <1>5, <1>6, <1>7, <1>8, LocalKeeps

LEMMA CheckPaymentsPayments ==
  ASSUME PaymentsInv, NEW t \in Txns, CheckPayments(t)
  PROVE  PaymentsInv'
<1>0. Typed /\ RequestOK(t) /\ lastId \in Nat
  BY DEF PaymentsInv, Typed
<1>1. /\ pc[t] = "check" /\ lastId' = lastId /\ op' = op
      /\ payments' = payments /\ status' = status /\ value' = value /\ cash' = cash
  BY DEF CheckPayments, database
<1>2. op[t].kind = "delete"
  BY <1>1, KindAt
<1>3. CASE End(t, "refused")
  <2>1. "refused" \in StatesOf(op[t].kind)
    BY <1>2 DEF StatesOf
  <2> QED
    BY <1>0, <1>1, <1>3, <2>1, EndKeeps DEF Typed
<1>4. CASE Goto(t, "remove") /\ UNCHANGED locals
  <2>1. /\ pc' = [pc EXCEPT ![t] = "remove"] /\ target' = target /\ row' = row
        /\ seen' = seen /\ posted' = posted /\ written' = written /\ todo' = todo
    BY <1>4 DEF Goto, locals
  <2>2. /\ pc' \in [Txns -> States] /\ pc'[t] = "remove"
        /\ \A u \in Txns \ {t} : pc'[u] = pc[u]
    BY <1>0, <2>1 DEF Typed, States
  <2>3. Typed'
    BY <1>0, <1>1, <2>1, <2>2 DEF Typed
  <2>4. OthersKept(t)
    BY <2>1, <2>2 DEF OthersKept
  <2>5. RequestOK(t)'
    <3>1. /\ ~HasRow(t) /\ ~HasEvent(t) /\ ~HasTarget(t) /\ ~IsPayment(t)'
          /\ ~HasRow(t)' /\ ~HasEvent(t)' /\ ~HasTarget(t)'
      BY <1>1, <1>2, <2>2 DEF IsPayment, HasRow, HasEvent, HasTarget
    <3>2. "remove" \in StatesOf("delete")
      BY DEF StatesOf
    <3>3. /\ row[t] = {} /\ target[t] = {} /\ posted[t] = {} /\ seen[t] # {}
          /\ todo[t] # <<>>
      BY <1>0, <1>1, <3>1 DEF RequestOK
    <3> QED
      BY <1>1, <1>2, <2>1, <2>2, <3>1, <3>2, <3>3 DEF RequestOK
  <2> QED
    BY <1>0, <1>1, <2>1, <2>3, <2>4, <2>5, LocalKeeps
<1> QED
  BY <1>3, <1>4 DEF CheckPayments

LEMMA RemovePayments ==
  ASSUME PaymentsInv, NEW t \in Txns, Remove(t)
  PROVE  PaymentsInv'
<1>0. Typed /\ RequestOK(t) /\ lastId \in Nat
  BY DEF PaymentsInv, Typed
<1>1. PICK to : to = IF Len(todo[t]) > 1 THEN "check" ELSE "commit"
  OBVIOUS
<1>2. /\ pc[t] = "remove" /\ pc' = [pc EXCEPT ![t] = to] /\ lastId' = lastId /\ op' = op
      /\ payments' = payments /\ status' = status /\ value' = value /\ cash' = cash
      /\ target' = target /\ row' = row /\ seen' = seen /\ posted' = posted
      /\ todo' = [todo EXCEPT ![t] = Tail(todo[t])]
  BY <1>1 DEF Remove, Goto, database
<1>3. op[t].kind = "delete" /\ todo[t] # <<>> /\ todo[t] \in Seq(Entities)
  BY <1>0, <1>2, KindAt DEF Typed, RequestOK
<1>4. PICK e : e = Head(todo[t])
  OBVIOUS
<1>5. e \in Entities /\ Tail(todo[t]) \in Seq(Entities) /\ (to = "check" => Tail(todo[t]) # <<>>)
  BY <1>1, <1>3, <1>4
<1>6. PICK new \in Statuses : SetStatus(t, e, new)
  <2>1. (IF PaymentsSeen(t) # {} THEN "archived" ELSE "cancelled") \in Statuses
    BY DEF Statuses
  <2> QED
    BY <1>4, <2>1 DEF Remove
<1>7. written' \in [Txns -> Writes] /\ \A u \in Txns \ {t} : written'[u] = written[u]
  BY <1>0, <1>5, <1>6, SetStatusFacts
<1>8. /\ pc' \in [Txns -> States] /\ pc'[t] = to
      /\ todo' \in [Txns -> Seq(Entities)] /\ todo'[t] = Tail(todo[t])
      /\ \A u \in Txns \ {t} : pc'[u] = pc[u] /\ todo'[u] = todo[u]
  BY <1>0, <1>1, <1>2, <1>5 DEF Typed, States
<1>9. Typed'
  BY <1>0, <1>2, <1>7, <1>8 DEF Typed
<1>10. OthersKept(t)
  BY <1>2, <1>7, <1>8 DEF OthersKept
<1>11. RequestOK(t)'
  <2>1. /\ ~HasRow(t) /\ ~HasEvent(t) /\ ~HasTarget(t) /\ ~IsPayment(t)'
        /\ ~HasRow(t)' /\ ~HasEvent(t)' /\ ~HasTarget(t)'
    BY <1>2, <1>3, <1>8 DEF IsPayment, HasRow, HasEvent, HasTarget
  <2>2. to \in StatesOf("delete") /\ to \in {"check", "commit"}
    BY <1>1 DEF StatesOf
  <2>3. row[t] = {} /\ target[t] = {} /\ posted[t] = {} /\ seen[t] # {}
    BY <1>0, <1>2, <2>1 DEF RequestOK
  <2> QED
    BY <1>2, <1>3, <1>5, <1>8, <2>1, <2>2, <2>3 DEF RequestOK
<1> QED
  BY <1>0, <1>2, <1>9, <1>10, <1>11, LocalKeeps

LEMMA OpenFormPayments ==
  ASSUME PaymentsInv, NEW t \in Txns, OpenForm(t)
  PROVE  PaymentsInv'
<1>0. Typed /\ RequestOK(t) /\ lastId \in Nat
  BY DEF PaymentsInv, Typed
<1>1. PICK s : s = status[op[t].entity]
  OBVIOUS
<1>2. /\ pc[t] = "idle" /\ op[t].kind = "edit" /\ pc' = [pc EXCEPT ![t] = "edit"]
      /\ target' = [target EXCEPT ![t] = {s}]
      /\ payments' = payments /\ status' = status /\ value' = value /\ cash' = cash
      /\ lastId' = lastId /\ op' = op /\ seen' = seen /\ row' = row
      /\ posted' = posted /\ written' = written /\ todo' = todo
  BY <1>1 DEF OpenForm, Goto, database
<1>3. s \in Statuses
  BY <1>0, <1>1, OpType DEF Typed
<1>4. /\ pc' \in [Txns -> States] /\ pc'[t] = "edit"
      /\ target' \in [Txns -> SUBSET (Rows \cup Statuses)] /\ target'[t] = {s}
      /\ \A u \in Txns \ {t} : pc'[u] = pc[u] /\ target'[u] = target[u]
  BY <1>0, <1>2, <1>3 DEF Typed, States
<1>5. Typed'
  BY <1>0, <1>2, <1>4 DEF Typed
<1>6. OthersKept(t)
  BY <1>2, <1>4 DEF OthersKept
<1>7. RequestOK(t)'
  <2>1. /\ ~HasRow(t) /\ ~HasEvent(t) /\ ~HasTarget(t) /\ ~IsPayment(t)'
        /\ ~HasRow(t)' /\ ~HasEvent(t)' /\ ~HasTarget(t)'
    BY <1>2, <1>4 DEF IsPayment, HasRow, HasEvent, HasTarget
  <2>2. "edit" \in StatesOf("edit")
    BY DEF StatesOf
  <2>3. row[t] = {} /\ posted[t] = {} /\ DOMAIN written[t] = {}
    BY <1>0, <1>2, <2>1 DEF RequestOK
  <2> QED
    BY <1>2, <1>3, <1>4, <2>1, <2>2, <2>3 DEF RequestOK
<1> QED
  BY <1>0, <1>2, <1>5, <1>6, <1>7, LocalKeeps

-----------------------------------------------------------------------------
(* The commit.                                                             *)

\* What a request that commits brings.
LEMMA CommitHas ==
  ASSUME PaymentsInv, NEW t \in Txns, pc[t] = "commit"
  PROVE  \/ /\ IsPayment(t) /\ HasEvent(t) /\ posted[t] = {DestinationAmount(Event(t))}
            /\ \/ \E r \in Rows : row[t] = {r} /\ RowOK(t, r)
               \/ row[t] = {} /\ op[t].kind = "repost"
            /\ \/ op[t].kind \in {"pay", "repost"} /\ target[t] = {}
               \/ op[t].kind = "reverse" /\ \E q \in Rows : target[t] = {q} /\ TargetOK(t, q)
            /\ DOMAIN written[t] \subseteq {op[t].entity}
         \/ /\ op[t].kind = "delete" /\ ~IsPayment(t) /\ ~HasEvent(t)
            /\ row[t] = {} /\ target[t] = {} /\ posted[t] = {}
<1>1. RequestOK(t) /\ (IsPayment(t) \/ op[t].kind = "delete")
  BY KindAt DEF PaymentsInv
<1>2. CASE IsPayment(t)
  <2>1. HasRow(t) /\ HasEvent(t) /\ (HasTarget(t) <=> op[t].kind = "reverse")
    BY <1>2 DEF HasRow, HasEvent, HasTarget
  <2>2. \/ op[t].kind \in {"pay", "repost"} /\ target[t] = {}
        \/ op[t].kind = "reverse" /\ \E q \in Rows : target[t] = {q} /\ TargetOK(t, q)
    BY <1>1, <1>2, <2>1 DEF RequestOK, IsPayment
  <2>3. DOMAIN written[t] \subseteq {op[t].entity}
    BY <1>1, <1>2 DEF RequestOK, IsPayment
  <2> QED
    BY <1>1, <1>2, <2>1, <2>2, <2>3 DEF RequestOK
<1>3. CASE ~IsPayment(t)
  <2>1. op[t].kind = "delete" /\ ~HasRow(t) /\ ~HasEvent(t) /\ ~HasTarget(t)
    BY <1>1, <1>3 DEF HasRow, HasEvent, HasTarget, IsPayment
  <2> QED
    BY <1>1, <1>3, <2>1 DEF RequestOK
<1> QED
  BY <1>2, <1>3

Marks(t, p) == \E q \in target[t] : q.id = p.id

\* A marked payment is the payment it was, but for the mark.
SamePayment(t, p, q) ==
  /\ q.id = p.id /\ q.entity = p.entity /\ q.value = p.value /\ q.of = p.of
  /\ q.reversed <=> p.reversed \/ Marks(t, p)

LEMMA MarkedPayments ==
  ASSUME PaymentsInv, NEW t \in Txns
  PROVE  /\ Marked(t) \subseteq Rows /\ IsFiniteSet(Marked(t))
         /\ \A p \in payments : \E q \in Marked(t) : SamePayment(t, p, q)
         /\ \A q \in Marked(t) : \E p \in payments : SamePayment(t, p, q)
         /\ \A p, q \in Marked(t) : p.id = q.id => p = q
         /\ \A e : /\ Total(PaymentsOf(e, Marked(t))) = Total(PaymentsOf(e, payments))
                   /\ PaymentsOf(e, Marked(t)) = {} <=> PaymentsOf(e, payments) = {}
<1>0. Typed /\ payments \subseteq Rows /\ IsFiniteSet(payments)
  BY DEF PaymentsInv, Typed
<1>1. PICK m : m = [p \in payments |-> [p EXCEPT !.reversed = @ \/ Marks(t, p)]]
  OBVIOUS
<1>2. Marked(t) = {m[p] : p \in payments}
  BY <1>1 DEF Marked, Marks
<1>3. ASSUME NEW p \in payments
      PROVE  m[p] \in Rows /\ SamePayment(t, p, m[p])
  <2>1. m[p] = [p EXCEPT !.reversed = p.reversed \/ Marks(t, p)]
    BY <1>1
  <2>2. p \in Rows
    BY <1>0
  <2>3. (p.reversed \/ Marks(t, p)) \in BOOLEAN
    OBVIOUS
  <2>4. /\ m[p] \in Rows /\ m[p].id = p.id /\ m[p].entity = p.entity
        /\ m[p].value = p.value /\ m[p].of = p.of
        /\ m[p].reversed = (p.reversed \/ Marks(t, p))
    BY <2>1, <2>2, <2>3 DEF Rows
  <2> QED
    BY <2>4 DEF SamePayment
<1>4. \A p, q \in payments : m[p].id = m[q].id => p = q
  BY <1>3 DEF SamePayment, PaymentsInv, IdsOK
<1>5. IsFiniteSet(Marked(t))
  <2>1. m \in [payments -> Marked(t)] /\ \A q \in Marked(t) : \E p \in payments : m[p] = q
    BY <1>1, <1>2
  <2>2. m \in Surjection(payments, Marked(t))
    BY <2>1 DEF Surjection
  <2> QED
    BY <1>0, <2>2, FS_Surjection
<1>6. Marked(t) \subseteq Rows
  BY <1>2, <1>3
<1>7. \A p \in payments : \E q \in Marked(t) : SamePayment(t, p, q)
  BY <1>2, <1>3
<1>8. \A q \in Marked(t) : \E p \in payments : SamePayment(t, p, q)
  BY <1>2, <1>3
<1>9. \A p, q \in Marked(t) : p.id = q.id => p = q
  BY <1>2, <1>4
<1>10. ASSUME NEW e
       PROVE  /\ Total(PaymentsOf(e, Marked(t))) = Total(PaymentsOf(e, payments))
              /\ PaymentsOf(e, Marked(t)) = {} <=> PaymentsOf(e, payments) = {}
  <2>1. PICK S : S = PaymentsOf(e, payments)
    OBVIOUS
  <2>2. S \subseteq payments /\ IsFiniteSet(S) /\ \A x \in S : x.value \in Int
    BY <1>0, <2>1, FS_Subset DEF PaymentsOf, Rows
  <2>3. Valued(S)
    BY <2>2 DEF Valued
  <2>4. PaymentsOf(e, Marked(t)) = {m[x] : x \in S}
    BY <1>2, <1>3, <2>1 DEF PaymentsOf, SamePayment
  <2>5. \A x \in S : m[x].value = x.value
    BY <1>3, <2>2 DEF SamePayment
  <2>6. \A x, y \in S : m[x] = m[y] => x = y
    BY <1>4, <2>2
  <2>7. Total({m[x] : x \in S}) = Total(S)
    BY <2>3, <2>5, <2>6, TotalSameValues
  <2> QED
    BY <2>1, <2>4, <2>7
<1> QED
  BY <1>5, <1>6, <1>7, <1>8, <1>9, <1>10

\* The table a request leaves: what it wrote, and the others as it marked them.
LEMMA CommitTable ==
  ASSUME PaymentsInv, NEW t \in Txns, pc[t] = "commit",
         NEW table, table = Overlay(Marked(t), row[t])
  PROVE  /\ table \subseteq Rows /\ IsFiniteSet(table)
         /\ \A q \in table : q \in Marked(t) \/ q \in row[t]
         /\ \A p \in payments : \E q \in table : q.id = p.id
         /\ row[t] \subseteq table
         /\ \A p, q \in table : p.id = q.id => p = q
         /\ op[t].kind # "repost" => table = Marked(t) \cup row[t]
<1>1. PICK rest : rest = {p \in Marked(t) : \A q \in row[t] : q.id # p.id}
  OBVIOUS
<1>2. table = rest \cup row[t] /\ rest \subseteq Marked(t)
  BY <1>1 DEF Overlay
<1>3. /\ Marked(t) \subseteq Rows /\ IsFiniteSet(Marked(t))
      /\ \A p \in payments : \E q \in Marked(t) : q.id = p.id
      /\ \A q \in Marked(t) : \E p \in payments : q.id = p.id
      /\ \A p, q \in Marked(t) : p.id = q.id => p = q
  BY MarkedPayments DEF SamePayment
<1>4. row[t] = {} \/ \E r \in Rows : row[t] = {r}
  BY CommitHas
<1>5. IsFiniteSet(table)
  <2>1. IsFiniteSet(rest)
    BY <1>2, <1>3, FS_Subset
  <2>2. IsFiniteSet(row[t])
    BY <1>4, FS_EmptySet, FS_Singleton
  <2> QED
    BY <1>2, <2>1, <2>2, FS_Union
<1>6. table \subseteq Rows
  BY <1>2, <1>3, <1>4
<1>7. ASSUME NEW p \in payments PROVE \E q \in table : q.id = p.id
  <2>1. PICK q \in Marked(t) : q.id = p.id
    BY <1>3
  <2>2. CASE \E r \in row[t] : r.id = q.id
    BY <1>2, <2>1, <2>2
  <2>3. CASE \A r \in row[t] : r.id # q.id
    BY <1>1, <1>2, <2>1, <2>3
  <2> QED
    BY <2>2, <2>3
<1>8. ASSUME NEW p \in table, NEW q \in table, p.id = q.id PROVE p = q
  <2>1. \A x \in rest, y \in row[t] : x.id # y.id
    BY <1>1
  <2> QED
    BY <1>2, <1>3, <1>4, <1>8, <2>1
<1>9. ASSUME op[t].kind # "repost" PROVE table = Marked(t) \cup row[t]
  <2>1. \A r \in row[t] : \A p \in payments : p.id # r.id
    BY <1>9 DEF PaymentsInv, IdsOK
  <2>2. rest = Marked(t)
    BY <1>1, <1>3, <2>1
  <2> QED
    BY <1>2, <2>2
<1> QED
  BY <1>2, <1>5, <1>6, <1>7, <1>8, <1>9

\* What an entity has been paid once a request has committed.
LEMMA CommitTotals ==
  ASSUME PaymentsInv, NEW t \in Txns, pc[t] = "commit", op[t].kind # "repost", NEW e,
         NEW table, table = Marked(t) \cup row[t]
  PROVE  /\ row[t] = {} \/ e # op[t].entity =>
              /\ Total(PaymentsOf(e, table)) = Total(PaymentsOf(e, payments))
              /\ PaymentsOf(e, table) = {} <=> PaymentsOf(e, payments) = {}
         /\ \A r \in row[t] : e = op[t].entity =>
              /\ Total(PaymentsOf(e, table)) = r.value + Total(PaymentsOf(e, payments))
              /\ PaymentsOf(e, table) # {}
<1>0. Typed /\ payments \subseteq Rows /\ IsFiniteSet(payments)
  BY DEF PaymentsInv, Typed
<1>1. CASE row[t] = {} \/ e # op[t].entity
  <2>1. \A r \in row[t] : r.entity = op[t].entity
    BY CommitHas DEF RowOK
  <2>2. PaymentsOf(e, table) = PaymentsOf(e, Marked(t))
    BY <1>1, <2>1 DEF PaymentsOf
  <2> QED
    BY <1>1, <2>2, MarkedPayments
<1>2. ASSUME NEW r \in row[t], e = op[t].entity
      PROVE  /\ Total(PaymentsOf(e, table)) = r.value + Total(PaymentsOf(e, payments))
             /\ PaymentsOf(e, table) # {}
  <2>1. row[t] = {r} /\ r \in Rows /\ r.entity = e
    BY <1>2, CommitHas DEF RowOK
  <2>2. PICK S : S = PaymentsOf(e, Marked(t))
    OBVIOUS
  <2>3. PaymentsOf(e, table) = S \cup {r}
    BY <2>1, <2>2 DEF PaymentsOf
  <2>4. r \notin S
    <3>1. \A q \in Marked(t) : q.id # r.id
      BY <1>2, MarkedPayments DEF SamePayment, PaymentsInv, IdsOK
    <3> QED
      BY <2>2, <3>1 DEF PaymentsOf
  <2>5. Valued(S) /\ r.value \in Int
    <3>1. S \subseteq Marked(t) /\ IsFiniteSet(Marked(t)) /\ Marked(t) \subseteq Rows
      BY <2>2, MarkedPayments DEF PaymentsOf
    <3>2. IsFiniteSet(S) /\ \A x \in S : x.value \in Int
      BY <3>1, FS_Subset DEF Rows
    <3> QED
      BY <2>1, <3>2 DEF Valued, Rows
  <2>6. Total(S \cup {r}) = r.value + Total(S)
    BY <2>4, <2>5, TotalAdd
  <2>7. Total(S) = Total(PaymentsOf(e, payments))
    BY <2>2, MarkedPayments
  <2> QED
    BY <2>3, <2>6, <2>7
<1> QED
  BY <1>1, <1>2

\* The ids of the table and of the rows under way after a commit.
LEMMA CommitIds ==
  ASSUME PaymentsInv, NEW t \in Txns, pc[t] = "commit", OthersKept(t), op' = op,
         payments' = Overlay(Marked(t), row[t]), row'[t] = {}, lastId' = lastId
  PROVE  IdsOK' /\ ReversalsOK'
<1>0. IdsOK /\ ReversalsOK
  BY DEF PaymentsInv
<1>1. \A q \in Marked(t) : \E p \in payments : q.id = p.id /\ q.of = p.of
  BY MarkedPayments DEF SamePayment
<1>2. /\ \A q \in payments' : q \in Marked(t) \/ q \in row[t]
      /\ \A p \in payments : \E q \in payments' : q.id = p.id
      /\ \A p, q \in payments' : p.id = q.id => p = q
  BY CommitTable
<1>3. \A u \in Txns \ {t} : row'[u] = row[u]
  BY DEF OthersKept
<1>4. \A p \in payments' : p.id <= lastId' /\ p.of <= lastId'
  BY <1>0, <1>1, <1>2 DEF IdsOK
<1>5. ASSUME NEW u \in Txns, NEW p \in row'[u]
      PROVE  /\ p.id <= lastId' /\ p.of <= lastId'
             /\ op'[u].kind # "repost" =>
                  /\ \A q \in payments' : q.id # p.id
                  /\ \A v \in Txns \ {u} : \A q \in row'[v] : q.id # p.id
  <2>1. u # t /\ p \in row[u]
    BY <1>3, <1>5
  <2>2. p.id <= lastId /\ p.of <= lastId
    BY <1>0, <2>1 DEF IdsOK
  <2>3. ASSUME op[u].kind # "repost"
        PROVE  /\ \A q \in payments : q.id # p.id
               /\ \A v \in Txns \ {u} : \A q \in row[v] : q.id # p.id
    BY <1>0, <2>1, <2>3 DEF IdsOK
  <2>4. op[u].kind # "repost" => \A q \in payments' : q.id # p.id
    BY <1>1, <1>2, <2>1, <2>3
  <2>5. op[u].kind # "repost" => \A v \in Txns \ {u} : \A q \in row'[v] : q.id # p.id
    BY <1>3, <2>3
  <2> QED
    BY <2>2, <2>4, <2>5
<1>6. IdsOK'
  BY <1>2, <1>4, <1>5 DEF IdsOK
<1>7. ASSUME NEW q \in payments', q.of # 0
      PROVE  \E p \in payments' : p.id = q.of
  <2>1. \E p \in payments : p.id = q.of
    <3>1. CASE q \in Marked(t)
      BY <1>0, <1>1, <1>7, <3>1 DEF ReversalsOK
    <3>2. CASE q \in row[t]
      <4>1. RowOK(t, q) /\ IsPayment(t)
        BY <3>2, CommitHas
      <4>2. op[t].kind = "reverse"
        BY <1>7, <4>1 DEF RowOK
      <4>3. PICK x : target[t] = {x} /\ TargetOK(t, x)
        BY <4>2, CommitHas
      <4> QED
        BY <4>1, <4>2, <4>3 DEF RowOK, TargetOK
    <3> QED
      BY <1>2, <1>7, <3>1, <3>2
  <2> QED
    BY <1>2, <2>1
<1> QED
  BY <1>6, <1>7 DEF ReversalsOK

\* Its reversals and their marks.
LEMMA CommitReversals ==
  ASSUME PaymentsInv, NEW t \in Txns, pc[t] = "commit", op' = op,
         payments' = Overlay(Marked(t), row[t])
  PROVE  ReversedIsMarked'
<1> SUFFICES ASSUME NoReposts
             PROVE  \A p \in payments' : p.reversed <=> \E q \in payments' : q.of = p.id
  BY DEF ReversedIsMarked, NoReposts
<1>0. /\ Typed /\ payments \subseteq Rows /\ IdsOK /\ ReversalsOK /\ op[t].kind # "repost"
      /\ \A p \in payments : p.reversed <=> \E q \in payments : q.of = p.id
  BY DEF PaymentsInv, Typed, ReversedIsMarked, NoReposts
<1>1. /\ \A p \in payments : \E q \in Marked(t) : SamePayment(t, p, q)
      /\ \A q \in Marked(t) : \E p \in payments : SamePayment(t, p, q)
  BY MarkedPayments
<1>2. \/ row[t] = {} /\ target[t] = {}
      \/ \E r \in Rows : row[t] = {r} /\ r.of = 0 /\ ~r.reversed /\ target[t] = {}
      \/ \E r, x \in Rows : /\ row[t] = {r} /\ ~r.reversed /\ target[t] = {x}
                            /\ r.of = x.id /\ TargetOK(t, x)
  BY <1>0, CommitHas DEF RowOK
<1>3. \A r \in row[t] : r \in Rows /\ r.id # 0 /\ \A p \in payments : p.id # r.id
  BY <1>0, <1>2 DEF IdsOK, Rows
<1>4. \A p \in payments : p.id # 0
  BY <1>0 DEF Rows
<1>5. payments' = Marked(t) \cup row[t]
  BY <1>0, CommitTable
<1>6. ASSUME NEW p \in payments'
      PROVE  p.reversed <=> \E q \in payments' : q.of = p.id
  <2>1. CASE p \in Marked(t)
    <3>1. PICK o \in payments : SamePayment(t, o, p)
      BY <1>1, <2>1
    <3>2. o.reversed <=> \E q \in payments : q.of = o.id
      BY <1>0
    <3>3. (\E q \in payments : q.of = o.id) <=> \E q \in Marked(t) : q.of = o.id
      BY <1>1 DEF SamePayment
    <3>4. Marks(t, o) <=> \E q \in row[t] : q.of = o.id
      <4>1. CASE target[t] = {}
        BY <1>2, <1>4, <4>1 DEF Marks
      <4>2. CASE \E r, x \in Rows : row[t] = {r} /\ target[t] = {x} /\ r.of = x.id
        BY <4>2 DEF Marks
      <4> QED
        BY <1>2, <4>1, <4>2
    <3>5. (p.reversed <=> o.reversed \/ Marks(t, o)) /\ p.id = o.id
      BY <3>1 DEF SamePayment
    <3> QED
      BY <1>5, <3>2, <3>3, <3>4, <3>5
  <2>2. CASE p \in row[t]
    <3>1. ~p.reversed /\ row[t] = {p}
      BY <1>2, <2>2
    <3>2. \A q \in Marked(t) : q.of # p.id
      <4>1. ASSUME NEW q \in Marked(t), q.of = p.id
            PROVE  FALSE
        <5>1. PICK o \in payments : o.of = p.id
          BY <1>1, <4>1 DEF SamePayment
        <5>2. o.of # 0
          BY <1>3, <2>2, <5>1
        <5>3. PICK y \in payments : y.id = p.id
          BY <1>0, <5>1, <5>2 DEF ReversalsOK
        <5> QED
          BY <1>3, <2>2, <5>3
      <4> QED
        BY <4>1
    <3>3. p.of # p.id
      <4>1. p.of = 0 \/ \E x \in payments : x.id = p.of
        BY <1>2, <3>1 DEF TargetOK
      <4> QED
        BY <1>3, <2>2, <4>1
    <3> QED
      BY <1>5, <3>1, <3>2, <3>3
  <2> QED
    BY <1>5, <1>6, <2>1, <2>2
<1> QED
  BY <1>6

\* The ledger and the payments of every entity.
LEMMA CommitCash ==
  ASSUME PaymentsInv, NEW t \in Txns, Commit(t)
  PROVE  CashFollowsPayments'
<1> SUFFICES ASSUME NoReposts, NoNegatives
             PROVE  \A e \in Entities :
                      cash'[e] = IF KindOf[e] = "revenue"
                                 THEN Total(PaymentsOf(e, payments'))
                                 ELSE -Total(PaymentsOf(e, payments'))
  <2>1. (NoReposts' => NoReposts) /\ (NoNegatives' => NoNegatives)
    BY DEF Commit, NoReposts, NoNegatives
  <2>2. \A e : CommittedPaymentsOf(e)' = PaymentsOf(e, payments')
    BY DEF CommittedPaymentsOf, PaymentsOf
  <2> QED
    BY <2>1, <2>2 DEF CashFollowsPayments
<1>0. Typed /\ CashFollowsPayments /\ op[t].kind # "repost" /\ payments \subseteq Rows /\ IsFiniteSet(payments)
  BY DEF PaymentsInv, Typed, NoReposts
<1>1. /\ pc[t] = "commit" /\ payments' = Marked(t) \cup row[t]
      /\ cash' = IF posted[t] = {} THEN cash
                 ELSE [cash EXCEPT ![op[t].entity] = @ + CHOOSE n \in posted[t] : TRUE]
  <2>1. pc[t] = "commit" /\ payments' = Overlay(Marked(t), row[t])
    BY DEF Commit
  <2>2. payments' = Marked(t) \cup row[t]
    BY <1>0, <2>1, CommitTable
  <2> QED
    BY <2>1, <2>2 DEF Commit
<1>2. op[t].entity \in Entities /\ cash \in [Entities -> Int]
  BY <1>0, OpType DEF Typed
<1>3. ASSUME NEW e \in Entities
      PROVE  /\ Total(PaymentsOf(e, payments)) \in Int
             /\ cash[e] \in Int
             /\ cash[e] = IF KindOf[e] = "revenue" THEN Total(PaymentsOf(e, payments))
                                                   ELSE -Total(PaymentsOf(e, payments))
  <2>1. PaymentsOf(e, payments) \subseteq payments
    BY DEF PaymentsOf
  <2>2. IsFiniteSet(PaymentsOf(e, payments)) /\ \A x \in PaymentsOf(e, payments) : x.value \in Int
    BY <1>0, <2>1, FS_Subset DEF Rows
  <2>3. Valued(PaymentsOf(e, payments))
    BY <2>2 DEF Valued
  <2> QED
    BY <1>0, <1>2, <2>3, TotalType DEF CashFollowsPayments, CommittedPaymentsOf
<1>4. CASE posted[t] = {}
  <2>1. row[t] = {}
    BY <1>1, <1>4, CommitHas
  <2>2. \A e \in Entities : Total(PaymentsOf(e, payments')) = Total(PaymentsOf(e, payments))
    BY <1>0, <1>1, <2>1, CommitTotals
  <2>3. cash' = cash
    BY <1>1, <1>4
  <2> QED
    BY <1>3, <2>2, <2>3
<1>5. CASE posted[t] # {}
  <2>1. PICK r \in Rows : row[t] = {r} /\ RowOK(t, r)
    BY <1>0, <1>1, <1>5, CommitHas
  <2>2. PICK n : n = DestinationAmount(Event(t))
    OBVIOUS
  <2>3. IsPayment(t) /\ posted[t] = {n}
    BY <1>1, <1>5, <2>2, CommitHas
  <2>4. n \in Int /\ n = IF KindOf[op[t].entity] = "revenue" THEN r.value ELSE -r.value
    <3>1. op[t].amount \in Nat
      <4>1. op[t].amount \in Int /\ (op[t].kind = "pay" \/ op[t].amount \in Nat)
        BY <1>0, OpType
      <4>2. op[t].kind = "pay" => op[t].amount >= 0
        BY DEF NoNegatives
      <4> QED
        BY <4>1, <4>2
    <3> QED
      BY <1>0, <2>1, <2>2, <2>3, <3>1, EventAmount, EventType
  <2>5. cash' = [cash EXCEPT ![op[t].entity] = cash[op[t].entity] + n]
    BY <1>1, <2>3
  <2>6. ASSUME NEW e \in Entities
        PROVE  cash'[e] = IF KindOf[e] = "revenue" THEN Total(PaymentsOf(e, payments'))
                                                   ELSE -Total(PaymentsOf(e, payments'))
    <3>1. CASE e = op[t].entity
      <4>1. Total(PaymentsOf(e, payments')) = r.value + Total(PaymentsOf(e, payments))
        BY <1>0, <1>1, <2>1, <3>1, CommitTotals
      <4>2. cash'[e] = cash[e] + n /\ r.value \in Int
        BY <1>2, <2>1, <2>5, <3>1 DEF Rows
      <4>3. \A i, j \in Int : -(i + j) = -j + -i
        OBVIOUS
      <4>4. CASE KindOf[e] = "revenue"
        BY <1>3, <2>4, <3>1, <4>1, <4>2, <4>4
      <4>5. CASE KindOf[e] # "revenue"
        BY <1>3, <2>4, <3>1, <4>1, <4>2, <4>3, <4>5
      <4> QED
        BY <4>4, <4>5
    <3>2. CASE e # op[t].entity
      <4>1. Total(PaymentsOf(e, payments')) = Total(PaymentsOf(e, payments))
        BY <1>0, <1>1, <3>2, CommitTotals
      <4>2. cash'[e] = cash[e]
        BY <1>2, <2>5, <3>2
      <4> QED
        BY <1>3, <4>1, <4>2
    <3> QED
      BY <3>1, <3>2
  <2> QED
    BY <2>6
<1> QED
  BY <1>4, <1>5

LEMMA CommitPayments ==
  ASSUME PaymentsInv, NEW t \in Txns, Commit(t)
  PROVE  PaymentsInv'
<1>0. Typed /\ payments \subseteq Rows /\ IsFiniteSet(payments)
  BY DEF PaymentsInv, Typed
<1>1. /\ pc[t] = "commit" /\ payments' = Overlay(Marked(t), row[t])
      /\ status' = [e \in Entities |->
                     IF e \in DOMAIN written[t] THEN written[t][e] ELSE status[e]]
      /\ cash' = IF posted[t] = {} THEN cash
                 ELSE [cash EXCEPT ![op[t].entity] = @ + CHOOSE n \in posted[t] : TRUE]
      /\ End(t, "committed") /\ value' = value /\ lastId' = lastId /\ op' = op
  BY DEF Commit
<1>2. "committed" \in StatesOf(op[t].kind)
  BY <1>1, KindAt DEF StatesOf, IsPayment
<1>3. /\ OthersKept(t) /\ RequestOK(t)' /\ row'[t] = {} /\ posted'[t] = {}
  BY <1>0, <1>1, <1>2, EndFacts
<1>4. payments' \subseteq Rows /\ IsFiniteSet(payments')
  BY <1>1, CommitTable
<1>5. status' \in [Entities -> Statuses]
  <2>1. PICK E \in SUBSET Entities : written[t] \in [E -> Statuses]
    BY <1>0 DEF Typed, Writes
  <2> QED
    BY <1>0, <1>1, <2>1 DEF Typed
<1>6. Typed'
  <2>1. cash' \in [Entities -> Int]
    <3>1. PICK n : n = DestinationAmount(Event(t))
      OBVIOUS
    <3>2. n \in Int /\ (posted[t] = {} \/ posted[t] = {n})
      BY <1>0, <1>1, <3>1, CommitHas, EventType
    <3>3. cash' = cash \/ cash' = [cash EXCEPT ![op[t].entity] = cash[op[t].entity] + n]
      BY <1>1, <3>2
    <3> QED
      BY <1>0, <3>2, <3>3, OpType DEF Typed
  <2>2. /\ value' \in [Entities -> Nat] /\ lastId' \in Nat /\ op' \in [Txns -> Ops]
    BY <1>0, <1>1 DEF Typed
  <2> QED
    BY <1>0, <1>1, <1>2, <1>4, <1>5, <2>1, <2>2, EndFacts DEF Typed
<1>7. IdsOK' /\ ReversalsOK'
  BY <1>1, <1>3, CommitIds
<1>8. ReversedIsMarked'
  BY <1>1, CommitReversals
<1>9. CashFollowsPayments'
  BY CommitCash
<1>10. OneHolder'
  BY <1>3 DEF PaymentsInv, OneHolder, HoldsChain, OthersKept
<1>11. \A u \in Txns : RequestOK(u)'
  <2>1. \A p \in payments : \E q \in payments' : q.id = p.id
    BY <1>1, CommitTable
  <2> QED
    BY <1>1, <1>3, <2>1, OtherRequest
<1> QED
  BY <1>6, <1>7, <1>8, <1>9, <1>10, <1>11 DEF PaymentsInv

LEMMA NextPayments == PaymentsInv /\ [Next]_vars => PaymentsInv'
<1> SUFFICES ASSUME PaymentsInv, [Next]_vars PROVE PaymentsInv'
  OBVIOUS
<1>1. CASE UNCHANGED vars
  <2>1. /\ payments' = payments /\ status' = status /\ value' = value /\ cash' = cash
        /\ lastId' = lastId /\ pc' = pc /\ op' = op /\ target' = target /\ seen' = seen
        /\ row' = row /\ posted' = posted /\ written' = written /\ todo' = todo
    BY <1>1 DEF vars, database, locals
  <2>2. Typed'
    BY <2>1 DEF PaymentsInv, Typed
  <2>3. \A t \in Txns : RequestOK(t)'
    <3>1. ASSUME NEW t \in Txns PROVE RequestOK(t)'
      <4>1. /\ \A p : RowOK(t, p) <=> RowOK(t, p)'
            /\ \A q : TargetOK(t, q) <=> TargetOK(t, q)'
        BY <2>1 DEF RowOK, TargetOK
      <4>2. /\ IsPayment(t)' = IsPayment(t) /\ HasRow(t)' = HasRow(t)
            /\ HasEvent(t)' = HasEvent(t) /\ HasTarget(t)' = HasTarget(t)
            /\ Event(t)' = Event(t)
        BY <2>1 DEF IsPayment, HasRow, HasEvent, HasTarget, Event
      <4> QED
        BY <2>1, <4>1, <4>2 DEF PaymentsInv, RequestOK
    <3> QED
      BY <3>1
  <2>4. IdsOK' /\ ReversalsOK' /\ OneHolder' /\ ReversedIsMarked'
    BY <2>1 DEF PaymentsInv, IdsOK, ReversalsOK, OneHolder, HoldsChain, ReversedIsMarked,
       NoReposts
  <2>5. CashFollowsPayments'
    BY <2>1 DEF PaymentsInv, CashFollowsPayments, CommittedPaymentsOf, NoReposts, NoNegatives
  <2> QED
    BY <2>2, <2>3, <2>4, <2>5 DEF PaymentsInv
<1>2. ASSUME NEW t \in Txns, Start(t) \/ Progress(t) \/ Fail(t) PROVE PaymentsInv'
  <2>1. CASE SavePayment(t)
    BY <2>1, SavePaymentPayments
  <2>2. CASE VerifyReverse(t)
    BY <2>2, VerifyReversePayments
  <2>3. CASE BeginDelete(t)
    BY <2>3, BeginDeletePayments
  <2>4. CASE OpenForm(t)
    BY <2>4, OpenFormPayments
  <2>5. CASE SaveReversal(t)
    BY <2>5, SaveReversalPayments
  <2>6. CASE Register(t)
    BY <2>6, RegisterPayments
  <2>7. CASE UpdateReverseDate(t)
    BY <2>7, UpdateReverseDatePayments
  <2>8. CASE UpdateStatus(t)
    BY <2>8, UpdateStatusPayments
  <2>9. CASE InvoiceNotFound(t)
    BY <2>9, InvoiceNotFoundPayments
  <2>10. CASE CheckPayments(t)
    BY <2>10, CheckPaymentsPayments
  <2>11. CASE Remove(t)
    BY <2>11, RemovePayments
  <2>12. CASE SaveForm(t)
    BY <2>12, SaveFormPayments
  <2>13. CASE Commit(t)
    BY <2>13, CommitPayments
  <2>14. CASE Fail(t) \/ DeadlockVictim(t)
    BY <2>14, FailPayments DEF DeadlockVictim
  <2>15. CASE SaveReposted(t)
    BY <2>15, SaveRepostedPayments
  <2>16. CASE AskTip(t)
    BY <2>16, AskTipPayments
  <2> QED
    BY <1>2, <2>1, <2>2, <2>3, <2>4, <2>5, <2>6, <2>7, <2>8, <2>9, <2>10, <2>11, <2>12,
       <2>13, <2>14, <2>15, <2>16 DEF Start, Progress
<1> QED
  BY <1>1, <1>2 DEF Next

\* What every request has at hand where it stands, that ids are given out once,
\* that one request at a time has an event registered, and that the ledger and
\* the reversal dates follow the payments: PaymentsInv holds in every state.
THEOREM PaymentsInvariant == Spec => []PaymentsInv
  BY InitPayments, NextPayments, PTL DEF Spec

-----------------------------------------------------------------------------
(* The properties.                                                         *)

LEMMA TypeFollows == PaymentsInv => TypeOK
<1> SUFFICES ASSUME PaymentsInv PROVE TypeOK
  OBVIOUS
<1>0. Typed /\ IdsOK /\ lastId \in Nat
  BY DEF PaymentsInv, Typed
<1>1. ASSUME NEW p \in Rows, p.id <= lastId, p.of <= lastId
      PROVE  PaymentOK(p)
  BY <1>0, <1>1 DEF PaymentOK, Rows
<1>2. \A p \in payments : PaymentOK(p)
  BY <1>0, <1>1 DEF Typed, IdsOK
<1>3. ASSUME NEW t \in Txns
      PROVE  /\ Running(t) \/ pc[t] \in {"idle", "committed", "rolledback", "refused",
                                         "invoice_not_found"}
             /\ \A p \in row[t] : PaymentOK(p)
             /\ HoldsChain(t) => seen[t] # {} /\ (row[t] # {} \/ op[t].kind = "repost")
             /\ DOMAIN written[t] \subseteq Entities
             /\ pc[t] \in {"check", "remove"} => todo[t] # <<>>
  <2>1. RequestOK(t)
    BY DEF PaymentsInv
  <2>2. pc[t] \in States /\ row[t] \subseteq Rows /\ written[t] \in Writes
    BY <1>0 DEF Typed
  <2>3. \A p \in row[t] : PaymentOK(p)
    BY <1>0, <1>1, <2>2 DEF IdsOK
  <2>4. HoldsChain(t) => HasEvent(t) /\ HasRow(t)
    BY <2>1 DEF RequestOK, HoldsChain, HasEvent, HasRow
  <2>5. HoldsChain(t) => seen[t] # {} /\ (row[t] # {} \/ op[t].kind = "repost")
    BY <2>1, <2>4 DEF RequestOK
  <2>6. DOMAIN written[t] \subseteq Entities
    BY <2>2 DEF Writes
  <2> QED
    BY <2>1, <2>2, <2>3, <2>5, <2>6 DEF RequestOK, Running, States
<1> QED
  BY <1>0, <1>2, <1>3 DEF TypeOK, Typed

\* The tables and what every request holds are well formed: ids are within the
\* counter, and a request that has registered an event has a payment for it.
THEOREM TypeCorrect == Spec => []TypeOK
  BY PaymentsInvariant, TypeFollows, PTL

\* The cash of an entity in the ledger is what its committed payments add up
\* to, positive for a revenue and negative otherwise, after any sequence of
\* payments, reversals, edits, deletions, rollbacks and deadlocks in which no
\* client sends a negative payment, or an id or a reversal date with one.
THEOREM CashFollowsPaymentsCorrect == Spec => []CashFollowsPayments
<1>1. PaymentsInv => CashFollowsPayments
  BY DEF PaymentsInv
<1> QED
  BY <1>1, PaymentsInvariant, PTL

\* While no client sends a reversal date or an id with a payment, a payment, or
\* a reversal, has its reversal date exactly when some reversal of it is there.
THEOREM ReversedIsMarkedCorrect == Spec => []ReversedIsMarked
<1>1. PaymentsInv => ReversedIsMarked
  BY DEF PaymentsInv
<1> QED
  BY <1>1, PaymentsInvariant, PTL

\* A request that waits while it has rows of entities locked is a deletion.  A
\* reversal waits for the payment it marks only where a payment was reposted,
\* and requests that all wait for the chain hold nothing but the gap above it.
LEMMA DeadlockFollows == PaymentsInv => KnownDeadlocks
<1> SUFFICES ASSUME PaymentsInv, NEW S \in SUBSET Txns, Deadlocked(S),
                    ~Deadlocked({t \in S : pc[t] = "tip"}),
                    ~({"repost", "reverse"} \subseteq KindsOf(S))
             PROVE  Deadlocked({t \in S : op[t].kind = "delete"})
  BY DEF KnownDeadlocks
<1>1. \A t \in S : RequestOK(t) /\ \E u \in S : WaitsFor(t, u)
  BY DEF Deadlocked, PaymentsInv
<1>2. \A t \in S : pc[t] \in {"tip", "mark", "status", "edit", "remove"}
  BY <1>1 DEF WaitsFor
<1>3. ASSUME NEW u \in S, DOMAIN written[u] # {}
      PROVE  op[u].kind = "delete"
  BY <1>1, <1>2, <1>3 DEF RequestOK
<1>4. ASSUME NEW t \in S, pc[t] = "mark"
      PROVE  FALSE
  <2>1. op[t].kind = "reverse" /\ HasEvent(t) /\ HasTarget(t)
    BY <1>4, KindAt DEF HasEvent, IsPayment, HasTarget
  <2>2. \A u \in S : op[u].kind # "repost"
    BY <2>1 DEF KindsOf
  <2>3. PICK q \in Rows : target[t] = {q} /\ TargetOK(t, q)
    BY <1>1, <2>1 DEF RequestOK
  <2>4. PICK u \in S : WaitsFor(t, u)
    BY <1>1
  <2>5. u # t /\ q.id \in LockedPayments(u)
    BY <1>4, <2>3, <2>4 DEF WaitsFor
  <2>6. CASE \E p \in row[u] : p.id = q.id
    BY <2>2, <2>3, <2>6 DEF TargetOK, PaymentsInv, IdsOK
  <2>7. CASE op[u].kind = "reverse" /\ pc[u] = "status"
    <3>1. HasEvent(u)
      BY <2>7 DEF HasEvent, IsPayment
    <3>2. HoldsChain(t) /\ HoldsChain(u)
      BY <1>1, <2>1, <3>1 DEF RequestOK, HoldsChain
    <3> QED
      BY <2>5, <3>2 DEF PaymentsInv, OneHolder
  <2> QED
    BY <1>2, <2>5, <2>6, <2>7 DEF LockedPayments
<1>5. ASSUME NEW t \in S, pc[t] # "tip"
      PROVE  \E u \in S : WaitsFor(t, u) /\ op[u].kind = "delete"
  <2>1. PICK u \in S : WaitsFor(t, u)
    BY <1>1
  <2>2. pc[t] # "mark"
    BY <1>4
  <2>3. DOMAIN written[u] # {}
    BY <1>5, <2>1, <2>2 DEF WaitsFor
  <2> QED
    BY <1>3, <2>1, <2>3
<1>6. \A t \in S : op[t].kind = "delete" => pc[t] # "tip"
  BY KindAt DEF IsPayment
<1>7. \E u \in S : op[u].kind = "delete"
  <2>1. CASE \A t \in S : pc[t] = "tip"
    <3>1. {t \in S : pc[t] = "tip"} = S
      BY <2>1
    <3> QED
      BY <3>1
  <2> QED
    BY <1>5, <2>1
<1> QED
  BY <1>5, <1>6, <1>7 DEF Deadlocked

\* Whenever requests wait in a cycle, deletions of a series among them do, or
\* requests that have all asked for the tip of the chain, or a reversal and a
\* payment sent with an id are there: the status of an entity, written last,
\* adds no cycle.
THEOREM KnownDeadlocksCorrect == Spec => []KnownDeadlocks
  BY PaymentsInvariant, DeadlockFollows, PTL

-----------------------------------------------------------------------------
(* The status of an entity that is only paid and reversed.                 *)

LEMMA StepKeepsOthers ==
  ASSUME Typed, NEW t \in Txns, Start(t) \/ Progress(t) \/ Fail(t)
  PROVE  OthersKept(t)
<1>0. /\ pc \in [Txns -> States] /\ target \in [Txns -> SUBSET (Rows \cup Statuses)]
      /\ seen \in [Txns -> SUBSET Views] /\ row \in [Txns -> SUBSET Rows]
      /\ posted \in [Txns -> SUBSET Int] /\ written \in [Txns -> Writes]
      /\ todo \in [Txns -> Seq(Entities)]
  BY DEF Typed
<1>1. \A outcome : End(t, outcome) => OthersKept(t)
  BY <1>0 DEF End, Goto, OthersKept
<1>2. CASE SavePayment(t) \/ SaveReposted(t)
  BY <1>0, <1>2 DEF SavePayment, SaveReposted, InsertPayment, OverwritePayment, Goto,
     OthersKept
<1>3. CASE VerifyReverse(t)
  BY <1>0, <1>3 DEF VerifyReverse, Goto, OthersKept
<1>4. CASE BeginDelete(t)
  BY <1>0, <1>4 DEF BeginDelete, Goto, OthersKept
<1>5. CASE OpenForm(t)
  BY <1>0, <1>5 DEF OpenForm, Goto, OthersKept
<1>6. CASE SaveReversal(t)
  BY <1>0, <1>6 DEF SaveReversal, InsertPayment, Goto, OthersKept
<1>7. CASE AskTip(t) \/ Register(t)
  BY <1>0, <1>7 DEF AskTip, Register, Goto, OthersKept, locals
<1>8. CASE UpdateReverseDate(t)
  BY <1>0, <1>8 DEF UpdateReverseDate, Goto, OthersKept, locals
<1>9. CASE UpdateStatus(t)
  BY <1>0, <1>9 DEF UpdateStatus, SetStatus, Goto, OthersKept
<1>10. CASE CheckPayments(t)
  BY <1>0, <1>1, <1>10 DEF CheckPayments, Goto, OthersKept, locals
<1>11. CASE Remove(t)
  BY <1>0, <1>11 DEF Remove, SetStatus, Goto, OthersKept
<1>12. CASE InvoiceNotFound(t) \/ SaveForm(t) \/ Commit(t) \/ Fail(t) \/ DeadlockVictim(t)
  BY <1>1, <1>12 DEF InvoiceNotFound, SaveForm, Commit, Fail, DeadlockVictim
<1> QED
  BY <1>2, <1>3, <1>4, <1>5, <1>6, <1>7, <1>8, <1>9, <1>10, <1>11, <1>12 DEF Start, Progress

\* A step that commits nothing keeps the statuses and the views of the others.
LEMMA LocalKeepsStatus ==
  ASSUME StatusInv, PaymentsInv', NEW t \in Txns, OthersKept(t), op' = op,
         payments' = payments, status' = status, value' = value, ViewOK(t)'
  PROVE  StatusInv'
<1>1. StatusFollowsPayments'
  BY DEF StatusInv, StatusFollowsPayments, CommittedPaymentsOf
<1>2. ASSUME NEW u \in Txns \ {t} PROVE ViewOK(u)'
  <2>1. /\ pc'[u] = pc[u] /\ seen'[u] = seen[u] /\ row'[u] = row[u]
        /\ written'[u] = written[u]
    BY DEF OthersKept
  <2>2. HasEvent(u)' = HasEvent(u)
    BY <2>1 DEF HasEvent, IsPayment
  <2> QED
    BY <2>1, <2>2 DEF StatusInv, ViewOK
<1> QED
  BY <1>1, <1>2 DEF StatusInv

\* The commit of a payment writes the status that the payments it leaves imply.
LEMMA CommitStatus ==
  ASSUME OnlyPaid, StatusInv, NEW t \in Txns, Commit(t)
  PROVE  StatusFollowsPayments'
<1>0. /\ PaymentsInv /\ Typed /\ IdsOK /\ ViewOK(t) /\ StatusFollowsPayments
      /\ payments \subseteq Rows /\ IsFiniteSet(payments)
  BY DEF StatusInv, PaymentsInv, Typed
<1>1. /\ pc[t] = "commit" /\ payments' = Overlay(Marked(t), row[t]) /\ value' = value
      /\ status' = [e \in Entities |->
                     IF e \in DOMAIN written[t] THEN written[t][e] ELSE status[e]]
  BY DEF Commit
<1>2. /\ IsPayment(t) /\ op[t].kind # "repost" /\ op[t].entity \in Entities
      /\ payments' = Marked(t) \cup row[t]
  <2>1. op[t].kind \in {"pay", "reverse"}
    BY <1>0 DEF OnlyPaid, Typed
  <2> QED
    BY <1>0, <1>1, <2>1, OpType, CommitTable DEF IsPayment
<1>3. PICK r \in Rows : row[t] = {r} /\ RowOK(t, r)
  BY <1>0, <1>1, <1>2, CommitHas
<1>4. HasEvent(t) /\ DOMAIN written[t] \subseteq {op[t].entity}
  BY <1>0, <1>1, <1>2, CommitHas
<1>5. ASSUME NEW e \in Entities
      PROVE  status'[e] = IF PaymentsOf(e, payments') = {} THEN "pending"
                          ELSE StatusFrom(PaymentsOf(e, payments'), value'[e])
  <2>1. CASE e = op[t].entity
    <3>1. PICK S : S = PaymentsOf(e, payments)
      OBVIOUS
    <3>2. status'[e] = StatusFrom(S \cup {r}, value[e])
      <4>1. status'[e] = StatusFrom(PaymentsOf(e, Overlay(payments, row[t])), value[e])
        BY <1>0, <1>1, <1>2, <1>3, <1>4, <2>1 DEF ViewOK
      <4>2. \A p \in payments : p.id # r.id
        BY <1>0, <1>2, <1>3 DEF IdsOK
      <4>3. Overlay(payments, row[t]) = payments \cup {r}
        BY <1>3, <4>2 DEF Overlay
      <4>4. PaymentsOf(e, Overlay(payments, row[t])) = S \cup {r}
        BY <1>3, <2>1, <3>1, <4>3 DEF PaymentsOf, RowOK
      <4> QED
        BY <4>1, <4>4
    <3>3. S \subseteq payments /\ r \notin S
      BY <1>0, <1>2, <1>3, <3>1 DEF PaymentsOf, IdsOK
    <3>4. IsFiniteSet(S) /\ (\A x \in S : x.value \in Int) /\ r.value \in Int
      BY <1>0, <1>3, <3>3, FS_Subset DEF Rows
    <3>5. Valued(S)
      BY <3>4 DEF Valued
    <3>6. Total(S \cup {r}) = r.value + Total(S)
      BY <3>3, <3>4, <3>5, TotalAdd
    <3>7. /\ Total(PaymentsOf(e, payments')) = r.value + Total(S)
          /\ PaymentsOf(e, payments') # {}
      BY <1>0, <1>1, <1>2, <1>3, <2>1, <3>1, CommitTotals
    <3> QED
      BY <1>1, <3>2, <3>6, <3>7 DEF StatusFrom
  <2>2. CASE e # op[t].entity
    <3>1. status'[e] = status[e]
      BY <1>1, <1>4, <2>2
    <3>2. /\ Total(PaymentsOf(e, payments')) = Total(PaymentsOf(e, payments))
          /\ PaymentsOf(e, payments') = {} <=> PaymentsOf(e, payments) = {}
      BY <1>0, <1>1, <1>2, <2>2, CommitTotals
    <3>3. status[e] = IF PaymentsOf(e, payments) = {} THEN "pending"
                      ELSE StatusFrom(PaymentsOf(e, payments), value[e])
      BY <1>0 DEF StatusFollowsPayments, CommittedPaymentsOf
    <3> QED
      BY <1>1, <3>1, <3>2, <3>3 DEF StatusFrom
  <2> QED
    BY <2>1, <2>2
<1>6. \A e : CommittedPaymentsOf(e)' = PaymentsOf(e, payments')
  BY DEF CommittedPaymentsOf, PaymentsOf
<1> QED
  BY <1>5, <1>6 DEF StatusFollowsPayments

LEMMA InitStatus == Init => StatusInv
<1> SUFFICES ASSUME Init PROVE StatusInv
  OBVIOUS
<1>1. PaymentsInv
  BY InitPayments
<1>2. StatusFollowsPayments
  BY DEF Init, StatusFollowsPayments, CommittedPaymentsOf, PaymentsOf
<1>3. \A t \in Txns : ViewOK(t)
  BY DEF Init, ViewOK, HasEvent
<1> QED
  BY <1>1, <1>2, <1>3 DEF StatusInv

LEMMA NextStatus == OnlyPaid /\ StatusInv /\ [Next]_vars => StatusInv'
<1> SUFFICES ASSUME OnlyPaid, StatusInv, [Next]_vars PROVE StatusInv'
  OBVIOUS
<1>0. PaymentsInv /\ Typed /\ PaymentsInv'
  BY NextPayments DEF StatusInv, PaymentsInv
<1>1. CASE UNCHANGED vars
  <2>1. /\ payments' = payments /\ status' = status /\ value' = value /\ pc' = pc
        /\ op' = op /\ seen' = seen /\ row' = row /\ written' = written
    BY <1>1 DEF vars, database, locals
  <2>2. StatusFollowsPayments'
    BY <2>1 DEF StatusInv, StatusFollowsPayments, CommittedPaymentsOf
  <2>3. ASSUME NEW t \in Txns PROVE ViewOK(t)'
    BY <2>1 DEF StatusInv, ViewOK, HasEvent, IsPayment
  <2> QED
    BY <1>0, <2>2, <2>3 DEF StatusInv
<1>2. ASSUME NEW t \in Txns, Start(t) \/ Progress(t) \/ Fail(t) PROVE StatusInv'
  <2>0. /\ OthersKept(t) /\ IsPayment(t) /\ pc \in [Txns -> States] /\ RequestOK(t)
        /\ op[t].kind \in {"pay", "reverse"}
    BY <1>0, <1>2, StepKeepsOthers, OpType DEF OnlyPaid, Typed, IsPayment, PaymentsInv
  <2>1. CASE Commit(t)
    <3>1. HasEvent(t) /\ HoldsChain(t)
      BY <1>0, <2>0, <2>1, CommitHas DEF Commit, HoldsChain
    <3>2. ASSUME NEW u \in Txns PROVE ~HasEvent(u)'
      <4>1. CASE u = t
        <5>1. pc'[t] = "committed"
          BY <2>0, <2>1 DEF Commit, End, Goto
        <5> QED
          BY <4>1, <5>1 DEF HasEvent
      <4>2. CASE u # t
        <5>1. ~HoldsChain(u)
          BY <1>0, <3>1, <4>2 DEF PaymentsInv, OneHolder
        <5>2. ~HasEvent(u)
          BY <1>0, <5>1 DEF PaymentsInv, RequestOK, HoldsChain
        <5>3. pc'[u] = pc[u] /\ op' = op
          BY <2>0, <2>1, <4>2 DEF OthersKept, Commit
        <5> QED
          BY <5>2, <5>3 DEF HasEvent, IsPayment
      <4> QED
        BY <4>1, <4>2
    <3> QED
      BY <1>0, <2>1, <3>2, CommitStatus DEF StatusInv, ViewOK
  <2>2. CASE SaveForm(t) \/ OpenForm(t) \/ BeginDelete(t) \/ CheckPayments(t) \/ Remove(t)
               \/ SaveReposted(t)
    <3>1. op[t].kind \in {"edit", "delete", "repost"}
      BY <1>0, <2>2, KindAt DEF SaveForm, OpenForm, BeginDelete, CheckPayments, Remove,
         SaveReposted
    <3> QED
      BY <2>0, <3>1
  <2>3. CASE SavePayment(t) \/ VerifyReverse(t) \/ SaveReversal(t) \/ AskTip(t)
               \/ InvoiceNotFound(t) \/ Fail(t) \/ DeadlockVictim(t)
    <3>1. pc'[t] \in {"register", "reverse", "tip", "refused", "invoice_not_found",
                      "rolledback"}
      BY <2>0, <2>3 DEF SavePayment, VerifyReverse, SaveReversal, InsertPayment, AskTip,
         InvoiceNotFound, DeadlockVictim, Fail, End, Goto
    <3>2. op' = op /\ payments' = payments /\ status' = status /\ value' = value
      BY <2>3 DEF SavePayment, VerifyReverse, SaveReversal, AskTip, InvoiceNotFound,
         DeadlockVictim, Fail, database
    <3>3. ViewOK(t)'
      BY <3>1 DEF ViewOK, HasEvent
    <3> QED
      BY <1>0, <2>0, <3>2, <3>3, LocalKeepsStatus
  <2>4. CASE Register(t)
    <3>1. /\ pc[t] = "tip" /\ op' = op /\ payments' = payments /\ status' = status
          /\ value' = value /\ seen' = [seen EXCEPT ![t] = IF @ = {} THEN ReadView ELSE @]
          /\ pc' = [pc EXCEPT ![t] = IF op[t].kind = "reverse" THEN "mark" ELSE "status"]
      BY <2>4 DEF Register, Goto, database
    <3>2. seen[t] = {} /\ pc'[t] # "commit"
      BY <2>0, <3>1 DEF RequestOK, HasEvent
    <3>3. seen'[t] = ReadView
      BY <1>0, <3>1, <3>2 DEF Typed
    <3>4. ViewOK(t)'
      BY <3>1, <3>2, <3>3 DEF ViewOK, ReadView
    <3> QED
      BY <1>0, <2>0, <3>1, <3>4, LocalKeepsStatus
  <2>5. CASE UpdateReverseDate(t)
    <3>1. /\ pc[t] = "mark" /\ op' = op /\ payments' = payments /\ status' = status
          /\ value' = value /\ seen' = seen /\ pc'[t] = "status"
      BY <2>0, <2>5 DEF UpdateReverseDate, Goto, database, locals
    <3>2. HasEvent(t)
      BY <2>0, <3>1 DEF HasEvent
    <3>3. ViewOK(t)'
      BY <3>1, <3>2 DEF StatusInv, ViewOK
    <3> QED
      BY <1>0, <2>0, <3>1, <3>3, LocalKeepsStatus
  <2>6. CASE UpdateStatus(t)
    <3>1. PICK e : e = op[t].entity
      OBVIOUS
    <3>2. /\ pc[t] = "status" /\ op' = op /\ payments' = payments /\ status' = status
          /\ value' = value /\ seen' = seen /\ row' = row
      BY <2>6 DEF UpdateStatus, database
    <3>3. HasEvent(t) /\ e \in Entities
      BY <1>0, <2>0, <3>1, <3>2, OpType DEF HasEvent
    <3>4. seen[t] = {[payments |-> payments, value |-> value]}
      BY <3>3 DEF StatusInv, ViewOK
    <3>5. PICK new :
            new = StatusFrom(PaymentsOf(e, Overlay(payments, row[t])), value[e])
      OBVIOUS
    <3>6. SetStatus(t, e, new) /\ new \in Statuses
      <4>1. PICK view \in seen[t] :
              SetStatus(t, e, StatusFrom(PaymentsOf(e, Overlay(view.payments, row[t])),
                                         view.value[e]))
        BY <2>6, <3>1 DEF UpdateStatus
      <4>2. view.payments = payments /\ view.value = value
        BY <3>4, <4>1
      <4>3. SetStatus(t, e, new)
        BY <3>5, <4>1, <4>2
      <4> QED
        BY <3>5, <4>3, StatusType
    <3>7. DOMAIN written'[t] = DOMAIN written[t] \cup {e} /\ written'[t][e] = new
      BY <1>0, <3>3, <3>6, SetStatusFacts
    <3>8. ViewOK(t)'
      BY <3>1, <3>2, <3>4, <3>5, <3>7 DEF ViewOK, PaymentsOf, Overlay
    <3> QED
      BY <1>0, <2>0, <3>2, <3>8, LocalKeepsStatus
  <2> QED
    BY <1>2, <2>1, <2>2, <2>3, <2>4, <2>5, <2>6 DEF Start, Progress
<1> QED
  BY <1>1, <1>2 DEF Next

\* While requests only pay and reverse, the stored status of an expense, a
\* revenue or an invoice is the one its committed payments imply, however many
\* requests interleave, fail and are rolled back.
THEOREM StatusFollowsPaymentsCorrect == OnlyPaid /\ Spec => []StatusFollowsPayments
<1>1. OnlyPaid /\ Init => OnlyPaid /\ StatusInv
  BY InitStatus
<1>2. OnlyPaid /\ StatusInv /\ [Next]_vars => (OnlyPaid /\ StatusInv)'
  <2>1. OnlyPaid => OnlyPaid'
    BY DEF OnlyPaid
  <2> QED
    BY <2>1, NextStatus
<1>3. OnlyPaid /\ StatusInv => StatusFollowsPayments
  BY DEF StatusInv
<1> QED
  BY <1>1, <1>2, <1>3, PTL DEF Spec
=============================================================================
