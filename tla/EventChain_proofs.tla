------------------------- MODULE EventChain_proofs -------------------------
(***************************************************************************)
(* Proofs about EventChain, for any number of requests, tenants and calls. *)
(*                                                                         *)
(* ChainIntact is not inductive: it speaks of committed events only, and a *)
(* commit makes a transaction's rows appear in it at once.  ChainInv says  *)
(* the same of every row that is in the table, and adds what a transaction *)
(* knows between its locking read and its INSERT: the event it numbers     *)
(* itself after is committed or its own, so no rollback of another         *)
(* transaction can take it away.                                           *)
(***************************************************************************)
EXTENDS EventChain, SequenceTheorems, TLAPS

\* A row stays in the table only while its writer runs or once it committed,
\* and belongs to the tenant of its writer.
Written ==
  \A e \in events : /\ Running(e.txn) \/ Committed(e.txn)
                    /\ e.clientId = client[e.txn]

\* Whatever happens to other transactions, t can build on p.
Solid(p, t) == p.txn = t \/ Committed(p.txn)

UniqueKey ==
  \A e, f \in events :
    e.clientId = f.clientId /\ e.sequenceNumber = f.sequenceNumber => e = f

HasPredecessor(e) ==
  \E p \in events : /\ p.clientId = e.clientId
                    /\ p.sequenceNumber = e.sequenceNumber - 1
                    /\ p.eventHash = e.previousHash
                    /\ Solid(p, e.txn)

Linked ==
  \A e \in events :
    \/ e.sequenceNumber = 1 /\ e.previousHash = Initial
    \/ HasPredecessor(e)

KnowsTip(t) ==
  \/ last[t] = NoEvent
  \/ \E p \in events : /\ p.clientId = client[t]
                       /\ last[t] = Tip(p)
                       /\ Solid(p, t)

TipsKnown == \A t \in Txns : pc[t] \in {"insert", "write"} => KnowsTip(t)

ChainInv == TypeOK /\ Written /\ UniqueKey /\ Linked /\ TipsKnown

-----------------------------------------------------------------------------
\* The type invariant holds for every value of the constants.
LEMMA InitTypeOK == Init => TypeOK
<1> SUFFICES ASSUME Init PROVE TypeOK
  OBVIOUS
<1>1. \A t \in Txns : Len(request[t]) \in Nat /\ Len(request[t]) > 0
  BY RequestsAssumption DEF Init
<1> QED
  BY <1>1 DEF Init, TypeOK, RunningStates, NoEvent

\* What the typing of the call in hand needs: while a call is left, it is one.
LEMMA CallType ==
  ASSUME TypeOK, NEW t \in Txns, pc[t] \in RunningStates \ {"commit"}
  PROVE  Call(t) \in Calls /\ done[t] + 1 \in 1..Len(request[t])
<1>1. request[t] \in Seq(Calls) /\ done[t] \in Nat
  BY RequestsAssumption DEF TypeOK
<1>2. done[t] < Len(request[t]) /\ Len(request[t]) \in Nat
  BY <1>1 DEF TypeOK
<1> QED
  BY <1>1, <1>2 DEF Call

\* The booked amounts are numbers.
LEMMA AmountType ==
  ASSUME NEW call \in Calls
  PROVE  OriginAmount(call) \in Int /\ DestinationAmount(call) \in Int
<1>1. call.amount \in Int
  BY DEF Calls
<1>2. Magnitude(call.amount) \in Int /\ -Magnitude(call.amount) \in Int
  BY <1>1 DEF Magnitude
<1>3. DestinationAmount(call) \in Int
  BY <1>2 DEF DestinationAmount
<1>4. QED
  BY <1>3 DEF OriginAmount

LEMMA RollbackTypeOK ==
  ASSUME TypeOK, NEW t \in Txns, Rollback(t)
  PROVE  TypeOK'
<1> USE DEF Rollback, Goto
<1>1. /\ events' \subseteq events /\ processed' \subseteq processed
      /\ entries' \subseteq entries
  OBVIOUS
<1>2. (\A e \in events : EventOK(e))' /\ (\A x \in entries : EntryOK(x))'
  BY <1>1 DEF TypeOK, EventOK, EntryOK
<1> QED
  BY <1>1, <1>2 DEF TypeOK, RunningStates

LEMMA NextTypeOK == TypeOK /\ [Next]_vars => TypeOK'
<1> SUFFICES ASSUME TypeOK, [Next]_vars PROVE TypeOK'
  OBVIOUS
<1>1. ASSUME UNCHANGED vars PROVE TypeOK'
  BY <1>1 DEF vars, tables, TypeOK, EventOK, EntryOK
<1>2. ASSUME NEW t \in Txns, Begin(t) PROVE TypeOK'
  <2>1. request[t] \in Seq(Calls) /\ request[t] # <<>>
    BY RequestsAssumption DEF TypeOK
  <2>2. Len(request[t]) \in Nat /\ Len(request[t]) > 0
    BY <2>1
  <2> QED
    BY <1>2, <2>2 DEF Begin, Goto, TypeOK, RunningStates, tables, EventOK, EntryOK
<1>3. ASSUME NEW t \in Txns, FindNoEvent(t) PROVE TypeOK'
  BY <1>3 DEF FindNoEvent, Goto, NoEvent, TypeOK, RunningStates, tables,
              EventOK, EntryOK
<1>4. ASSUME NEW t \in Txns, NEW e \in events, Adopt(t, e),
             pc[t] \in {"scan", "wait"}
      PROVE  TypeOK'
  <2>1. EventOK(e)
    BY DEF TypeOK
  <2> QED
    BY <1>4, <2>1 DEF Adopt, Tip, Goto, TypeOK, RunningStates, tables, EventOK,
                      EntryOK
<1>5. ASSUME NEW t \in Txns, WaitForLock(t) PROVE TypeOK'
  BY <1>5 DEF WaitForLock, IsLast, EventsOf, Goto, TypeOK, RunningStates,
              tables, EventOK, EntryOK
<1>6. ASSUME NEW t \in Txns, Rescan(t) PROVE TypeOK'
  BY <1>6 DEF Rescan, Goto, TypeOK, RunningStates, tables, EventOK, EntryOK
<1>7. ASSUME NEW t \in Txns, TakeId(t) PROVE TypeOK'
  BY <1>7 DEF TakeId, Goto, TypeOK, RunningStates, tables, EventOK, EntryOK
<1>8. ASSUME NEW t \in Txns, WriteEvent(t) PROVE TypeOK'
  <2>0. pc[t] = "write" /\ pc[t] \in RunningStates \ {"commit"}
    BY <1>8 DEF WriteEvent, RunningStates
  <2>1. EventOK(NewEvent(t))
    <3>1. Call(t) \in Calls /\ client[t] \in Clients /\ newId[t] \in Nat
      BY <2>0, CallType DEF TypeOK
    <3>2. last[t].sequenceNumber + 1 \in Nat \ {0}
      BY DEF TypeOK
    <3> QED
      BY <3>1, <3>2 DEF NewEvent, EventOK
  <2>2. (\A e \in events : EventOK(e))'
    BY <1>8, <2>1 DEF WriteEvent, EventOK, TypeOK
  <2> QED
    BY <1>8, <2>2 DEF WriteEvent, Goto, TypeOK, RunningStates, EntryOK
<1>9. ASSUME NEW t \in Txns, MarkProcessed(t) PROVE TypeOK'
  BY <1>9 DEF MarkProcessed, Goto, TypeOK, RunningStates, EventOK, EntryOK
<1>10. ASSUME NEW t \in Txns, SaveOrigin(t) PROVE TypeOK'
  <2>0. pc[t] = "origin" /\ pc[t] \in RunningStates \ {"commit"}
    BY <1>10 DEF SaveOrigin, RunningStates
  <2>1. EntryOK(Origin(t))
    BY <2>0, CallType, AmountType DEF Origin, EntryOK, TypeOK, Calls
  <2> QED
    BY <1>10, <2>1 DEF SaveOrigin, Goto, TypeOK, RunningStates, EventOK, EntryOK
<1>11. ASSUME NEW t \in Txns, SaveDestination(t) PROVE TypeOK'
  <2>0. pc[t] = "destination" /\ pc[t] \in RunningStates \ {"commit"}
    BY <1>11 DEF SaveDestination, RunningStates
  <2>1. EntryOK(Destination(t))
    BY <2>0, CallType, AmountType
    DEF Destination, DestinationLiquidity, EntryOK, TypeOK, Calls
  <2>2. done[t] + 1 \in Nat /\ done[t] + 1 <= Len(request[t]) /\ Len(request[t]) \in Nat
    BY <2>0, CallType, RequestsAssumption DEF TypeOK
  <2> QED
    BY <1>11, <2>1, <2>2
    DEF SaveDestination, Goto, TypeOK, RunningStates, EventOK, EntryOK
<1>12. ASSUME NEW t \in Txns, Commit(t) PROVE TypeOK'
  BY <1>12 DEF Commit, Goto, TypeOK, RunningStates, tables, EventOK, EntryOK
<1>13. ASSUME NEW t \in Txns, Rollback(t) PROVE TypeOK'
  BY <1>13, RollbackTypeOK
<1> QED
  BY <1>1, <1>2, <1>3, <1>4, <1>5, <1>6, <1>7, <1>8, <1>9, <1>10, <1>11,
     <1>12, <1>13
  DEF Next, Progress, LockLastEvent, GrantLock, EventsOf, Refuse, Fail

\* Every reachable state of every instance is well typed.
THEOREM TypeCorrect == Spec => []TypeOK
  BY InitTypeOK, NextTypeOK, PTL DEF Spec

-----------------------------------------------------------------------------
\* The chain.  The actions fall into four groups: those that leave the table
\* and what transactions know alone, the locking read, the INSERT and the two
\* ways a transaction ends.

LEMMA InitChainInv == Init => ChainInv
  BY InitTypeOK
  DEF Init, ChainInv, Written, UniqueKey, Linked, TipsKnown, RunningStates

\* A step of t that leaves the events and the tips alone, and takes t neither
\* out of the running states nor to the INSERT.
Quiet(t) ==
  /\ events' = events /\ last' = last /\ client' = client
  /\ \E state \in RunningStates :
       /\ Goto(t, state)
       /\ state \in {"insert", "write"} => pc[t] \in {"insert", "write"}
  /\ ~Committed(t)

LEMMA QuietChainInv ==
  ASSUME ChainInv, NEW t \in Txns, Quiet(t), TypeOK'
  PROVE  ChainInv'
<1>0. /\ Written /\ UniqueKey /\ Linked /\ TipsKnown
      /\ \A e \in events : e.txn \in Txns
      /\ pc \in [Txns -> RunningStates \cup {"idle", "committed", "rolledback"}]
      /\ DOMAIN last = Txns
  BY DEF ChainInv, TypeOK, EventOK
<1>1. \A u \in Txns : /\ pc[u] \in RunningStates => pc'[u] \in RunningStates
                      /\ pc[u] = "committed" => pc'[u] = "committed"
  BY <1>0 DEF Quiet, Goto, Committed, RunningStates
<1>2. Written'
  BY <1>0, <1>1 DEF Written, Quiet, Running, Committed
<1>3. UniqueKey'
  BY <1>0 DEF UniqueKey, Quiet
<1>4. \A p \in events, u \in Txns : Solid(p, u) => Solid(p, u)'
  BY <1>0, <1>1 DEF Solid, Committed
<1>5. Linked'
  BY <1>0, <1>4 DEF Linked, HasPredecessor, Quiet
<1>6. TipsKnown'
  <2> SUFFICES ASSUME NEW u \in Txns, pc'[u] \in {"insert", "write"}
               PROVE  KnowsTip(u)'
    BY DEF TipsKnown
  <2>1. pc[u] \in {"insert", "write"}
    BY <1>0 DEF Quiet, Goto
  <2>2. KnowsTip(u)
    BY <1>0, <2>1 DEF TipsKnown
  <2> QED
    BY <2>2, <1>4 DEF KnowsTip, Quiet
<1> QED
  BY <1>2, <1>3, <1>5, <1>6 DEF ChainInv

\* The locking read: the row it returns is committed or the reader's own,
\* because a row of any other running transaction is locked.
LEMMA AdoptChainInv ==
  ASSUME ChainInv, NEW t \in Txns, NEW e \in events, Adopt(t, e),
         e.clientId = client[t], pc[t] \in {"scan", "wait"}, TypeOK'
  PROVE  ChainInv'
<1>0. /\ Written /\ UniqueKey /\ Linked /\ TipsKnown
      /\ \A x \in events : x.txn \in Txns
      /\ pc \in [Txns -> RunningStates \cup {"idle", "committed", "rolledback"}]
      /\ DOMAIN last = Txns
  BY DEF ChainInv, TypeOK, EventOK
<1>1. \A u \in Txns : /\ pc[u] \in RunningStates => pc'[u] \in RunningStates
                      /\ pc[u] = "committed" => pc'[u] = "committed"
  BY <1>0 DEF Adopt, Goto, RunningStates
<1>2. \A p \in events, u \in Txns : Solid(p, u) => Solid(p, u)'
  BY <1>0, <1>1 DEF Solid, Committed
<1>3. Written'
  BY <1>0, <1>1 DEF Written, Adopt, tables, Running, Committed
<1>4. UniqueKey'
  BY <1>0 DEF UniqueKey, Adopt, tables
<1>5. Linked'
  BY <1>0, <1>2 DEF Linked, HasPredecessor, Adopt, tables
<1>6. Solid(e, t)
  BY <1>0 DEF Solid, Adopt, LockedByOther, Written
<1>7. KnowsTip(t)'
  BY <1>0, <1>2, <1>6 DEF KnowsTip, Adopt, tables
<1>8. TipsKnown'
  <2> SUFFICES ASSUME NEW u \in Txns, u # t, pc'[u] \in {"insert", "write"}
               PROVE  KnowsTip(u)'
    BY <1>7 DEF TipsKnown
  <2>1. KnowsTip(u)
    BY <1>0 DEF TipsKnown, Adopt, Goto
  <2> QED
    BY <2>1, <1>2 DEF KnowsTip, Adopt, tables
<1> QED
  BY <1>3, <1>4, <1>5, <1>8 DEF ChainInv

\* The tenant has no event to read: the transaction knows it comes first.
LEMMA FindNoEventChainInv ==
  ASSUME ChainInv, NEW t \in Txns, FindNoEvent(t), TypeOK'
  PROVE  ChainInv'
<1>0. /\ Written /\ UniqueKey /\ Linked /\ TipsKnown
      /\ \A e \in events : e.txn \in Txns
      /\ pc \in [Txns -> RunningStates \cup {"idle", "committed", "rolledback"}]
      /\ DOMAIN last = Txns
  BY DEF ChainInv, TypeOK, EventOK
<1>1. \A u \in Txns : /\ pc[u] \in RunningStates => pc'[u] \in RunningStates
                      /\ pc[u] = "committed" => pc'[u] = "committed"
  BY <1>0 DEF FindNoEvent, Goto, RunningStates
<1>2. \A p \in events, u \in Txns : Solid(p, u) => Solid(p, u)'
  BY <1>0, <1>1 DEF Solid, Committed
<1>3. Written'
  BY <1>0, <1>1 DEF Written, FindNoEvent, tables, Running, Committed
<1>4. UniqueKey'
  BY <1>0 DEF UniqueKey, FindNoEvent, tables
<1>5. Linked'
  BY <1>0, <1>2 DEF Linked, HasPredecessor, FindNoEvent, tables
<1>6. TipsKnown'
  <2> SUFFICES ASSUME NEW u \in Txns, u # t, pc'[u] \in {"insert", "write"}
               PROVE  KnowsTip(u)'
    BY <1>0 DEF TipsKnown, KnowsTip, FindNoEvent
  <2>1. KnowsTip(u)
    BY <1>0 DEF TipsKnown, FindNoEvent, Goto
  <2> QED
    BY <1>0, <2>1, <1>2 DEF KnowsTip, FindNoEvent, tables
<1> QED
  BY <1>3, <1>4, <1>5, <1>6 DEF ChainInv

\* The INSERT: the unique key keeps the number single, and the tip the
\* transaction read is there as its predecessor.
LEMMA WriteChainInv ==
  ASSUME ChainInv, NEW t \in Txns, WriteEvent(t), TypeOK'
  PROVE  ChainInv'
<1>0. /\ Written /\ UniqueKey /\ Linked /\ TipsKnown
      /\ \A e \in events : e.txn \in Txns /\ e.sequenceNumber \in Nat
      /\ pc \in [Txns -> RunningStates \cup {"idle", "committed", "rolledback"}]
      /\ DOMAIN last = Txns
  BY DEF ChainInv, TypeOK, EventOK
<1> DEFINE new == NewEvent(t)
<1>a. /\ events' = events \cup {new}
      /\ last' = last /\ client' = client
      /\ pc[t] = "write" /\ pc' = [pc EXCEPT ![t] = "process"]
      /\ \A e \in events : ~(/\ e.clientId = new.clientId
                             /\ e.sequenceNumber = new.sequenceNumber)
      /\ new.txn = t /\ new.clientId = client[t]
      /\ new.sequenceNumber = last[t].sequenceNumber + 1
      /\ new.previousHash = last[t].eventHash
  BY DEF WriteEvent, Collides, Goto, NewEvent
<1> HIDE DEF new
<1>1. \A u \in Txns : /\ pc[u] \in RunningStates => pc'[u] \in RunningStates
                      /\ pc[u] = "committed" => pc'[u] = "committed"
  BY <1>0, <1>a DEF RunningStates
<1>2. \A p \in events, u \in Txns : Solid(p, u) => Solid(p, u)'
  BY <1>0, <1>1 DEF Solid, Committed
<1>3. Written'
  <2>1. pc'[t] \in RunningStates
    BY <1>0, <1>a DEF RunningStates
  <2> QED
    BY <2>1, <1>0, <1>1, <1>a DEF Written, Running, Committed
<1>4. UniqueKey'
  BY <1>0, <1>a DEF UniqueKey
<1>5. Linked'
  <2>1. KnowsTip(t)
    BY <1>0, <1>a DEF TipsKnown
  <2>2. CASE last[t] = NoEvent
    <3>1. new.sequenceNumber = 1 /\ new.previousHash = Initial
      BY <2>2, <1>a DEF NoEvent
    <3> QED
      BY <3>1, <1>0, <1>2, <1>a DEF Linked, HasPredecessor
  <2>3. CASE \E p \in events : /\ p.clientId = client[t]
                               /\ last[t] = Tip(p)
                               /\ Solid(p, t)
    <3>1. PICK p \in events : /\ p.clientId = client[t]
                              /\ last[t] = Tip(p)
                              /\ Solid(p, t)
      BY <2>3
    <3>2. /\ last[t].sequenceNumber = p.sequenceNumber
          /\ last[t].eventHash = p.eventHash
      BY <3>1 DEF Tip
    <3>3. p \in events' /\ p.sequenceNumber = new.sequenceNumber - 1
      BY <3>2, <1>0, <1>a
    <3>4. /\ p.clientId = new.clientId
          /\ p.eventHash = new.previousHash
          /\ Solid(p, t)'
      BY <3>1, <3>2, <3>3, <1>2, <1>a
    <3> QED
      BY <3>3, <3>4, <1>0, <1>2, <1>a DEF Linked, HasPredecessor
  <2> QED
    BY <2>1, <2>2, <2>3 DEF KnowsTip
<1>6. TipsKnown'
  <2> SUFFICES ASSUME NEW u \in Txns, pc'[u] \in {"insert", "write"}
               PROVE  KnowsTip(u)'
    BY DEF TipsKnown
  <2>1. KnowsTip(u)
    BY <1>0, <1>a DEF TipsKnown
  <2> QED
    BY <1>0, <2>1, <1>2, <1>a DEF KnowsTip
<1> QED
  BY <1>3, <1>4, <1>5, <1>6 DEF ChainInv

\* COMMIT changes no row, and what was solid stays solid.
LEMMA CommitChainInv ==
  ASSUME ChainInv, NEW t \in Txns, Commit(t), TypeOK'
  PROVE  ChainInv'
<1>0. /\ Written /\ UniqueKey /\ Linked /\ TipsKnown
      /\ \A e \in events : e.txn \in Txns
      /\ pc \in [Txns -> RunningStates \cup {"idle", "committed", "rolledback"}]
      /\ DOMAIN last = Txns
  BY DEF ChainInv, TypeOK, EventOK
<1>1. \A u \in Txns :
        /\ pc[u] \in RunningStates => pc'[u] \in RunningStates \cup {"committed"}
        /\ pc[u] = "committed" => pc'[u] = "committed"
  BY <1>0 DEF Commit, Goto
<1>2. \A p \in events, u \in Txns : Solid(p, u) => Solid(p, u)'
  BY <1>0, <1>1 DEF Solid, Committed
<1>3. Written'
  BY <1>0, <1>1 DEF Written, Commit, tables, Running, Committed
<1>4. UniqueKey'
  BY <1>0 DEF UniqueKey, Commit, tables
<1>5. Linked'
  BY <1>0, <1>2 DEF Linked, HasPredecessor, Commit, tables
<1>6. TipsKnown'
  <2> SUFFICES ASSUME NEW u \in Txns, pc'[u] \in {"insert", "write"}
               PROVE  KnowsTip(u)'
    BY DEF TipsKnown
  <2>1. KnowsTip(u)
    BY <1>0 DEF TipsKnown, Commit, Goto
  <2> QED
    BY <1>0, <2>1, <1>2 DEF KnowsTip, Commit, tables
<1> QED
  BY <1>3, <1>4, <1>5, <1>6 DEF ChainInv

\* ROLLBACK takes rows away, but never the predecessor of a row that stays nor
\* the tip another transaction read: those are committed or that one's own.
LEMMA RollbackChainInv ==
  ASSUME ChainInv, NEW t \in Txns, Running(t), Rollback(t), TypeOK'
  PROVE  ChainInv'
<1>0. /\ Written /\ UniqueKey /\ Linked /\ TipsKnown
      /\ \A e \in events : e.txn \in Txns
      /\ pc \in [Txns -> RunningStates \cup {"idle", "committed", "rolledback"}]
      /\ DOMAIN last = Txns
  BY DEF ChainInv, TypeOK, EventOK
<1>a. /\ events' = {e \in events : e.txn # t}
      /\ pc' = [pc EXCEPT ![t] = "rolledback"]
      /\ last' = last /\ client' = client
      /\ pc[t] # "committed"
  BY DEF Rollback, Goto, Running, RunningStates
<1>1. \A u \in Txns \ {t} : pc'[u] = pc[u]
  BY <1>0, <1>a
<1>2. \A p \in events, u \in Txns \ {t} :
        Solid(p, u) => p \in events' /\ Solid(p, u)'
  BY <1>0, <1>1, <1>a DEF Solid, Committed
<1>3. Written'
  BY <1>0, <1>1, <1>a DEF Written, Running, Committed
<1>4. UniqueKey'
  BY <1>0, <1>a DEF UniqueKey
<1>5. Linked'
  BY <1>0, <1>2, <1>a DEF Linked, HasPredecessor
<1>6. TipsKnown'
  <2> SUFFICES ASSUME NEW u \in Txns, pc'[u] \in {"insert", "write"}
               PROVE  KnowsTip(u)'
    BY DEF TipsKnown
  <2>0. u # t
    BY <1>0, <1>a
  <2>1. KnowsTip(u)
    BY <1>0, <1>1, <2>0 DEF TipsKnown
  <2> QED
    BY <1>0, <2>0, <2>1, <1>2, <1>a DEF KnowsTip
<1> QED
  BY <1>3, <1>4, <1>5, <1>6 DEF ChainInv

LEMMA NextChainInv == ChainInv /\ [Next]_vars => ChainInv'
<1> SUFFICES ASSUME ChainInv, [Next]_vars PROVE ChainInv'
  OBVIOUS
<1>0. TypeOK /\ TypeOK'
  BY NextTypeOK DEF ChainInv
<1>1. ASSUME UNCHANGED vars PROVE ChainInv'
  BY <1>1, <1>0 DEF vars, tables, ChainInv, Written, UniqueKey, Linked,
     HasPredecessor, TipsKnown, KnowsTip, Solid, Tip, Running, Committed
<1>2. ASSUME NEW t \in Txns,
             Begin(t) \/ WaitForLock(t) \/ Rescan(t) \/ TakeId(t)
               \/ MarkProcessed(t) \/ SaveOrigin(t) \/ SaveDestination(t)
      PROVE  ChainInv'
  <2>1. Quiet(t)
    BY <1>2 DEF Quiet, Begin, WaitForLock, Rescan, TakeId, MarkProcessed,
       SaveOrigin, SaveDestination, tables, RunningStates, Committed
  <2> QED
    BY <2>1, <1>0, QuietChainInv
<1>3. ASSUME NEW t \in Txns, FindNoEvent(t) PROVE ChainInv'
  BY <1>3, <1>0, FindNoEventChainInv
<1>4. ASSUME NEW t \in Txns, LockLastEvent(t) PROVE ChainInv'
  BY <1>4, <1>0, AdoptChainInv DEF LockLastEvent, IsLast, EventsOf
<1>5. ASSUME NEW t \in Txns, GrantLock(t) PROVE ChainInv'
  BY <1>5, <1>0, AdoptChainInv DEF GrantLock, EventsOf
<1>6. ASSUME NEW t \in Txns, WriteEvent(t) PROVE ChainInv'
  BY <1>6, <1>0, WriteChainInv
<1>7. ASSUME NEW t \in Txns, Commit(t) PROVE ChainInv'
  BY <1>7, <1>0, CommitChainInv
<1>8. ASSUME NEW t \in Txns, Refuse(t) \/ Fail(t) PROVE ChainInv'
  <2>1. Running(t) /\ Rollback(t)
    BY <1>8 DEF Refuse, Fail, Running, RunningStates
  <2> QED
    BY <2>1, <1>0, RollbackChainInv
<1> QED
  BY <1>1, <1>2, <1>3, <1>4, <1>5, <1>6, <1>7, <1>8 DEF Next, Progress

\* A committed event's predecessor is solid for its writer, so it is committed:
\* the chain of all rows restricts to the chain of the committed ones.
LEMMA ChainInvImpliesChainIntact == ChainInv => ChainIntact
<1> SUFFICES ASSUME ChainInv PROVE ChainIntact
  OBVIOUS
<1>1. UniqueSequence
  BY DEF ChainInv, UniqueKey, UniqueSequence, CommittedEvents
<1>2. LinkedToPrevious
  <2> SUFFICES ASSUME NEW e \in CommittedEvents,
                      ~(e.sequenceNumber = 1 /\ e.previousHash = Initial)
               PROVE  \E p \in CommittedEvents :
                        /\ p.clientId = e.clientId
                        /\ p.sequenceNumber = e.sequenceNumber - 1
                        /\ p.eventHash = e.previousHash
    BY DEF LinkedToPrevious
  <2>1. e \in events /\ Committed(e.txn)
    BY DEF CommittedEvents
  <2>2. HasPredecessor(e)
    BY <2>1 DEF ChainInv, Linked
  <2> QED
    BY <2>1, <2>2 DEF HasPredecessor, Solid, CommittedEvents, Committed
<1> QED
  BY <1>1, <1>2 DEF ChainIntact

\* In every reachable state of every instance the committed events of a tenant
\* form one unbroken, uniquely numbered hash chain.
THEOREM ChainCorrect == Spec => []ChainIntact
  BY InitChainInv, NextChainInv, ChainInvImpliesChainIntact, PTL DEF Spec

-----------------------------------------------------------------------------
(***************************************************************************)
(* The order in which events become visible, proved for any number of      *)
(* requests, tenants and calls: OneWriter and CommitsBehind.               *)
(*                                                                         *)
(* Both speak of events that may lie far apart in the chain, and walking   *)
(* it back one predecessor at a time would take an induction.  OrderInv    *)
(* carries what the walk would find: below an event every number is taken, *)
(* by an event with a smaller id that is committed or of the same writer.  *)
(***************************************************************************)

\* The number k of e's tenant belongs to an older event that e can build on.
Below(e, k) ==
  \E f \in events : /\ f.clientId = e.clientId
                    /\ f.sequenceNumber = k
                    /\ f.id < e.id
                    /\ Solid(f, e.txn)

Dense == \A e \in events : \A k \in 1..(e.sequenceNumber - 1) : Below(e, k)

\* Ids are handed out in order: t was given a newer one than the event it
\* numbers itself after has.
KnowsOlder(t) ==
  \/ last[t] = NoEvent
  \/ \E p \in events : /\ p.clientId = client[t]
                       /\ last[t] = Tip(p)
                       /\ Solid(p, t)
                       /\ p.id < newId[t]

IdsOrdered ==
  /\ \A e \in events : e.id <= lastId
  /\ \A t \in Txns : pc[t] = "write" => newId[t] <= lastId /\ KnowsOlder(t)

OrderInv == ChainInv /\ Dense /\ IdsOrdered

-----------------------------------------------------------------------------
LEMMA InitOrderInv == Init => OrderInv
  BY InitChainInv DEF Init, OrderInv, Dense, IdsOrdered

\* What u can build on outlives the step.
Keeps(u) == \A p \in events : Solid(p, u) => p \in events' /\ Solid(p, u)'

\* A step of t that deletes no row and does not undo a commit keeps what
\* everyone builds on.
LEMMA StepKeeps ==
  ASSUME TypeOK, NEW t \in Txns, NEW s, pc' = [pc EXCEPT ![t] = s],
         events \subseteq events', pc[t] # "committed"
  PROVE  \A u \in Txns : Keeps(u)
<1>1. \A p \in events : p.txn \in Txns
  BY DEF TypeOK, EventOK
<1>2. \A u \in Txns : pc[u] = "committed" => pc'[u] = "committed"
  BY DEF TypeOK
<1> QED
  BY <1>1, <1>2 DEF Keeps, Solid, Committed

\* A ROLLBACK of t keeps what the others build on, and leaves no row of t.
LEMMA RollbackKeeps ==
  ASSUME TypeOK, NEW t \in Txns, Running(t), Rollback(t)
  PROVE  /\ \A u \in Txns \ {t} : Keeps(u)
         /\ \A e \in events' : e.txn \in Txns \ {t}
<1>1. \A p \in events : p.txn \in Txns
  BY DEF TypeOK, EventOK
<1>2. \A u \in Txns : pc[u] = "committed" => pc'[u] = "committed"
  BY DEF TypeOK, Rollback, Goto, Running, RunningStates
<1>3. events' = {e \in events : e.txn # t} /\ pc[t] # "committed"
  BY DEF Rollback, Running, RunningStates
<1> QED
  BY <1>1, <1>2, <1>3 DEF Keeps, Solid, Committed

\* Steps that insert no event and hand out no id.
LEMMA OrderKept ==
  ASSUME OrderInv, TypeOK',
         events' \subseteq events, client' = client, lastId' = lastId,
         \A e \in events' : Keeps(e.txn),
         \A u \in Txns : pc'[u] = "write" =>
           /\ pc[u] = "write" /\ Keeps(u)
           /\ last'[u] = last[u] /\ newId'[u] = newId[u]
  PROVE  Dense' /\ IdsOrdered'
<1>1. Dense'
  <2> SUFFICES ASSUME NEW e \in events', NEW k \in 1..(e.sequenceNumber - 1)
               PROVE  Below(e, k)'
    BY DEF Dense
  <2>1. PICK f \in events : /\ f.clientId = e.clientId
                            /\ f.sequenceNumber = k
                            /\ f.id < e.id
                            /\ Solid(f, e.txn)
    BY DEF OrderInv, Dense, Below
  <2> QED
    BY <2>1 DEF Keeps, Below
<1>2. IdsOrdered'
  <2>1. \A e \in events' : e.id <= lastId'
    BY DEF OrderInv, IdsOrdered
  <2>2. ASSUME NEW u \in Txns, pc'[u] = "write"
        PROVE  newId'[u] <= lastId' /\ KnowsOlder(u)'
    <3>1. newId[u] <= lastId /\ KnowsOlder(u)
      BY <2>2 DEF OrderInv, IdsOrdered
    <3> QED
      BY <2>2, <3>1 DEF KnowsOlder, Keeps
  <2> QED
    BY <2>1, <2>2 DEF IdsOrdered
<1> QED
  BY <1>1, <1>2

\* The INSERT is given its id: larger than that of every event there is, and
\* the tip is one of them.
LEMMA TakeIdOrder ==
  ASSUME OrderInv, TypeOK', NEW t \in Txns, TakeId(t)
  PROVE  Dense' /\ IdsOrdered'
<1>0. /\ TypeOK /\ TipsKnown
      /\ events' = events /\ client' = client /\ last' = last
      /\ pc[t] = "insert" /\ pc' = [pc EXCEPT ![t] = "write"]
      /\ lastId' = lastId + 1 /\ lastId \in Nat
      /\ newId' = [newId EXCEPT ![t] = lastId + 1]
      /\ newId \in [Txns -> Nat]
      /\ \A e \in events : e.id \in Nat /\ e.txn \in Txns
      /\ pc \in [Txns -> RunningStates \cup {"idle", "committed", "rolledback"}]
  BY DEF TakeId, tables, Goto, OrderInv, ChainInv, TypeOK, EventOK
<1>1. \A u \in Txns : Keeps(u)
  BY <1>0, StepKeeps
<1>2. Dense'
  <2> SUFFICES ASSUME NEW e \in events', NEW k \in 1..(e.sequenceNumber - 1)
               PROVE  Below(e, k)'
    BY DEF Dense
  <2>1. Below(e, k)
    BY <1>0 DEF OrderInv, Dense
  <2> QED
    BY <2>1, <1>0, <1>1 DEF Below, Keeps
<1>3. IdsOrdered'
  <2>1. \A e \in events' : e.id <= lastId'
    BY <1>0 DEF OrderInv, IdsOrdered
  <2>2. ASSUME NEW u \in Txns, pc'[u] = "write", u # t
        PROVE  newId'[u] <= lastId' /\ KnowsOlder(u)'
    <3>1. pc[u] = "write" /\ newId'[u] = newId[u] /\ newId[u] \in Nat
      BY <2>2, <1>0
    <3>2. newId[u] <= lastId /\ KnowsOlder(u)
      BY <3>1 DEF OrderInv, IdsOrdered
    <3> QED
      BY <3>1, <3>2, <1>0, <1>1 DEF KnowsOlder, Keeps
  <2>3. newId'[t] = lastId + 1
    BY <1>0
  <2>4. KnowsOlder(t)'
    <3>1. KnowsTip(t)
      BY <1>0 DEF TipsKnown
    <3>2. \A p \in events : p.id < newId'[t]
      BY <2>3, <1>0 DEF OrderInv, IdsOrdered
    <3> QED
      BY <3>1, <3>2, <1>0, <1>1 DEF KnowsTip, KnowsOlder, Keeps
  <2> QED
    BY <2>1, <2>2, <2>3, <2>4, <1>0 DEF IdsOrdered
<1> QED
  BY <1>2, <1>3

\* What p's writer builds on, whoever builds on p can build on too.
LEMMA SolidTransitive ==
  ASSUME NEW f, NEW p, NEW t, Solid(f, p.txn), Solid(p, t)
  PROVE  Solid(f, t)
  BY DEF Solid, Committed

\* The INSERT: below the new event lie the tip it follows and all that lies
\* below the tip.
LEMMA WriteOrder ==
  ASSUME OrderInv, TypeOK', NEW t \in Txns, WriteEvent(t)
  PROVE  Dense' /\ IdsOrdered'
<1> DEFINE new == NewEvent(t)
<1>0. /\ TypeOK /\ pc[t] = "write" /\ pc' = [pc EXCEPT ![t] = "process"]
      /\ events' = events \cup {new}
      /\ client' = client /\ last' = last /\ lastId' = lastId /\ newId' = newId
      /\ new.id = newId[t] /\ new.txn = t /\ new.clientId = client[t]
      /\ new.sequenceNumber = last[t].sequenceNumber + 1
      /\ newId[t] \in Nat /\ lastId \in Nat
      /\ \A e \in events : /\ e.id \in Nat /\ e.txn \in Txns
                           /\ e.sequenceNumber \in Nat
      /\ pc \in [Txns -> RunningStates \cup {"idle", "committed", "rolledback"}]
  BY DEF WriteEvent, NewEvent, Goto, OrderInv, ChainInv, TypeOK, EventOK
<1> HIDE DEF new
<1>1. \A u \in Txns : Keeps(u)
  BY <1>0, StepKeeps
<1>2. newId[t] <= lastId /\ KnowsOlder(t)
  BY <1>0 DEF OrderInv, IdsOrdered
<1>3. ASSUME NEW k \in 1..(new.sequenceNumber - 1)
      PROVE  \E f \in events : /\ f.clientId = client[t]
                               /\ f.sequenceNumber = k
                               /\ f.id < newId[t]
                               /\ Solid(f, t)
  <2>1. last[t] # NoEvent
    BY <1>0, <1>3 DEF NoEvent
  <2>2. PICK p \in events : /\ p.clientId = client[t]
                            /\ last[t] = Tip(p)
                            /\ Solid(p, t)
                            /\ p.id < newId[t]
    BY <1>2, <2>1 DEF KnowsOlder
  <2>3. last[t].sequenceNumber = p.sequenceNumber
    BY <2>2 DEF Tip
  <2>4. CASE k = p.sequenceNumber
    BY <2>2, <2>4
  <2>5. CASE k # p.sequenceNumber
    <3>1. k \in 1..(p.sequenceNumber - 1)
      BY <2>3, <2>5, <1>0
    <3>2. PICK f \in events : /\ f.clientId = p.clientId
                              /\ f.sequenceNumber = k
                              /\ f.id < p.id
                              /\ Solid(f, p.txn)
      BY <3>1 DEF OrderInv, Dense, Below
    <3>3. f.id < newId[t]
      BY <3>2, <2>2, <1>0
    <3>4. Solid(f, t)
      BY <3>2, <2>2, SolidTransitive
    <3> QED
      BY <3>2, <3>3, <3>4, <2>2
  <2> QED
    BY <2>4, <2>5
<1>4. Dense'
  <2>1. ASSUME NEW e \in events, NEW k \in 1..(e.sequenceNumber - 1)
        PROVE  Below(e, k)'
    <3>1. Below(e, k)
      BY DEF OrderInv, Dense
    <3> QED
      BY <3>1, <1>0, <1>1 DEF Below, Keeps
  <2>2. ASSUME NEW e \in events', e = new, NEW k \in 1..(e.sequenceNumber - 1)
        PROVE  Below(e, k)'
    <3>1. PICK f \in events : /\ f.clientId = client[t]
                              /\ f.sequenceNumber = k
                              /\ f.id < newId[t]
                              /\ Solid(f, t)
      BY <1>3, <2>2
    <3>2. Solid(f, t)' /\ f \in events'
      BY <3>1, <1>1 DEF Keeps
    <3> QED
      BY <3>1, <3>2, <2>2, <1>0 DEF Below
  <2> QED
    BY <2>1, <2>2, <1>0 DEF Dense
<1>5. IdsOrdered'
  <2>1. \A e \in events' : e.id <= lastId'
    BY <1>0, <1>2 DEF OrderInv, IdsOrdered
  <2>2. ASSUME NEW u \in Txns, pc'[u] = "write"
        PROVE  newId'[u] <= lastId' /\ KnowsOlder(u)'
    <3>1. pc[u] = "write"
      BY <2>2, <1>0
    <3>2. newId[u] <= lastId /\ KnowsOlder(u)
      BY <3>1 DEF OrderInv, IdsOrdered
    <3> QED
      BY <3>2, <1>0, <1>1 DEF KnowsOlder, Keeps
  <2> QED
    BY <2>1, <2>2 DEF IdsOrdered
<1> QED
  BY <1>4, <1>5

LEMMA NextOrderInv == OrderInv /\ [Next]_vars => OrderInv'
<1> SUFFICES ASSUME OrderInv, [Next]_vars PROVE OrderInv'
  OBVIOUS
<1>0. TypeOK /\ TypeOK' /\ ChainInv'
  BY NextTypeOK, NextChainInv DEF OrderInv, ChainInv
<1>a. /\ pc \in [Txns -> RunningStates \cup {"idle", "committed", "rolledback"}]
      /\ \A e \in events : e.txn \in Txns
  BY <1>0 DEF TypeOK, EventOK
<1>1. CASE UNCHANGED vars
  <2>1. \A u \in Txns : Keeps(u)
    BY <1>1 DEF vars, tables, Keeps, Solid, Committed
  <2> QED
    BY <1>1, <1>0, <1>a, <2>1, OrderKept DEF vars, tables, OrderInv
<1>2. ASSUME NEW t \in Txns,
             Begin(t) \/ FindNoEvent(t) \/ LockLastEvent(t) \/ WaitForLock(t)
               \/ GrantLock(t) \/ Rescan(t) \/ MarkProcessed(t) \/ SaveOrigin(t)
               \/ SaveDestination(t) \/ Commit(t)
      PROVE  OrderInv'
  <2>1. /\ events' = events /\ client' = client /\ lastId' = lastId
        /\ newId' = newId /\ pc[t] # "committed"
        /\ \A u \in Txns \ {t} : last'[u] = last[u]
        /\ \E s \in (RunningStates \ {"write"}) \cup {"committed"} :
             pc' = [pc EXCEPT ![t] = s]
    BY <1>0, <1>2
    DEF Begin, FindNoEvent, LockLastEvent, WaitForLock, GrantLock, Adopt,
        Rescan, MarkProcessed, SaveOrigin, SaveDestination, Commit, Goto,
        tables, RunningStates, EventsOf, TypeOK
  <2>2. \A u \in Txns : Keeps(u)
    BY <2>1, <1>0, StepKeeps
  <2>3. \A u \in Txns : pc'[u] = "write" => u # t /\ pc[u] = "write"
    BY <2>1, <1>a DEF RunningStates
  <2> QED
    BY <2>1, <2>2, <2>3, <1>0, <1>a, OrderKept DEF OrderInv
<1>3. ASSUME NEW t \in Txns, TakeId(t) PROVE OrderInv'
  BY <1>3, <1>0, TakeIdOrder DEF OrderInv
<1>4. ASSUME NEW t \in Txns, WriteEvent(t) PROVE OrderInv'
  BY <1>4, <1>0, WriteOrder DEF OrderInv
<1>5. ASSUME NEW t \in Txns, Refuse(t) \/ Fail(t) PROVE OrderInv'
  <2>1. Running(t) /\ Rollback(t)
    BY <1>5 DEF Refuse, Fail, Running, RunningStates
  <2>2. /\ \A u \in Txns \ {t} : Keeps(u)
        /\ \A e \in events' : e.txn \in Txns \ {t}
    BY <2>1, <1>0, RollbackKeeps
  <2>3. /\ events' \subseteq events /\ client' = client /\ lastId' = lastId
        /\ newId' = newId /\ last' = last
        /\ pc' = [pc EXCEPT ![t] = "rolledback"]
    BY <2>1 DEF Rollback, Goto
  <2>4. \A u \in Txns : pc'[u] = "write" => u # t /\ pc[u] = "write"
    BY <2>3, <1>a
  <2> QED
    BY <2>2, <2>3, <2>4, <1>0, OrderKept DEF OrderInv
<1> QED
  BY <1>1, <1>2, <1>3, <1>4, <1>5 DEF Next, Progress

-----------------------------------------------------------------------------
\* Of two events of a tenant, the lower one is committed or written by the
\* writer of the higher one.
LEMMA LowerIsSolid ==
  ASSUME OrderInv, NEW e \in events, NEW f \in events,
         e.clientId = f.clientId, e.sequenceNumber < f.sequenceNumber
  PROVE  Solid(e, f.txn) /\ e.id < f.id
<1>1. e.sequenceNumber \in 1..(f.sequenceNumber - 1)
  BY DEF OrderInv, ChainInv, TypeOK, EventOK
<1>2. Below(f, e.sequenceNumber)
  BY <1>1 DEF OrderInv, Dense
<1> QED
  BY <1>2 DEF Below, OrderInv, ChainInv, UniqueKey

LEMMA Comparable ==
  ASSUME OrderInv, NEW e \in events, NEW f \in events, e.clientId = f.clientId
  PROVE  \/ e = f
         \/ e.sequenceNumber < f.sequenceNumber
         \/ f.sequenceNumber < e.sequenceNumber
<1>1. e.sequenceNumber \in Nat /\ f.sequenceNumber \in Nat
  BY DEF OrderInv, ChainInv, TypeOK, EventOK
<1>2. e.sequenceNumber = f.sequenceNumber => e = f
  BY DEF OrderInv, ChainInv, UniqueKey
<1> QED
  BY <1>1, <1>2

LEMMA OrderInvImpliesOneWriter == OrderInv => OneWriter
<1> SUFFICES ASSUME OrderInv, NEW e \in events, NEW f \in events,
                    Running(e.txn), Running(f.txn), e.clientId = f.clientId
             PROVE  e.txn = f.txn
  BY DEF OneWriter
<1>1. ~Committed(e.txn) /\ ~Committed(f.txn)
  BY DEF Running, Committed, RunningStates
<1> QED
  BY <1>1, LowerIsSolid, Comparable DEF Solid

LEMMA CommitIsBehind ==
  ASSUME OrderInv, [Next]_vars, NEW e \in CommittedEvents' \ CommittedEvents,
         NEW f \in CommittedEvents, e.clientId = f.clientId
  PROVE  f.sequenceNumber < e.sequenceNumber /\ f.id < e.id
<1>1. f \in events /\ Committed(f.txn)
  BY DEF CommittedEvents
<1>2. e \in events /\ ~Committed(e.txn)
  <2>0. TypeOK
    BY DEF OrderInv, ChainInv
  <2>1. e \in events' /\ Committed(e.txn)'
    BY DEF CommittedEvents
  <2>2. e \in events
    <3>1. ASSUME NEW t \in Txns, WriteEvent(t), e \notin events PROVE FALSE
      <4>1. e.txn = t /\ pc'[t] = "process"
        BY <3>1, <2>0, <2>1 DEF WriteEvent, NewEvent, Goto, TypeOK
      <4> QED
        BY <4>1, <2>1 DEF Committed
    <3>2. ASSUME UNCHANGED events \/ events' \subseteq events PROVE e \in events
      BY <3>2, <2>1
    <3> QED
      BY <3>1, <3>2
      DEF Next, Progress, Begin, FindNoEvent, LockLastEvent, WaitForLock,
          GrantLock, Rescan, Adopt, TakeId, MarkProcessed, SaveOrigin,
          SaveDestination, Commit, Refuse, Fail, Rollback, vars, tables
  <2> QED
    BY <2>2 DEF CommittedEvents
<1>3. e # f
  BY <1>1, <1>2
<1>4. ~(e.sequenceNumber < f.sequenceNumber)
  BY <1>1, <1>2, LowerIsSolid DEF Solid, Committed
<1> QED
  BY <1>1, <1>2, <1>3, <1>4, Comparable, LowerIsSolid

\* In every reachable state of every instance, all events of a tenant written
\* by running transactions are of one transaction.
THEOREM OneWriterCorrect == Spec => []OneWriter
  BY InitOrderInv, NextOrderInv, OrderInvImpliesOneWriter, PTL DEF Spec

\* In every instance, whatever commits does so behind all that has committed
\* for its tenant, in sequence and in id.
THEOREM CommitsBehindCorrect == Spec => CommitsBehind
<1>1. OrderInv /\ [Next]_vars =>
        [\A e \in CommittedEvents' \ CommittedEvents, f \in CommittedEvents :
           e.clientId = f.clientId =>
             f.sequenceNumber < e.sequenceNumber /\ f.id < e.id]_vars
  BY CommitIsBehind
<1> QED
  BY <1>1, InitOrderInv, NextOrderInv, PTL DEF Spec, CommitsBehind

-----------------------------------------------------------------------------
(***************************************************************************)
(* Proof that the ledger follows the events, for any number of requests.   *)
(*                                                                         *)
(* DoubleEntry speaks of committed events, so it is not inductive.  Booking*)
(* says of every event in the table, from the place its writer stands at,  *)
(* which of its rows are in the ledger already; that ids are not reused    *)
(* keeps the rows of two events apart.                                     *)
(***************************************************************************)

\* register() has inserted its event and is still booking it.
Books(t) == pc[t] \in {"process", "origin", "destination"}

\* Event e is the one its writer is booking.
InHand(e) == e.id = newId[e.txn] /\ Books(e.txn)

\* No id is given twice, and a rolled back one never again.
IdsUnique ==
  /\ \A e, f \in events : e.id = f.id => e = f
  /\ \A e \in events, t \in Txns : e.id = newId[t] => e.txn = t
  /\ \A t \in Txns : newId[t] <= lastId
  /\ \A t, u \in Txns : t # u /\ newId[t] = newId[u] => newId[t] = 0
  /\ \A t \in Txns :
       pc[t] = "write" => newId[t] # 0 /\ \A e \in events : e.id # newId[t]

\* While a call is booked, its event is in the table.
CallInserted ==
  \A t \in Txns : Books(t) =>
    \E e \in events : e.id = newId[t] /\ e.txn = t /\ e.call = Call(t)

OriginOf(e) ==
  [eventId |-> e.id, side |-> "origin", accountId |-> e.call.accountId,
   amount |-> OriginAmount(e.call), liquidity |-> FALSE]

DestinationOf(e) ==
  [eventId |-> e.id, side |-> "destination", accountId |-> e.call.accountId,
   amount |-> DestinationAmount(e.call),
   liquidity |-> DestinationLiquidity(e.call)]

\* The entries event e has so far.
BookedOf(e) ==
  IF ~InHand(e) THEN {OriginOf(e), DestinationOf(e)}
  ELSE IF pc[e.txn] = "destination" THEN {OriginOf(e)}
  ELSE {}

Booking ==
  \A e \in events :
    /\ e.id \in processed <=> ~(InHand(e) /\ pc[e.txn] = "process")
    /\ EntriesOf(e) = BookedOf(e)

NoOrphans ==
  /\ \A x \in entries : \E e \in events : e.id = x.eventId
  /\ \A i \in processed : \E e \in events : e.id = i

LedgerInv == OrderInv /\ IdsUnique /\ CallInserted /\ Booking /\ NoOrphans

-----------------------------------------------------------------------------
\* What the proofs use of the types, in one place.
LEMMA Typed ==
  ASSUME TypeOK
  PROVE  /\ pc \in [Txns -> RunningStates \cup {"idle", "committed", "rolledback"}]
         /\ newId \in [Txns -> Nat] /\ done \in [Txns -> Nat]
         /\ held \in [Txns -> SUBSET Nat] /\ client \in [Txns -> Clients]
         /\ request \in [Txns -> Requests] /\ lastId \in Nat
         /\ DOMAIN last = Txns
         /\ \A e \in events : /\ e.id \in Nat /\ e.txn \in Txns
                              /\ e.clientId \in Clients
                              /\ e.sequenceNumber \in Nat \ {0}
                              /\ e.call \in Calls
         /\ \A x \in entries : x.eventId \in Nat
         /\ processed \subseteq Nat
  BY DEF TypeOK, EventOK, EntryOK

LEMMA InitLedgerInv == Init => LedgerInv
  BY InitOrderInv
  DEF Init, LedgerInv, IdsUnique, CallInserted, Books, Booking, NoOrphans

\* A step of t that touches neither the tables nor the ids, before its INSERT
\* or after its register() calls.
LedgerQuiet(t) ==
  /\ events' = events /\ processed' = processed /\ entries' = entries
  /\ newId' = newId /\ lastId' = lastId /\ request' = request /\ done' = done
  /\ ~Books(t)
  /\ \E s \in {"scan", "wait", "insert", "commit", "committed"} : Goto(t, s)

LEMMA QuietLedger ==
  ASSUME LedgerInv, NEW t \in Txns, LedgerQuiet(t)
  PROVE  IdsUnique' /\ CallInserted' /\ Booking' /\ NoOrphans'
<1>0. /\ pc \in [Txns -> RunningStates \cup {"idle", "committed", "rolledback"}]
      /\ \A e \in events : e.txn \in Txns
  BY Typed DEF LedgerInv, OrderInv, ChainInv
<1>1. PICK s \in {"scan", "wait", "insert", "commit", "committed"} :
        pc' = [pc EXCEPT ![t] = s]
  BY DEF LedgerQuiet, Goto
<1>2. /\ \A u \in Txns : Books(u)' <=> Books(u)
      /\ \A u \in Txns : Books(u) => pc'[u] = pc[u]
      /\ \A u \in Txns : pc'[u] = "write" => pc[u] = "write"
  BY <1>0, <1>1 DEF LedgerQuiet, Books
<1>3. IdsUnique'
  BY <1>2 DEF LedgerInv, IdsUnique, LedgerQuiet
<1>4. CallInserted'
  BY <1>2 DEF LedgerInv, CallInserted, Call, LedgerQuiet
<1>5. Booking'
  <2> SUFFICES ASSUME NEW e \in events
               PROVE  /\ e.id \in processed <=> ~(InHand(e) /\ pc[e.txn] = "process")'
                      /\ EntriesOf(e) = BookedOf(e)'
    BY DEF Booking, LedgerQuiet, EntriesOf
  <2>1. InHand(e)' <=> InHand(e)
    BY <1>0, <1>2 DEF InHand, LedgerQuiet
  <2>2. InHand(e) => pc'[e.txn] = pc[e.txn]
    BY <1>0, <1>2 DEF InHand
  <2> QED
    BY <2>1, <2>2 DEF LedgerInv, Booking, BookedOf
<1>6. NoOrphans'
  BY DEF LedgerInv, NoOrphans, LedgerQuiet
<1> QED
  BY <1>3, <1>4, <1>5, <1>6


\* The INSERT's id is larger than any other in use.
LEMMA TakeIdLedger ==
  ASSUME LedgerInv, NEW t \in Txns, TakeId(t)
  PROVE  IdsUnique' /\ CallInserted' /\ Booking' /\ NoOrphans'
<1>0. /\ pc \in [Txns -> RunningStates \cup {"idle", "committed", "rolledback"}]
      /\ newId \in [Txns -> Nat] /\ lastId \in Nat
      /\ \A e \in events : e.txn \in Txns /\ e.id \in Nat /\ e.id <= lastId
  BY Typed DEF LedgerInv, OrderInv, ChainInv, IdsOrdered
<1>1. /\ events' = events /\ processed' = processed /\ entries' = entries
      /\ request' = request /\ done' = done
      /\ pc[t] = "insert" /\ pc' = [pc EXCEPT ![t] = "write"]
      /\ lastId' = lastId + 1 /\ newId' = [newId EXCEPT ![t] = lastId + 1]
  BY DEF TakeId, Goto, tables
<1>2. /\ \A u \in Txns : Books(u)' <=> Books(u)
      /\ \A u \in Txns : Books(u) => u # t /\ pc'[u] = pc[u] /\ newId'[u] = newId[u]
  BY <1>0, <1>1 DEF Books
<1>3. IdsUnique'
  <2>1. \A u \in Txns : newId[u] <= lastId
    BY DEF LedgerInv, IdsUnique
  <2>2. \A u \in Txns : newId'[u] = IF u = t THEN lastId + 1 ELSE newId[u]
    BY <1>0, <1>1
  <2>3. \A u \in Txns \ {t} : pc'[u] = pc[u]
    BY <1>0, <1>1
  <2>4. \A e \in events, u \in Txns : e.id = newId'[u] => e.txn = u
    BY <2>1, <2>2, <1>0 DEF LedgerInv, IdsUnique
  <2>5. \A u \in Txns : newId'[u] <= lastId'
    BY <2>1, <2>2, <1>0, <1>1
  <2>6. \A u, v \in Txns : u # v /\ newId'[u] = newId'[v] => newId'[u] = 0
    BY <2>1, <2>2, <1>0 DEF LedgerInv, IdsUnique
  <2>7. \A u \in Txns : pc'[u] = "write" =>
          newId'[u] # 0 /\ \A e \in events : e.id # newId'[u]
    BY <2>2, <2>3, <1>0 DEF LedgerInv, IdsUnique
  <2> QED
    BY <2>4, <2>5, <2>6, <2>7, <1>1 DEF LedgerInv, IdsUnique
<1>4. CallInserted'
  BY <1>1, <1>2 DEF LedgerInv, CallInserted, Call
<1>5. Booking'
  <2> SUFFICES ASSUME NEW e \in events
               PROVE  /\ e.id \in processed <=> ~(InHand(e) /\ pc[e.txn] = "process")'
                      /\ EntriesOf(e) = BookedOf(e)'
    BY <1>1 DEF Booking, EntriesOf
  <2>1. InHand(e)' <=> InHand(e)
    BY <1>0, <1>2 DEF InHand
  <2>2. InHand(e) => pc'[e.txn] = pc[e.txn]
    BY <1>0, <1>2 DEF InHand
  <2> QED
    BY <2>1, <2>2 DEF LedgerInv, Booking, BookedOf
<1>6. NoOrphans'
  BY <1>1 DEF LedgerInv, NoOrphans
<1> QED
  BY <1>3, <1>4, <1>5, <1>6

\* The INSERT: the new event has no row in the ledger yet, for none is there
\* without its event.
LEMMA WriteLedger ==
  ASSUME LedgerInv, NEW t \in Txns, WriteEvent(t)
  PROVE  IdsUnique' /\ CallInserted' /\ Booking' /\ NoOrphans'
<1> PICK new : new = NewEvent(t)
  OBVIOUS
<1>0. /\ pc \in [Txns -> RunningStates \cup {"idle", "committed", "rolledback"}]
      /\ \A e \in events : e.txn \in Txns
  BY Typed DEF LedgerInv, OrderInv, ChainInv
<1>1. /\ events' = events \cup {new}
      /\ processed' = processed /\ entries' = entries
      /\ newId' = newId /\ lastId' = lastId /\ request' = request /\ done' = done
      /\ pc[t] = "write" /\ pc' = [pc EXCEPT ![t] = "process"]
      /\ new.id = newId[t] /\ new.txn = t /\ new.call = Call(t)
  BY DEF WriteEvent, NewEvent, Goto
<1>2. newId[t] # 0 /\ \A e \in events : e.id # newId[t]
  BY <1>1 DEF LedgerInv, IdsUnique
<1>3. \A u \in Txns \ {t} : pc'[u] = pc[u] /\ (Books(u)' <=> Books(u))
  BY <1>0, <1>1 DEF Books
<1>4. IdsUnique'
  BY <1>0, <1>1, <1>2, <1>3 DEF LedgerInv, IdsUnique
<1>5. CallInserted'
  <2>1. \A u \in Txns : Call(u)' = Call(u)
    BY <1>1 DEF Call
  <2> QED
    BY <2>1, <1>1, <1>3 DEF LedgerInv, CallInserted
<1>6. Booking'
  <2>1. ASSUME NEW e \in events
        PROVE  /\ e.id \in processed <=> ~(InHand(e) /\ pc[e.txn] = "process")'
               /\ EntriesOf(e) = BookedOf(e)'
    <3>1. InHand(e)' <=> InHand(e)
      BY <1>0, <1>1, <1>2, <1>3 DEF InHand, Books
    <3>2. InHand(e) => pc'[e.txn] = pc[e.txn]
      BY <1>0, <1>1, <1>2, <1>3 DEF InHand
    <3> QED
      BY <3>1, <3>2 DEF LedgerInv, Booking, BookedOf
  <2>2. /\ new.id \notin processed /\ InHand(new)' /\ pc'[t] = "process"
        /\ EntriesOf(new) = {}
    BY <1>0, <1>1, <1>2 DEF LedgerInv, NoOrphans, InHand, Books, EntriesOf
  <2>3. BookedOf(new)' = {}
    BY <2>2, <1>1 DEF BookedOf
  <2>4. \A e \in events' : EntriesOf(e)' = EntriesOf(e)
    BY <1>1 DEF EntriesOf
  <2> QED
    BY <2>1, <2>2, <2>3, <2>4, <1>1 DEF Booking
<1>7. NoOrphans'
  BY <1>1 DEF LedgerInv, NoOrphans
<1> QED
  BY <1>4, <1>5, <1>6, <1>7

\* A booking step of t: the tables of events and the ids stay, and only the
\* event in hand gets rows.
BookStep(t) ==
  /\ events' = events /\ newId' = newId /\ lastId' = lastId
  /\ request' = request /\ Books(t)

LEMMA BookStepEvent ==
  ASSUME LedgerInv, NEW t \in Txns, BookStep(t)
  PROVE  \E e \in events :
           /\ e.id = newId[t] /\ e.txn = t /\ e.call = Call(t)
           /\ InHand(e)
           /\ Origin(t) = OriginOf(e) /\ Destination(t) = DestinationOf(e)
           /\ \A f \in events \ {e} : f.id # e.id
<1>1. PICK e \in events : e.id = newId[t] /\ e.txn = t /\ e.call = Call(t)
  BY DEF LedgerInv, CallInserted, BookStep
<1>2. InHand(e)
  BY <1>1 DEF InHand, BookStep
<1>3. Origin(t) = OriginOf(e) /\ Destination(t) = DestinationOf(e)
  BY <1>1 DEF Origin, OriginOf, Destination, DestinationOf
<1> QED
  BY <1>1, <1>2, <1>3 DEF LedgerInv, IdsUnique

\* A booking step leaves the other events' rows and places alone.
LEMMA BookOthers ==
  ASSUME LedgerInv, NEW t \in Txns, BookStep(t), NEW s \in RunningStates, s # "write",
         pc' = [pc EXCEPT ![t] = s], NEW e \in events, e.id = newId[t],
         \A i \in Nat \ {e.id} : i \in processed' <=> i \in processed,
         NEW x, x.eventId = e.id, entries' = entries \/ entries' = entries \cup {x}
  PROVE  /\ IdsUnique'
         /\ \A f \in events \ {e} :
              /\ f.id \in processed' <=> ~(InHand(f) /\ pc[f.txn] = "process")'
              /\ EntriesOf(f)' = BookedOf(f)'
         /\ \A u \in Txns \ {t} : Books(u)' => Books(u) /\ pc'[u] = pc[u]
<1>0. /\ pc \in [Txns -> RunningStates \cup {"idle", "committed", "rolledback"}]
      /\ \A f \in events : f.txn \in Txns /\ f.id \in Nat
  BY Typed DEF LedgerInv, OrderInv, ChainInv
<1>1. \A u \in Txns \ {t} : pc'[u] = pc[u] /\ (Books(u)' <=> Books(u))
  BY <1>0 DEF Books
<1>2. IdsUnique'
  <2>1. pc'[t] # "write"
    BY <1>0
  <2> QED
    BY <2>1, <1>1 DEF LedgerInv, IdsUnique, BookStep
<1>3. ASSUME NEW f \in events \ {e}
      PROVE  /\ f.id \in processed' <=> ~(InHand(f) /\ pc[f.txn] = "process")'
             /\ EntriesOf(f)' = BookedOf(f)'
  <2>1. f.id # e.id
    BY DEF LedgerInv, IdsUnique
  <2>2. (f.id \in processed' <=> f.id \in processed) /\ EntriesOf(f)' = EntriesOf(f)
    BY <2>1, <1>0 DEF EntriesOf
  <2>3. InHand(f)' <=> InHand(f)
    BY <2>1, <1>0, <1>1 DEF InHand, BookStep
  <2>4. InHand(f) => pc'[f.txn] = pc[f.txn]
    BY <2>1, <1>0, <1>1 DEF InHand
  <2> QED
    BY <2>2, <2>3, <2>4 DEF LedgerInv, Booking, BookedOf
<1> QED
  BY <1>1, <1>2, <1>3

\* The three steps that book an event take it from one place to the next.
LEMMA MarkProcessedLedger ==
  ASSUME LedgerInv, NEW t \in Txns, MarkProcessed(t)
  PROVE  IdsUnique' /\ CallInserted' /\ Booking' /\ NoOrphans'
<1>0. /\ pc \in [Txns -> RunningStates \cup {"idle", "committed", "rolledback"}]
      /\ \A f \in events : f.txn \in Txns
  BY Typed DEF LedgerInv, OrderInv, ChainInv
<1>1. /\ BookStep(t) /\ pc[t] = "process" /\ pc' = [pc EXCEPT ![t] = "origin"]
      /\ processed' = processed \cup {newId[t]} /\ entries' = entries
      /\ done' = done
  BY DEF MarkProcessed, BookStep, Books, Goto
<1>2. PICK e \in events : /\ e.id = newId[t] /\ e.txn = t /\ e.call = Call(t)
                          /\ InHand(e)
  BY <1>1, BookStepEvent
<1>3. "origin" \in RunningStates /\ pc'[t] = "origin"
  BY <1>0, <1>1 DEF RunningStates
<1>a. PICK x : x = OriginOf(e)
  OBVIOUS
<1>b. x.eventId = e.id
  BY <1>a DEF OriginOf
<1>c. \A i \in Nat \ {e.id} : i \in processed' <=> i \in processed
  BY <1>1, <1>2
<1>d. BookStep(t) /\ pc' = [pc EXCEPT ![t] = "origin"] /\ entries' = entries
  BY <1>1
<1>4. /\ IdsUnique'
      /\ \A f \in events \ {e} :
           /\ f.id \in processed' <=> ~(InHand(f) /\ pc[f.txn] = "process")'
           /\ EntriesOf(f)' = BookedOf(f)'
      /\ \A u \in Txns \ {t} : Books(u)' => Books(u) /\ pc'[u] = pc[u]
  BY <1>2, <1>3, <1>b, <1>c, <1>d, BookOthers
<1>5. CallInserted'
  BY <1>1, <1>2, <1>4 DEF LedgerInv, CallInserted, BookStep, Call
<1>6. /\ e.id \in processed' <=> ~(InHand(e) /\ pc[e.txn] = "process")'
      /\ EntriesOf(e)' = BookedOf(e)'
  <2>1. e.id \in processed' /\ pc'[e.txn] = "origin" /\ pc[e.txn] = "process"
    BY <1>1, <1>2, <1>3
  <2>2. InHand(e)'
    BY <2>1, <1>1, <1>2 DEF InHand, BookStep, Books
  <2>3. EntriesOf(e) = {}
    BY <2>1, <1>2 DEF LedgerInv, Booking, BookedOf
  <2>4. EntriesOf(e)' = {} /\ BookedOf(e)' = {}
    BY <2>1, <2>2, <2>3, <1>1 DEF BookedOf, EntriesOf
  <2> QED
    BY <2>1, <2>4
<1>7. Booking'
  BY <1>1, <1>4, <1>6 DEF Booking, BookStep
<1>8. NoOrphans'
  BY <1>1, <1>2 DEF LedgerInv, NoOrphans, BookStep
<1> QED
  BY <1>4, <1>5, <1>7, <1>8

LEMMA SaveOriginLedger ==
  ASSUME LedgerInv, NEW t \in Txns, SaveOrigin(t)
  PROVE  IdsUnique' /\ CallInserted' /\ Booking' /\ NoOrphans'
<1>0. /\ pc \in [Txns -> RunningStates \cup {"idle", "committed", "rolledback"}]
      /\ \A f \in events : f.txn \in Txns
  BY Typed DEF LedgerInv, OrderInv, ChainInv
<1>1. /\ BookStep(t) /\ pc[t] = "origin" /\ pc' = [pc EXCEPT ![t] = "destination"]
      /\ processed' = processed /\ entries' = entries \cup {Origin(t)}
      /\ done' = done
  BY DEF SaveOrigin, BookStep, Books, Goto
<1>2. PICK e \in events : /\ e.id = newId[t] /\ e.txn = t /\ e.call = Call(t)
                          /\ InHand(e) /\ Origin(t) = OriginOf(e)
  BY <1>1, BookStepEvent
<1>3. "destination" \in RunningStates /\ pc'[t] = "destination"
  BY <1>0, <1>1 DEF RunningStates
<1>a. PICK x : x = OriginOf(e)
  OBVIOUS
<1>b. x.eventId = e.id /\ entries' = entries \cup {x}
  BY <1>1, <1>2, <1>a DEF OriginOf
<1>4. /\ IdsUnique'
      /\ \A f \in events \ {e} :
           /\ f.id \in processed' <=> ~(InHand(f) /\ pc[f.txn] = "process")'
           /\ EntriesOf(f)' = BookedOf(f)'
      /\ \A u \in Txns \ {t} : Books(u)' => Books(u) /\ pc'[u] = pc[u]
  BY <1>1, <1>2, <1>3, <1>b, BookOthers
<1>5. CallInserted'
  BY <1>1, <1>2, <1>4 DEF LedgerInv, CallInserted, BookStep, Call
<1>6. /\ e.id \in processed' <=> ~(InHand(e) /\ pc[e.txn] = "process")'
      /\ EntriesOf(e)' = BookedOf(e)'
  <2>1. pc'[e.txn] = "destination" /\ pc[e.txn] = "origin"
    BY <1>1, <1>2, <1>3
  <2>2. InHand(e)'
    BY <2>1, <1>1, <1>2 DEF InHand, BookStep, Books
  <2>3. e.id \in processed /\ EntriesOf(e) = {}
    BY <2>1, <1>2 DEF LedgerInv, Booking, BookedOf
  <2>4. EntriesOf(e)' = {x}
    BY <2>3, <1>b DEF EntriesOf
  <2>5. BookedOf(e)' = {x}
    BY <2>1, <2>2, <1>a DEF BookedOf, OriginOf
  <2> QED
    BY <2>1, <2>3, <2>4, <2>5, <1>1
<1>7. Booking'
  BY <1>1, <1>4, <1>6 DEF Booking, BookStep
<1>8. NoOrphans'
  BY <1>1, <1>2, <1>b DEF LedgerInv, NoOrphans, BookStep
<1> QED
  BY <1>4, <1>5, <1>7, <1>8

LEMMA SaveDestinationLedger ==
  ASSUME LedgerInv, NEW t \in Txns, SaveDestination(t)
  PROVE  IdsUnique' /\ CallInserted' /\ Booking' /\ NoOrphans'
<1>0. /\ pc \in [Txns -> RunningStates \cup {"idle", "committed", "rolledback"}]
      /\ \A f \in events : f.txn \in Txns
      /\ done \in [Txns -> Nat]
  BY Typed DEF LedgerInv, OrderInv, ChainInv
<1>1. /\ BookStep(t) /\ pc[t] = "destination"
      /\ processed' = processed /\ entries' = entries \cup {Destination(t)}
      /\ done' = [done EXCEPT ![t] = @ + 1]
      /\ \E s \in {"scan", "commit"} : pc' = [pc EXCEPT ![t] = s]
  BY DEF SaveDestination, BookStep, Books, Goto
<1>s. PICK s \in {"scan", "commit"} : pc' = [pc EXCEPT ![t] = s]
  BY <1>1
<1>2. PICK e \in events : /\ e.id = newId[t] /\ e.txn = t /\ e.call = Call(t)
                          /\ InHand(e) /\ Destination(t) = DestinationOf(e)
  BY <1>1, BookStepEvent
<1>3. s \in RunningStates /\ s # "write" /\ pc'[t] = s
  BY <1>0, <1>s DEF RunningStates
<1>a. PICK x : x = DestinationOf(e)
  OBVIOUS
<1>b. x.eventId = e.id /\ entries' = entries \cup {x}
  BY <1>1, <1>2, <1>a DEF DestinationOf
<1>c. \A i \in Nat \ {e.id} : i \in processed' <=> i \in processed
  BY <1>1
<1>d. BookStep(t)
  BY <1>1
<1>4. /\ IdsUnique'
      /\ \A f \in events \ {e} :
           /\ f.id \in processed' <=> ~(InHand(f) /\ pc[f.txn] = "process")'
           /\ EntriesOf(f)' = BookedOf(f)'
      /\ \A u \in Txns \ {t} : Books(u)' => Books(u) /\ pc'[u] = pc[u]
  BY <1>2, <1>3, <1>b, <1>c, <1>d, <1>s, BookOthers
<1>5. CallInserted'
  <2>1. ~Books(t)'
    BY <1>3 DEF Books
  <2>2. \A u \in Txns \ {t} : Call(u)' = Call(u)
    BY <1>0, <1>1 DEF Call, BookStep
  <2> QED
    BY <2>1, <2>2, <1>1, <1>4 DEF LedgerInv, CallInserted, BookStep
<1>6. /\ e.id \in processed' <=> ~(InHand(e) /\ pc[e.txn] = "process")'
      /\ EntriesOf(e)' = BookedOf(e)'
  <2>1. pc[e.txn] = "destination" /\ ~InHand(e)'
    BY <1>1, <1>2, <1>3 DEF InHand, Books
  <2>2. e.id \in processed /\ EntriesOf(e) = {OriginOf(e)}
    BY <2>1, <1>2 DEF LedgerInv, Booking, BookedOf
  <2>3. EntriesOf(e)' = {OriginOf(e), x}
    BY <2>2, <1>b DEF EntriesOf
  <2>4. BookedOf(e)' = {OriginOf(e), x}
    BY <2>1, <1>a DEF BookedOf, OriginOf, DestinationOf
  <2> QED
    BY <2>1, <2>2, <2>3, <2>4, <1>1
<1>7. Booking'
  BY <1>1, <1>4, <1>6 DEF Booking, BookStep
<1>8. NoOrphans'
  BY <1>1, <1>2, <1>b DEF LedgerInv, NoOrphans, BookStep
<1> QED
  BY <1>4, <1>5, <1>7, <1>8

\* ROLLBACK takes the rows of the ledger away with the events they belong to,
\* and no row of another event, for no two events share an id.
LEMMA RollbackLedger ==
  ASSUME LedgerInv, NEW t \in Txns, Rollback(t)
  PROVE  IdsUnique' /\ CallInserted' /\ Booking' /\ NoOrphans'
<1>0. /\ pc \in [Txns -> RunningStates \cup {"idle", "committed", "rolledback"}]
      /\ \A f \in events : f.txn \in Txns
  BY Typed DEF LedgerInv, OrderInv, ChainInv
<1>1. /\ events' = {e \in events : e.txn # t}
      /\ processed' = processed \ {e.id : e \in {f \in events : f.txn = t}}
      /\ entries' = {x \in entries : \A e \in events : e.txn = t => x.eventId # e.id}
      /\ pc' = [pc EXCEPT ![t] = "rolledback"]
      /\ newId' = newId /\ lastId' = lastId /\ request' = request /\ done' = done
  BY DEF Rollback, Goto
<1>2. /\ \A u \in Txns \ {t} : pc'[u] = pc[u] /\ (Books(u)' <=> Books(u))
      /\ pc'[t] = "rolledback" /\ ~Books(t)'
  BY <1>0, <1>1 DEF Books
<1>3. IdsUnique'
  BY <1>1, <1>2 DEF LedgerInv, IdsUnique
<1>4. CallInserted'
  BY <1>1, <1>2 DEF LedgerInv, CallInserted, Call
<1>5. \A e \in events', f \in events : f.txn = t => f.id # e.id
  BY <1>1 DEF LedgerInv, IdsUnique
<1>6. Booking'
  <2> SUFFICES ASSUME NEW e \in events'
               PROVE  /\ e.id \in processed' <=> ~(InHand(e) /\ pc[e.txn] = "process")'
                      /\ EntriesOf(e)' = BookedOf(e)'
    BY DEF Booking
  <2>1. e \in events /\ e.txn \in Txns \ {t}
    BY <1>0, <1>1
  <2>2. (InHand(e)' <=> InHand(e)) /\ pc'[e.txn] = pc[e.txn]
    BY <2>1, <1>1, <1>2 DEF InHand
  <2>3. (e.id \in processed' <=> e.id \in processed) /\ EntriesOf(e)' = EntriesOf(e)
    BY <1>1, <1>5 DEF EntriesOf
  <2> QED
    BY <2>1, <2>2, <2>3 DEF LedgerInv, Booking, BookedOf
<1>7. NoOrphans'
  BY <1>1 DEF LedgerInv, NoOrphans
<1> QED
  BY <1>3, <1>4, <1>6, <1>7

LEMMA NextLedgerInv == LedgerInv /\ [Next]_vars => LedgerInv'
<1> SUFFICES ASSUME LedgerInv, [Next]_vars PROVE LedgerInv'
  OBVIOUS
<1>0. TypeOK /\ OrderInv'
  BY NextOrderInv DEF LedgerInv, OrderInv, ChainInv
<1>1. CASE UNCHANGED vars
  <2>1. \A e : /\ InHand(e)' <=> InHand(e)
               /\ EntriesOf(e)' = EntriesOf(e) /\ BookedOf(e)' = BookedOf(e)
    BY <1>1 DEF vars, tables, InHand, Books, EntriesOf, BookedOf
  <2> QED
    BY <1>1, <2>1, <1>0
    DEF vars, tables, LedgerInv, IdsUnique, CallInserted, Books, Call, Booking,
        NoOrphans
<1>2. ASSUME NEW t \in Txns,
             Begin(t) \/ FindNoEvent(t) \/ LockLastEvent(t) \/ WaitForLock(t)
               \/ GrantLock(t) \/ Rescan(t) \/ Commit(t)
      PROVE  LedgerInv'
  <2>1. LedgerQuiet(t)
    BY <1>2 DEF LedgerQuiet, Begin, FindNoEvent, LockLastEvent, WaitForLock,
       GrantLock, Adopt, Rescan, Commit, tables, Books
  <2> QED
    BY <2>1, <1>0, QuietLedger DEF LedgerInv
<1>3. ASSUME NEW t \in Txns, TakeId(t) PROVE LedgerInv'
  BY <1>3, <1>0, TakeIdLedger DEF LedgerInv
<1>4. ASSUME NEW t \in Txns, WriteEvent(t) PROVE LedgerInv'
  BY <1>4, <1>0, WriteLedger DEF LedgerInv
<1>5. ASSUME NEW t \in Txns, MarkProcessed(t) PROVE LedgerInv'
  BY <1>5, <1>0, MarkProcessedLedger DEF LedgerInv
<1>6. ASSUME NEW t \in Txns, SaveOrigin(t) PROVE LedgerInv'
  BY <1>6, <1>0, SaveOriginLedger DEF LedgerInv
<1>7. ASSUME NEW t \in Txns, SaveDestination(t) PROVE LedgerInv'
  BY <1>7, <1>0, SaveDestinationLedger DEF LedgerInv
<1>8. ASSUME NEW t \in Txns, Refuse(t) \/ Fail(t) PROVE LedgerInv'
  BY <1>8, <1>0, RollbackLedger DEF LedgerInv, Refuse, Fail
<1> QED
  BY <1>1, <1>2, <1>3, <1>4, <1>5, <1>6, <1>7, <1>8 DEF Next, Progress

LEMMA LedgerInvImpliesDoubleEntry == LedgerInv => DoubleEntry
<1> SUFFICES ASSUME LedgerInv PROVE DoubleEntry
  OBVIOUS
<1>1. ASSUME NEW e \in CommittedEvents
      PROVE  /\ e.id \in processed
             /\ \E o, d \in entries :
                  /\ EntriesOf(e) = {o, d}
                  /\ o.side = "origin" /\ d.side = "destination"
                  /\ o.amount + d.amount = 0
                  /\ o.accountId = e.call.accountId
                  /\ d.accountId = e.call.accountId
  <2>1. e \in events /\ ~InHand(e)
    BY DEF CommittedEvents, Committed, InHand, Books
  <2>2. e.id \in processed /\ EntriesOf(e) = {OriginOf(e), DestinationOf(e)}
    BY <2>1 DEF LedgerInv, Booking, BookedOf
  <2>3. OriginOf(e) \in entries /\ DestinationOf(e) \in entries
    BY <2>2 DEF EntriesOf
  <2>4. e.call \in Calls
    BY <2>1, Typed DEF LedgerInv, OrderInv, ChainInv
  <2>5. OriginOf(e).amount + DestinationOf(e).amount = 0
    BY <2>4, AmountType DEF OriginOf, DestinationOf, OriginAmount
  <2>6. /\ OriginOf(e).side = "origin" /\ DestinationOf(e).side = "destination"
        /\ OriginOf(e).accountId = e.call.accountId
        /\ DestinationOf(e).accountId = e.call.accountId
    BY DEF OriginOf, DestinationOf
  <2> QED
    BY <2>2, <2>3, <2>5, <2>6
<1> QED
  BY <1>1 DEF DoubleEntry, LedgerInv, NoOrphans

\* In every reachable state of every instance each committed event is booked
\* by exactly its two entries, and nothing of a rolled back event is left.
THEOREM DoubleEntryCorrect == Spec => []DoubleEntry
  BY InitLedgerInv, NextLedgerInv, LedgerInvImpliesDoubleEntry, PTL DEF Spec

-----------------------------------------------------------------------------
(***************************************************************************)
(* Proof that each request is all or nothing, and that the chain implements*)
(* the append-only log of EventLog.                                        *)
(*                                                                         *)
(* RequestAtomic is proved through Progressed: a transaction has written   *)
(* exactly the events of the calls that returned and of the one in hand,   *)
(* numbered one after the other.  That holds because the row it wrote first*)
(* keeps the tenant's other requests out (LocksSolid, KeepsTenant): between*)
(* two events of a request the newest event of the tenant is its own.      *)
(***************************************************************************)

\* How many events of its request t has in the table.
Inserted(t) == IF Books(t) THEN done[t] + 1 ELSE done[t]

\* The events of t are its first calls, numbered from n + 1 on.
Numbered(t, n) ==
  /\ \A e \in events : e.txn = t => e.sequenceNumber \in n + 1 .. n + Inserted(t)
  /\ \A i \in 1 .. Inserted(t) : \E e \in events :
       e.txn = t /\ e.sequenceNumber = n + i /\ e.call = request[t][i]

ProgressOf(t) ==
  /\ pc[t] # "rolledback" => \E n \in Nat : Numbered(t, n)
  /\ pc[t] = "idle" => done[t] = 0
  /\ pc[t] \in {"commit", "committed"} => done[t] = Len(request[t])

Progressed == \A t \in Txns : ProgressOf(t)

\* A locked row is committed or written by the transaction that holds it.
LocksSolid ==
  \A t \in Txns : \A i \in held[t] :
    /\ i <= lastId
    /\ \A u \in Txns : pc[u] = "write" => newId[u] # i
    /\ \A e \in events : e.id = i => Solid(e, t)

\* Between two events of its request t never waits, and it numbers the next one
\* after its own newest.
OwnTip(t) ==
  \E e \in events : /\ e.txn = t /\ last[t] = Tip(e)
                    /\ \A f \in events :
                         f.txn = t => f.sequenceNumber <= e.sequenceNumber

HasTenant(t) ==
  done[t] > 0 => pc[t] # "wait" /\ (pc[t] \in {"insert", "write"} => OwnTip(t))

KeepsTenant == \A t \in Txns : HasTenant(t)

AtomicInv == LedgerInv /\ Progressed /\ LocksSolid /\ KeepsTenant

\* What the ledger booked could be booked.
CallsBookable ==
  \A t \in Txns :
    /\ \A i \in 1 .. done[t] : Log!Bookable(request[t][i], client[t])
    /\ pc[t] = "destination" => Log!Bookable(Call(t), client[t])

-----------------------------------------------------------------------------
LEMMA InitAtomicInv == Init => AtomicInv
<1> SUFFICES ASSUME Init PROVE AtomicInv
  OBVIOUS
<1>1. LedgerInv
  BY InitLedgerInv
<1>2. \A t \in Txns : Inserted(t) = 0 /\ pc[t] = "idle" /\ done[t] = 0 /\ held[t] = {}
  BY DEF Init, Inserted, Books
<1>3. \A t \in Txns : Numbered(t, 0)
  BY <1>2 DEF Init, Numbered
<1>4. Progressed
  BY <1>2, <1>3 DEF Progressed, ProgressOf
<1>5. LocksSolid /\ KeepsTenant
  BY <1>2 DEF LocksSolid, KeepsTenant, HasTenant
<1> QED
  BY <1>1, <1>4, <1>5 DEF AtomicInv

\* What the invariants say of u is the same where nothing of u's changes.
LEMMA SameRequest ==
  ASSUME NEW u, request' = request, Inserted(u)' = Inserted(u),
         last'[u] = last[u],
         \A e : e \in events' /\ e.txn = u <=> e \in events /\ e.txn = u
  PROVE  /\ \A n : Numbered(u, n) => Numbered(u, n)'
         /\ OwnTip(u) => OwnTip(u)'
<1>1. ASSUME NEW n, Numbered(u, n) PROVE Numbered(u, n)'
  BY <1>1 DEF Numbered
<1>2. ASSUME OwnTip(u) PROVE OwnTip(u)'
  BY <1>2 DEF OwnTip
<1> QED
  BY <1>1, <1>2

\* No step takes away what a locked row is built on, except the rollback of the
\* transaction that wrote it, and nobody else has that row locked.
LEMMA LocksKept ==
  ASSUME LocksSolid, events' \subseteq events, lastId' = lastId,
         \A u \in Txns : \/ held'[u] = {}
                         \/ held'[u] \subseteq held[u] /\ Keeps(u),
         \A u \in Txns : pc'[u] = "write" => pc[u] = "write" /\ newId'[u] = newId[u]
  PROVE  LocksSolid'
  BY DEF LocksSolid, Keeps

\* A locking read of a transaction that has events returns its own newest one:
\* the row of its first event keeps every other request of the tenant out.
LEMMA NewestIsOwn ==
  ASSUME LedgerInv, Progressed, NEW t \in Txns, Running(t), ~Books(t), done[t] > 0,
         NEW e \in EventsOf(client[t]),
         \A f \in EventsOf(client[t]) : f.sequenceNumber <= e.sequenceNumber
  PROVE  /\ e.txn = t
         /\ \A f \in events : f.txn = t => f.sequenceNumber <= e.sequenceNumber
<1>0. /\ TypeOK /\ Written /\ OrderInv
  BY DEF LedgerInv, OrderInv, ChainInv
<1>1. PICK n \in Nat : Numbered(t, n)
  BY DEF Progressed, ProgressOf, Running, RunningStates
<1>2. Inserted(t) = done[t] /\ 1 \in 1 .. Inserted(t)
  BY <1>0, Typed DEF Inserted
<1>3. PICK m \in events : m.txn = t
  BY <1>1, <1>2 DEF Numbered
<1>4. \A f \in events : f.txn = t => f \in EventsOf(client[t])
  BY <1>0 DEF Written, EventsOf
<1>5. e.txn = t
  <2> SUFFICES ASSUME e.txn # t PROVE FALSE
    OBVIOUS
  <2>1. e \in events /\ e.clientId = m.clientId /\ e # m
    BY <1>3, <1>4 DEF EventsOf
  <2>2. m.sequenceNumber <= e.sequenceNumber
    BY <1>3, <1>4
  <2>3. e.sequenceNumber \in Nat /\ m.sequenceNumber \in Nat
    BY <1>0, <2>1, Typed
  <2>4. m.sequenceNumber < e.sequenceNumber
    BY <1>0, <2>1, <2>2, <2>3, Comparable
  <2>5. Solid(m, e.txn)
    BY <1>0, <2>1, <2>4, LowerIsSolid
  <2> QED
    BY <2>5, <1>3 DEF Solid, Committed, Running, RunningStates
<1> QED
  BY <1>4, <1>5

\* ... so such a transaction finds an event, and one it need not wait for.
LEMMA OwnEventExists ==
  ASSUME LedgerInv, Progressed, NEW t \in Txns, Running(t), ~Books(t), done[t] > 0
  PROVE  EventsOf(client[t]) # {}
<1>0. TypeOK /\ Written
  BY DEF LedgerInv, OrderInv, ChainInv
<1>1. PICK n \in Nat : Numbered(t, n)
  BY DEF Progressed, ProgressOf, Running, RunningStates
<1>2. Inserted(t) = done[t] /\ 1 \in 1 .. Inserted(t)
  BY <1>0, Typed DEF Inserted
<1>3. PICK m \in events : m.txn = t
  BY <1>1, <1>2 DEF Numbered
<1> QED
  BY <1>0, <1>3 DEF Written, EventsOf

LEMMA OwnIsUnlocked ==
  ASSUME LedgerInv, LocksSolid, NEW t \in Txns, Running(t),
         NEW e \in events, e.txn = t
  PROVE  ~LockedByOther(e, t)
<1> SUFFICES ASSUME NEW u \in Txns \ {t}, e.id \in held[u] PROVE FALSE
  BY DEF LockedByOther
<1>1. Solid(e, u)
  BY DEF LocksSolid
<1> QED
  BY <1>1 DEF Solid, Committed, Running, RunningStates

\* The step of t leaves the events and the progress of the others alone.
StepOf(t) ==
  /\ request' = request /\ client' = client
  /\ \E s : Goto(t, s)
  /\ \A u \in Txns \ {t} : /\ done'[u] = done[u] /\ last'[u] = last[u]
                           /\ \A e : e \in events' /\ e.txn = u
                                       <=> e \in events /\ e.txn = u

LEMMA OthersProgress ==
  ASSUME AtomicInv, NEW t \in Txns, StepOf(t)
  PROVE  \A u \in Txns \ {t} : ProgressOf(u)' /\ HasTenant(u)'
<1> SUFFICES ASSUME NEW u \in Txns \ {t} PROVE ProgressOf(u)' /\ HasTenant(u)'
  OBVIOUS
<1>0. pc \in [Txns -> RunningStates \cup {"idle", "committed", "rolledback"}]
  BY Typed DEF AtomicInv, LedgerInv, OrderInv, ChainInv
<1>1. /\ pc'[u] = pc[u] /\ done'[u] = done[u] /\ last'[u] = last[u]
      /\ request' = request
  BY <1>0 DEF StepOf, Goto
<1>2. Inserted(u)' = Inserted(u)
  BY <1>1 DEF Inserted, Books
<1>3. /\ \A n : Numbered(u, n) => Numbered(u, n)'
      /\ OwnTip(u) => OwnTip(u)'
  BY <1>1, <1>2, SameRequest DEF StepOf
<1>4. ProgressOf(u) /\ HasTenant(u)
  BY DEF AtomicInv, Progressed, KeepsTenant
<1> QED
  BY <1>1, <1>3, <1>4 DEF ProgressOf, HasTenant

\* A step of t that writes no event keeps the count of its events: register()
\* returns with the same events it had before its last statement.
LEMMA SameNumbers ==
  ASSUME Progressed, NEW t \in Txns, pc[t] # "rolledback",
         events' = events, request' = request, Inserted(t)' = Inserted(t)
  PROVE  \E n \in Nat : Numbered(t, n)'
<1>1. PICK n \in Nat : Numbered(t, n)
  BY DEF Progressed, ProgressOf
<1>2. Numbered(t, n)'
  BY <1>1 DEF Numbered
<1> QED
  BY <1>2

\* Steps of t that insert nothing, take no id and lock nothing.
LEMMA PlainAtomic ==
  ASSUME AtomicInv, LedgerInv', NEW t \in Txns,
         \/ Begin(t) \/ FindNoEvent(t) \/ WaitForLock(t) \/ Rescan(t)
         \/ MarkProcessed(t) \/ SaveOrigin(t) \/ SaveDestination(t) \/ Commit(t)
  PROVE  AtomicInv'
<1>0. /\ TypeOK
      /\ pc \in [Txns -> RunningStates \cup {"idle", "committed", "rolledback"}]
      /\ done \in [Txns -> Nat] /\ DOMAIN last = Txns /\ held \in [Txns -> SUBSET Nat]
  BY Typed DEF AtomicInv, LedgerInv, OrderInv, ChainInv
<1>1. /\ events' = events /\ request' = request /\ client' = client
      /\ newId' = newId /\ lastId' = lastId
      /\ \A u \in Txns \ {t} : done'[u] = done[u] /\ last'[u] = last[u]
      /\ \A u \in Txns : held'[u] = {} \/ held'[u] = held[u]
      /\ pc[t] \in {"idle", "scan", "wait", "process", "origin", "destination",
                    "commit"}
  BY <1>0 DEF Begin, FindNoEvent, WaitForLock, Rescan, MarkProcessed, SaveOrigin,
     SaveDestination, Commit, tables
<1>2. PICK s \in {"scan", "wait", "insert", "origin", "destination", "commit",
                  "committed"} :
        pc' = [pc EXCEPT ![t] = s]
  BY DEF Begin, FindNoEvent, WaitForLock, Rescan, MarkProcessed, SaveOrigin,
     SaveDestination, Commit, Goto
<1>3. pc'[t] = s /\ \A u \in Txns : pc'[u] = "write" => pc[u] = "write"
  BY <1>0, <1>2
<1>4. StepOf(t)
  BY <1>1, <1>2 DEF StepOf, Goto
<1>5. Inserted(t)' = Inserted(t)
  <2>1. CASE SaveDestination(t)
    <3>1. done'[t] = done[t] + 1 /\ pc[t] = "destination" /\ pc'[t] \in {"scan", "commit"}
      BY <2>1, <1>0 DEF SaveDestination, Goto
    <3> QED
      BY <3>1, <1>0 DEF Inserted, Books
  <2>2. CASE ~SaveDestination(t)
    <3>1. done' = done /\ (Books(t)' <=> Books(t))
      BY <2>2, <1>0 DEF Begin, FindNoEvent, WaitForLock, Rescan, MarkProcessed,
         SaveOrigin, Commit, Goto, Books
    <3> QED
      BY <3>1 DEF Inserted
  <2> QED
    BY <2>1, <2>2
<1>6. ProgressOf(t)'
  <2>1. \E n \in Nat : Numbered(t, n)'
    BY <1>1, <1>5, SameNumbers DEF AtomicInv
  <2>2. ASSUME s \in {"commit", "committed"} PROVE done'[t] = Len(request'[t])
    <3>1. CASE SaveDestination(t)
      <4>1. done[t] + 1 \in 1 .. Len(request[t])
        BY <3>1, <1>0, CallType DEF SaveDestination, RunningStates
      <4>2. Len(request[t]) \in Nat
        BY <1>0, RequestsAssumption DEF TypeOK
      <4>3. done'[t] = done[t] + 1 /\ pc'[t] = IF done[t] + 1 < Len(request[t])
                                               THEN "scan" ELSE "commit"
        BY <3>1, <1>0 DEF SaveDestination, Goto
      <4> QED
        BY <4>1, <4>2, <4>3, <2>2, <1>0, <1>1, <1>3
    <3>2. CASE Commit(t)
      BY <3>2, <1>1 DEF Commit, AtomicInv, Progressed, ProgressOf
    <3>3. SaveDestination(t) \/ Commit(t)
      BY <2>2, <1>0, <1>3 DEF Begin, FindNoEvent, WaitForLock, Rescan,
         MarkProcessed, SaveOrigin, Goto
    <3> QED
      BY <3>1, <3>2, <3>3
  <2> QED
    BY <2>1, <2>2, <1>3 DEF ProgressOf
<1>7. HasTenant(t)'
  <2> SUFFICES ASSUME done'[t] > 0, s \in {"wait", "insert"} PROVE FALSE
    BY <1>3 DEF HasTenant
  <2>1. FindNoEvent(t) \/ WaitForLock(t)
    BY <1>0, <1>3 DEF Begin, Rescan, MarkProcessed, SaveOrigin, SaveDestination,
       Commit, Goto
  <2>2. pc[t] = "scan" /\ done' = done
    BY <2>1 DEF FindNoEvent, WaitForLock
  <2>3. Running(t) /\ ~Books(t) /\ done[t] > 0
    BY <2>2 DEF Running, RunningStates, Books
  <2>4. CASE FindNoEvent(t)
    BY <2>3, <2>4, OwnEventExists DEF FindNoEvent, AtomicInv
  <2>5. CASE WaitForLock(t)
    <3>1. PICK e \in events : IsLast(e, client[t]) /\ LockedByOther(e, t)
      BY <2>5 DEF WaitForLock
    <3>2. e.txn = t
      BY <2>3, <3>1, NewestIsOwn DEF IsLast, AtomicInv
    <3> QED
      BY <2>3, <3>1, <3>2, OwnIsUnlocked DEF AtomicInv
  <2> QED
    BY <2>1, <2>4, <2>5
<1>8. LocksSolid'
  <2>1. \A u \in Txns : Keeps(u)
    BY <1>0, <1>1, <1>2, StepKeeps
  <2> QED
    BY <2>1, <1>0, <1>1, <1>3, LocksKept DEF AtomicInv
<1>9. \A u \in Txns \ {t} : ProgressOf(u)' /\ HasTenant(u)'
  BY <1>4, OthersProgress
<1> QED
  BY <1>6, <1>7, <1>8, <1>9 DEF AtomicInv, Progressed, KeepsTenant

\* The locking read: the row it locks is committed or its own.
LEMMA AdoptAtomic ==
  ASSUME AtomicInv, LedgerInv', NEW t \in Txns, NEW e \in EventsOf(client[t]),
         Adopt(t, e), pc[t] \in {"scan", "wait"},
         done[t] > 0 =>
           /\ e.txn = t
           /\ \A f \in events : f.txn = t => f.sequenceNumber <= e.sequenceNumber
  PROVE  AtomicInv'
<1>0. /\ TypeOK /\ Written /\ IdsOrdered /\ IdsUnique
      /\ pc \in [Txns -> RunningStates \cup {"idle", "committed", "rolledback"}]
      /\ DOMAIN last = Txns /\ held \in [Txns -> SUBSET Nat]
      /\ e \in events /\ e.txn \in Txns
  BY Typed DEF AtomicInv, LedgerInv, OrderInv, ChainInv, EventsOf
<1>1. /\ events' = events /\ request' = request /\ client' = client
      /\ newId' = newId /\ lastId' = lastId /\ done' = done
      /\ last' = [last EXCEPT ![t] = Tip(e)]
      /\ held' = [held EXCEPT ![t] = @ \cup {e.id}]
      /\ pc' = [pc EXCEPT ![t] = "insert"]
  BY DEF Adopt, Goto, tables
<1>2. StepOf(t)
  BY <1>0, <1>1 DEF StepOf, Goto
<1>3. \A u \in Txns \ {t} : ProgressOf(u)' /\ HasTenant(u)'
  BY <1>2, OthersProgress
<1>4. Inserted(t)' = Inserted(t) /\ pc'[t] = "insert"
  BY <1>0, <1>1 DEF Inserted, Books
<1>5. ProgressOf(t)'
  <2>1. \E n \in Nat : Numbered(t, n)'
    BY <1>0, <1>1, <1>4, SameNumbers DEF AtomicInv
  <2> QED
    BY <2>1, <1>4 DEF ProgressOf
<1>6. HasTenant(t)'
  <2> SUFFICES ASSUME done[t] > 0 PROVE OwnTip(t)'
    BY <1>1, <1>4 DEF HasTenant
  <2> QED
    BY <1>0, <1>1 DEF OwnTip
<1>7. \A u \in Txns : Keeps(u)
  BY <1>0, <1>1, StepKeeps
<1>8. Solid(e, t)
  BY <1>0 DEF Solid, Adopt, LockedByOther, Written
<1>9. LocksSolid'
  <2>1. \A u \in Txns : pc'[u] = "write" => pc[u] = "write"
    BY <1>0, <1>1
  <2>2. ASSUME NEW u \in Txns, NEW i \in held[u]
        PROVE  /\ i <= lastId'
               /\ \A v \in Txns : pc'[v] = "write" => newId'[v] # i
               /\ \A f \in events' : f.id = i => Solid(f, u)'
    BY <1>1, <1>7, <2>1, <2>2 DEF AtomicInv, LocksSolid, Keeps
  <2>3. /\ e.id <= lastId'
        /\ \A v \in Txns : pc'[v] = "write" => newId'[v] # e.id
        /\ \A f \in events' : f.id = e.id => Solid(f, t)'
    <3>1. e.id <= lastId'
      BY <1>0, <1>1 DEF IdsOrdered
    <3>2. \A v \in Txns : pc'[v] = "write" => newId'[v] # e.id
      BY <1>0, <1>1, <2>1 DEF IdsUnique
    <3>3. \A f \in events : f.id = e.id => f = e
      BY <1>0 DEF IdsUnique
    <3>4. Solid(e, t)'
      BY <1>0, <1>7, <1>8 DEF Keeps
    <3> QED
      BY <1>1, <3>1, <3>2, <3>3, <3>4
  <2>4. \A u \in Txns : \A i \in held'[u] : i \in held[u] \/ (u = t /\ i = e.id)
    BY <1>0, <1>1
  <2> QED
    BY <2>2, <2>3, <2>4 DEF LocksSolid
<1> QED
  BY <1>3, <1>5, <1>6, <1>9 DEF AtomicInv, Progressed, KeepsTenant

\* The INSERT's id is that of no locked row.
LEMMA TakeIdAtomic ==
  ASSUME AtomicInv, LedgerInv', NEW t \in Txns, TakeId(t)
  PROVE  AtomicInv'
<1>0. /\ TypeOK
      /\ pc \in [Txns -> RunningStates \cup {"idle", "committed", "rolledback"}]
      /\ DOMAIN last = Txns /\ held \in [Txns -> SUBSET Nat]
      /\ newId \in [Txns -> Nat] /\ lastId \in Nat
  BY Typed DEF AtomicInv, LedgerInv, OrderInv, ChainInv
<1>1. /\ events' = events /\ request' = request /\ client' = client
      /\ held' = held /\ done' = done /\ last' = last
      /\ lastId' = lastId + 1 /\ newId' = [newId EXCEPT ![t] = lastId + 1]
      /\ pc' = [pc EXCEPT ![t] = "write"] /\ pc[t] = "insert"
  BY DEF TakeId, Goto, tables
<1>2. StepOf(t)
  BY <1>0, <1>1 DEF StepOf, Goto
<1>3. \A u \in Txns \ {t} : ProgressOf(u)' /\ HasTenant(u)'
  BY <1>2, OthersProgress
<1>4. Inserted(t)' = Inserted(t) /\ pc'[t] = "write"
  BY <1>0, <1>1 DEF Inserted, Books
<1>5. ProgressOf(t)'
  <2>1. \E n \in Nat : Numbered(t, n)'
    BY <1>0, <1>1, <1>4, SameNumbers DEF AtomicInv
  <2> QED
    BY <2>1, <1>4 DEF ProgressOf
<1>6. HasTenant(t)'
  <2>1. OwnTip(t) => OwnTip(t)'
    BY <1>1 DEF OwnTip
  <2> QED
    BY <2>1, <1>1, <1>4 DEF HasTenant, AtomicInv, KeepsTenant
<1>7. \A u \in Txns : Keeps(u)
  BY <1>0, <1>1, StepKeeps
<1>9. LocksSolid'
  <2> SUFFICES ASSUME NEW u \in Txns, NEW i \in held[u]
               PROVE  /\ i <= lastId'
                      /\ \A v \in Txns : pc'[v] = "write" => newId'[v] # i
                      /\ \A f \in events' : f.id = i => Solid(f, u)'
    BY <1>1 DEF LocksSolid
  <2>1. /\ i <= lastId /\ i \in Nat
        /\ \A v \in Txns : pc[v] = "write" => newId[v] # i
        /\ \A f \in events : f.id = i => Solid(f, u)
    BY <1>0 DEF AtomicInv, LocksSolid
  <2>2. \A v \in Txns : pc'[v] = "write" => newId'[v] # i
    <3>1. newId'[t] = lastId + 1 /\ \A v \in Txns \ {t} : newId'[v] = newId[v] /\ pc'[v] = pc[v]
      BY <1>0, <1>1
    <3> QED
      BY <3>1, <2>1, <1>0
  <2> QED
    BY <2>1, <2>2, <1>0, <1>1, <1>7 DEF Keeps
<1> QED
  BY <1>3, <1>5, <1>6, <1>9 DEF AtomicInv, Progressed, KeepsTenant

\* The INSERT adds the next event of the request, numbered after the one before.
LEMMA WriteNumbers ==
  ASSUME AtomicInv, NEW t \in Txns, pc[t] = "write",
         NEW new, new.txn = t, new.call = Call(t),
         new.sequenceNumber = last[t].sequenceNumber + 1,
         events' = events \cup {new}, request' = request, done' = done,
         pc' = [pc EXCEPT ![t] = "process"]
  PROVE  \E n \in Nat : Numbered(t, n)'
<1>0. /\ TypeOK /\ done[t] \in Nat
      /\ pc \in [Txns -> RunningStates \cup {"idle", "committed", "rolledback"}]
      /\ \A e \in events : e.sequenceNumber \in Nat
      /\ last[t].sequenceNumber \in Nat
  BY Typed DEF AtomicInv, LedgerInv, OrderInv, ChainInv, TypeOK
<1>1. Inserted(t) = done[t] /\ Inserted(t)' = done[t] + 1
  BY <1>0 DEF Inserted, Books
<1>2. PICK m \in Nat : Numbered(t, m)
  BY DEF AtomicInv, Progressed, ProgressOf
<1>3. /\ \A e \in events : e.txn = t => e.sequenceNumber \in m + 1 .. m + done[t]
      /\ \A i \in 1 .. done[t] : \E e \in events :
           e.txn = t /\ e.sequenceNumber = m + i /\ e.call = request[t][i]
  BY <1>1, <1>2 DEF Numbered
<1> DEFINE n == last[t].sequenceNumber - done[t]
<1>4. PICK k : k = n
  OBVIOUS
<1>5. CASE done[t] = 0
  <2>1. k \in Nat /\ k = last[t].sequenceNumber
    BY <1>0, <1>4, <1>5
  <2>2. \A e \in events : e.txn # t
    BY <1>0, <1>3, <1>5
  <2>3. /\ new.sequenceNumber = k + 1 /\ new.call = request[t][1]
        /\ Inserted(t)' = 1
    BY <1>1, <1>5, <2>1 DEF Call
  <2>4. Numbered(t, k)'
    <3>1. \A e \in events' : e.txn = t => e.sequenceNumber \in k + 1 .. k + 1
      BY <2>1, <2>2, <2>3
    <3>2. \A i \in 1 .. 1 : \E e \in events' :
            e.txn = t /\ e.sequenceNumber = k + i /\ e.call = request'[t][i]
      BY <2>3
    <3> QED
      BY <2>3, <3>1, <3>2 DEF Numbered
  <2> QED
    BY <2>1, <2>4
<1>6. CASE done[t] > 0
  <2>1. PICK e \in events :
          /\ e.txn = t /\ last[t] = Tip(e)
          /\ \A f \in events : f.txn = t => f.sequenceNumber <= e.sequenceNumber
    BY <1>6 DEF AtomicInv, KeepsTenant, HasTenant, OwnTip
  <2>2. PICK f \in events : f.txn = t /\ f.sequenceNumber = m + done[t]
    BY <1>0, <1>3, <1>6
  <2>3. e.sequenceNumber = m + done[t]
    BY <2>1, <2>2, <1>0, <1>3
  <2>4. new.sequenceNumber = m + (done[t] + 1)
    BY <2>1, <2>3, <1>0 DEF Tip
  <2>5. Numbered(t, m)'
    <3>1. \A g \in events' : g.txn = t => g.sequenceNumber \in m + 1 .. m + (done[t] + 1)
      BY <1>0, <1>3, <2>4
    <3>2. ASSUME NEW i \in 1 .. done[t] + 1
          PROVE  \E g \in events' :
                   g.txn = t /\ g.sequenceNumber = m + i /\ g.call = request'[t][i]
      <4>1. CASE i \in 1 .. done[t]
        BY <1>3, <4>1
      <4>2. CASE i = done[t] + 1
        BY <2>4, <4>2 DEF Call
      <4> QED
        BY <4>1, <4>2, <1>0
    <3> QED
      BY <1>1, <3>1, <3>2 DEF Numbered
  <2> QED
    BY <2>5
<1> QED
  BY <1>0, <1>5, <1>6

LEMMA WriteAtomic ==
  ASSUME AtomicInv, LedgerInv', NEW t \in Txns, WriteEvent(t)
  PROVE  AtomicInv'
<1> PICK new : new = NewEvent(t)
  OBVIOUS
<1>0. /\ TypeOK
      /\ pc \in [Txns -> RunningStates \cup {"idle", "committed", "rolledback"}]
      /\ DOMAIN last = Txns
  BY Typed DEF AtomicInv, LedgerInv, OrderInv, ChainInv
<1>1. /\ events' = events \cup {new} /\ request' = request /\ client' = client
      /\ held' = held /\ done' = done /\ last' = last
      /\ lastId' = lastId /\ newId' = newId
      /\ pc' = [pc EXCEPT ![t] = "process"] /\ pc[t] = "write"
      /\ new.txn = t /\ new.call = Call(t) /\ new.id = newId[t]
      /\ new.sequenceNumber = last[t].sequenceNumber + 1
  BY DEF WriteEvent, NewEvent, Goto
<1>2. StepOf(t)
  BY <1>0, <1>1 DEF StepOf, Goto
<1>3. \A u \in Txns \ {t} : ProgressOf(u)' /\ HasTenant(u)'
  BY <1>2, OthersProgress
<1>4. pc'[t] = "process"
  BY <1>0, <1>1
<1>5. ProgressOf(t)'
  <2>1. \E n \in Nat : Numbered(t, n)'
    BY <1>1, WriteNumbers
  <2> QED
    BY <2>1, <1>4 DEF ProgressOf
<1>6. HasTenant(t)'
  BY <1>4 DEF HasTenant
<1>7. \A u \in Txns : Keeps(u)
  BY <1>0, <1>1, StepKeeps
<1>8. LocksSolid'
  <2>1. \A u \in Txns : \A i \in held[u] : new.id # i
    BY <1>1 DEF AtomicInv, LocksSolid
  <2>2. \A u \in Txns : pc'[u] = "write" => pc[u] = "write"
    BY <1>0, <1>1
  <2> QED
    BY <2>1, <2>2, <1>1, <1>7 DEF AtomicInv, LocksSolid, Keeps
<1> QED
  BY <1>3, <1>5, <1>6, <1>8 DEF AtomicInv, Progressed, KeepsTenant

\* ROLLBACK takes all events of t and frees its locks.
LEMMA RollbackAtomic ==
  ASSUME AtomicInv, LedgerInv', NEW t \in Txns, Running(t), Rollback(t)
  PROVE  AtomicInv'
<1>0. /\ TypeOK
      /\ pc \in [Txns -> RunningStates \cup {"idle", "committed", "rolledback"}]
      /\ held \in [Txns -> SUBSET Nat]
  BY Typed DEF AtomicInv, LedgerInv, OrderInv, ChainInv
<1>1. /\ events' = {e \in events : e.txn # t} /\ request' = request
      /\ client' = client /\ done' = done /\ last' = last
      /\ held' = [held EXCEPT ![t] = {}]
      /\ lastId' = lastId /\ newId' = newId
      /\ pc' = [pc EXCEPT ![t] = "rolledback"]
  BY DEF Rollback, Goto
<1>2. StepOf(t)
  BY <1>1 DEF StepOf, Goto
<1>3. \A u \in Txns \ {t} : ProgressOf(u)' /\ HasTenant(u)'
  BY <1>2, OthersProgress
<1>4. pc'[t] = "rolledback"
  BY <1>0, <1>1
<1>5. ProgressOf(t)' /\ HasTenant(t)'
  BY <1>4 DEF ProgressOf, HasTenant
<1>6. LocksSolid'
  <2>1. \A u \in Txns \ {t} : Keeps(u)
    BY <1>0, RollbackKeeps
  <2>2. \A u \in Txns : pc'[u] = "write" => pc[u] = "write"
    BY <1>0, <1>1
  <2>3. held'[t] = {} /\ \A u \in Txns \ {t} : held'[u] = held[u]
    BY <1>0, <1>1
  <2> QED
    BY <2>1, <2>2, <2>3, <1>1, LocksKept DEF AtomicInv
<1> QED
  BY <1>3, <1>5, <1>6 DEF AtomicInv, Progressed, KeepsTenant

LEMMA NextAtomicInv == AtomicInv /\ [Next]_vars => AtomicInv'
<1> SUFFICES ASSUME AtomicInv, [Next]_vars PROVE AtomicInv'
  OBVIOUS
<1>0. TypeOK /\ LedgerInv'
  BY NextLedgerInv DEF AtomicInv, LedgerInv, OrderInv, ChainInv
<1>1. CASE UNCHANGED vars
  <2>1. \A u : /\ \A n : Numbered(u, n)' <=> Numbered(u, n)
               /\ OwnTip(u)' <=> OwnTip(u)
               /\ \A e : Solid(e, u)' <=> Solid(e, u)
    BY <1>1 DEF vars, tables, Numbered, Inserted, Books, OwnTip, Solid, Committed
  <2> QED
    BY <1>1, <2>1, <1>0
    DEF vars, tables, AtomicInv, Progressed, ProgressOf, LocksSolid, KeepsTenant,
        HasTenant
<1>2. ASSUME NEW t \in Txns,
             Begin(t) \/ FindNoEvent(t) \/ WaitForLock(t) \/ Rescan(t)
               \/ MarkProcessed(t) \/ SaveOrigin(t) \/ SaveDestination(t)
               \/ Commit(t)
      PROVE  AtomicInv'
  BY <1>2, <1>0, PlainAtomic
<1>3. ASSUME NEW t \in Txns, LockLastEvent(t) PROVE AtomicInv'
  <2>1. PICK e \in events : IsLast(e, client[t]) /\ Adopt(t, e) /\ pc[t] = "scan"
    BY <1>3 DEF LockLastEvent
  <2>2. Running(t) /\ ~Books(t)
    BY <2>1 DEF Running, RunningStates, Books
  <2>3. e \in EventsOf(client[t])
        /\ \A f \in EventsOf(client[t]) : f.sequenceNumber <= e.sequenceNumber
    BY <2>1 DEF IsLast
  <2> QED
    BY <2>1, <2>2, <2>3, <1>0, NewestIsOwn, AdoptAtomic DEF AtomicInv
<1>4. ASSUME NEW t \in Txns, GrantLock(t) PROVE AtomicInv'
  <2>1. PICK e \in EventsOf(client[t]) : Adopt(t, e) /\ pc[t] = "wait"
    BY <1>4 DEF GrantLock
  <2>2. ~(done[t] > 0)
    BY <2>1 DEF AtomicInv, KeepsTenant, HasTenant
  <2> QED
    BY <2>1, <2>2, <1>0, AdoptAtomic
<1>5. ASSUME NEW t \in Txns, TakeId(t) PROVE AtomicInv'
  BY <1>5, <1>0, TakeIdAtomic
<1>6. ASSUME NEW t \in Txns, WriteEvent(t) PROVE AtomicInv'
  BY <1>6, <1>0, WriteAtomic
<1>7. ASSUME NEW t \in Txns, Refuse(t) \/ Fail(t) PROVE AtomicInv'
  <2>1. Running(t) /\ Rollback(t)
    BY <1>7 DEF Refuse, Fail, Running, RunningStates
  <2> QED
    BY <2>1, <1>0, RollbackAtomic
<1> QED
  BY <1>1, <1>2, <1>3, <1>4, <1>5, <1>6, <1>7 DEF Next, Progress

-----------------------------------------------------------------------------
LEMMA AtomicInvImpliesRequestAtomic == AtomicInv => RequestAtomic
<1> SUFFICES ASSUME AtomicInv, NEW t \in Txns
             PROVE  LET mine == {e \in events : e.txn = t}
                    IN  /\ pc[t] \in {"idle", "rolledback"} => mine = {}
                        /\ Committed(t) =>
                             \E first \in mine :
                               LET number(i) == first.sequenceNumber + i - 1
                               IN  /\ \A e \in mine : \E i \in 1..Len(request[t]) :
                                        e.sequenceNumber = number(i)
                                   /\ \A i \in 1..Len(request[t]) : \E e \in mine :
                                        e.sequenceNumber = number(i)
                                          /\ e.call = request[t][i]
  BY DEF RequestAtomic
<1> DEFINE mine == {e \in events : e.txn = t}
<1>0. /\ TypeOK /\ Written
      /\ \A e \in events : e.sequenceNumber \in Nat
      /\ done[t] \in Nat
  BY Typed DEF AtomicInv, LedgerInv, OrderInv, ChainInv
<1>1. ASSUME pc[t] \in {"idle", "rolledback"} PROVE mine = {}
  BY <1>0, <1>1 DEF Written, Running, RunningStates, Committed
<1>2. ASSUME Committed(t)
      PROVE  \E first \in mine :
               /\ \A e \in mine : \E i \in 1..Len(request[t]) :
                    e.sequenceNumber = first.sequenceNumber + i - 1
               /\ \A i \in 1..Len(request[t]) : \E e \in mine :
                    /\ e.sequenceNumber = first.sequenceNumber + i - 1
                    /\ e.call = request[t][i]
  <2>1. pc[t] = "committed" /\ ProgressOf(t)
    BY <1>2 DEF Committed, AtomicInv, Progressed
  <2>2. PICK n \in Nat : Numbered(t, n)
    BY <2>1 DEF ProgressOf
  <2>3. Inserted(t) = Len(request[t])
    BY <2>1 DEF ProgressOf, Inserted, Books
  <2>4. Len(request[t]) \in Nat /\ Len(request[t]) > 0
    <3>1. request[t] \in Seq(Calls) /\ request[t] # <<>>
      BY <1>0, RequestsAssumption DEF TypeOK
    <3> QED
      BY <3>1
  <2>5. /\ \A e \in mine : e.sequenceNumber \in n + 1 .. n + Len(request[t])
        /\ \A i \in 1 .. Len(request[t]) : \E e \in mine :
             e.sequenceNumber = n + i /\ e.call = request[t][i]
    BY <2>2, <2>3 DEF Numbered
  <2>6. PICK first \in mine : first.sequenceNumber = n + 1
    BY <2>4, <2>5
  <2>7. ASSUME NEW e \in mine
        PROVE  \E i \in 1..Len(request[t]) :
                 e.sequenceNumber = first.sequenceNumber + i - 1
    <3>1. PICK i : i = e.sequenceNumber - n
      OBVIOUS
    <3>2. /\ i \in 1..Len(request[t])
          /\ e.sequenceNumber = first.sequenceNumber + i - 1
      <4>1. e.sequenceNumber \in n + 1 .. n + Len(request[t])
        BY <2>5
      <4>2. e.sequenceNumber \in Nat
        BY <1>0
      <4> HIDE DEF mine
      <4> QED
        BY <4>1, <4>2, <3>1, <2>4, <2>6
    <3> QED
      BY <3>2
  <2>8. ASSUME NEW i \in 1..Len(request[t])
        PROVE  \E e \in mine :
                 /\ e.sequenceNumber = first.sequenceNumber + i - 1
                 /\ e.call = request[t][i]
    <3>1. first.sequenceNumber + i - 1 = n + i
      BY <2>6, <2>4
    <3> QED
      BY <3>1, <2>5
  <2> QED
    BY <2>7, <2>8
<1> QED
  BY <1>1, <1>2

\* In every instance a request is all or nothing, and its events are neighbours
\* in the tenant's chain.
THEOREM RequestAtomicCorrect == Spec => []RequestAtomic
  BY InitAtomicInv, NextAtomicInv, AtomicInvImpliesRequestAtomic, PTL DEF Spec

-----------------------------------------------------------------------------
\* LedgerBuilder's check is the log's.
LEMMA BuildableIsBookable ==
  ASSUME NEW t PROVE Buildable(t) <=> Log!Bookable(Call(t), client[t])
  BY DEF Buildable, Log!Bookable, Resolvable, IsCredit, IsDebit, CreditTypes,
         DebitTypes, Log!Resolvable, Log!IsCredit, Log!IsDebit, Log!CreditTypes,
         Log!DebitTypes

LEMMA InitCallsBookable == Init => CallsBookable
  BY DEF Init, CallsBookable

LEMMA NextCallsBookable == TypeOK /\ CallsBookable /\ [Next]_vars => CallsBookable'
<1> SUFFICES ASSUME TypeOK, CallsBookable, [Next]_vars, NEW u \in Txns
             PROVE  /\ \A i \in 1 .. done'[u] : Log!Bookable(request'[u][i], client'[u])
                    /\ pc'[u] = "destination" => Log!Bookable(Call(u)', client'[u])
  BY DEF CallsBookable, Log!Bookable, Log!Resolvable, Log!IsCredit, Log!IsDebit
<1>0. /\ pc \in [Txns -> RunningStates \cup {"idle", "committed", "rolledback"}]
      /\ done \in [Txns -> Nat]
  BY Typed
<1>1. request' = request /\ client' = client
  BY DEF Next, Progress, Begin, FindNoEvent, LockLastEvent, WaitForLock, GrantLock,
     Adopt, Rescan, TakeId, WriteEvent, MarkProcessed, SaveOrigin, SaveDestination,
     Commit, Refuse, Fail, Rollback, vars
<1>2. CASE \E t \in Txns : SaveDestination(t) /\ t = u
  <2>1. /\ done'[u] = done[u] + 1 /\ pc'[u] # "destination"
        /\ pc[u] = "destination"
    BY <1>2, <1>0 DEF SaveDestination, Goto
  <2>2. Log!Bookable(request[u][done[u] + 1], client[u])
    BY <2>1 DEF CallsBookable, Call
  <2>3. \A i \in 1 .. done[u] + 1 : i \in 1 .. done[u] \/ i = done[u] + 1
    BY <1>0
  <2> QED
    BY <2>1, <2>2, <2>3, <1>1 DEF CallsBookable
<1>3. CASE \E t \in Txns : SaveOrigin(t) /\ t = u
  <2>1. done' = done /\ Buildable(u)
    BY <1>3 DEF SaveOrigin
  <2> QED
    BY <2>1, <1>1, BuildableIsBookable DEF CallsBookable, Call
<1>4. CASE /\ ~\E t \in Txns : SaveDestination(t) /\ t = u
           /\ ~\E t \in Txns : SaveOrigin(t) /\ t = u
  <2>1. done'[u] = done[u] /\ (pc'[u] = "destination" => pc[u] = "destination")
    BY <1>4, <1>0
    DEF Next, Progress, Begin, FindNoEvent, LockLastEvent, WaitForLock, GrantLock,
        Adopt, Rescan, TakeId, WriteEvent, MarkProcessed, SaveOrigin,
        SaveDestination, Commit, Refuse, Fail, Rollback, vars, Goto
  <2> QED
    BY <2>1, <1>1 DEF CallsBookable, Call
<1> QED
  BY <1>2, <1>3, <1>4

-----------------------------------------------------------------------------
\* The refinement.  The log of a tenant is a function of its committed events,
\* so only a COMMIT changes it, and a COMMIT of t adds the calls of t.
NumbersOf(E, c) == {e.sequenceNumber : e \in {f \in E : f.clientId = c}}

LogOf(E, c) ==
  [n \in NumbersOf(E, c) |->
    (CHOOSE e \in E : e.clientId = c /\ e.sequenceNumber = n).call]

LEMMA CommittedLogIs ==
  CommittedLog = [c \in Clients |-> LogOf(CommittedEvents, c)]
<1>1. \A c \in Clients : CommittedEvents \cap EventsOf(c)
                           = {f \in CommittedEvents : f.clientId = c}
  BY DEF CommittedEvents, EventsOf
<1> QED
  BY <1>1 DEF CommittedLog, LogOf, NumbersOf

LEMMA NextLogIs ==
  CommittedLog' = [c \in Clients |-> LogOf(CommittedEvents', c)]
<1>1. \A c \in Clients : CommittedEvents' \cap EventsOf(c)'
                           = {f \in CommittedEvents' : f.clientId = c}
  BY DEF CommittedEvents, EventsOf
<1> QED
  BY <1>1 DEF CommittedLog, LogOf, NumbersOf

LEMMA InitLog == Init => Log!Init
<1> SUFFICES ASSUME Init, NEW c \in Clients PROVE LogOf(CommittedEvents, c) = <<>>
  BY CommittedLogIs DEF Log!Init
<1>1. CommittedEvents = {}
  BY DEF Init, CommittedEvents
<1>2. NumbersOf(CommittedEvents, c) = {}
  BY <1>1 DEF NumbersOf
<1>3. PICK f : f = LogOf(CommittedEvents, c)
  OBVIOUS
<1>4. f = [n \in {} |-> f[n]]
  BY <1>2, <1>3 DEF LogOf
<1> QED
  BY <1>3, <1>4

\* Where numbers are unique, the log has each event's call at its number.
LEMMA LogEntries ==
  ASSUME UniqueKey, NEW E \in SUBSET events, NEW c
  PROVE  /\ LogOf(E, c) = [n \in NumbersOf(E, c) |-> LogOf(E, c)[n]]
         /\ \A e \in E : e.clientId = c => LogOf(E, c)[e.sequenceNumber] = e.call
<1>1. LogOf(E, c) = [n \in NumbersOf(E, c) |-> LogOf(E, c)[n]]
  BY DEF LogOf, NumbersOf
<1>2. ASSUME NEW e \in E, e.clientId = c
      PROVE  LogOf(E, c)[e.sequenceNumber] = e.call
  <2>1. e.sequenceNumber \in NumbersOf(E, c)
    BY <1>2 DEF NumbersOf
  <2>2. PICK x : x = CHOOSE f \in E : f.clientId = c /\ f.sequenceNumber = e.sequenceNumber
    OBVIOUS
  <2>3. x \in E /\ x.clientId = c /\ x.sequenceNumber = e.sequenceNumber
    BY <1>2, <2>2
  <2>4. x = e
    BY <1>2, <2>3 DEF UniqueKey
  <2>5. LogOf(E, c)[e.sequenceNumber] = x.call
    BY <2>1, <2>2 DEF LogOf, NumbersOf
  <2> QED
    BY <2>4, <2>5
<1> QED
  BY <1>1, <1>2

\* Two sets of events that agree on a tenant give it the same log.
LEMMA SameLog ==
  ASSUME UniqueKey, NEW E \in SUBSET events, NEW F \in SUBSET events, NEW c,
         \A e : e.clientId = c => (e \in E <=> e \in F)
  PROVE  LogOf(E, c) = LogOf(F, c)
<1>1. NumbersOf(E, c) = NumbersOf(F, c)
  BY DEF NumbersOf
<1>2. /\ LogOf(E, c) = [n \in NumbersOf(E, c) |-> LogOf(E, c)[n]]
      /\ LogOf(F, c) = [n \in NumbersOf(F, c) |-> LogOf(F, c)[n]]
      /\ \A e \in E : e.clientId = c => LogOf(E, c)[e.sequenceNumber] = e.call
      /\ \A e \in F : e.clientId = c => LogOf(F, c)[e.sequenceNumber] = e.call
  BY LogEntries
<1>3. \A n \in NumbersOf(E, c) : LogOf(E, c)[n] = LogOf(F, c)[n]
  <2> TAKE n \in NumbersOf(E, c)
  <2>1. PICK e \in E : e.clientId = c /\ e.sequenceNumber = n
    BY DEF NumbersOf
  <2> QED
    BY <1>2, <2>1
<1>4. PICK f : f = LogOf(E, c)
  OBVIOUS
<1>5. PICK g : g = LogOf(F, c)
  OBVIOUS
<1>6. f = [n \in NumbersOf(E, c) |-> f[n]] /\ g = [n \in NumbersOf(E, c) |-> g[n]]
  BY <1>1, <1>2, <1>4, <1>5
<1>7. \A n \in NumbersOf(E, c) : f[n] = g[n]
  BY <1>3, <1>4, <1>5
<1>8. f = g
  BY <1>6, <1>7
<1> QED
  BY <1>4, <1>5, <1>8

\* A transaction that is about to commit has numbered its events right behind
\* the committed ones of its tenant, which fill the numbers from 1 on.
LEMMA CommittedPrefix ==
  ASSUME AtomicInv, NEW t \in Txns, pc[t] = "commit",
         NEW n \in Nat, Numbered(t, n)
  PROVE  NumbersOf(CommittedEvents, client[t]) = 1 .. n
<1>0. /\ TypeOK /\ Written /\ OrderInv /\ Dense
      /\ \A e \in events : e.sequenceNumber \in Nat \ {0}
      /\ done[t] \in Nat /\ done[t] = Len(request[t]) /\ Inserted(t) = done[t]
  BY Typed DEF AtomicInv, LedgerInv, OrderInv, ChainInv, Progressed, ProgressOf,
     Inserted, Books
<1>1. 1 \in 1 .. done[t]
  <2>1. request[t] \in Seq(Calls) /\ request[t] # <<>>
    BY <1>0, RequestsAssumption DEF TypeOK
  <2>2. Len(request[t]) \in Nat /\ Len(request[t]) > 0
    BY <2>1
  <2> QED
    BY <2>2, <1>0
<1>2. PICK e \in events : e.txn = t /\ e.sequenceNumber = n + 1
  BY <1>0, <1>1 DEF Numbered
<1>3. e.clientId = client[t]
  BY <1>0, <1>2 DEF Written
<1>4. ASSUME NEW k \in 1 .. n PROVE k \in NumbersOf(CommittedEvents, client[t])
  <2>1. k \in 1 .. e.sequenceNumber - 1
    BY <1>2
  <2>2. PICK f \in events : /\ f.clientId = e.clientId /\ f.sequenceNumber = k
                            /\ Solid(f, e.txn)
    BY <1>0, <2>1 DEF Dense, Below
  <2>3. f.txn # t
    <3>1. ~(k \in n + 1 .. n + Inserted(t))
      OBVIOUS
    <3> QED
      BY <2>2, <3>1 DEF Numbered
  <2>4. f \in CommittedEvents
    BY <1>2, <2>2, <2>3 DEF Solid, CommittedEvents
  <2> QED
    BY <1>3, <2>2, <2>4 DEF NumbersOf
<1>5. ASSUME NEW f \in CommittedEvents, f.clientId = client[t]
      PROVE  f.sequenceNumber \in 1 .. n
  <2>1. f \in events /\ f # e /\ Committed(f.txn) /\ ~Committed(e.txn)
    BY <1>2 DEF CommittedEvents, Committed
  <2>2. ~(e.sequenceNumber < f.sequenceNumber)
    BY <1>0, <1>3, <1>5, <2>1, LowerIsSolid DEF Solid, Committed
  <2>3. f.sequenceNumber < e.sequenceNumber
    BY <1>0, <1>3, <1>5, <2>1, <2>2, Comparable
  <2> QED
    BY <1>0, <1>2, <2>1, <2>3
<1> QED
  BY <1>4, <1>5 DEF NumbersOf

LEMMA IsConcatenation ==
  ASSUME NEW S, NEW s \in Seq(S), NEW q \in Seq(S), NEW u,
         u = [i \in 1 .. Len(s) + Len(q) |-> u[i]],
         \A i \in 1 .. Len(s) : u[i] = s[i],
         \A i \in 1 .. Len(q) : u[Len(s) + i] = q[i]
  PROVE  u = s \o q
<1>1. PICK v : v = s \o q
  OBVIOUS
<1>2. /\ v \in Seq(S) /\ Len(v) = Len(s) + Len(q)
      /\ \A i \in 1 .. Len(s) + Len(q) :
           v[i] = IF i <= Len(s) THEN s[i] ELSE q[i - Len(s)]
  BY <1>1, ConcatProperties
<1>3. Len(s) \in Nat /\ Len(q) \in Nat
  OBVIOUS
<1>4. ASSUME NEW i \in 1 .. Len(s) + Len(q) PROVE u[i] = v[i]
  <2>1. CASE i <= Len(s)
    <3>1. i \in 1 .. Len(s)
      BY <2>1, <1>3
    <3>2. u[i] = s[i]
      BY <3>1
    <3> QED
      BY <3>2, <2>1, <1>2
  <2>2. CASE i > Len(s)
    <3>1. i - Len(s) \in 1 .. Len(q) /\ Len(s) + (i - Len(s)) = i
      BY <2>2, <1>3
    <3>2. u[i] = q[i - Len(s)]
      BY <3>1
    <3> QED
      BY <3>2, <2>2, <1>2, <1>3
  <2> QED
    BY <2>1, <2>2, <1>3
<1>5. v = [i \in 1 .. Len(s) + Len(q) |-> v[i]]
  BY <1>2, <1>3
<1> QED
  BY <1>1, <1>4, <1>5

\* COMMIT appends the calls of the request to its tenant's log.
LEMMA CommitAppends ==
  ASSUME AtomicInv, NEW t \in Txns, Commit(t)
  PROVE  CommittedLog' = [CommittedLog EXCEPT ![client[t]] = @ \o request[t]]
<1>0. /\ TypeOK /\ Written /\ UniqueKey
      /\ \A e \in events : /\ e.sequenceNumber \in Nat /\ e.call \in Calls
                           /\ e.txn \in Txns
      /\ pc \in [Txns -> RunningStates \cup {"idle", "committed", "rolledback"}]
      /\ client[t] \in Clients
  BY Typed DEF AtomicInv, LedgerInv, OrderInv, ChainInv
<1>1. pc[t] = "commit" /\ pc' = [pc EXCEPT ![t] = "committed"] /\ events' = events
  BY DEF Commit, Goto, tables
<1> DEFINE c == client[t]
           r == request[t]
<1>2. PICK E : E = CommittedEvents
  OBVIOUS
<1>3. PICK F : F = {e \in events : e.txn = t} \cup CommittedEvents
  OBVIOUS
<1>4. CommittedEvents' = F
  BY <1>0, <1>1, <1>3 DEF CommittedEvents, Committed
<1>5. E \in SUBSET events /\ F \in SUBSET events
  BY <1>2, <1>3 DEF CommittedEvents
<1>6. /\ CommittedLog = [d \in Clients |-> LogOf(E, d)]
      /\ CommittedLog' = [d \in Clients |-> LogOf(F, d)]
  <2>1. CommittedLog' = [d \in Clients |-> LogOf(CommittedEvents', d)]
    BY NextLogIs
  <2> QED
    BY <2>1, <1>2, <1>4, CommittedLogIs
<1>7. ASSUME NEW d \in Clients, d # c PROVE LogOf(F, d) = LogOf(E, d)
  <2>1. \A e : e.clientId = d => (e \in E <=> e \in F)
    BY <1>0, <1>2, <1>3, <1>7 DEF Written
  <2> QED
    BY <2>1, <1>0, <1>5, SameLog
<1>8. LogOf(F, c) = LogOf(E, c) \o r
  <2>1. PICK n \in Nat : Numbered(t, n)
    BY <1>1 DEF AtomicInv, Progressed, ProgressOf
  <2>2. NumbersOf(E, c) = 1 .. n
    BY <1>1, <1>2, <2>1, CommittedPrefix
  <2>3. PICK L : L = Len(r)
    OBVIOUS
  <2>4. /\ r \in Seq(Calls) /\ L \in Nat
        /\ \A e \in events : e.txn = t => e.sequenceNumber \in n + 1 .. n + L
        /\ \A i \in 1 .. L : \E e \in events :
             e.txn = t /\ e.sequenceNumber = n + i /\ e.call = r[i]
    <3>1. Inserted(t) = L
      BY <1>1, <2>3 DEF Inserted, Books, AtomicInv, Progressed, ProgressOf
    <3>2. r \in Seq(Calls)
      BY <1>0, RequestsAssumption DEF TypeOK
    <3> QED
      BY <2>1, <2>3, <3>1, <3>2 DEF Numbered
  <2>5. /\ \A e \in E : e.clientId = c => LogOf(E, c)[e.sequenceNumber] = e.call
        /\ \A e \in F : e.clientId = c => LogOf(F, c)[e.sequenceNumber] = e.call
        /\ LogOf(E, c) = [i \in NumbersOf(E, c) |-> LogOf(E, c)[i]]
        /\ LogOf(F, c) = [i \in NumbersOf(F, c) |-> LogOf(F, c)[i]]
    BY <1>0, <1>5, LogEntries
  <2>6. PICK s : s = LogOf(E, c)
    OBVIOUS
  <2>7. PICK u : u = LogOf(F, c)
    OBVIOUS
  <2>8. ASSUME NEW i \in 1 .. n
        PROVE  i \in NumbersOf(F, c) /\ s[i] \in Calls /\ u[i] = s[i]
    <3>1. PICK e \in E : e.clientId = c /\ e.sequenceNumber = i
      BY <2>2 DEF NumbersOf
    <3>2. e \in F /\ e \in events
      BY <3>1, <1>2, <1>3, <1>5
    <3> QED
      BY <3>1, <3>2, <2>5, <2>6, <2>7, <1>0 DEF NumbersOf
  <2>9. ASSUME NEW i \in 1 .. L
        PROVE  n + i \in NumbersOf(F, c) /\ u[n + i] = r[i]
    <3>1. PICK e \in events : e.txn = t /\ e.sequenceNumber = n + i /\ e.call = r[i]
      BY <2>4
    <3>2. e \in F /\ e.clientId = c
      BY <3>1, <1>0, <1>3 DEF Written
    <3> QED
      BY <3>1, <3>2, <2>5, <2>7 DEF NumbersOf
  <2>10. NumbersOf(F, c) = 1 .. n + L
    <3>1. ASSUME NEW e \in F, e.clientId = c PROVE e.sequenceNumber \in 1 .. n + L
      <4>1. CASE e.txn = t
        BY <4>1, <3>1, <2>4, <1>5
      <4>2. CASE e \in E
        <5>1. e.sequenceNumber \in 1 .. n
          BY <4>2, <3>1, <2>2 DEF NumbersOf
        <5> QED
          BY <5>1, <2>4
      <4> QED
        BY <4>1, <4>2, <1>2, <1>3
    <3>2. ASSUME NEW k \in 1 .. n + L PROVE k \in NumbersOf(F, c)
      <4>1. CASE k <= n
        BY <4>1, <2>4, <2>8
      <4>2. CASE k > n
        <5>1. k - n \in 1 .. L /\ n + (k - n) = k
          BY <4>2, <2>4
        <5> QED
          BY <5>1, <2>9
      <4> QED
        BY <4>1, <4>2
    <3> QED
      BY <3>1, <3>2 DEF NumbersOf
  <2>11. s \in Seq(Calls) /\ Len(s) = n
    <3>1. s = [i \in 1 .. n |-> s[i]]
      BY <2>2, <2>5, <2>6
    <3> QED
      BY <3>1, <2>8
  <2>12. PICK q : q = r
    OBVIOUS
  <2>13. u = [i \in 1 .. Len(s) + Len(q) |-> u[i]]
    BY <2>3, <2>5, <2>7, <2>10, <2>11, <2>12
  <2>14. q \in Seq(Calls) /\ \A i \in 1 .. Len(q) : u[Len(s) + i] = q[i]
    BY <2>3, <2>4, <2>9, <2>11, <2>12
  <2>15. \A i \in 1 .. Len(s) : u[i] = s[i]
    BY <2>8, <2>11
  <2>16. u = s \o q
    BY <2>11, <2>13, <2>14, <2>15, IsConcatenation
  <2> QED
    BY <2>6, <2>7, <2>12, <2>16
<1> QED
  BY <1>0, <1>6, <1>7, <1>8

\* Every other step leaves the committed events alone.
LEMMA OthersKeepLog ==
  ASSUME TypeOK, [Next]_vars, ~\E t \in Txns : Commit(t)
  PROVE  CommittedLog' = CommittedLog
<1>0. /\ pc \in [Txns -> RunningStates \cup {"idle", "committed", "rolledback"}]
      /\ \A e \in events : e.txn \in Txns
  BY Typed
<1>1. CASE UNCHANGED vars
  BY <1>1 DEF vars, tables, CommittedLog, CommittedEvents, Committed, EventsOf
<1>2. ASSUME NEW t \in Txns, Begin(t) \/ Progress(t) \/ Fail(t)
      PROVE  CommittedLog' = CommittedLog
  <2>1. /\ pc[t] # "committed"
        /\ \E s \in RunningStates \cup {"rolledback"} : pc' = [pc EXCEPT ![t] = s]
        /\ \A e : e \in events' /\ e.txn # t <=> e \in events /\ e.txn # t
        /\ \A e \in events' : e \in events \/ e.txn = t
    BY <1>0, <1>2
    DEF Progress, Begin, FindNoEvent, LockLastEvent, WaitForLock, GrantLock,
        Adopt, Rescan, TakeId, WriteEvent, NewEvent, MarkProcessed, SaveOrigin,
        SaveDestination, Commit, Refuse, Fail, Rollback, Goto, tables, Running,
        RunningStates
  <2>2. \A u \in Txns : pc'[u] = "committed" <=> u # t /\ pc[u] = "committed"
    BY <1>0, <2>1 DEF RunningStates
  <2>3. CommittedEvents' = CommittedEvents
    BY <1>0, <2>1, <2>2 DEF CommittedEvents, Committed
  <2> QED
    BY <2>3, CommittedLogIs, NextLogIs
<1> QED
  BY <1>1, <1>2 DEF Next

LEMMA AtomicInvTyped == AtomicInv => TypeOK
  BY DEF AtomicInv, LedgerInv, OrderInv, ChainInv

LEMMA NextLog ==
  AtomicInv /\ CallsBookable /\ [Next]_vars => [Log!Next]_CommittedLog
<1> SUFFICES ASSUME AtomicInv, CallsBookable, [Next]_vars
             PROVE  [Log!Next]_CommittedLog
  OBVIOUS
<1>0. TypeOK
  BY DEF AtomicInv, LedgerInv, OrderInv, ChainInv
<1>1. ASSUME NEW t \in Txns, Commit(t) PROVE Log!Next
  <2>1. /\ client[t] \in Clients /\ request[t] \in Requests
        /\ done[t] = Len(request[t])
    BY <1>0, <1>1 DEF TypeOK, Commit, AtomicInv, Progressed, ProgressOf
  <2>2. \A i \in 1 .. Len(request[t]) : Log!Bookable(request[t][i], client[t])
    BY <2>1 DEF CallsBookable
  <2>3. Log!AppendAll(client[t], request[t])
    BY <1>1, <2>2, CommitAppends DEF Log!AppendAll
  <2> QED
    BY <2>1, <2>3 DEF Log!Next
<1> QED
  BY <1>0, <1>1, OthersKeepLog

\* In every instance the committed events of each tenant behave as an
\* append-only log to which each request adds all its calls in one step, and
\* only calls the ledger can book.
THEOREM LogCorrect == Spec => ImplementsEventLog
  BY InitAtomicInv, NextAtomicInv, InitCallsBookable, NextCallsBookable,
     AtomicInvTyped, InitLog, NextLog, PTL DEF Spec, ImplementsEventLog, Log!Spec
=============================================================================
