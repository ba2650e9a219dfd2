---------------------------- MODULE LeasesProofs ----------------------------
(***************************************************************************)
(* Proofs about Leases for every set of connections and lease keys, every  *)
(* assignment of keys to connections, files and shards, every requested    *)
(* state, and any number of worker threads.                                *)
(***************************************************************************)
EXTENDS Leases, TLAPS

\* Sequences of T stay so.
LEMMA SeqIs ==
  ASSUME NEW T
  PROVE  /\ <<>> \in Seq(T)
         /\ \A q \in Seq(T), x \in T : Append(q, x) \in Seq(T)
         /\ \A q \in Seq(T) : q # <<>> => Head(q) \in T /\ Tail(q) \in Seq(T)
OBVIOUS

\* Lease states stay lease states (reduce_lease_state, calculate_break_state), and
\* what a break leaves is part of what was there.
LEMMA StateOperators ==
  ASSUME NEW e \in LeaseState, NEW w \in LeaseState, NEW S \in SUBSET LeaseState
  PROVE  /\ ReduceLeaseState(w, S) \in LeaseState
         /\ CalculateBreakState(e, w) \in LeaseState
         /\ CalculateBreakState(e, w) \subseteq e
BY Zenon DEF ReduceLeaseState, CalculateBreakState, LeaseState

\* A conflicting lease that a break would change is not READ alone: it has to
\* acknowledge (leases_conflict and calculate_break_state).
LEMMA BreakableNeedsAck ==
  ASSUME NEW s \in Snapshot, NEW w \in LeaseState, Breakable(s, w)
  PROVE  s.state # {READ_CACHING}
BY ZenonT(60) DEF Breakable, Snapshot, LeaseState, LeasesConflict, CalculateBreakState, READ_CACHING,
       WRITE_CACHING, HANDLE_CACHING

\* The default locals of a handler.
LEMMA LocalsOfType ==
  /\ AnyKey \in Keys
  /\ NoSnapshot \in Snapshot
  /\ \A k \in Keys : LocalsOf(k) \in Locals
<1>1. AnyKey \in Keys
  BY Zenon, ConstantsAssumption DEF AnyKey
<1>2. {} \in LeaseState
  BY Zenon DEF LeaseState
<1>3. NoSnapshot \in Snapshot
  BY Zenon, <1>1, <1>2 DEF NoSnapshot, Snapshot
<1>4. QED
  BY Zenon, <1>1, <1>2, <1>3 DEF LocalsOf, Locals

\* What the handlers assign to their locals is of the right type.
LEMMA LocalsUpdate ==
  ASSUME NEW r \in Locals, NEW st \in LeaseState, NEW s \in Snapshot, NEW todo \in SUBSET Snapshot,
         NEW res \in {"none", "Acknowledged", "Disconnected"}
  PROVE  /\ [r EXCEPT !.state = st] \in Locals
         /\ [r EXCEPT !.result = res] \in Locals
         /\ [r EXCEPT !.result = res, !.state = st] \in Locals
         /\ [r EXCEPT !.todo = todo] \in Locals
         /\ [r EXCEPT !.granted = st] \in Locals
         /\ [r EXCEPT !.snap = s, !.todo = todo, !.result = res] \in Locals
         /\ [r EXCEPT !.state = st, !.snap = s, !.result = res] \in Locals
         /\ r.todo \in SUBSET Snapshot /\ r.state \in LeaseState /\ {} \in LeaseState
BY Zenon DEF Locals, LeaseState

\* The state a break asks for.
LEMMA BreakToType ==
  ASSUME TypeOK, NEW c \in Conns
  PROVE  BreakTo(c) \in LeaseState /\ BreakTo(c) \subseteq req[c].snap.state
<1>1. req[c].snap.state \in LeaseState /\ req[c].want \in LeaseState /\ {} \in SUBSET LeaseState
  BY Zenon DEF TypeOK, Locals, Snapshot
<1>2. QED
  BY Zenon, <1>1, StateOperators DEF BreakTo

\* Every step keeps the locals of the handlers well-typed.
LEMMA LocalsStep ==
  ASSUME TypeOK, NEW c \in Conns, Client(c) \/ Server(c)
  PROVE  req' \in [Conns -> Locals] /\ pc' \in [Conns -> Labels]
<1> USE DEF Labels
<1>1. ASSUME Answer(c) PROVE req' \in [Conns -> Locals] /\ pc' \in [Conns -> Labels]
  BY Zenon, <1>1, LocalsOfType DEF Answer, Goto, TypeOK
<1>2. \A todo \in SUBSET Snapshot : NextConflict(todo) \in Labels
  BY Zenon DEF NextConflict
<1>3. ASSUME NEW k \in Keys, NEW want \in Wants[k], HandleCreate(c, k, want)
      PROVE  req' \in [Conns -> Locals] /\ pc' \in [Conns -> Labels]
  <2> DEFINE conflicts == {l \in OthersOnFile(k) : LeasesConflict(lease_state[l], want)}
             states == {lease_state[l] : l \in conflicts}
             granted == IF conflicts = {} THEN want ELSE ReduceLeaseState(want, states)
             breaks == {l \in conflicts : CalculateBreakState(lease_state[l], want) # lease_state[l]}
             todo == {[key |-> l, state |-> lease_state[l]] : l \in breaks}
             r == [key |-> k, want |-> want, granted |-> granted,
                   todo |-> todo, snap |-> NoSnapshot, result |-> "none", state |-> {}]
  <2>1. want \in LeaseState /\ {} \in LeaseState
    BY Zenon, ConstantsAssumption DEF LeaseState
  <2>2. conflicts \subseteq Keys /\ states \in SUBSET LeaseState
    BY DEF OthersOnFile, TypeOK
  <2>3. granted \in LeaseState
    BY Zenon, <2>1, <2>2, StateOperators
  <2>4. todo \in SUBSET Snapshot
    BY <2>2 DEF Snapshot, TypeOK
  <2>5. r \in Locals
    BY Zenon, <2>1, <2>3, <2>4, LocalsOfType DEF Locals
  <2>6. req' = [req EXCEPT ![c] = r]
    BY Zenon, <1>3 DEF HandleCreate
  <2>7. pc' = [pc EXCEPT ![c] = IF conflicts = {} THEN "register" ELSE NextConflict(todo)]
    BY Zenon, <1>3 DEF HandleCreate, Goto
  <2> HIDE DEF r, todo, conflicts
  <2>8. QED
    BY Zenon, <2>4, <2>5, <2>6, <2>7, <1>2 DEF TypeOK
<1>4. ASSUME NEW n \in notified[c], NEW acked \in SUBSET n.new_state,
             HandleLeaseBreakAck(c, n, acked)
      PROVE  req' \in [Conns -> Locals] /\ pc' \in [Conns -> Labels]
  <2>1. n.key \in Keys /\ acked \in LeaseState
    BY DEF TypeOK, LeaseState
  <2>2. [LocalsOf(n.key) EXCEPT !.state = acked] \in Locals
    BY <2>1, LocalsOfType DEF Locals
  <2>3. ASSUME NEW p \in Conns
        PROVE  /\ [req[p] EXCEPT !.result = "Acknowledged", !.state = acked] \in Locals
               /\ [req[p] EXCEPT !.result = "Disconnected"] \in Locals
    BY <2>1, ZenonT(60) DEF TypeOK, Locals
  <2>4. pending_breaks \subseteq Conns
    BY Zenon DEF TypeOK
  <2> DEFINE r == [LocalsOf(n.key) EXCEPT !.state = acked]
             ra(p) == [req[p] EXCEPT !.result = "Acknowledged", !.state = acked]
             rd(p) == [req[p] EXCEPT !.result = "Disconnected"]
  <2>5. \/ req' = req
        \/ \E p \in Conns : req' = [req EXCEPT ![p] = ra(p), ![c] = r]
        \/ \E p \in Conns : req' = [req EXCEPT ![p] = rd(p)]
    BY Zenon, <1>4, <2>4 DEF HandleLeaseBreakAck
  <2>6. pc' = pc \/ pc' = [pc EXCEPT ![c] = "ack_get"]
    BY Zenon, <1>4 DEF HandleLeaseBreakAck, Goto
  <2>7. r \in Locals /\ \A p \in Conns : ra(p) \in Locals /\ rd(p) \in Locals
    BY Zenon, <2>2, <2>3
  <2> HIDE DEF r, ra, rd
  <2>8. QED
    BY <2>5, <2>6, <2>7, ZenonT(60) DEF TypeOK
<1>5. CASE \E k \in Keys : HandleClose(c, k)
  BY ZenonT(60), <1>5, LocalsOfType DEF HandleClose, Goto, TypeOK
<1>6. CASE Disconnect(c) \/ UnregisterConnectionLeases(c) \/ SendLeaseBreakNotification(c)
           \/ UnregisterLease(c) \/ BreakTimeout(c) \/ BreakRegister(c)
  BY Zenon, <1>6 DEF Disconnect, UnregisterConnectionLeases, SendLeaseBreakNotification,
              UnregisterLease, BreakTimeout, BreakRegister, Goto, TypeOK
<1>7. CASE BreakLookup(c)
  <2>1. PICK s \in req[c].todo :
          LET todo == req[c].todo \ {s}
          IN IF s.key \in lease_connections
             THEN /\ req' = [req EXCEPT ![c] = [@ EXCEPT !.snap = s, !.todo = todo, !.result = "none"]]
                  /\ Goto(c, "send")
             ELSE /\ req' = [req EXCEPT ![c] = [@ EXCEPT !.todo = todo]]
                  /\ Goto(c, NextConflict(todo))
    BY Zenon, <1>7 DEF BreakLookup
  <2> DEFINE todo == req[c].todo \ {s}
             r1 == [req[c] EXCEPT !.snap = s, !.todo = todo, !.result = "none"]
             r2 == [req[c] EXCEPT !.todo = todo]
  <2>2. s \in Snapshot /\ todo \in SUBSET Snapshot
    BY Zenon DEF TypeOK, Locals
  <2>3. r1 \in Locals /\ r2 \in Locals
    BY <2>2, ZenonT(60) DEF TypeOK, Locals
  <2>4. req' = [req EXCEPT ![c] = r1] \/ req' = [req EXCEPT ![c] = r2]
    BY Zenon, <2>1 DEF TypeOK
  <2>5. pc' = [pc EXCEPT ![c] = "send"] \/ pc' = [pc EXCEPT ![c] = NextConflict(todo)]
    BY Zenon, <2>1 DEF Goto
  <2> HIDE DEF r1, r2, todo
  <2>6. QED
    BY <2>2, <2>3, <2>4, <2>5, <1>2, ZenonT(60) DEF TypeOK
<1>8. CASE BreakSend(c)
  <2> DEFINE r == [req[c] EXCEPT !.state = BreakTo(c)]
  <2>1. r \in Locals /\ req[c].todo \in SUBSET Snapshot
    BY BreakToType, ZenonT(60) DEF TypeOK, Locals
  <2>2. req' = req \/ req' = [req EXCEPT ![c] = r]
    BY Zenon, <1>8 DEF BreakSend, TypeOK
  <2>3. \/ pc' = [pc EXCEPT ![c] = NextConflict(req[c].todo)]
        \/ pc' = [pc EXCEPT ![c] = "update"] \/ pc' = [pc EXCEPT ![c] = "pending"]
    BY Zenon, <1>8 DEF BreakSend, Goto
  <2> HIDE DEF r
  <2>4. QED
    BY <2>1, <2>2, <2>3, <1>2, ZenonT(60) DEF TypeOK
<1>9. CASE BreakReturn(c)
  <2> DEFINE st == IF pc[c] = "wait" /\ req[c].result = "Acknowledged" THEN req[c].state ELSE {}
             r == [req[c] EXCEPT !.state = st]
  <2>0. req[c] \in Locals /\ NoSnapshot \in Snapshot /\ {} \in SUBSET Snapshot
    BY Zenon, LocalsOfType DEF TypeOK
  <2>3. st \in LeaseState
    BY Zenon DEF TypeOK, Locals, LeaseState
  <2> HIDE DEF st
  <2>1. r \in Locals
    BY Zenon, <2>0, <2>3, LocalsUpdate
  <2> USE DEF st
  <2>2. req' = [req EXCEPT ![c] = r]
    BY Zenon, <1>9 DEF BreakReturn, TypeOK
  <2>4. pc' = [pc EXCEPT ![c] = "update"]
    BY Zenon, <1>9 DEF BreakReturn, Goto
  <2> HIDE DEF r
  <2>5. QED
    BY Zenon, <2>1, <2>2, <2>4 DEF TypeOK
<1>10. CASE UpdateLease(c)
  <2> DEFINE r == [req[c] EXCEPT !.state = {}, !.snap = NoSnapshot, !.result = "none"]
  <2>0. req[c] \in Locals /\ NoSnapshot \in Snapshot /\ {} \in SUBSET Snapshot /\ {} \in LeaseState
    BY Zenon, LocalsOfType DEF TypeOK, LeaseState
  <2>1. r \in Locals /\ req[c].todo \in SUBSET Snapshot
    BY Zenon, <2>0, LocalsUpdate
  <2>2. req' = [req EXCEPT ![c] = r] /\ pc' = [pc EXCEPT ![c] = NextConflict(req[c].todo)]
    BY Zenon, <1>10 DEF UpdateLease, Goto, TypeOK
  <2> HIDE DEF r
  <2>3. QED
    BY Zenon, <2>1, <2>2, <1>2 DEF TypeOK
<1>11. CASE Recheck(c)
  <2> DEFINE r1 == [req[c] EXCEPT !.granted = req[c].want]
             r2 == [req[c] EXCEPT !.granted = req[c].granted]
  <2>1. r1 \in Locals /\ r2 \in Locals
    BY ZenonT(60) DEF TypeOK, Locals
  <2>2. req' = [req EXCEPT ![c] = r1] \/ req' = [req EXCEPT ![c] = r2]
    BY Zenon, <1>11 DEF Recheck, TypeOK
  <2>3. pc' = [pc EXCEPT ![c] = "register"]
    BY Zenon, <1>11 DEF Recheck, Goto
  <2> HIDE DEF r1, r2
  <2>4. QED
    BY ZenonT(60), <2>1, <2>2, <2>3 DEF TypeOK
<1>12. CASE RegisterLease(c) \/ AckGetLease(c) \/ AckUpdateLease(c) \/ DeleteLease(c)
  BY Zenon, <1>12, <1>1 DEF RegisterLease, AckGetLease, AckUpdateLease, DeleteLease, Goto, TypeOK
<1>13. CASE Client(c)
  BY Zenon, <1>13, <1>3, <1>4, <1>5, <1>6 DEF Client
<1>14. CASE Server(c)
  BY Zenon, <1>14, <1>6, <1>7, <1>8, <1>9, <1>10, <1>11, <1>12 DEF Server
<1>15. QED
  BY Zenon, <1>13, <1>14

\* Every step keeps the type invariant; a CLOSE that deletes a handle has one.
LEMMA TypeOKStep ==
  ASSUME TypeOK, BreakInv, [Next]_vars
  PROVE  TypeOK'
<1>1. CASE UNCHANGED vars
  BY Zenon, <1>1 DEF TypeOK, vars
<1>2. ASSUME NEW c \in Conns, Client(c) \/ Server(c)
      PROVE  TypeOK'
  <2>1. req' \in [Conns -> Locals] /\ pc' \in [Conns -> Labels]
    BY Zenon, <1>2, LocalsStep
  <2>2. /\ req[c].key \in Keys /\ req[c].state \in LeaseState /\ req[c].granted \in LeaseState
        /\ req[c].snap.key \in Keys /\ req[c].snap.state \in LeaseState /\ {} \in LeaseState
    BY Zenon DEF TypeOK, Locals, Snapshot, LeaseState
  <2>3. ASSUME NEW k \in Keys, NEW want \in Wants[k], HandleCreate(c, k, want)
        PROVE  TypeOK'
    <3> DEFINE conflicts == {l \in OthersOnFile(k) : LeasesConflict(lease_state[l], want)}
               states == {lease_state[l] : l \in conflicts}
    <3>1. want \in LeaseState /\ states \in SUBSET LeaseState
      BY Zenon, ConstantsAssumption DEF OthersOnFile, TypeOK
    <3>2. ReduceLeaseState(want, states) \in LeaseState
      BY Zenon, <3>1, StateOperators
    <3>3. \/ lease_state' = [lease_state EXCEPT ![k] = want]
          \/ lease_state' = [lease_state EXCEPT ![k] = ReduceLeaseState(want, states)]
      BY Zenon, <2>3 DEF HandleCreate
    <3> HIDE DEF states
    <3>4. QED
      BY ZenonT(60), <2>1, <2>3, <3>1, <3>2, <3>3 DEF HandleCreate, TypeOK, clientVars
  <2>4. ASSUME NEW n \in notified[c], NEW acked \in SUBSET n.new_state,
               HandleLeaseBreakAck(c, n, acked)
        PROVE  TypeOK'
    <3>1. caching' \in [Keys -> LeaseState]
      BY Zenon, <2>4 DEF HandleLeaseBreakAck, TypeOK, LeaseState
    <3>2. notified' \in [Conns -> SUBSET [key : Keys, new_state : LeaseState]]
      BY Zenon, <2>4 DEF HandleLeaseBreakAck, TypeOK
    <3>3. pending_breaks' \subseteq Conns
      BY Zenon, <2>4 DEF HandleLeaseBreakAck, TypeOK
    <3>4. QED
      BY Zenon, <2>1, <2>4, <3>1, <3>2, <3>3 DEF HandleLeaseBreakAck, TypeOK, storeVars
  <2>5. CASE \E k \in Keys : HandleClose(c, k)
    BY ZenonT(60), <2>1, <2>5 DEF HandleClose, TypeOK, storeVars, clientVars
  <2>6. CASE Disconnect(c)
    BY Zenon, <2>1, <2>2, <2>6 DEF Disconnect, TypeOK, storeVars
  <2>7. CASE BreakLookup(c) \/ BreakRegister(c) \/ BreakReturn(c) \/ Recheck(c) \/ AckGetLease(c)
             \/ UnregisterLease(c)
    BY Zenon, <2>1, <2>7 DEF BreakLookup, BreakRegister, BreakReturn, Recheck, AckGetLease,
                      UnregisterLease, TypeOK, storeVars, clientVars
  <2>8. CASE BreakSend(c)
    <3> DEFINE owner == Owner[req[c].snap.key]
               e == [key |-> req[c].snap.key, state |-> req[c].snap.state, new_state |-> BreakTo(c)]
    <3>1. owner \in Conns /\ e \in Event
      BY Zenon, <2>2, BreakToType, ConstantsAssumption DEF Event
    <3>2. break_rx' = break_rx \/ break_rx' = [break_rx EXCEPT ![owner] = Append(@, e)]
      BY Zenon, <2>8 DEF BreakSend
    <3>3. Append(break_rx[owner], e) \in Seq(Event)
      <4>1. break_rx[owner] \in Seq(Event)
        BY Zenon, <3>1 DEF TypeOK
      <4> QED BY Zenon, <3>1, <4>1, SeqIs
    <3> HIDE DEF e, owner
    <3>4. break_rx' \in [Conns -> Seq(Event)]
      BY Zenon, <3>2, <3>3 DEF TypeOK
    <3>5. QED
      BY Zenon, <2>1, <2>8, <3>4 DEF BreakSend, TypeOK, storeVars, clientVars
  <2>9. CASE BreakTimeout(c)
    BY Zenon, <2>1, <2>2, <2>9 DEF BreakTimeout, TypeOK, storeVars
  <2>10. CASE UpdateLease(c)
    BY Zenon, <2>1, <2>2, <2>10 DEF UpdateLease, TypeOK, clientVars
  <2>11. CASE RegisterLease(c)
    BY <2>1, <2>2, <2>11 DEF RegisterLease, TypeOK, storeVars
  <2>12. CASE SendLeaseBreakNotification(c)
    <3>1. Head(break_rx[c]) \in Event /\ Tail(break_rx[c]) \in Seq(Event)
      BY Zenon, <2>12, SeqIs DEF SendLeaseBreakNotification, TypeOK
    <3>2. [key |-> Head(break_rx[c]).key, new_state |-> Head(break_rx[c]).new_state]
            \in [key : Keys, new_state : LeaseState]
      BY Zenon, <3>1 DEF Event
    <3>3. break_rx' \in [Conns -> Seq(Event)]
      BY Zenon, <2>12, <3>1 DEF SendLeaseBreakNotification, TypeOK
    <3>4. notified' \in [Conns -> SUBSET [key : Keys, new_state : LeaseState]]
      BY Zenon, <2>12, <3>2 DEF SendLeaseBreakNotification, TypeOK
    <3>5. QED
      BY Zenon, <2>1, <2>12, <3>3, <3>4 DEF SendLeaseBreakNotification, TypeOK, storeVars
  <2>13. CASE AckUpdateLease(c)
    BY Zenon, <2>1, <2>2, <2>13 DEF AckUpdateLease, TypeOK, clientVars
  <2>14. CASE DeleteLease(c)
    <3>1. opens[req[c].key] > 0
      BY Zenon, <2>14 DEF DeleteLease, BreakInv, HandlerInv
    <3>2. opens' \in [Keys -> Nat]
      BY <2>2, <2>14, <3>1 DEF DeleteLease, TypeOK
    <3>3. caching' \in [Keys -> LeaseState]
      BY Zenon, <2>2, <2>14 DEF DeleteLease, TypeOK, clientVars
    <3>4. notified' \in [Conns -> SUBSET [key : Keys, new_state : LeaseState]]
      <4>1. \A k : {n \in notified[c] : n.key # k} \in SUBSET [key : Keys, new_state : LeaseState]
        BY Zenon DEF TypeOK
      <4>2. \/ notified' = notified
            \/ notified' = [notified EXCEPT ![c] = {n \in notified[c] : n.key # req[c].key}]
        BY Zenon, <2>14 DEF DeleteLease, clientVars
      <4>3. QED
        BY ZenonT(60), <4>1, <4>2 DEF TypeOK
    <3>5. lease_state' \in [Keys -> LeaseState] /\ \A k \in Keys \ leases' : lease_state'[k] = {}
      BY Zenon, <2>2, <2>14 DEF DeleteLease, TypeOK
    <3>6. QED
      BY Zenon, <2>1, <2>14, <3>2, <3>3, <3>4, <3>5 DEF DeleteLease, TypeOK
  <2>15. CASE UnregisterConnectionLeases(c)
    <3>1. break_rx' \in [Conns -> Seq(Event)]
      <4>1. <<>> \in Seq(Event)
        BY Zenon, SeqIs
      <4> QED BY Zenon, <2>15, <4>1 DEF UnregisterConnectionLeases, TypeOK
    <3>2. QED
      BY Zenon, <2>1, <2>15, <3>1 DEF UnregisterConnectionLeases, TypeOK, storeVars, clientVars
  <2>16. CASE Client(c)
    BY Zenon, <2>16, <2>3, <2>4, <2>5, <2>6 DEF Client
  <2>17. CASE Server(c)
    BY Zenon, <2>17, <2>7, <2>8, <2>9, <2>10, <2>11, <2>12, <2>13, <2>14, <2>15 DEF Server
  <2>18. QED
    BY Zenon, <1>2, <2>16, <2>17
<1>3. QED
  BY Zenon, <1>1, <1>2 DEF Next

\* A step of c leaves the handlers of the others where they are; it can change no
\* more of them than the result of a break that is pending.
LEMMA OthersFrame ==
  ASSUME TypeOK, NEW c \in Conns, Client(c) \/ Server(c), NEW d \in Conns, d # c
  PROVE  /\ pc'[d] = pc[d]
         /\ req'[d].key = req[d].key /\ req'[d].want = req[d].want
         /\ req'[d].todo = req[d].todo /\ req'[d].snap = req[d].snap
         /\ \/ req'[d].result = req[d].result /\ (d \in pending_breaks' <=> d \in pending_breaks)
            \/ req'[d].result # "none" /\ d \in pending_breaks /\ d \notin pending_breaks'
<1> USE DEF Goto
<1>1. req \in [Conns -> Locals] /\ pc \in [Conns -> Labels] /\ pending_breaks \subseteq Conns
  BY Zenon DEF TypeOK
<1>2. CASE Client(c)
  <2>1. CASE \E k \in Keys : \E want \in Wants[k] : HandleCreate(c, k, want)
    <3>1. pc'[d] = pc[d] /\ req'[d] = req[d] /\ UNCHANGED pending_breaks
      BY ZenonT(60), <1>1, <2>1 DEF HandleCreate
    <3>2. QED
      BY Zenon, <3>1
  <2>2. ASSUME NEW n \in notified[c], NEW acked \in SUBSET n.new_state,
               HandleLeaseBreakAck(c, n, acked)
        PROVE  /\ pc'[d] = pc[d]
               /\ req'[d].key = req[d].key /\ req'[d].want = req[d].want
               /\ req'[d].todo = req[d].todo /\ req'[d].snap = req[d].snap
               /\ \/ req'[d].result = req[d].result /\ (d \in pending_breaks' <=> d \in pending_breaks)
                  \/ req'[d].result # "none" /\ d \in pending_breaks /\ d \notin pending_breaks'
    <3>1. pc'[d] = pc[d]
      BY Zenon, <1>1, <2>2 DEF HandleLeaseBreakAck
    <3>2. CASE UNCHANGED <<pending_breaks, pc, req>>
      BY Zenon, <3>1, <3>2
    <3>3. CASE ~UNCHANGED <<pending_breaks, pc, req>>
      <4> DEFINE B(p) == acked \subseteq BreakTo(p)
                 A(p) == [req[p] EXCEPT !.result = "Acknowledged", !.state = acked]
                 X(p) == [req[p] EXCEPT !.result = "Disconnected"]
                 L == [LocalsOf(n.key) EXCEPT !.state = acked]
      <4>1. PICK p \in pending_breaks :
              /\ pending_breaks' = pending_breaks \ {p}
              /\ \/ req' = [req EXCEPT ![p] = A(p), ![c] = L]
                 \/ req' = [req EXCEPT ![p] = X(p)]
        BY Zenon, <2>2, <3>3 DEF HandleLeaseBreakAck
      <4>2. p \in Conns
        BY Zenon, <1>1
      <4> HIDE DEF L
      <4>3. CASE d # p
        <5>1. req'[d] = req[d]
          <6> HIDE DEF A, X
          <6> QED BY Zenon, <1>1, <4>1, <4>3
        <5>2. QED
          BY Zenon, <3>1, <4>1, <4>3, <5>1
      <4>4. CASE d = p
        <5>1. req'[d] = A(d) \/ req'[d] = X(d)
          <6> HIDE DEF A, X
          <6> QED BY Zenon, <1>1, <4>1, <4>2, <4>4
        <5>2. req[d] \in Locals
          BY Zenon, <1>1
        <5>3. QED
          BY Zenon, <3>1, <4>1, <4>4, <5>1, <5>2 DEF Locals
      <4>5. QED
        BY Zenon, <4>3, <4>4
    <3>4. QED
      BY Zenon, <3>2, <3>3
  <2>3. CASE \E k \in Keys : HandleClose(c, k)
    <3>1. pc'[d] = pc[d] /\ req'[d] = req[d] /\ UNCHANGED pending_breaks
      BY Zenon, <1>1, <2>3 DEF HandleClose
    <3>2. QED
      BY Zenon, <3>1
  <2>4. CASE Disconnect(c)
    BY Zenon, <1>1, <2>4 DEF Disconnect
  <2>5. QED
    BY Zenon, <1>2, <2>1, <2>2, <2>3, <2>4 DEF Client
<1>3. CASE Server(c)
  <2>1. pc'[d] = pc[d]
    BY Zenon, <1>1, <1>3 DEF Server, BreakLookup, BreakSend, BreakRegister, BreakTimeout, BreakReturn,
         UpdateLease, Recheck, RegisterLease, SendLeaseBreakNotification, AckGetLease,
         AckUpdateLease, UnregisterLease, DeleteLease, UnregisterConnectionLeases, Answer
  <2>2. \/ UNCHANGED req
        \/ \E r : req' = [req EXCEPT ![c] = r]
    BY Zenon, <1>3 DEF Server, BreakLookup, BreakSend, BreakRegister, BreakTimeout, BreakReturn,
         UpdateLease, Recheck, RegisterLease, SendLeaseBreakNotification, AckGetLease,
         AckUpdateLease, UnregisterLease, DeleteLease, UnregisterConnectionLeases, Answer
  <2>3. req'[d] = req[d]
    BY Zenon, <1>1, <2>2
  <2>4. d \in pending_breaks' <=> d \in pending_breaks
    BY Zenon, <1>3 DEF Server, BreakLookup, BreakSend, BreakRegister, BreakTimeout, BreakReturn,
         UpdateLease, Recheck, RegisterLease, SendLeaseBreakNotification, AckGetLease,
         AckUpdateLease, UnregisterLease, DeleteLease, UnregisterConnectionLeases
  <2>5. QED
    BY Zenon, <2>1, <2>3, <2>4
<1>4. QED
  BY Zenon, <1>2, <1>3

\* What the invariants say of one connection.
ConnInv(c) ==
  /\ HandlerInv(c)
  /\ c \in pending_breaks => pc[c] \in {"wait", "expired"} /\ req[c].result = "none"
  /\ pc[c] = "wait" /\ req[c].result = "none" => c \in pending_breaks
  /\ HoldsGuard(c) => req[c].snap.key \in lease_connections

RegisteredLive == \A k \in lease_connections : pc[Owner[k]] # "closed"

LeaseInv == TypeOK /\ RegisteredLive /\ \A c \in Conns : ConnInv(c)

LEMMA LeaseInvIs ==
  LeaseInv <=> TypeOK /\ BreakInv /\ BreaksTracked /\ BreakReachesOwner
<1>1. ASSUME LeaseInv PROVE TypeOK /\ BreakInv /\ BreaksTracked /\ BreakReachesOwner
  BY Zenon, <1>1 DEF LeaseInv, ConnInv, RegisteredLive, TypeOK, BreakInv, BreaksTracked,
              BreakReachesOwner
<1>2. ASSUME TypeOK, BreakInv, BreaksTracked, BreakReachesOwner PROVE LeaseInv
  BY Zenon, <1>2 DEF LeaseInv, ConnInv, RegisteredLive, TypeOK, BreakInv, BreaksTracked,
              BreakReachesOwner
<1>3. QED
  BY Zenon, <1>1, <1>2

\* A step of c keeps what the invariants say of c: a request.
LEMMA ClientConnInv ==
  ASSUME LeaseInv, NEW c \in Conns, Client(c)
  PROVE  ConnInv(c)'
<1> USE DEF HoldsGuard
<1>1. /\ req \in [Conns -> Locals] /\ pc \in [Conns -> Labels] /\ pending_breaks \subseteq Conns
      /\ ConnInv(c) /\ pc[c] = "idle" /\ c \notin pending_breaks
  BY ZenonT(60) DEF LeaseInv, TypeOK, ConnInv, Client, HandleCreate, HandleLeaseBreakAck, HandleClose,
         Disconnect, NextRequest
<1>2. ASSUME NEW k \in Keys, NEW want \in Wants[k], HandleCreate(c, k, want)
      PROVE  ConnInv(c)'
  <2> DEFINE conflicts == {l \in OthersOnFile(k) : LeasesConflict(lease_state[l], want)}
             breaks == {l \in conflicts :
                          CalculateBreakState(lease_state[l], want) # lease_state[l]}
             todo == {[key |-> l, state |-> lease_state[l]] : l \in breaks}
  <2>1. \A s \in todo : Breakable(s, want)
    BY DEF Breakable
  <2> HIDE DEF todo
  <2>2. /\ req'[c].key = k /\ req'[c].want = want /\ req'[c].todo = todo
        /\ Owner[k] = c /\ c \notin pending_breaks'
        /\ pc'[c] \in {"register", "recheck", "break"}
    BY Zenon, <1>1, <1>2 DEF HandleCreate, Goto, NextConflict, todo
  <2>3. QED
    BY Zenon, <2>1, <2>2 DEF ConnInv, HandlerInv
<1>3. ASSUME NEW n \in notified[c], NEW acked \in SUBSET n.new_state,
             HandleLeaseBreakAck(c, n, acked)
      PROVE  ConnInv(c)'
  <2>1. CASE UNCHANGED <<pending_breaks, pc, req>>
    BY Zenon, <1>1, <1>3, <2>1 DEF HandleLeaseBreakAck, ConnInv, HandlerInv
  <2>2. CASE ~UNCHANGED <<pending_breaks, pc, req>>
    <3> DEFINE A(p) == [req[p] EXCEPT !.result = "Acknowledged", !.state = acked]
               X(p) == [req[p] EXCEPT !.result = "Disconnected"]
               L == [LocalsOf(n.key) EXCEPT !.state = acked]
    <3>1. PICK p \in pending_breaks :
              /\ pending_breaks' = pending_breaks \ {p}
              /\ \/ req' = [req EXCEPT ![p] = A(p), ![c] = L] /\ pc' = [pc EXCEPT ![c] = "ack_get"]
                 \/ req' = [req EXCEPT ![p] = X(p)] /\ UNCHANGED pc
      BY Zenon, <1>3, <2>2 DEF HandleLeaseBreakAck, Goto
    <3>2. p # c /\ p \in Conns
      BY Zenon, <1>1
    <3>3. L.todo = {} /\ L.result = "none"
      BY Zenon DEF LocalsOf
    <3> HIDE DEF A, X, L
    <3>4. \/ pc'[c] = "ack_get" /\ req'[c] = L
          \/ pc'[c] = "idle" /\ req'[c] = req[c]
      BY Zenon, <1>1, <3>1, <3>2
    <3>5. QED
      BY Zenon, <1>1, <3>1, <3>3, <3>4 DEF ConnInv, HandlerInv
  <2>3. QED
    BY Zenon, <2>1, <2>2
<1>4. ASSUME NEW k \in Keys, HandleClose(c, k)
      PROVE  ConnInv(c)'
  <2>1. /\ req'[c].key = k /\ req'[c].todo = {} /\ pc'[c] = "unregister"
        /\ Owner[k] = c /\ opens'[k] > 0 /\ c \notin pending_breaks'
    BY Zenon, <1>1, <1>4 DEF HandleClose, Goto, LocalsOf
  <2>2. QED
    BY Zenon, <2>1 DEF ConnInv, HandlerInv
<1>5. CASE Disconnect(c)
  BY Zenon, <1>1, <1>5 DEF Disconnect, Goto, ConnInv, HandlerInv
<1>6. QED
  BY Zenon, <1>2, <1>3, <1>4, <1>5 DEF Client

\* The handlers that just returned are about nothing.
LEMMA AnsweredConnInv ==
  ASSUME LeaseInv, NEW c \in Conns, Answer(c), c \notin pending_breaks'
  PROVE  ConnInv(c)'
<1>1. req'[c].todo = {} /\ pc'[c] = "idle"
  BY Zenon DEF Answer, Goto, LocalsOf, LeaseInv, TypeOK
<1>2. QED
  BY Zenon, <1>1 DEF ConnInv, HandlerInv, HoldsGuard

\* A step of c keeps what the invariants say of c: a step of its handler.
LEMMA ServerConnInv ==
  ASSUME LeaseInv, NEW c \in Conns, Server(c)
  PROVE  ConnInv(c)'
<1> USE DEF HoldsGuard
<1>1. /\ req \in [Conns -> Locals] /\ pc \in [Conns -> Labels] /\ pending_breaks \subseteq Conns
      /\ req[c] \in Locals /\ ConnInv(c)
  BY Zenon DEF LeaseInv, TypeOK
<1>2. CASE BreakLookup(c)
  <2>1. PICK s \in req[c].todo :
          \/ /\ s.key \in lease_connections /\ pc' = [pc EXCEPT ![c] = "send"]
             /\ req' = [req EXCEPT ![c] = [req[c] EXCEPT !.snap = s, !.todo = req[c].todo \ {s},
                                                         !.result = "none"]]
          \/ /\ pc' = [pc EXCEPT ![c] = NextConflict(req[c].todo \ {s})]
             /\ req' = [req EXCEPT ![c] = [req[c] EXCEPT !.todo = req[c].todo \ {s}]]
    BY Zenon, <1>2 DEF BreakLookup, Goto
  <2>2. \/ /\ s.key \in lease_connections /\ pc'[c] = "send"
           /\ req'[c] = [req[c] EXCEPT !.snap = s, !.todo = req[c].todo \ {s}, !.result = "none"]
        \/ /\ pc'[c] \in {"recheck", "break"}
           /\ req'[c] = [req[c] EXCEPT !.todo = req[c].todo \ {s}]
    BY Zenon, <1>1, <2>1 DEF NextConflict
  <2>3. /\ req'[c].key = req[c].key /\ req'[c].want = req[c].want
        /\ req'[c].todo = req[c].todo \ {s}
        /\ \/ /\ s.key \in lease_connections /\ pc'[c] = "send"
              /\ req'[c].snap = s /\ req'[c].result = "none"
           \/ pc'[c] \in {"recheck", "break"}
    BY Zenon, <1>1, <2>2 DEF Locals
  <2>4. QED
    BY Zenon, <1>1, <1>2, <2>3 DEF BreakLookup, ConnInv, HandlerInv
<1>3. CASE BreakSend(c)
  <2>1. \/ pc'[c] \in {"recheck", "break", "pending"} /\ req'[c] = req[c]
        \/ pc'[c] = "update" /\ req'[c] = [req[c] EXCEPT !.state = BreakTo(c)]
    BY Zenon, <1>1, <1>3 DEF BreakSend, Goto, NextConflict
  <2>2. /\ req'[c].key = req[c].key /\ req'[c].want = req[c].want
        /\ req'[c].todo = req[c].todo
        /\ \/ pc'[c] \in {"recheck", "break", "pending"} /\ req'[c] = req[c]
           \/ pc'[c] = "update"
    BY Zenon, <1>1, <2>1 DEF Locals
  <2>3. QED
    BY Zenon, <1>1, <1>3, <2>2 DEF BreakSend, ConnInv, HandlerInv
<1>4. CASE BreakRegister(c)
  BY Zenon, <1>1, <1>4 DEF BreakRegister, Goto, ConnInv, HandlerInv
<1>5. CASE BreakTimeout(c)
  BY Zenon, <1>1, <1>5 DEF BreakTimeout, Goto, ConnInv, HandlerInv
<1>6. CASE BreakReturn(c)
  <2>1. /\ pc[c] \in {"wait", "expired"} /\ pc'[c] = "update" /\ c \notin pending_breaks'
        /\ \E x : req'[c] = [req[c] EXCEPT !.state = x]
    BY Zenon, <1>1, <1>6 DEF BreakReturn, Goto
  <2>2. req'[c].key = req[c].key /\ req'[c].want = req[c].want /\ req'[c].todo = req[c].todo
    BY Zenon, <1>1, <2>1 DEF Locals
  <2>3. QED
    BY Zenon, <1>1, <2>1, <2>2 DEF ConnInv, HandlerInv
<1>7. CASE UpdateLease(c)
  <2>1. /\ pc'[c] \in {"recheck", "break"} /\ UNCHANGED pending_breaks /\ pc[c] = "update"
        /\ req'[c] = [req[c] EXCEPT !.state = {}, !.snap = NoSnapshot, !.result = "none"]
    BY Zenon, <1>1, <1>7 DEF UpdateLease, Goto, NextConflict
  <2>2. req'[c].key = req[c].key /\ req'[c].want = req[c].want /\ req'[c].todo = req[c].todo
    BY Zenon, <1>1, <2>1 DEF Locals
  <2>3. QED
    BY Zenon, <1>1, <2>1, <2>2 DEF ConnInv, HandlerInv
<1>8. CASE Recheck(c)
  <2>1. /\ pc[c] = "recheck" /\ pc'[c] = "register" /\ UNCHANGED pending_breaks
        /\ \E x : req'[c] = [req[c] EXCEPT !.granted = x]
    BY Zenon, <1>1, <1>8 DEF Recheck, Goto
  <2>2. req'[c].key = req[c].key /\ req'[c].want = req[c].want /\ req'[c].todo = req[c].todo
    BY Zenon, <1>1, <2>1 DEF Locals
  <2>3. QED
    BY Zenon, <1>1, <2>1, <2>2 DEF ConnInv, HandlerInv
<1>9. CASE RegisterLease(c) \/ AckUpdateLease(c) \/ DeleteLease(c)
  <2>1. c \notin pending_breaks' /\ Answer(c)
    BY Zenon, <1>1, <1>9 DEF RegisterLease, AckUpdateLease, DeleteLease, ConnInv
  <2>2. QED
    BY Zenon, <2>1, AnsweredConnInv
<1>10. CASE SendLeaseBreakNotification(c)
  BY Zenon, <1>1, <1>10 DEF SendLeaseBreakNotification, ConnInv, HandlerInv
<1>11. CASE AckGetLease(c)
  <2>1. pc[c] = "ack_get" /\ c \notin pending_breaks'
    BY Zenon, <1>1, <1>11 DEF AckGetLease, ConnInv
  <2>2. CASE Answer(c)
    BY Zenon, <2>1, <2>2, AnsweredConnInv
  <2>3. CASE Goto(c, "ack_put") /\ UNCHANGED req
    BY Zenon, <1>1, <2>1, <2>3 DEF Goto, ConnInv, HandlerInv
  <2>4. QED
    BY Zenon, <1>11, <2>2, <2>3 DEF AckGetLease
<1>12. CASE UnregisterLease(c)
  BY Zenon, <1>1, <1>12 DEF UnregisterLease, Goto, ConnInv, HandlerInv
<1>13. CASE UnregisterConnectionLeases(c)
  <2>1. /\ pc[c] = "cleanup" /\ pc'[c] \in {"cleanup", "closed"}
        /\ UNCHANGED <<pending_breaks, req>>
    BY Zenon, <1>1, <1>13 DEF UnregisterConnectionLeases, Goto
  <2>2. QED
    BY Zenon, <1>1, <2>1 DEF ConnInv, HandlerInv
<1>14. QED
  BY Zenon, <1>2, <1>3, <1>4, <1>5, <1>6, <1>7, <1>8, <1>9, <1>10, <1>11, <1>12, <1>13 DEF Server

\* A registered lease is dropped only while no break holds a guard on its shard.
LEMMA RegistryStep ==
  ASSUME LeaseInv, NEW c \in Conns, Client(c) \/ Server(c)
  PROVE  /\ \A k \in lease_connections \ lease_connections' : ShardFree(k)
         /\ \A k \in lease_connections' \ lease_connections : Owner[k] = c /\ pc'[c] = "idle"
         /\ pc'[c] = "closed" => \A k \in lease_connections' : Owner[k] # c
<1>1. CASE Client(c)
  <2>1. UNCHANGED lease_connections /\ pc'[c] # "closed"
    BY <1>1, ZenonT(60) DEF Client, HandleCreate, HandleLeaseBreakAck, HandleClose, Disconnect, Goto,
                NextRequest, NextConflict, LeaseInv, TypeOK
  <2>2. QED
    BY Zenon, <2>1
<1>2. CASE Server(c)
  <2>1. CASE RegisterLease(c)
    <3>1. /\ lease_connections' = lease_connections \cup {req[c].key} /\ pc'[c] = "idle"
          /\ Owner[req[c].key] = c
      BY Zenon, <2>1 DEF RegisterLease, Answer, Goto, LeaseInv, TypeOK, ConnInv, HandlerInv
    <3>2. QED
      BY Zenon, <3>1
  <2>2. CASE UnregisterLease(c)
    BY Zenon, <2>2 DEF UnregisterLease, Goto, LeaseInv, TypeOK
  <2>3. CASE UnregisterConnectionLeases(c)
    <3>1. pc \in [Conns -> Labels] /\ lease_connections \subseteq Keys
      BY Zenon DEF LeaseInv, TypeOK
    <3>2. QED
      BY Zenon, <2>3, <3>1 DEF UnregisterConnectionLeases, Goto, KeysOf
  <2>4. CASE ~(RegisterLease(c) \/ UnregisterLease(c) \/ UnregisterConnectionLeases(c))
    <3>1. UNCHANGED lease_connections /\ pc'[c] # "closed"
      BY ZenonT(60), <1>2, <2>4 DEF Server, BreakLookup, BreakSend, BreakRegister, BreakTimeout, BreakReturn,
           UpdateLease, Recheck, SendLeaseBreakNotification, AckGetLease, AckUpdateLease,
           DeleteLease, Answer, Goto, NextConflict, LeaseInv, TypeOK
    <3>2. QED
      BY Zenon, <3>1
  <2>5. QED
    BY Zenon, <2>1, <2>2, <2>3, <2>4
<1>3. QED
  BY Zenon, <1>1, <1>2

\* Only a CLOSE of c lowers a count of opens, and one of c's keys.
LEMMA OpensStep ==
  ASSUME LeaseInv, NEW c \in Conns, Client(c) \/ Server(c), NEW k \in Keys, Owner[k] # c
  PROVE  opens'[k] = opens[k]
<1>1. opens \in [Keys -> Nat] /\ req[c].key \in Keys
  BY Zenon DEF LeaseInv, TypeOK, Locals
<1>2. CASE RegisterLease(c) \/ DeleteLease(c)
  <2>1. Owner[req[c].key] = c
    BY Zenon, <1>2 DEF RegisterLease, DeleteLease, LeaseInv, ConnInv, HandlerInv
  <2>2. QED
    BY Zenon, <1>1, <1>2, <2>1 DEF RegisterLease, DeleteLease
<1>3. CASE ~(RegisterLease(c) \/ DeleteLease(c))
  BY ZenonT(60), <1>3 DEF Client, HandleCreate, HandleLeaseBreakAck, HandleClose, Disconnect,
       Server, BreakLookup, BreakSend, BreakRegister, BreakTimeout, BreakReturn,
       UpdateLease, Recheck, SendLeaseBreakNotification, AckGetLease, AckUpdateLease,
       UnregisterLease, UnregisterConnectionLeases
<1>4. QED
  BY Zenon, <1>2, <1>3

\* The invariant is inductive.
LEMMA LeaseInvStep ==
  ASSUME LeaseInv, [Next]_vars
  PROVE  LeaseInv'
<1>1. TypeOK'
  BY Zenon, LeaseInvIs, TypeOKStep
<1>2. CASE UNCHANGED vars
  BY Zenon, <1>2 DEF vars, LeaseInv, TypeOK, RegisteredLive, ConnInv, HandlerInv, HoldsGuard
<1>3. ASSUME NEW c \in Conns, Client(c) \/ Server(c)
      PROVE  LeaseInv'
  <2>1. ConnInv(c)'
    BY Zenon, <1>3, ClientConnInv, ServerConnInv
  <2>2. ASSUME NEW d \in Conns, d # c
        PROVE  ConnInv(d)'
    <3>1. TypeOK /\ ConnInv(d) /\ req[d].snap.key \in Keys /\ req[d].key \in Keys
      BY Zenon DEF LeaseInv, TypeOK, Locals, Snapshot
    <3>2. /\ pc'[d] = pc[d]
          /\ req'[d].key = req[d].key /\ req'[d].want = req[d].want
          /\ req'[d].todo = req[d].todo /\ req'[d].snap = req[d].snap
          /\ \/ req'[d].result = req[d].result /\ (d \in pending_breaks' <=> d \in pending_breaks)
             \/ req'[d].result # "none" /\ d \in pending_breaks /\ d \notin pending_breaks'
      BY Zenon, <1>3, <2>2, <3>1, OthersFrame
    <3>3. HoldsGuard(d)' => req'[d].snap.key \in lease_connections'
      BY <1>3, <3>1, <3>2, RegistryStep DEF ConnInv, HoldsGuard, ShardFree
    <3>4. pc[d] \in {"unregister", "delete"} => opens'[req[d].key] = opens[req[d].key]
      BY Zenon, <1>3, <2>2, <3>1, OpensStep DEF ConnInv, HandlerInv
    <3>5. QED
      BY Zenon, <3>1, <3>2, <3>3, <3>4 DEF ConnInv, HandlerInv, HoldsGuard
  <2>3. RegisteredLive'
    <3> SUFFICES ASSUME NEW k \in lease_connections'
                 PROVE  pc'[Owner[k]] # "closed"
      BY Zenon DEF RegisteredLive
    <3>1. k \in Keys /\ Owner[k] \in Conns
      BY Zenon, <1>1, ConstantsAssumption DEF TypeOK
    <3>2. CASE Owner[k] = c
      BY Zenon, <1>3, <3>2, RegistryStep
    <3>3. CASE Owner[k] # c
      <4>1. pc'[Owner[k]] = pc[Owner[k]]
        BY Zenon, <1>3, <3>1, <3>3, OthersFrame DEF LeaseInv
      <4>2. k \in lease_connections
        BY Zenon, <1>3, <3>3, RegistryStep
      <4>3. QED
        BY Zenon, <4>1, <4>2 DEF LeaseInv, RegisteredLive
    <3>4. QED
      BY Zenon, <3>2, <3>3
  <2>4. QED
    BY Zenon, <1>1, <2>1, <2>2, <2>3 DEF LeaseInv
<1>4. QED
  BY Zenon, <1>2, <1>3 DEF Next

LEMMA LeaseInvInit ==
  ASSUME Init
  PROVE  LeaseInv
<1>1. AnyKey \in Keys /\ {} \in LeaseState
  BY Zenon, ConstantsAssumption DEF AnyKey, LeaseState
<1>2. LocalsOf(AnyKey) \in Locals /\ LocalsOf(AnyKey).todo = {}
  BY Zenon, <1>1, LocalsOfType DEF LocalsOf
<1>3. TypeOK
  BY Zenon, <1>1, <1>2, SeqIs DEF Init, TypeOK, Labels
<1>4. QED
  BY Zenon, <1>2, <1>3 DEF Init, LeaseInv, RegisteredLive, ConnInv, HandlerInv, HoldsGuard

\* What check_and_create_lease stores conflicts with no lease of the file.
LEMMA GrantedFits ==
  ASSUME TypeOK, NEW k \in Keys, NEW want \in LeaseState, NEW l \in OthersOnFile(k)
  PROVE  LET conflicts == {m \in OthersOnFile(k) : LeasesConflict(lease_state[m], want)}
             granted == IF conflicts = {} THEN want
                        ELSE ReduceLeaseState(want, {lease_state[m] : m \in conflicts})
         IN ~LeasesConflict(granted, lease_state[l]) /\ ~LeasesConflict(lease_state[l], granted)
<1> DEFINE conflicts == {m \in OthersOnFile(k) : LeasesConflict(lease_state[m], want)}
           states == {lease_state[m] : m \in conflicts}
<1>1. CASE LeasesConflict(lease_state[l], want)
  <2>1. lease_state[l] \in states /\ conflicts # {}
    BY Zenon, <1>1
  <2>2. CASE \E s \in states : WRITE_CACHING \in s
    BY Zenon, <2>1, <2>2 DEF ReduceLeaseState, LeasesConflict
  <2>3. CASE ~\E s \in states : WRITE_CACHING \in s
    BY Zenon, <2>1, <2>3 DEF ReduceLeaseState, LeasesConflict
  <2>4. QED
    BY Zenon, <2>2, <2>3
<1>2. CASE ~LeasesConflict(lease_state[l], want)
  <2>1. ReduceLeaseState(want, states) \subseteq want
    BY Zenon DEF ReduceLeaseState
  <2> HIDE DEF states
  <2>2. \A g : g \subseteq want => ~LeasesConflict(g, lease_state[l]) /\ ~LeasesConflict(lease_state[l], g)
    BY Zenon, <1>2 DEF LeasesConflict
  <2>3. QED
    BY Zenon, <2>1, <2>2 DEF states
<1>3. QED
  BY Zenon, <1>1, <1>2

\* A step that restores no bits keeps the leases of a file compatible.
LEMMA ExclusiveStep ==
  ASSUME LeaseInv, [Next]_vars, ExclusiveUntilRegrown
  PROVE  ExclusiveUntilRegrown'
<1>1. TypeOK
  BY Zenon DEF LeaseInv
<1> SUFFICES ASSUME ~regrown', NEW k \in leases', NEW l \in leases',
                    k # l, FileOf[k] = FileOf[l]
             PROVE  ~LeasesConflict(lease_state'[k], lease_state'[l])
  BY Zenon DEF ExclusiveUntilRegrown, StoreExclusive
<1>2. ASSUME UNCHANGED <<leases, lease_state, regrown>>
      PROVE  ~LeasesConflict(lease_state'[k], lease_state'[l])
  BY Zenon, <1>2 DEF ExclusiveUntilRegrown, StoreExclusive
<1>3. ASSUME NEW m \in Keys, ~regrown, leases' \subseteq leases \cup {m},
             NEW s, lease_state' = [lease_state EXCEPT ![m] = s], s \subseteq lease_state[m]
      PROVE  ~LeasesConflict(lease_state'[k], lease_state'[l])
  <2>1. k \in Keys /\ l \in Keys
    BY Zenon, <1>1, <1>3 DEF TypeOK
  <2>2. lease_state'[k] \subseteq lease_state[k] /\ lease_state'[l] \subseteq lease_state[l]
    BY Zenon, <1>1, <1>3, <2>1 DEF TypeOK
  <2>3. CASE k \in leases /\ l \in leases
    BY Zenon, <1>3, <2>2, <2>3 DEF ExclusiveUntilRegrown, StoreExclusive, LeasesConflict
  <2>4. CASE k \notin leases \/ l \notin leases
    <3>1. lease_state[k] = {} \/ lease_state[l] = {}
      BY Zenon, <1>1, <2>1, <2>4 DEF TypeOK
    <3>2. QED
      BY Zenon, <2>2, <3>1 DEF LeasesConflict
  <2>5. QED
    BY Zenon, <2>3, <2>4
<1>4. CASE UNCHANGED vars
  BY Zenon, <1>2, <1>4 DEF vars
<1>5. ASSUME NEW c \in Conns, Client(c) \/ Server(c)
      PROVE  ~LeasesConflict(lease_state'[k], lease_state'[l])
  <2>1. req[c].key \in Keys /\ req[c].snap.key \in Keys
    BY Zenon, <1>1 DEF TypeOK, Locals, Snapshot
  <2>2. ASSUME NEW m \in Keys, NEW want \in Wants[m], HandleCreate(c, m, want)
        PROVE  ~LeasesConflict(lease_state'[k], lease_state'[l])
    <3> DEFINE conflicts == {n \in OthersOnFile(m) : LeasesConflict(lease_state[n], want)}
               granted == IF conflicts = {} THEN want
                          ELSE ReduceLeaseState(want, {lease_state[n] : n \in conflicts})
    <3>1. /\ leases' = leases \cup {m} /\ ~regrown
          /\ lease_state' = [lease_state EXCEPT ![m] = granted]
      BY Zenon, <2>2 DEF HandleCreate
    <3>2. want \in LeaseState /\ k \in Keys /\ l \in Keys /\ lease_state \in [Keys -> LeaseState]
      BY Zenon, <1>1, <3>1, ConstantsAssumption DEF TypeOK
    <3>3. \A n \in OthersOnFile(m) :
            ~LeasesConflict(granted, lease_state[n]) /\ ~LeasesConflict(lease_state[n], granted)
      BY Zenon, <1>1, <3>2, GrantedFits
    <3> HIDE DEF granted
    <3>4. CASE k = m
      BY Zenon, <3>1, <3>2, <3>3, <3>4 DEF OthersOnFile
    <3>5. CASE l = m
      BY Zenon, <3>1, <3>2, <3>3, <3>5 DEF OthersOnFile
    <3>6. CASE k # m /\ l # m
      BY Zenon, <3>1, <3>2, <3>6 DEF ExclusiveUntilRegrown, StoreExclusive
    <3>7. QED
      BY Zenon, <3>4, <3>5, <3>6
  <2>3. CASE UpdateLease(c)
    <3>1. /\ leases' = leases \cup {req[c].snap.key} /\ ~regrown
          /\ lease_state' = [lease_state EXCEPT ![req[c].snap.key] = req[c].state]
          /\ req[c].state \subseteq lease_state[req[c].snap.key]
      BY Zenon, <2>3 DEF UpdateLease
    <3>2. QED
      BY Zenon, <1>3, <2>1, <3>1
  <2>4. CASE AckUpdateLease(c)
    <3>1. /\ leases' = leases \cup {req[c].key} /\ ~regrown
          /\ lease_state' = [lease_state EXCEPT ![req[c].key] = req[c].state]
          /\ req[c].state \subseteq lease_state[req[c].key]
      BY Zenon, <2>4 DEF AckUpdateLease
    <3>2. QED
      BY Zenon, <1>3, <2>1, <3>1
  <2>5. CASE DeleteLease(c)
    <3>1. /\ leases' = leases \ {req[c].key} /\ ~regrown
          /\ lease_state' = [lease_state EXCEPT ![req[c].key] = {}]
      BY Zenon, <2>5 DEF DeleteLease
    <3> DEFINE none == {}
    <3>2. /\ leases' \subseteq leases \cup {req[c].key} /\ none \subseteq lease_state[req[c].key]
          /\ lease_state' = [lease_state EXCEPT ![req[c].key] = none]
      BY Zenon, <3>1
    <3> HIDE DEF none
    <3>3. QED
      BY <1>3, <2>1, <3>1, <3>2, ZenonT(60)
  <2>6. CASE Client(c) /\ ~\E m \in Keys : \E want \in Wants[m] : HandleCreate(c, m, want)
    <3>1. UNCHANGED <<leases, lease_state, regrown>>
      BY Zenon, <2>6 DEF Client, HandleLeaseBreakAck, HandleClose, Disconnect, storeVars
    <3>2. QED
      BY Zenon, <1>2, <3>1
  <2>7. CASE Server(c) /\ ~(UpdateLease(c) \/ AckUpdateLease(c) \/ DeleteLease(c))
    <3>1. UNCHANGED <<leases, lease_state, regrown>>
      BY Zenon, <2>7 DEF Server, BreakLookup, BreakSend, BreakRegister, BreakTimeout, BreakReturn,
           Recheck, RegisterLease, SendLeaseBreakNotification, AckGetLease,
           UnregisterLease, UnregisterConnectionLeases, storeVars
    <3>2. QED
      BY Zenon, <1>2, <3>1
  <2>8. QED
    BY Zenon, <1>5, <2>2, <2>3, <2>4, <2>5, <2>6, <2>7
<1>6. QED
  BY Zenon, <1>4, <1>5 DEF Next

------------------------------------------------------------------------------
(* The theorems *)

LEMMA LeaseInvariance == Spec => []LeaseInv
<1>1. Init => LeaseInv
  BY Zenon, LeaseInvInit
<1>2. LeaseInv /\ [Next]_vars => LeaseInv'
  BY Zenon, LeaseInvStep
<1>3. QED
  BY <1>1, <1>2, PTL DEF Spec

\* Type correctness of the lease table, the registry, the channels and the handlers.
THEOREM LeasesTypeCorrect == Spec => []TypeOK
<1>1. LeaseInv => TypeOK
  BY Zenon DEF LeaseInv
<1>2. QED
  BY <1>1, LeaseInvariance, PTL

\* The inductive invariant of break_lease, checked as BreakInv by TLC.
THEOREM BreakInvariance == Spec => []BreakInv
<1>1. LeaseInv => BreakInv
  BY Zenon, LeaseInvIs
<1>2. QED
  BY <1>1, LeaseInvariance, PTL

\* pending_breaks holds exactly the breaks somebody waits for without a result:
\* break_lease loses no wakeup and leaks no entry, whatever acknowledgments, timeouts,
\* closes and lost connections come in between.
THEOREM NoLostNoLeakedBreak == Spec => []BreaksTracked
<1>1. LeaseInv => BreaksTracked
  BY Zenon, LeaseInvIs
<1>2. QED
  BY <1>1, LeaseInvariance, PTL

\* The guard break_lease keeps on the registry shard does its work: until the break
\* returns, unregister_lease and unregister_connection_leases leave the lease
\* registered and its connection's channel open.
THEOREM GuardKeepsOwner == Spec => []BreakReachesOwner
<1>1. LeaseInv => BreakReachesOwner
  BY Zenon, LeaseInvIs
<1>2. QED
  BY <1>1, LeaseInvariance, PTL

\* Every break asks for strictly less than the lease had, of a lease that has to
\* acknowledge: the NoAckRequired result of break_lease never occurs.
THEOREM BreaksAreProper == Spec => []BreaksTakeAway
<1>1. LeaseInv => BreaksTakeAway
  <2> SUFFICES ASSUME LeaseInv, NEW c \in Conns, HoldsGuard(c)
               PROVE  /\ BreakTo(c) \subseteq req[c].snap.state
                      /\ BreakTo(c) # req[c].snap.state
                      /\ req[c].snap.state # {READ_CACHING}
    BY Zenon DEF BreaksTakeAway
  <2>1. req[c].snap \in Snapshot /\ req[c].want \in LeaseState
    BY Zenon DEF LeaseInv, TypeOK, Locals
  <2>2. Breakable(req[c].snap, req[c].want)
    BY Zenon DEF LeaseInv, ConnInv, HandlerInv
  <2>3. QED
    BY Zenon, <2>1, <2>2, BreakToType, BreakableNeedsAck DEF LeaseInv, Breakable, BreakTo
<1>2. QED
  BY <1>1, LeaseInvariance, PTL

\* The leases of a file stay compatible in the store until a write-back of a stale
\* entry restores bits (check_and_create_lease, update_lease, delete_lease).
THEOREM WriteCachingExclusive == Spec => []ExclusiveUntilRegrown
<1>1. Init => ExclusiveUntilRegrown
  BY Zenon DEF Init, ExclusiveUntilRegrown, StoreExclusive
<1>2. LeaseInv /\ ExclusiveUntilRegrown /\ [Next]_vars => ExclusiveUntilRegrown'
  BY Zenon, ExclusiveStep
<1>3. QED
  BY <1>1, <1>2, LeaseInvariance, PTL DEF Spec
==============================================================================
