------------------------ MODULE EmbeddedServerProofs ------------------------
(* Proofs about EmbeddedServer for any servers, connections and times: the     *)
(* counter and the permits of the accept loop match the connection tasks, the  *)
(* drain lets none through, a server whose timers are on time is never taken   *)
(* for failed by its own coordinator, and what the state machine grants never  *)
(* conflicts.                                                                  *)
EXTENDS EmbeddedServer, FiniteSetTheorems, TLAPS

RunLabels == {"new", "bind", "tls", "accept", "drain", "stop", "returned", "error"}
ConnLabels == {"none", "rejected", "handshake", "serving", "ending", "ended", "panicked"}

IsState(st) ==
  st = [cache_epoch |-> st.cache_epoch, servers |-> st.servers, leases |-> st.leases, locks |-> st.locks,
        next_lock_id |-> st.next_lock_id]

\* The variables of run(), of the connections and of the coordination have
\* values the code can give them.
TypeOK ==
  /\ mode \in Modes /\ up \subseteq mode.servers
  /\ now \in Nat
  /\ pc \in [Servers -> RunLabels]
  /\ shutdown \in [Servers -> BOOLEAN] /\ forced \in [Servers -> BOOLEAN] /\ stopping \in [Servers -> BOOLEAN]
  /\ active \in [Servers -> Int] /\ permits \in [Servers -> Nat]
  /\ conn \in [Servers -> [Conns -> ConnLabels]]
  /\ wake \in [Servers -> [{"heartbeat", "monitor"} -> Int]]
  /\ DOMAIN stale = Servers
  /\ DOMAIN raft = Servers /\ \A s \in Servers : IsState(raft[s])

\* The connections of a server whose task is at one of the labels.
At(s, labels) == {c \in Conns : conn[s][c] \in labels}
Counted == {"handshake", "serving", "panicked"}
Permitted == {"handshake", "serving", "ending"}

\* active_connections and the permits taken are numbers of tasks.
CountInv ==
  \A s \in Servers :
    /\ IsFiniteSet(At(s, Counted)) /\ active[s] = Cardinality(At(s, Counted))
    /\ IsFiniteSet(At(s, Permitted)) /\ MaxConnections - permits[s] = Cardinality(At(s, Permitted))

\* With timers on time and an early start, the heartbeat task wakes before the
\* registration is too old, and the clock waits for it.
Prompt == ~mode.late /\ mode.delay + HeartbeatInterval <= HeartbeatTimeout
OnTime(s) ==
  /\ stale[s] = {} /\ raft[s].cache_epoch = 1
  /\ pc[s] = "new" \/ ~mode.coordinated => raft[s].servers = {}
  /\ \A r \in raft[s].servers :
       /\ r = [server_id |-> s, last_heartbeat |-> r.last_heartbeat] /\ r.last_heartbeat \in Nat
       /\ s \in up /\ ~stopping[s] => now <= wake[s]["heartbeat"] /\ wake[s]["heartbeat"] <= r.last_heartbeat + HeartbeatTimeout
PromptInv == Prompt => \A s \in mode.servers : OnTime(s)

\* The locks of a state machine do not conflict.
LocksInv(st) == /\ \A l \in st.locks : IsLock(l)
                /\ \A l, o \in st.locks : ~ConflictsWith(l, o)
MachineInv == \A s \in Servers : LocksInv(raft[s])

Inv == TypeOK /\ CountInv /\ DrainedOrForced /\ PromptInv /\ MachineInv

---------------------------------------------------------------------------
(* The state machine.                                                          *)

\* What may be granted to a request conflicts with no lease of another key on
\* the file: check_lease_conflict gives up write caching when a lease has any
\* right, and everything when one has write caching.
LEMMA GrantSparesLeases ==
  ASSUME NEW st, NEW l \in st.leases, NEW key, NEW requested, l.lease_key # key
  PROVE  ~LeasesConflict(l.lease_state, CheckLeaseConflict(st, l.file_path, key, requested).granted)
<1> DEFINE existing == {x \in st.leases : x.file_path = l.file_path /\ x.lease_key # key}
           conflicts == {x \in existing : LeasesConflict(x.lease_state, requested)}
           granted == IF conflicts = {} THEN requested ELSE ReduceLeaseState(requested, conflicts)
<1>1. CheckLeaseConflict(st, l.file_path, key, requested).granted = granted
  BY Zenon DEF CheckLeaseConflict
<1>2. l \in existing
  BY Zenon
<1>3. CASE conflicts = {}
  BY Zenon, <1>1, <1>2, <1>3
<1>4. CASE conflicts # {} /\ \E x \in conflicts : "W" \in x.lease_state
  BY Zenon, <1>1, <1>4 DEF ReduceLeaseState, LeasesConflict
<1>5. CASE conflicts # {} /\ ~\E x \in conflicts : "W" \in x.lease_state
  <2>1. granted = requested \ {"W"}
    BY Zenon, <1>5 DEF ReduceLeaseState
  <2>2. "W" \in requested
    BY Zenon, <1>5 DEF LeasesConflict
  <2>3. "W" \notin l.lease_state
    BY Zenon, <1>2, <1>5, <2>2 DEF LeasesConflict
  <2>4. QED
    BY Zenon, <1>1, <2>1, <2>3 DEF LeasesConflict
<1>6. QED
  BY Zenon, <1>3, <1>4, <1>5

\* DistributedLock::conflicts_with is symmetric.
LEMMA ConflictSymmetric ==
  ASSUME NEW l, NEW o, ConflictsWith(l, o)
  PROVE  ConflictsWith(o, l)
  BY Zenon DEF ConflictsWith

\* The identifier of a lock does not matter to its conflicts.
LEMMA IdentifierIrrelevant ==
  ASSUME NEW l, IsLock(l), NEW id
  PROVE  /\ IsLock([l EXCEPT !.lock_id = id])
         /\ ~ConflictsWith([l EXCEPT !.lock_id = id], [l EXCEPT !.lock_id = id])
         /\ \A o : ConflictsWith([l EXCEPT !.lock_id = id], o) <=> ConflictsWith(l, o)
<1> DEFINE m == [l EXCEPT !.lock_id = id]
<1>1. m = [lock_id |-> id, file_path |-> l.file_path, handle_id |-> l.handle_id, session_id |-> l.session_id,
           server_id |-> l.server_id, offset |-> l.offset, length |-> l.length, exclusive |-> l.exclusive]
  BY SMTT(30) DEF IsLock
<1>2. /\ m.file_path = l.file_path /\ m.handle_id = l.handle_id /\ m.session_id = l.session_id /\ m.lock_id = id
      /\ m.server_id = l.server_id /\ m.offset = l.offset /\ m.length = l.length /\ m.exclusive = l.exclusive
  BY Zenon, <1>1
<1> HIDE DEF m
<1>3. IsLock(m)
  BY Zenon, <1>1, <1>2 DEF IsLock
<1>4. LockEnd(m) = LockEnd(l)
  BY Zenon, <1>2 DEF LockEnd
<1>5. ~ConflictsWith(m, m) /\ \A o : ConflictsWith(m, o) <=> ConflictsWith(l, o)
  BY Zenon, <1>2, <1>4 DEF ConflictsWith
<1>6. QED
  BY Zenon, <1>3, <1>5 DEF m

\* A lock that is granted leaves the locks free of conflicts.
LEMMA AcquireKeeps ==
  ASSUME NEW st, IsState(st), LocksInv(st), NEW lock, IsLock(lock)
  PROVE  IsState(AcquireLock(st, lock).st) /\ LocksInv(AcquireLock(st, lock).st)
<1> DEFINE next == [st EXCEPT !.next_lock_id = @ + 1]
           new == [lock EXCEPT !.lock_id = st.next_lock_id]
           more == [next EXCEPT !.locks = @ \cup {new}]
<1>1. IsState(next) /\ next.locks = st.locks
  BY SMTT(30) DEF IsState
<1> HIDE DEF next
<1>2. IsState(more) /\ more.locks = st.locks \cup {new}
  BY SMTT(30), <1>1 DEF IsState
<1>3. CASE \E o \in st.locks : ConflictsWith(lock, o)
  <2>1. AcquireLock(st, lock).st = next
    BY Zenon, <1>3 DEF AcquireLock, next
  <2>2. QED
    BY Zenon, <1>1, <2>1 DEF LocksInv
<1>4. CASE ~\E o \in st.locks : ConflictsWith(lock, o)
  <2>1. AcquireLock(st, lock).st = more
    BY Zenon, <1>4 DEF AcquireLock, next
  <2>2. IsLock(new) /\ ~ConflictsWith(new, new) /\ \A o : ConflictsWith(new, o) <=> ConflictsWith(lock, o)
    BY Zenon, IdentifierIrrelevant
  <2>3. \A o \in st.locks : ~ConflictsWith(new, o) /\ ~ConflictsWith(o, new)
    BY Zenon, <1>4, <2>2, ConflictSymmetric
  <2>4. QED
    BY Zenon, <1>2, <2>1, <2>2, <2>3 DEF LocksInv
<1>5. QED
  BY Zenon, <1>3, <1>4

\* Every request to the state machine leaves its locks free of conflicts.
LEMMA ApplyKeeps ==
  ASSUME NEW st, IsState(st), LocksInv(st), NEW q, IsRequest(q)
  PROVE  IsState(Apply(st, q).st) /\ LocksInv(Apply(st, q).st)
<1> DEFINE new == Apply(st, q).st
<1>1. SUFFICES ASSUME q.op # "AcquireLock"
               PROVE  IsState(new) /\ new.locks \subseteq st.locks
  <2>1. CASE q.op = "AcquireLock"
    <3>1. Apply(st, q) = AcquireLock(st, q.val)
      BY Zenon, <2>1 DEF Apply
    <3>2. QED
      BY Zenon, <2>1, <3>1, AcquireKeeps DEF IsRequest
  <2>2. QED
    BY Zenon, <2>1 DEF LocksInv
<1>2. CASE q.op = "RegisterServer"
  <2>1. PICK servers : new = [st EXCEPT !.servers = servers]
    BY Zenon, <1>2 DEF Apply
  <2>2. QED
    BY Zenon, <2>1 DEF IsState
<1>3. CASE q.op = "UnregisterServer"
  <2>1. PICK servers : new = Bumped([st EXCEPT !.servers = servers])
    BY Zenon, <1>3 DEF Apply
  <2>2. QED
    BY ZenonT(60), <2>1 DEF IsState, Bumped
<1>4. CASE q.op = "UpdateHeartbeat"
  BY Zenon, <1>4 DEF Apply, IsState
<1>5. CASE q.op = "IncrementEpoch"
  BY Zenon, <1>5 DEF Apply, IsState, Bumped
<1>6. CASE q.op = "CreateLease"
  BY Zenon, <1>6 DEF Apply, IsState
<1>7. CASE q.op = "UpdateLease"
  BY Zenon, <1>7 DEF Apply, IsState
<1>8. CASE q.op = "DeleteLease"
  <2>1. PICK leases : new = [st EXCEPT !.leases = leases]
    BY Zenon, <1>8 DEF Apply
  <2>2. QED
    BY Zenon, <2>1 DEF IsState
<1>9. CASE q.op = "ReleaseLeasesForServer"
  BY Zenon, <1>9 DEF Apply, IsState
<1>10. CASE q.op = "ReleaseLock"
  BY Zenon, <1>10 DEF Apply, IsState, KeepLocks
<1>11. CASE q.op = "ReleaseLocksForSession"
  BY Zenon, <1>11 DEF Apply, IsState, KeepLocks
<1>12. CASE q.op = "ReleaseLocksForHandle"
  BY Zenon, <1>12 DEF Apply, IsState, KeepLocks
<1>13. CASE q.op = "ReleaseLocksForServer"
  BY Zenon, <1>13 DEF Apply, IsState, KeepLocks
<1>14. QED
  BY Zenon, <1>1, <1>2, <1>3, <1>4, <1>5, <1>6, <1>7, <1>8, <1>9, <1>10, <1>11, <1>12, <1>13 DEF IsRequest

\* Two locks that cover a byte and do not conflict are of one handle or both
\* shared: the end of a range saturates at u64::MAX, and a length of 0 is all
\* the rest.
LEMMA LocksApart ==
  ASSUME NEW l, NEW o, IsLock(l), IsLock(o), ~ConflictsWith(l, o), NEW b \in 0 .. (U64Max - 1),
         l.file_path = o.file_path, l.exclusive,
         l.offset <= b, l.length = 0 \/ b < l.offset + l.length,
         o.offset <= b, o.length = 0 \/ b < o.offset + o.length
  PROVE  l.handle_id = o.handle_id
<1>1. /\ U64Max \in Int /\ b \in Int /\ b < U64Max
      /\ l.offset \in Int /\ l.length \in Int /\ o.offset \in Int /\ o.length \in Int
  BY SMTT(30), TimesAreNaturals DEF IsLock
<1>2. b < LockEnd(l) /\ b < LockEnd(o)
  BY Zenon, <1>1 DEF LockEnd
<1>3. LockEnd(l) \in Int /\ LockEnd(o) \in Int
  BY SMTT(30), <1>1 DEF LockEnd
<1>4. l.offset < LockEnd(o) /\ o.offset < LockEnd(l)
  BY SMTT(30), <1>1, <1>2, <1>3
<1>5. QED
  BY Zenon, <1>4 DEF ConflictsWith

---------------------------------------------------------------------------
(* Which steps change what.                                                    *)

\* Only the steps of a connection task, and the accept loop, change the tasks,
\* the counter and the permits.
LEMMA ConnFrame ==
  ASSUME [Next]_vars
  PROVE  \/ UNCHANGED <<conn, active, permits>>
         \/ \E s \in up : \E c \in mode.conns : ConnStep(s, c)
<1>1. CASE UNCHANGED vars
  BY Zenon, <1>1 DEF vars, serverVars
<1>2. CASE Tick
  BY Zenon, <1>2 DEF Tick, serverVars
<1>3. ASSUME NEW s \in up, RunStep(s)
      PROVE  UNCHANGED <<conn, active, permits>>
  BY Zenon, <1>3 DEF RunStep, Start, Bind, CreateTlsAcceptor, Break, DrainConnections, Stop
<1>4. ASSUME NEW s \in up, CoordStep(s)
      PROVE  UNCHANGED <<conn, active, permits>>
  BY Zenon, <1>4 DEF CoordStep, Timer, Listen, Heartbeat, CheckHeartbeats, HandleServerFailure, EpochChanged, ServerFailed,
                     DeleteLeases, ReleaseLocks, InvalidateAll, Subscribe, serverVars
<1>5. ASSUME NEW s \in up, Shutdown(s) \/ Crash(s)
      PROVE  UNCHANGED <<conn, active, permits>>
  BY Zenon, <1>5 DEF Shutdown, Crash, serverVars
<1>6. ASSUME NEW s \in up, NEW c \in mode.conns, NEW r, Serve(s, c, r)
      PROVE  UNCHANGED <<conn, active, permits>>
  BY Zenon, <1>6 DEF Serve, serverVars
<1>7. ASSUME NEW s, NEW q, Request(s, q)
      PROVE  UNCHANGED <<conn, active, permits>>
  BY Zenon, <1>7 DEF Request, serverVars
<1>8. QED
  BY Zenon, <1>1, <1>2, <1>3, <1>4, <1>5, <1>6, <1>7 DEF Next

\* The coordination of a server and its clock are left alone by the steps of
\* the accept loop and of the connections.
LEMMA CoordFrame ==
  ASSUME [Next]_vars
  PROVE  \/ UNCHANGED <<now, raft, stopping, wake, stale>>
         \/ Tick
         \/ \E s \in up : Start(s) \/ Stop(s) \/ Timer(s)
         \/ \E s \in Servers \ mode.servers : \E q \in mode.requests : Request(s, q)
<1> DEFINE Same == UNCHANGED <<now, raft, stopping, wake, stale>>
<1>1. CASE UNCHANGED vars
  BY Zenon, <1>1 DEF vars, coordVars
<1>2. ASSUME NEW s \in up, Bind(s) \/ CreateTlsAcceptor(s) \/ Break(s) \/ DrainConnections(s)
      PROVE  Same
  BY Zenon, <1>2 DEF Bind, CreateTlsAcceptor, Break, DrainConnections, coordVars
<1>3. ASSUME NEW s \in up, Listen(s)
      PROVE  Same
  BY Zenon, <1>3 DEF Listen, EpochChanged, ServerFailed, DeleteLeases, ReleaseLocks, InvalidateAll
<1>4. ASSUME NEW s \in up, NEW stream, Subscribe(s, stream)
      PROVE  Same
  BY Zenon, <1>4 DEF Subscribe
<1>5. ASSUME NEW s \in up, Shutdown(s) \/ Crash(s)
      PROVE  Same
  BY Zenon, <1>5 DEF Shutdown, Crash, coordVars
<1>6. ASSUME NEW s \in up, NEW c \in mode.conns, ConnStep(s, c) \/ \E r \in {"lease", "lock"} : Serve(s, c, r)
      PROVE  Same
  BY Zenon, <1>6 DEF ConnStep, Accept, Handshake, HandlerReturns, DropContext, Panic, Serve, coordVars
<1>7. QED
  BY Zenon, <1>1, <1>2, <1>3, <1>4, <1>5, <1>6 DEF Next, RunStep, CoordStep

\* The configuration is fixed, and no server comes up again.
LEMMA ModeFrame ==
  ASSUME [Next]_vars
  PROVE  mode' = mode /\ up' \subseteq up
<1>1. CASE UNCHANGED vars
  BY Zenon, <1>1 DEF vars, rest
<1>2. CASE Tick
  BY Zenon, <1>2 DEF Tick, rest
<1>3. ASSUME NEW s \in up, RunStep(s)
      PROVE  UNCHANGED rest
  BY Zenon, <1>3 DEF RunStep, Start, Bind, CreateTlsAcceptor, Break, DrainConnections, Stop
<1>4. ASSUME NEW s \in up, CoordStep(s)
      PROVE  UNCHANGED rest
  BY Zenon, <1>4 DEF CoordStep, Timer, Listen, Heartbeat, CheckHeartbeats, HandleServerFailure, EpochChanged, ServerFailed,
                     DeleteLeases, ReleaseLocks, InvalidateAll, Subscribe
<1>5. ASSUME NEW s \in up, Shutdown(s)
      PROVE  UNCHANGED rest
  BY Zenon, <1>5 DEF Shutdown
<1>6. ASSUME NEW s \in up, Crash(s)
      PROVE  mode' = mode /\ up' \subseteq up
  BY Zenon, <1>6 DEF Crash
<1>7. ASSUME NEW s \in up, NEW c \in mode.conns, ConnStep(s, c) \/ \E r \in {"lease", "lock"} : Serve(s, c, r)
      PROVE  UNCHANGED rest
  BY Zenon, <1>7 DEF ConnStep, Accept, Handshake, HandlerReturns, DropContext, Panic, Serve
<1>8. ASSUME NEW s, NEW q, Request(s, q)
      PROVE  UNCHANGED rest
  BY Zenon, <1>8 DEF Request
<1>9. QED
  BY Zenon, <1>1, <1>2, <1>3, <1>4, <1>5, <1>6, <1>7, <1>8 DEF Next, rest

\* run() goes on as its labels say; once it has left the accept loop it does
\* not come back, and forced is set on the way to "stop".
LEMMA RunFrame ==
  ASSUME TypeOK, [Next]_vars, NEW s \in Servers
  PROVE  \/ pc'[s] = pc[s] /\ forced'[s] = forced[s]
         \/ pc'[s] \in RunLabels \ {"new", "stop", "returned"}
         \/ DrainConnections(s)
         \/ pc[s] = "stop" /\ pc'[s] = "returned" /\ forced'[s] = forced[s]
<1> DEFINE Same == UNCHANGED <<pc, forced>>
<1>1. CASE UNCHANGED vars \/ Tick
  BY Zenon, <1>1 DEF vars, Tick, serverVars
<1>2. ASSUME NEW t \in up, CoordStep(t)
      PROVE  Same
  BY Zenon, <1>2 DEF CoordStep, Timer, Listen, Heartbeat, CheckHeartbeats, HandleServerFailure, EpochChanged, ServerFailed,
                     DeleteLeases, ReleaseLocks, InvalidateAll, Subscribe, serverVars
<1>3. ASSUME NEW t \in up, Shutdown(t) \/ Crash(t)
      PROVE  Same
  BY Zenon, <1>3 DEF Shutdown, Crash, serverVars
<1>4. ASSUME NEW t \in up, NEW c \in mode.conns, ConnStep(t, c) \/ \E r \in {"lease", "lock"} : Serve(t, c, r)
      PROVE  Same
  BY Zenon, <1>4 DEF ConnStep, Accept, Handshake, HandlerReturns, DropContext, Panic, Serve, serverVars
<1>5. ASSUME NEW t, NEW q, Request(t, q)
      PROVE  Same
  BY Zenon, <1>5 DEF Request, serverVars
<1>6. ASSUME NEW t \in up, RunStep(t), t # s
      PROVE  pc'[s] = pc[s] /\ forced'[s] = forced[s]
  BY Zenon, <1>6 DEF RunStep, Start, Bind, CreateTlsAcceptor, Break, DrainConnections, Stop, Goto, TypeOK
<1>7. CASE Start(s) \/ Bind(s) \/ CreateTlsAcceptor(s) \/ Break(s)
  BY ZenonT(60), <1>7 DEF Start, Bind, CreateTlsAcceptor, Break, Goto, TypeOK, RunLabels
<1>8. CASE Stop(s)
  BY Zenon, <1>8 DEF Stop, Goto, TypeOK
<1>9. QED
  BY Zenon, <1>1, <1>2, <1>3, <1>4, <1>5, <1>6, <1>7, <1>8 DEF Next, RunStep

---------------------------------------------------------------------------
(* The connections.                                                            *)

\* A step of one task moves one connection between the sets that are counted.
LEMMA Moved ==
  ASSUME TypeOK, NEW s \in Servers, NEW c \in Conns, NEW label, SetConn(s, c, label), NEW L
  PROVE  /\ \A t \in Servers : t # s => At(t, L)' = At(t, L)
         /\ label \in L => At(s, L)' = At(s, L) \cup {c}
         /\ label \notin L => At(s, L)' = At(s, L) \ {c}
<1>1. \A t \in Servers : t # s => conn'[t] = conn[t]
  BY Zenon DEF TypeOK, SetConn
<1>2. conn'[s][c] = label /\ \A d \in Conns : d # c => conn'[s][d] = conn[s][d]
  BY Zenon DEF TypeOK, SetConn
<1>3. QED
  BY Zenon, <1>1, <1>2 DEF At

\* Counting one more task, one task less, or the same tasks.
LEMMA CountMoves ==
  ASSUME NEW S, IsFiniteSet(S), NEW c
  PROVE  /\ IsFiniteSet(S \cup {c}) /\ IsFiniteSet(S \ {c}) /\ Cardinality(S) \in Nat
         /\ c \notin S => Cardinality(S \cup {c}) = Cardinality(S) + 1 /\ S \ {c} = S
         /\ c \in S => Cardinality(S \ {c}) = Cardinality(S) - 1 /\ S \cup {c} = S
<1>1. S \ {c} = S \/ c \in S
  BY Zenon
<1>2. S \cup {c} = S \/ c \notin S
  BY Zenon
<1>3. QED
  BY Zenon, <1>1, <1>2, FS_AddElement, FS_RemoveElement, FS_CardinalityType

\* The counts of a server after a task has moved from one label to another,
\* when the counter and the permits have been changed as the move asks for.
LEMMA CountStep ==
  ASSUME TypeOK, CountInv, NEW s \in Servers, NEW c \in Conns, NEW label \in ConnLabels, SetConn(s, c, label),
         active' = [active EXCEPT ![s] = @ + (IF label \in Counted THEN 1 ELSE 0)
                                           - (IF conn[s][c] \in Counted THEN 1 ELSE 0)],
         permits' = [permits EXCEPT ![s] = @ - (IF label \in Permitted THEN 1 ELSE 0)
                                             + (IF conn[s][c] \in Permitted THEN 1 ELSE 0)]
  PROVE  CountInv'
<1> DEFINE A == At(s, Counted)
           P == At(s, Permitted)
<1>1. /\ \A t \in Servers : t # s => At(t, Counted)' = At(t, Counted)
      /\ label \in Counted => At(s, Counted)' = A \cup {c}
      /\ label \notin Counted => At(s, Counted)' = A \ {c}
  BY ZenonT(60), Moved
<1>2. /\ \A t \in Servers : t # s => At(t, Permitted)' = At(t, Permitted)
      /\ label \in Permitted => At(s, Permitted)' = P \cup {c}
      /\ label \notin Permitted => At(s, Permitted)' = P \ {c}
  BY ZenonT(60), Moved
<1>3. /\ IsFiniteSet(A) /\ active[s] = Cardinality(A) /\ (c \in A <=> conn[s][c] \in Counted)
      /\ IsFiniteSet(P) /\ MaxConnections - permits[s] = Cardinality(P) /\ (c \in P <=> conn[s][c] \in Permitted)
  BY Zenon DEF CountInv, At
<1>4. /\ active'[s] = active[s] + (IF label \in Counted THEN 1 ELSE 0) - (IF conn[s][c] \in Counted THEN 1 ELSE 0)
      /\ \A t \in Servers : t # s => active'[t] = active[t]
  BY Zenon DEF TypeOK
<1>5. /\ permits'[s] = permits[s] - (IF label \in Permitted THEN 1 ELSE 0) + (IF conn[s][c] \in Permitted THEN 1 ELSE 0)
      /\ \A t \in Servers : t # s => permits'[t] = permits[t]
  BY Zenon DEF TypeOK
<1> HIDE DEF A, P
<1>6. IsFiniteSet(At(s, Counted)') /\ active'[s] = Cardinality(At(s, Counted)')
  <2>1. /\ IsFiniteSet(A \cup {c}) /\ IsFiniteSet(A \ {c}) /\ Cardinality(A) \in Nat
        /\ c \notin A => Cardinality(A \cup {c}) = Cardinality(A) + 1 /\ Cardinality(A \ {c}) = Cardinality(A)
        /\ c \in A => Cardinality(A \ {c}) = Cardinality(A) - 1 /\ Cardinality(A \cup {c}) = Cardinality(A)
    BY ZenonT(60), <1>3, CountMoves
  <2>2. CASE label \in Counted
    <3>1. active'[s] = Cardinality(A \cup {c})
      BY SMTT(30), <1>3, <1>4, <2>1, <2>2
    <3>2. QED
      BY Zenon, <1>1, <2>1, <2>2, <3>1
  <2>3. CASE label \notin Counted
    <3>1. active'[s] = Cardinality(A \ {c})
      BY SMTT(30), <1>3, <1>4, <2>1, <2>3
    <3>2. QED
      BY Zenon, <1>1, <2>1, <2>3, <3>1
  <2>4. QED
    BY Zenon, <2>2, <2>3
<1>7. IsFiniteSet(At(s, Permitted)') /\ MaxConnections - permits'[s] = Cardinality(At(s, Permitted)')
  <2>1. /\ IsFiniteSet(P \cup {c}) /\ IsFiniteSet(P \ {c}) /\ Cardinality(P) \in Nat
        /\ c \notin P => Cardinality(P \cup {c}) = Cardinality(P) + 1 /\ Cardinality(P \ {c}) = Cardinality(P)
        /\ c \in P => Cardinality(P \ {c}) = Cardinality(P) - 1 /\ Cardinality(P \cup {c}) = Cardinality(P)
    BY ZenonT(60), <1>3, CountMoves
  <2>2. permits[s] \in Int /\ MaxConnections \in Int
    BY SMTT(30), TimesAreNaturals DEF TypeOK
  <2>3. CASE label \in Permitted
    <3>1. MaxConnections - permits'[s] = Cardinality(P \cup {c})
      BY SMTT(30), <1>3, <1>5, <2>1, <2>2, <2>3
    <3>2. QED
      BY Zenon, <1>2, <2>1, <2>3, <3>1
  <2>4. CASE label \notin Permitted
    <3>1. MaxConnections - permits'[s] = Cardinality(P \ {c})
      BY SMTT(30), <1>3, <1>5, <2>1, <2>2, <2>4
    <3>2. QED
      BY Zenon, <1>2, <2>1, <2>4, <3>1
  <2>5. QED
    BY Zenon, <2>3, <2>4
<1>8. \A t \in Servers : t # s =>
        /\ IsFiniteSet(At(t, Counted)') /\ active'[t] = Cardinality(At(t, Counted)')
        /\ IsFiniteSet(At(t, Permitted)') /\ MaxConnections - permits'[t] = Cardinality(At(t, Permitted)')
  BY ZenonT(60), <1>1, <1>2, <1>4, <1>5 DEF CountInv
<1>9. QED
  BY Zenon, <1>6, <1>7, <1>8 DEF CountInv

\* Every step of a connection task keeps the counts.
LEMMA ConnKeepsCount ==
  ASSUME TypeOK, CountInv, NEW s \in Servers, NEW c \in Conns, ConnStep(s, c)
  PROVE  CountInv'
<1> DEFINE Grown(label) == active[s] + (IF label \in Counted THEN 1 ELSE 0) - (IF conn[s][c] \in Counted THEN 1 ELSE 0)
           Left(label) == permits[s] - (IF label \in Permitted THEN 1 ELSE 0) + (IF conn[s][c] \in Permitted THEN 1 ELSE 0)
<1>1. active[s] \in Int /\ permits[s] \in Int
  BY SMTT(30) DEF TypeOK
<1>2. active = [active EXCEPT ![s] = active[s]] /\ permits = [permits EXCEPT ![s] = permits[s]]
  BY Zenon DEF TypeOK
<1>3. SUFFICES \E label \in ConnLabels :
                 /\ SetConn(s, c, label)
                 /\ active' = [active EXCEPT ![s] = Grown(label)]
                 /\ permits' = [permits EXCEPT ![s] = Left(label)]
  BY Zenon, CountStep
<1>4. CASE Accept(s, c)
  <2>1. CASE shutdown[s] \/ permits[s] = 0
    <3>1. Grown("rejected") = active[s] /\ Left("rejected") = permits[s]
      BY SMTT(30), <1>1, <1>4 DEF Accept, Counted, Permitted
    <3>2. QED
      BY Zenon, <1>2, <1>4, <2>1, <3>1 DEF Accept, ConnLabels
  <2>2. CASE ~(shutdown[s] \/ permits[s] = 0)
    <3>1. \A label \in {"handshake", "serving"} : Grown(label) = active[s] + 1 /\ Left(label) = permits[s] - 1
      BY SMTT(30), <1>1, <1>4 DEF Accept, Counted, Permitted
    <3>2. PICK label \in {"handshake", "serving"} : SetConn(s, c, label)
      BY Zenon, <1>4, <2>2 DEF Accept
    <3>3. QED
      BY Zenon, <1>4, <2>2, <3>1, <3>2 DEF Accept, ConnLabels
  <2>3. QED
    BY Zenon, <2>1, <2>2
<1>5. CASE Handshake(s, c)
  <2>1. /\ Grown("serving") = active[s] /\ Left("serving") = permits[s]
        /\ Grown("ending") = active[s] - 1 /\ Left("ending") = permits[s]
    BY SMTT(30), <1>1, <1>5 DEF Handshake, Counted, Permitted
  <2>2. QED
    BY Zenon, <1>2, <1>5, <2>1 DEF Handshake, ConnLabels
<1>6. CASE HandlerReturns(s, c)
  <2>1. Grown("ending") = active[s] - 1 /\ Left("ending") = permits[s]
    BY SMTT(30), <1>1, <1>6 DEF HandlerReturns, Counted, Permitted
  <2>2. QED
    BY Zenon, <1>2, <1>6, <2>1 DEF HandlerReturns, ConnLabels
<1>7. CASE DropContext(s, c)
  <2>1. Grown("ended") = active[s] /\ Left("ended") = permits[s] + 1
    BY SMTT(30), <1>1, <1>7 DEF DropContext, Counted, Permitted
  <2>2. QED
    BY Zenon, <1>2, <1>7, <2>1 DEF DropContext, ConnLabels
<1>8. CASE Panic(s, c)
  <2>1. Grown("panicked") = active[s] /\ Left("panicked") = permits[s] + 1
    BY SMTT(30), <1>1, <1>8 DEF Panic, Counted, Permitted
  <2>2. QED
    BY Zenon, <1>2, <1>8, <2>1 DEF Panic, ConnLabels
<1>9. QED
  BY Zenon, <1>4, <1>5, <1>6, <1>7, <1>8 DEF ConnStep

\* Every step keeps the counts.
LEMMA CountKept ==
  ASSUME TypeOK, CountInv, [Next]_vars
  PROVE  CountInv'
<1>1. CASE UNCHANGED <<conn, active, permits>>
  BY Zenon, <1>1 DEF CountInv, At
<1>2. ASSUME NEW s \in up, NEW c \in mode.conns, ConnStep(s, c)
      PROVE  CountInv'
  <2>1. s \in Servers /\ c \in Conns
    BY Zenon, ModesAreConfigurations DEF TypeOK
  <2>2. QED
    BY Zenon, <1>2, <2>1, ConnKeepsCount
<1>3. QED
  BY Zenon, <1>1, <1>2, ConnFrame

\* No step leaves a task at work behind a drain that did not time out.
LEMMA DrainKept ==
  ASSUME TypeOK, CountInv, DrainedOrForced, [Next]_vars
  PROVE  DrainedOrForced'
<1> DEFINE Past(s) == pc[s] \in {"stop", "returned"} /\ ~forced[s]
           Still(s) == \A c \in Conns : conn[s][c] \notin {"handshake", "serving"}
<1> SUFFICES ASSUME NEW s \in Servers, Past(s)'
             PROVE  Still(s)'
  BY Zenon DEF DrainedOrForced
<1>1. CASE DrainConnections(s)
  <2>1. active[s] = 0
    <3>1. ~(active[s] > 0)
      BY Zenon, <1>1 DEF DrainConnections, TypeOK
    <3>2. active[s] \in Nat
      BY Zenon, FS_CardinalityType DEF CountInv
    <3>3. QED
      BY SMTT(30), <3>1, <3>2
  <2>2. At(s, Counted) = {}
    BY Zenon, <2>1, FS_EmptySet DEF CountInv
  <2>3. Still(s)
    BY Zenon, <2>2 DEF At, Counted
  <2>4. QED
    BY Zenon, <1>1, <2>3 DEF DrainConnections
<1>2. CASE ~DrainConnections(s)
  <2>1. Past(s)
    BY Zenon, <1>2, RunFrame DEF RunLabels
  <2>2. Still(s)
    BY Zenon, <2>1 DEF DrainedOrForced
  <2>3. CASE UNCHANGED <<conn, active, permits>>
    BY Zenon, <2>2, <2>3
  <2>4. ASSUME NEW t \in up, NEW c \in mode.conns, ConnStep(t, c)
        PROVE  Still(s)'
    <3>1. t \in Servers /\ c \in Conns
      BY Zenon, ModesAreConfigurations DEF TypeOK
    <3>2. PICK label : SetConn(t, c, label) /\ (t = s => label \notin {"handshake", "serving"})
      <4>1. CASE Accept(t, c)
        BY Zenon, <2>1, <4>1 DEF Accept
      <4>2. CASE Handshake(t, c)
        BY Zenon, <2>2, <3>1, <4>2 DEF Handshake
      <4> HIDE DEF Still, Past
      <4>3. CASE HandlerReturns(t, c)
        BY SMTT(30), <4>3 DEF HandlerReturns
      <4>4. CASE DropContext(t, c)
        BY SMTT(30), <4>4 DEF DropContext
      <4>5. CASE Panic(t, c)
        BY SMTT(30), <4>5 DEF Panic
      <4>6. QED
        BY Zenon, <2>4, <4>1, <4>2, <4>3, <4>4, <4>5 DEF ConnStep
    <3>3. CASE t = s
      BY Zenon, <2>2, <3>1, <3>2, <3>3 DEF SetConn, TypeOK
    <3>4. CASE t # s
      BY Zenon, <2>2, <3>1, <3>2, <3>4 DEF SetConn, TypeOK
    <3>5. QED
      BY Zenon, <3>3, <3>4
  <2>5. QED
    BY Zenon, <2>3, <2>4, ConnFrame
<1>3. QED
  BY Zenon, <1>1, <1>2

---------------------------------------------------------------------------
(* The coordination.                                                           *)

\* Registering a server replaces its registration and nothing else.
LEMMA RegisterIs ==
  ASSUME NEW st, IsState(st), NEW v
  PROVE  LET new == Apply(st, [op |-> "RegisterServer", val |-> v]).st
         IN  /\ IsState(new) /\ new.locks = st.locks /\ new.cache_epoch = st.cache_epoch
             /\ new.servers = {r \in st.servers : r.server_id # v.server_id} \cup {v}
<1>0. PICK q, servers : /\ q = [op |-> "RegisterServer", val |-> v]
                        /\ servers = {r \in st.servers : r.server_id # v.server_id} \cup {v}
  BY Zenon
<1>a. q.op = "RegisterServer" /\ q.val = v
  BY Zenon, <1>0
<1>b. Apply(st, q).st = [st EXCEPT !.servers = servers]
  BY Zenon, <1>0, <1>a DEF Apply
<1>1. Apply(st, [op |-> "RegisterServer", val |-> v]).st
        = [st EXCEPT !.servers = {r \in st.servers : r.server_id # v.server_id} \cup {v}]
  BY Zenon, <1>0, <1>b
<1>2. QED
  BY Zenon, <1>1 DEF IsState

\* Unregistering a server leaves the locks alone.
LEMMA UnregisterIs ==
  ASSUME NEW st, IsState(st), NEW v
  PROVE  LET new == Apply(st, [op |-> "UnregisterServer", val |-> v]).st
         IN  IsState(new) /\ new.locks = st.locks
<1> DEFINE new == Apply(st, [op |-> "UnregisterServer", val |-> v]).st
<1>1. PICK servers : new = Bumped([st EXCEPT !.servers = servers])
  BY Zenon DEF Apply
<1> HIDE DEF new
<1>2. IsState(new) /\ new.locks = st.locks
  BY ZenonT(60), <1>1 DEF IsState, Bumped
<1>3. QED
  BY Zenon, <1>2 DEF new

\* The registrations after a heartbeat of server v.
Refreshed(registrations, v, time) ==
  {IF r.server_id = v THEN [r EXCEPT !.last_heartbeat = time] ELSE r : r \in registrations}

\* A heartbeat changes the registrations only.
LEMMA RefreshIs ==
  ASSUME NEW st, IsState(st), NEW v, NEW time
  PROVE  LET new == Apply(st, [op |-> "UpdateHeartbeat", val |-> v, timestamp |-> time]).st
         IN  /\ IsState(new) /\ new.locks = st.locks /\ new.cache_epoch = st.cache_epoch
             /\ new.servers = Refreshed(st.servers, v, time)
<1>1. Apply(st, [op |-> "UpdateHeartbeat", val |-> v, timestamp |-> time]).st
        = [st EXCEPT !.servers = Refreshed(st.servers, v, time)]
  BY ZenonT(60) DEF Apply, Refreshed
<1>2. QED
  BY Zenon, <1>1 DEF IsState

\* What a step does to the state machine of a server: nothing, a request, or
\* something that leaves its locks alone.
LEMMA RaftFrame ==
  ASSUME TypeOK, [Next]_vars, NEW s \in Servers
  PROVE  /\ DOMAIN raft' = Servers
         /\ \/ IsState(raft'[s]) /\ raft'[s].locks = raft[s].locks
            \/ \E q : IsRequest(q) /\ raft'[s] = Apply(raft[s], q).st
<1>1. CASE UNCHANGED raft
  BY Zenon, <1>1 DEF TypeOK
<1>2. ASSUME NEW t \in Servers, NEW q, Applied(t, q)
      PROVE  /\ DOMAIN raft' = Servers /\ raft'[t] = Apply(raft[t], q).st
             /\ \A u \in Servers : u # t => raft'[u] = raft[u]
  BY Zenon, <1>2 DEF Applied, TypeOK
<1>3. up \subseteq Servers
  BY Zenon, ModesAreConfigurations DEF TypeOK
<1>4. CASE Tick
  BY Zenon, <1>1, <1>4 DEF Tick, coordVars
<1>5. ASSUME NEW t \in up, Start(t)
      PROVE  DOMAIN raft' = Servers /\ IsState(raft'[s]) /\ raft'[s].locks = raft[s].locks
  <2>1. CASE mode.coordinated
    <3>1. Applied(t, [op |-> "RegisterServer", val |-> [server_id |-> t, last_heartbeat |-> 0]])
      BY Zenon, <1>5, <2>1 DEF Start
    <3>2. /\ DOMAIN raft' = Servers /\ IsState(raft'[t]) /\ raft'[t].locks = raft[t].locks
          /\ t # s => raft'[s] = raft[s]
      <4>1. IsState(raft[t]) /\ t \in Servers
        BY Zenon, <1>3 DEF TypeOK
      <4> DEFINE new == Apply(raft[t], [op |-> "RegisterServer", val |-> [server_id |-> t, last_heartbeat |-> 0]]).st
      <4>2. IsState(new) /\ new.locks = raft[t].locks
        BY Zenon, <4>1, RegisterIs
      <4>3. DOMAIN raft' = Servers /\ raft'[t] = new /\ \A u \in Servers : u # t => raft'[u] = raft[u]
        BY Zenon, <1>2, <3>1, <4>1
      <4> HIDE DEF new
      <4>4. QED
        BY Zenon, <4>2, <4>3
    <3>3. QED
      BY Zenon, <3>2 DEF TypeOK
  <2>2. CASE ~mode.coordinated
    BY Zenon, <1>5, <2>2 DEF Start, TypeOK
  <2>3. QED
    BY Zenon, <2>1, <2>2
<1>6. ASSUME NEW t \in up, Stop(t) \/ CheckHeartbeats(t)
      PROVE  UNCHANGED raft
  BY Zenon, <1>6 DEF Stop, CheckHeartbeats
<1>7. ASSUME NEW t \in up, Heartbeat(t)
      PROVE  DOMAIN raft' = Servers /\ IsState(raft'[s]) /\ raft'[s].locks = raft[s].locks
  <2>1. CASE stopping[t]
    BY Zenon, <1>7, <2>1 DEF Heartbeat, TypeOK
  <2>2. CASE ~stopping[t]
    <3>1. Applied(t, [op |-> "UpdateHeartbeat", val |-> t, timestamp |-> now])
      BY Zenon, <1>7, <2>2 DEF Heartbeat
    <3>2. /\ DOMAIN raft' = Servers /\ IsState(raft'[t]) /\ raft'[t].locks = raft[t].locks
          /\ t # s => raft'[s] = raft[s]
      <4>1. IsState(raft[t]) /\ t \in Servers
        BY Zenon, <1>3 DEF TypeOK
      <4> DEFINE new == Apply(raft[t], [op |-> "UpdateHeartbeat", val |-> t, timestamp |-> now]).st
      <4>2. IsState(new) /\ new.locks = raft[t].locks
        BY SMTT(30), <4>1, RefreshIs
      <4>3. DOMAIN raft' = Servers /\ raft'[t] = new /\ \A u \in Servers : u # t => raft'[u] = raft[u]
        BY Zenon, <1>2, <3>1, <4>1
      <4> HIDE DEF new
      <4>4. QED
        BY Zenon, <4>2, <4>3
    <3>3. QED
      BY Zenon, <3>2 DEF TypeOK
  <2>3. QED
    BY Zenon, <2>1, <2>2
<1>8. ASSUME NEW t \in up, HandleServerFailure(t)
      PROVE  DOMAIN raft' = Servers /\ IsState(raft'[s]) /\ raft'[s].locks = raft[s].locks
  <2>1. PICK failed : Applied(t, [op |-> "UnregisterServer", val |-> failed])
    BY Zenon, <1>8 DEF HandleServerFailure, Applied
  <2>2. /\ DOMAIN raft' = Servers /\ IsState(raft'[t]) /\ raft'[t].locks = raft[t].locks
        /\ t # s => raft'[s] = raft[s]
    <3>1. IsState(raft[t]) /\ t \in Servers
      BY Zenon, <1>3 DEF TypeOK
    <3> DEFINE new == Apply(raft[t], [op |-> "UnregisterServer", val |-> failed]).st
    <3>2. IsState(new) /\ new.locks = raft[t].locks
      BY Zenon, <3>1, UnregisterIs
    <3>3. DOMAIN raft' = Servers /\ raft'[t] = new /\ \A u \in Servers : u # t => raft'[u] = raft[u]
      BY Zenon, <1>2, <2>1, <3>1
    <3> HIDE DEF new
    <3>4. QED
      BY Zenon, <3>2, <3>3
  <2>3. QED
    BY Zenon, <2>2 DEF TypeOK
<1>9. ASSUME NEW t \in Servers \ mode.servers, NEW q \in mode.requests, Request(t, q)
      PROVE  /\ DOMAIN raft' = Servers
             /\ raft'[s] = raft[s] \/ (IsRequest(q) /\ raft'[s] = Apply(raft[s], q).st)
  <2>1. IsRequest(q)
    BY Zenon, ModesAreConfigurations DEF TypeOK
  <2>2. QED
    BY Zenon, <1>2, <1>9, <2>1 DEF Request
<1>10. QED
  BY Zenon, <1>1, <1>4, <1>5, <1>6, <1>7, <1>8, <1>9, CoordFrame DEF Timer, TypeOK

\* Every step leaves the locks of every state machine free of conflicts.
LEMMA MachineKept ==
  ASSUME TypeOK, MachineInv, [Next]_vars
  PROVE  MachineInv' /\ \A s \in Servers : IsState(raft'[s])
<1>1. ASSUME NEW s \in Servers
      PROVE  IsState(raft'[s]) /\ LocksInv(raft'[s])
  <2>1. IsState(raft[s]) /\ LocksInv(raft[s])
    BY Zenon DEF TypeOK, MachineInv
  <2>2. CASE IsState(raft'[s]) /\ raft'[s].locks = raft[s].locks
    BY Zenon, <2>1, <2>2 DEF LocksInv
  <2>3. ASSUME NEW q, IsRequest(q), raft'[s] = Apply(raft[s], q).st
        PROVE  IsState(raft'[s]) /\ LocksInv(raft'[s])
    BY Zenon, <2>1, <2>3, ApplyKeeps
  <2>4. QED
    BY Zenon, <2>2, <2>3, RaftFrame
<1>2. QED
  BY Zenon, <1>1 DEF MachineInv

\* Every step keeps a prompt server's registration young enough.
LEMMA PromptKept ==
  ASSUME TypeOK, PromptInv, [Next]_vars
  PROVE  PromptInv'
<1>1. mode' = mode /\ up' \subseteq up /\ mode \in Modes /\ mode.servers \subseteq Servers /\ up \subseteq mode.servers
  BY Zenon, ModeFrame, ModesAreConfigurations DEF TypeOK
<1> SUFFICES ASSUME Prompt, NEW s \in mode.servers
             PROVE  OnTime(s)'
  BY Zenon, <1>1 DEF PromptInv, Prompt
<1>2. OnTime(s) /\ s \in Servers
  BY Zenon, <1>1 DEF PromptInv
<1>3. pc'[s] = "new" => pc[s] = "new"
  BY Zenon, <1>2, RunFrame DEF RunLabels, DrainConnections, Goto, TypeOK
<1>4. ASSUME now' = now, raft'[s] = raft[s], stopping'[s] = stopping[s], wake'[s] = wake[s], stale'[s] = stale[s]
      PROVE  OnTime(s)'
  BY Zenon, <1>1, <1>2, <1>3, <1>4 DEF OnTime
<1>5. now \in Int /\ HeartbeatInterval \in Int /\ HeartbeatTimeout \in Int /\ wake[s]["heartbeat"] \in Int /\ mode.delay \in Nat
  BY SMTT(30), <1>1, <1>2, TimesAreNaturals, ModesAreConfigurations DEF TypeOK
<1>6. CASE Tick
  <2>1. now' = now + 1 /\ UNCHANGED <<raft, stopping, wake, stale>> /\ \A t \in up : ~Waiting(t)
    BY Zenon, <1>6 DEF Tick, coordVars
  <2>2. ASSUME NEW r \in raft[s].servers, s \in up, ~stopping[s]
        PROVE  now + 1 <= wake[s]["heartbeat"]
    <3>1. now <= wake[s]["heartbeat"]
      BY Zenon, <1>2, <2>2 DEF OnTime
    <3>2. ~Due(s, "heartbeat")
      BY ZenonT(60), <1>2, <2>1, <2>2 DEF Waiting, Prompt, TypeOK
    <3>3. QED
      BY SMTT(30), <1>5, <3>1, <3>2 DEF Due, TypeOK
  <2>3. QED
    BY Zenon, <1>1, <1>2, <1>3, <2>1, <2>2 DEF OnTime
<1>7. ASSUME NEW t \in up, Start(t)
      PROVE  OnTime(s)'
  <2>1. CASE t # s
    BY Zenon, <1>1, <1>2, <1>4, <1>7, <2>1 DEF Start, Applied, TypeOK
  <2>2. CASE t = s /\ ~mode.coordinated
    BY Zenon, <1>4, <1>7, <2>2 DEF Start
  <2>3. CASE t = s /\ mode.coordinated
    <3> DEFINE v == [server_id |-> s, last_heartbeat |-> 0]
    <3>1. /\ raft'[s] = Apply(raft[s], [op |-> "RegisterServer", val |-> v]).st
          /\ wake'[s] = [heartbeat |-> now + HeartbeatInterval, monitor |-> now + HeartbeatInterval]
          /\ pc[s] = "new" /\ pc'[s] = "bind" /\ now <= mode.delay
      BY Zenon, <1>2, <1>7, <2>3 DEF Start, Applied, Goto, TypeOK
    <3>2. now' = now /\ stopping' = stopping /\ stale' = stale
      BY Zenon, <1>7, <2>3 DEF Start
    <3>3. raft'[s].cache_epoch = 1 /\ raft'[s].servers = {v}
      <4>1. IsState(raft[s]) /\ raft[s].servers = {} /\ raft[s].cache_epoch = 1
        BY Zenon, <1>2, <3>1 DEF TypeOK, OnTime
      <4> DEFINE new == Apply(raft[s], [op |-> "RegisterServer", val |-> v]).st
      <4>2. /\ new.cache_epoch = raft[s].cache_epoch
            /\ new.servers = {r \in raft[s].servers : r.server_id # v.server_id} \cup {v}
        BY ZenonT(60), <4>1, RegisterIs
      <4>3. raft'[s] = new
        BY Zenon, <3>1
      <4> HIDE DEF new, v
      <4>4. QED
        BY Zenon, <4>1, <4>2, <4>3
    <3>4. wake'[s]["heartbeat"] = now + HeartbeatInterval
      BY SMTT(30), <3>1
    <3>5. now <= now + HeartbeatInterval /\ now + HeartbeatInterval <= 0 + HeartbeatTimeout
      BY SMTT(30), <1>5, <3>1, TimesAreNaturals DEF Prompt
    <3>6. v.server_id = s /\ v.last_heartbeat = 0 /\ v.last_heartbeat \in Nat
      BY Zenon
    <3>7. stale'[s] = {} /\ pc'[s] # "new"
      BY Zenon, <1>2, <3>1, <3>2 DEF OnTime
    <3> HIDE DEF v
    <3>8. \A r \in raft'[s].servers :
            /\ r = [server_id |-> s, last_heartbeat |-> r.last_heartbeat] /\ r.last_heartbeat \in Nat
            /\ now' <= wake'[s]["heartbeat"] /\ wake'[s]["heartbeat"] <= r.last_heartbeat + HeartbeatTimeout
      BY Zenon, <3>2, <3>3, <3>4, <3>5, <3>6 DEF v
    <3>9. QED
      BY Zenon, <1>1, <2>3, <3>3, <3>7, <3>8 DEF OnTime
  <2>4. QED
    BY Zenon, <2>1, <2>2, <2>3
<1>8. ASSUME NEW t \in up, Stop(t)
      PROVE  OnTime(s)'
  <2>1. CASE t # s
    BY Zenon, <1>1, <1>2, <1>4, <1>8, <2>1 DEF Stop, TypeOK
  <2>2. CASE t = s
    <3>1. /\ now' = now /\ raft' = raft /\ wake' = wake /\ stale' = stale
          /\ stopping'[s] = mode.coordinated
      BY Zenon, <1>2, <1>8, <2>2 DEF Stop, TypeOK
    <3>2. QED
      BY Zenon, <1>1, <1>2, <1>3, <3>1 DEF OnTime
  <2>3. QED
    BY Zenon, <2>1, <2>2
<1>9. ASSUME NEW t \in up, Heartbeat(t)
      PROVE  OnTime(s)'
  <2>1. CASE t # s
    BY Zenon, <1>1, <1>2, <1>4, <1>9, <2>1 DEF Heartbeat, Sleep, Again, Applied, TypeOK
  <2>2. CASE t = s /\ stopping[s]
    <3>1. now' = now /\ raft' = raft /\ stopping' = stopping /\ stale' = stale
      BY Zenon, <1>9, <2>2 DEF Heartbeat
    <3>2. QED
      BY Zenon, <1>1, <1>2, <1>3, <2>2, <3>1 DEF OnTime
  <2>3. CASE t = s /\ ~stopping[s]
    <3>1. /\ raft'[s] = Apply(raft[s], [op |-> "UpdateHeartbeat", val |-> s, timestamp |-> now]).st
          /\ wake'[s]["heartbeat"] = now + HeartbeatInterval
          /\ now' = now /\ stopping' = stopping /\ stale' = stale
      <4>1. wake' = [wake EXCEPT ![s]["heartbeat"] = now + HeartbeatInterval] /\ wake[s] \in [{"heartbeat", "monitor"} -> Int]
        BY Zenon, <1>2, <1>9, <2>3 DEF Heartbeat, Again, Sleep, TypeOK
      <4>2. wake'[s]["heartbeat"] = now + HeartbeatInterval
        BY Zenon, <1>2, <4>1 DEF TypeOK
      <4>3. QED
        BY Zenon, <1>2, <1>9, <2>3, <4>2 DEF Heartbeat, Applied, TypeOK
    <3>2. /\ raft'[s].cache_epoch = raft[s].cache_epoch
          /\ raft'[s].servers = Refreshed(raft[s].servers, s, now)
      <4>1. IsState(raft[s])
        BY Zenon, <1>2 DEF TypeOK
      <4> DEFINE new == Apply(raft[s], [op |-> "UpdateHeartbeat", val |-> s, timestamp |-> now]).st
      <4>2. /\ new.cache_epoch = raft[s].cache_epoch
            /\ new.servers = Refreshed(raft[s].servers, s, now)
        BY SMTT(30), <4>1, RefreshIs
      <4>3. raft'[s] = new
        BY Zenon, <3>1
      <4> HIDE DEF new
      <4>4. QED
        BY Zenon, <4>2, <4>3
    <3>3. now <= now + HeartbeatInterval /\ now + HeartbeatInterval <= now + HeartbeatTimeout
      BY SMTT(30), <1>5, TimesAreNaturals DEF Prompt
    <3>4. ASSUME NEW r \in raft'[s].servers
          PROVE  r = [server_id |-> s, last_heartbeat |-> r.last_heartbeat] /\ r.last_heartbeat = now
      <4>1. PICK x \in raft[s].servers : r = IF x.server_id = s THEN [x EXCEPT !.last_heartbeat = now] ELSE x
        BY Zenon, <3>2 DEF Refreshed
      <4>2. x = [server_id |-> s, last_heartbeat |-> x.last_heartbeat]
        BY Zenon, <1>2 DEF OnTime
      <4>3. r = [x EXCEPT !.last_heartbeat = now]
        BY SMTT(30), <4>1, <4>2
      <4>4. r = [server_id |-> s, last_heartbeat |-> now]
        BY SMTT(30), <4>2, <4>3
      <4>5. QED
        BY Zenon, <4>4
    <3>5. raft[s].servers = {} => raft'[s].servers = {}
      BY Zenon, <3>2 DEF Refreshed
    <3>6. QED
      BY Zenon, <1>1, <1>2, <1>3, <3>1, <3>2, <3>3, <3>4, <3>5 DEF OnTime, TypeOK
  <2>4. QED
    BY Zenon, <2>1, <2>2, <2>3
<1>10. ASSUME NEW t \in up, CheckHeartbeats(t)
      PROVE  OnTime(s)'
  <2>1. CASE t # s
    BY Zenon, <1>1, <1>2, <1>4, <1>10, <2>1 DEF CheckHeartbeats, Sleep, Again, TypeOK
  <2>2. CASE t = s
    <3>1. now' = now /\ raft' = raft /\ stopping' = stopping /\ wake'[s]["heartbeat"] = wake[s]["heartbeat"]
      <4>1. PICK time : wake' = [wake EXCEPT ![s]["monitor"] = time] \/ wake' = wake
        BY Zenon, <1>10, <2>2 DEF CheckHeartbeats, Sleep, Again
      <4>2. wake[s] \in [{"heartbeat", "monitor"} -> Int]
        BY Zenon, <1>2 DEF TypeOK
      <4>3. wake'[s]["heartbeat"] = wake[s]["heartbeat"]
        BY ZenonT(60), <1>2, <4>1, <4>2 DEF TypeOK
      <4>4. QED
        BY Zenon, <1>10, <2>2, <4>3 DEF CheckHeartbeats
    <3>2. stale'[s] = {}
      <4>1. CASE stopping[s]
        BY Zenon, <1>2, <1>10, <2>2, <4>1 DEF CheckHeartbeats, OnTime
      <4>2. CASE ~stopping[s]
        <5>1. stale'[s] = GetStaleServers(raft[s], Threshold)
          BY Zenon, <1>2, <1>10, <2>2, <4>2 DEF CheckHeartbeats, TypeOK
        <5>2. ASSUME NEW r \in raft[s].servers, r.last_heartbeat < Threshold
              PROVE  FALSE
          <6>1. r.last_heartbeat \in Nat /\ now <= wake[s]["heartbeat"] /\ wake[s]["heartbeat"] <= r.last_heartbeat + HeartbeatTimeout
            BY Zenon, <1>2, <2>2, <4>2 DEF OnTime
          <6>2. QED
            BY SMTT(30), <1>5, <5>2, <6>1 DEF Threshold
        <5>3. QED
          BY Zenon, <5>1, <5>2 DEF GetStaleServers
      <4>3. QED
        BY Zenon, <4>1, <4>2
    <3>3. QED
      BY Zenon, <1>1, <1>2, <1>3, <3>1, <3>2 DEF OnTime
  <2>3. QED
    BY Zenon, <2>1, <2>2
<1>11. ASSUME NEW t \in up, HandleServerFailure(t)
      PROVE  OnTime(s)'
  <2>1. t # s
    BY Zenon, <1>2, <1>11 DEF HandleServerFailure, OnTime
  <2>2. QED
    BY ZenonT(60), <1>1, <1>2, <1>4, <1>11, <2>1 DEF HandleServerFailure, Sleep, TypeOK
<1>12. ASSUME NEW t \in Servers \ mode.servers, NEW q \in mode.requests, Request(t, q)
      PROVE  OnTime(s)'
  BY Zenon, <1>2, <1>4, <1>12 DEF Request, Applied, TypeOK
<1>13. CASE UNCHANGED <<now, raft, stopping, wake, stale>>
  BY Zenon, <1>4, <1>13
<1>14. QED
  BY Zenon, <1>6, <1>7, <1>8, <1>9, <1>10, <1>11, <1>12, <1>13, CoordFrame DEF Timer

---------------------------------------------------------------------------
(* The types, and the theorems.                                                *)

\* Every step keeps the type invariant.
LEMMA TypeKept ==
  ASSUME TypeOK, MachineInv, [Next]_vars
  PROVE  TypeOK'
<1>1. mode' \in Modes /\ up' \subseteq mode'.servers /\ up \subseteq Servers /\ mode.conns \subseteq Conns
  BY Zenon, ModeFrame, ModesAreConfigurations DEF TypeOK
<1>2. \A s \in Servers : IsState(raft'[s])
  BY Zenon, MachineKept
<1>3. UNCHANGED <<conn, active, permits>> \/ \E s \in up : \E c \in mode.conns : ConnStep(s, c)
  BY Zenon, ConnFrame
<1>4. conn' \in [Servers -> [Conns -> ConnLabels]] /\ active' \in [Servers -> Int] /\ permits' \in [Servers -> Nat]
  <2>1. CASE UNCHANGED <<conn, active, permits>>
    BY Zenon, <2>1 DEF TypeOK
  <2>2. ASSUME NEW s \in up, NEW c \in mode.conns, ConnStep(s, c)
        PROVE  conn' \in [Servers -> [Conns -> ConnLabels]] /\ active' \in [Servers -> Int] /\ permits' \in [Servers -> Nat]
    <3>1. s \in Servers /\ c \in Conns
      BY Zenon, <1>1
    <3>2. active[s] + 1 \in Int /\ active[s] - 1 \in Int /\ permits[s] + 1 \in Nat /\ (permits[s] # 0 => permits[s] - 1 \in Nat)
      BY SMTT(30), <3>1 DEF TypeOK
    <3>3. \A label \in ConnLabels : SetConn(s, c, label) => conn' \in [Servers -> [Conns -> ConnLabels]]
      BY SMTT(30), <3>1 DEF TypeOK, SetConn
    <3>4. CASE Accept(s, c)
      <4>1. PICK label \in {"rejected", "handshake", "serving"} : SetConn(s, c, label)
        BY Zenon, <3>4 DEF Accept
      <4>2. conn' \in [Servers -> [Conns -> ConnLabels]]
        BY Zenon, <3>3, <4>1 DEF ConnLabels
      <4>3. UNCHANGED <<active, permits>> \/ /\ active' = [active EXCEPT ![s] = active[s] + 1] /\ permits[s] # 0
                                              /\ permits' = [permits EXCEPT ![s] = permits[s] - 1]
        BY Zenon, <3>4 DEF Accept
      <4>4. active \in [Servers -> Int] /\ permits \in [Servers -> Nat]
        BY Zenon DEF TypeOK
      <4>5. QED
        BY Zenon, <3>1, <3>2, <4>2, <4>3, <4>4
    <3>5. CASE Handshake(s, c)
      BY ZenonT(60), <3>1, <3>2, <3>3, <3>5 DEF Handshake, TypeOK, ConnLabels
    <3>6. CASE HandlerReturns(s, c)
      BY Zenon, <3>1, <3>2, <3>3, <3>6 DEF HandlerReturns, TypeOK, ConnLabels
    <3>7. CASE DropContext(s, c)
      BY Zenon, <3>1, <3>2, <3>3, <3>7 DEF DropContext, TypeOK, ConnLabels
    <3>8. CASE Panic(s, c)
      BY Zenon, <3>1, <3>2, <3>3, <3>8 DEF Panic, TypeOK, ConnLabels
    <3>9. QED
      BY Zenon, <2>2, <3>4, <3>5, <3>6, <3>7, <3>8 DEF ConnStep
  <2>3. QED
    BY Zenon, <1>3, <2>1, <2>2
<1>5. /\ pc' \in [Servers -> RunLabels]
      /\ shutdown' \in [Servers -> BOOLEAN] /\ forced' \in [Servers -> BOOLEAN]
  <2> DEFINE Goal == pc' \in [Servers -> RunLabels] /\ shutdown' \in [Servers -> BOOLEAN] /\ forced' \in [Servers -> BOOLEAN]
             Same == UNCHANGED <<pc, shutdown, forced>>
  <2>1. Same => Goal
    BY Zenon DEF TypeOK
  <2>2. CASE UNCHANGED vars \/ Tick
    BY Zenon, <2>1, <2>2 DEF vars, Tick, serverVars
  <2>3. ASSUME NEW t \in up, CoordStep(t)
        PROVE  Same
    BY Zenon, <2>3 DEF CoordStep, Timer, Listen, Heartbeat, CheckHeartbeats, HandleServerFailure, EpochChanged, ServerFailed,
                       DeleteLeases, ReleaseLocks, InvalidateAll, Subscribe, serverVars
  <2>4. ASSUME NEW t \in up, NEW c \in mode.conns, ConnStep(t, c) \/ \E r \in {"lease", "lock"} : Serve(t, c, r)
        PROVE  Same
    BY Zenon, <2>4 DEF ConnStep, Accept, Handshake, HandlerReturns, DropContext, Panic, Serve, serverVars
  <2>5. ASSUME NEW t, (\E q : Request(t, q)) \/ Crash(t)
        PROVE  Same
    BY Zenon, <2>5 DEF Request, Crash, serverVars
  <2>6. ASSUME NEW t \in up, Shutdown(t)
        PROVE  Goal
    BY Zenon, <2>6 DEF Shutdown, TypeOK
  <2>7. ASSUME NEW t \in up, Start(t) \/ Bind(t) \/ CreateTlsAcceptor(t) \/ Break(t) \/ Stop(t)
        PROVE  Goal
    BY ZenonT(60), <2>7 DEF Start, Bind, CreateTlsAcceptor, Break, Stop, Goto, TypeOK, RunLabels
  <2>8. ASSUME NEW t \in up, DrainConnections(t)
        PROVE  Goal
    <3>1. (active[t] > 0) \in BOOLEAN
      BY SMTT(30)
    <3>2. QED
      BY Zenon, <2>8, <3>1 DEF DrainConnections, Goto, TypeOK, RunLabels
  <2>9. QED
    BY Zenon, <2>1, <2>2, <2>3, <2>4, <2>5, <2>6, <2>7, <2>8 DEF Next, RunStep
<1>6. now' \in Nat /\ stopping' \in [Servers -> BOOLEAN] /\ wake' \in [Servers -> [{"heartbeat", "monitor"} -> Int]]
      /\ DOMAIN stale' = Servers /\ DOMAIN raft' = Servers
  <2> DEFINE Goal == /\ now' \in Nat /\ stopping' \in [Servers -> BOOLEAN]
                     /\ wake' \in [Servers -> [{"heartbeat", "monitor"} -> Int]]
                     /\ DOMAIN stale' = Servers /\ DOMAIN raft' = Servers
  <2>1. now + 1 \in Nat /\ now + HeartbeatInterval \in Int /\ Never \in Int
    BY SMTT(30), TimesAreNaturals DEF TypeOK, Never
  <2>2. ASSUME NEW s \in Servers, NEW task \in {"heartbeat", "monitor"}, NEW time \in Int, Sleep(s, task, time)
        PROVE  wake' \in [Servers -> [{"heartbeat", "monitor"} -> Int]]
    BY Zenon, <2>2 DEF Sleep, TypeOK
  <2>3. CASE UNCHANGED <<now, raft, stopping, wake, stale>>
    BY Zenon, <2>3 DEF TypeOK
  <2>4. CASE Tick
    BY Zenon, <2>1, <2>4 DEF Tick, coordVars, TypeOK
  <2>5. ASSUME NEW s \in up, Start(s)
        PROVE  Goal
    <3>1. [heartbeat |-> now + HeartbeatInterval, monitor |-> now + HeartbeatInterval] \in [{"heartbeat", "monitor"} -> Int]
      BY SMTT(30), <2>1
    <3>2. QED
      BY Zenon, <2>5, <3>1 DEF Start, Applied, TypeOK
  <2>6. ASSUME NEW s \in up, Stop(s)
        PROVE  Goal
    <3>1. mode.coordinated \in BOOLEAN
      BY Zenon, ModesAreConfigurations DEF TypeOK
    <3>2. QED
      BY Zenon, <2>6, <3>1 DEF Stop, TypeOK
  <2>7. ASSUME NEW s \in up, Heartbeat(s)
        PROVE  Goal
    BY Zenon, <1>1, <2>1, <2>2, <2>7 DEF Heartbeat, Again, Applied, TypeOK
  <2>8. ASSUME NEW s \in up, CheckHeartbeats(s)
        PROVE  Goal
    BY Zenon, <1>1, <2>1, <2>2, <2>8 DEF CheckHeartbeats, Again, TypeOK
  <2>9. ASSUME NEW s \in up, HandleServerFailure(s)
        PROVE  Goal
    <3>1. wake[s].monitor \in Int
      BY Zenon, <1>1 DEF TypeOK
    <3>2. QED
      BY ZenonT(60), <1>1, <2>1, <2>2, <2>9, <3>1 DEF HandleServerFailure, TypeOK
  <2>10. ASSUME NEW s \in Servers, NEW q, Request(s, q)
        PROVE  Goal
    BY Zenon, <2>10 DEF Request, Applied, TypeOK
  <2>11. QED
    BY Zenon, <2>3, <2>4, <2>5, <2>6, <2>7, <2>8, <2>9, <2>10, CoordFrame DEF Timer
<1>7. QED
  BY Zenon, <1>1, <1>2, <1>4, <1>5, <1>6 DEF TypeOK

\* The invariant holds at the start.
LEMMA InitInv ==
  ASSUME Init
  PROVE  Inv
<1>1. TypeOK
  <2>1. Idle \in [{"heartbeat", "monitor"} -> Int] /\ 0 \in Nat /\ 0 \in Int /\ MaxConnections \in Nat
    BY SMTT(30), TimesAreNaturals DEF Idle, Never
  <2>2. IsState(Default)
    BY Zenon DEF IsState, Default
  <2>3. QED
    BY Zenon, <2>1, <2>2 DEF Init, TypeOK, RunLabels, ConnLabels
<1>2. CountInv
  <2>1. \A s \in Servers : At(s, Counted) = {} /\ At(s, Permitted) = {}
    <3>1. "none" \notin Counted /\ "none" \notin Permitted
      BY Zenon DEF Counted, Permitted
    <3>2. QED
      BY Zenon, <3>1 DEF Init, At
  <2>2. MaxConnections - MaxConnections = 0
    BY SMTT(30), TimesAreNaturals
  <2>3. QED
    BY Zenon, <2>1, <2>2, FS_EmptySet DEF Init, CountInv
<1>3. DrainedOrForced
  BY Zenon DEF Init, DrainedOrForced
<1>4. Default.cache_epoch = 1 /\ Default.servers = {} /\ Default.locks = {}
  BY Zenon DEF Default
<1>5. PromptInv
  <2>1. mode.servers \subseteq Servers
    BY Zenon, ModesAreConfigurations DEF Init
  <2>2. QED
    BY Zenon, <1>4, <2>1 DEF Init, PromptInv, OnTime
<1>6. MachineInv
  BY Zenon, <1>4 DEF Init, MachineInv, LocksInv
<1>7. QED
  BY Zenon, <1>1, <1>2, <1>3, <1>5, <1>6 DEF Inv

\* The inductive invariant: the counts, the drain, the timing of the heartbeats
\* and the locks of the state machines, for any servers, connections, times and
\* requests.
THEOREM EmbeddedServerInv == Spec => []Inv
<1>1. Init => Inv
  BY Zenon, InitInv
<1>2. Inv /\ [Next]_vars => Inv'
  BY Zenon, TypeKept, CountKept, DrainKept, PromptKept, MachineKept DEF Inv
<1>3. QED
  BY <1>1, <1>2, PTL DEF Spec

\* active_connections counts the connection tasks, and the permits taken are
\* the tasks that have not yet dropped their context.
THEOREM ConnectionsCounted == Spec => []CountMatches
<1>1. Inv => CountMatches
  BY Zenon DEF Inv, CountInv, CountMatches, At, Counted, Permitted
<1>2. QED
  BY <1>1, EmbeddedServerInv, PTL

\* run() gets past the drain with a connection at work only when the drain has
\* timed out.
THEOREM DrainIsComplete == Spec => []DrainedOrForced
<1>1. Inv => DrainedOrForced
  BY Zenon DEF Inv
<1>2. QED
  BY <1>1, EmbeddedServerInv, PTL

\* A server whose timers are on time and that is started soon after it is made
\* is never taken for failed by its coordinator.
THEOREM PromptServersKept == Spec => []PromptNeverFailed
<1>1. Inv => PromptNeverFailed
  BY Zenon DEF Inv, PromptInv, Prompt, OnTime, PromptNeverFailed
<1>2. QED
  BY <1>1, EmbeddedServerInv, PTL

\* What the state machine grants, leases and locks, never conflicts.
THEOREM CoordinatorGrants == Spec => []CoordGrantsCompatible
<1>1. Inv => GrantedNeverConflicts
  BY Zenon, GrantSparesLeases DEF GrantedNeverConflicts
<1>2. Inv => CoordLocksCompatible
  BY ZenonT(60), LocksApart DEF Inv, MachineInv, LocksInv, CoordLocksCompatible
<1>3. QED
  BY <1>1, <1>2, EmbeddedServerInv, PTL DEF CoordGrantsCompatible
==============================================================================
