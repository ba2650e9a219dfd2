--------------------------- MODULE EmbeddedServer ---------------------------
(* The life of SMB servers that run with an embedded coordinator:              *)
(* SmbServer::run (rustsmb-server/src/server.rs) with its accept loop,         *)
(* connection tasks, drain and shutdown; ServerCoordination                    *)
(* (rustsmb-server/src/coordination.rs) with its heartbeat task and its two    *)
(* listeners; RaftCoordinator (rustsmb-coord-raft/src/lib.rs) with its         *)
(* heartbeat monitor. ServerCoordination::new gives every server a             *)
(* RaftCoordinator of its own, also when an external endpoint is configured;   *)
(* what the servers share is the state store.                                  *)
(*                                                                             *)
(* Time is in whole seconds, as in current_timestamp. A task that sleeps wakes *)
(* when its time has come or, in a mode with late timers, any time after. What *)
(* is kept of the state store is the resources ("lease", "lock") of each       *)
(* server; Coordination and CachedStore have the caches in detail.             *)
EXTENDS CoordState, Sequences

CONSTANTS
  Servers, Conns,
  MaxConnections,      \* config.max_connections
  HeartbeatInterval,   \* of the heartbeat task and of the monitor
  HeartbeatTimeout,
  DrainTimeout,
  Modes,               \* [servers, conns, coordinated, tls, late, panics, faults, crashes, delay, end,
                       \* requests]: who takes part, the configuration, the faults, the seconds from
                       \* new() to run(), when the clock stops (once no server is draining), and the
                       \* requests applied to the state machine
  MaxRequests

ASSUME TimesAreNaturals ==
  /\ MaxConnections \in Nat /\ HeartbeatInterval \in Nat \ {0} /\ HeartbeatTimeout \in Nat
  /\ DrainTimeout \in Nat /\ U64Max \in Nat

ASSUME ModesAreConfigurations ==
  \A m \in Modes :
    /\ m.servers \subseteq Servers /\ m.conns \subseteq Conns
    /\ {m.coordinated, m.tls, m.late, m.panics, m.faults, m.crashes} \subseteq BOOLEAN
    /\ m.delay \in Nat /\ m.end \in Nat
    /\ \A q \in m.requests : IsRequest(q)

VARIABLES
  now,
  pc,           \* where run() is: "new", "bind", "tls", "accept", "drain", "stop", "returned", "error"
  shutdown,     \* SmbServer.shutdown
  active,       \* active_connections
  permits,      \* available permits of connection_semaphore
  conn,         \* the task of each connection
  drain_start,
  raft,         \* the CoordinationState of the server's RaftCoordinator
  stopping,     \* ServerCoordination.shutdown and RaftCoordinator.shutdown
  wake,         \* when the heartbeat task and the monitor wake; Never when not running
  stale,        \* servers the monitor still has to fail in this round
  listening,    \* the listener tasks that have subscribed: a subset of {"epoch", "failure"}
  epochs, failures,  \* what the two broadcast channels hold for the listeners
  cleaning,     \* what the failure listener does next: "none", "leases", "locks", "invalidate"
  cache_epoch,  \* current_epoch of the cached store
  owned,        \* the shared store: the resources of each server in it
  up,           \* the servers that have not crashed
  mode, requests,
  forced,       \* history: the drain of this server timed out
  skipped       \* history: a call of the cleanup failed

serverVars == <<pc, shutdown, active, permits, conn, drain_start, forced>>
coordVars == <<raft, stopping, wake, stale, listening, epochs, failures, cleaning, cache_epoch, skipped>>
rest == <<mode, up>>
vars == <<now, serverVars, coordVars, owned, requests, rest>>

Never == -1
Idle == [heartbeat |-> Never, monitor |-> Never]

Init ==
  /\ mode \in Modes
  /\ now = 0 /\ requests = 0 /\ up = mode.servers
  /\ pc = [s \in Servers |-> "new"]
  /\ shutdown = [s \in Servers |-> FALSE]
  /\ active = [s \in Servers |-> 0]
  /\ permits = [s \in Servers |-> MaxConnections]
  /\ conn = [s \in Servers |-> [c \in Conns |-> "none"]]
  /\ drain_start = [s \in Servers |-> 0]
  /\ forced = [s \in Servers |-> FALSE]
  /\ raft = [s \in Servers |-> Default]
  /\ stopping = [s \in Servers |-> FALSE]
  /\ wake = [s \in Servers |-> Idle]
  /\ stale = [s \in Servers |-> {}]
  /\ listening = [s \in Servers |-> {}]
  /\ epochs = [s \in Servers |-> <<>>] /\ failures = [s \in Servers |-> <<>>]
  /\ cleaning = [s \in Servers |-> "none"]
  /\ cache_epoch = [s \in Servers |-> 1]
  /\ owned = [s \in Servers |-> {}]
  /\ skipped = [s \in Servers |-> FALSE]

Applied(s, q) == raft' = [raft EXCEPT ![s] = Apply(@, q).st]

---------------------------------------------------------------------------
(* SmbServer::run.                                                            *)

Goto(s, label) == pc' = [pc EXCEPT ![s] = label]

(* ServerCoordination::start registers the server with the time at which new() *)
(* made the registration, and spawns the tasks. With an embedded coordinator   *)
(* it cannot fail.                                                             *)
Start(s) ==
  /\ pc[s] = "new" /\ now <= mode.delay
  /\ Goto(s, "bind")
  /\ IF mode.coordinated
       THEN /\ Applied(s, [op |-> "RegisterServer", val |-> [server_id |-> s, last_heartbeat |-> 0]])
            /\ wake' = [wake EXCEPT ![s] = [heartbeat |-> now + HeartbeatInterval, monitor |-> now + HeartbeatInterval]]
       ELSE UNCHANGED <<raft, wake>>
  /\ UNCHANGED <<now, shutdown, active, permits, conn, drain_start, forced, stopping, stale, listening, epochs,
                 failures, cleaning, cache_epoch, skipped, owned, requests, rest>>

(* A failure to bind or to set up TLS returns at once.                         *)
Bind(s) ==
  /\ pc[s] = "bind"
  /\ Goto(s, IF mode.tls THEN "tls" ELSE "accept") \/ Goto(s, "error")
  /\ UNCHANGED <<now, shutdown, active, permits, conn, drain_start, forced, coordVars, owned, requests, rest>>

CreateTlsAcceptor(s) ==
  /\ pc[s] = "tls"
  /\ Goto(s, "accept") \/ Goto(s, "error")
  /\ UNCHANGED <<now, shutdown, active, permits, conn, drain_start, forced, coordVars, owned, requests, rest>>

(* ctrl-c, or a call of shutdown().                                            *)
Shutdown(s) ==
  /\ ~shutdown[s]
  /\ shutdown' = [shutdown EXCEPT ![s] = TRUE]
  /\ UNCHANGED <<now, pc, active, permits, conn, drain_start, forced, coordVars, owned, requests, rest>>

SetConn(s, c, label) == conn' = [conn EXCEPT ![s][c] = label]

(* A client connects.                                                          *)
MutantAccept(s, c) ==
  /\ pc[s] = "accept" /\ conn[s][c] = "none"
  /\ IF shutdown[s] \/ permits[s] = 0
       THEN SetConn(s, c, "rejected") /\ UNCHANGED <<active, permits>>
       ELSE /\ SetConn(s, c, "handshake")
            /\ permits' = [permits EXCEPT ![s] = @ - 1]
            /\ UNCHANGED active
  /\ UNCHANGED <<now, pc, shutdown, drain_start, forced, coordVars, owned, requests, rest>>
Accept(s, c) ==
  /\ pc[s] = "accept" /\ conn[s][c] = "none"
  /\ IF shutdown[s] \/ permits[s] = 0
       THEN SetConn(s, c, "rejected") /\ UNCHANGED <<active, permits>>
       ELSE /\ SetConn(s, c, IF mode.tls THEN "handshake" ELSE "serving")
            /\ permits' = [permits EXCEPT ![s] = @ - 1]
            /\ active' = [active EXCEPT ![s] = @ + 1]
  /\ UNCHANGED <<now, pc, shutdown, drain_start, forced, coordVars, owned, requests, rest>>

(* wait_for_shutdown wins the select.                                          *)
Break(s) ==
  /\ pc[s] = "accept" /\ shutdown[s]
  /\ Goto(s, "drain")
  /\ drain_start' = [drain_start EXCEPT ![s] = now]
  /\ UNCHANGED <<now, shutdown, active, permits, conn, forced, coordVars, owned, requests, rest>>

(* drain_connections: polls until there is none or the time is up.             *)
MutantDrainConnections(s) ==
  /\ pc[s] = "drain"
  /\ active[s] = 0
  /\ Goto(s, "stop")
  /\ UNCHANGED <<now, shutdown, active, permits, conn, drain_start, forced, coordVars, owned, requests, rest>>
DrainConnections(s) ==
  /\ pc[s] = "drain"
  /\ active[s] = 0 \/ now - drain_start[s] > DrainTimeout
  /\ forced' = [forced EXCEPT ![s] = active[s] > 0]
  /\ Goto(s, "stop")
  /\ UNCHANGED <<now, shutdown, active, permits, conn, drain_start, coordVars, owned, requests, rest>>

(* ServerCoordination::stop; leave_cluster of the embedded coordinator does    *)
(* nothing.                                                                    *)
Stop(s) ==
  /\ pc[s] = "stop"
  /\ Goto(s, "returned")
  /\ stopping' = [stopping EXCEPT ![s] = mode.coordinated]
  /\ UNCHANGED <<now, shutdown, active, permits, conn, drain_start, forced, raft, wake, stale, listening, epochs,
                 failures, cleaning, cache_epoch, skipped, owned, requests, rest>>

---------------------------------------------------------------------------
(* A connection task. Its permit is given back when its context is dropped,   *)
(* at the end of the task.                                                    *)

Handshake(s, c) ==
  /\ conn[s][c] = "handshake"
  /\ \/ SetConn(s, c, "serving") /\ UNCHANGED active
     \/ SetConn(s, c, "ending") /\ active' = [active EXCEPT ![s] = @ - 1]
  /\ UNCHANGED <<now, pc, shutdown, permits, drain_start, forced, coordVars, owned, requests, rest>>

(* A request of the client takes a lease or a lock.                            *)
Serve(s, c, r) ==
  /\ conn[s][c] = "serving" /\ mode.coordinated /\ r \notin owned[s]
  /\ owned' = [owned EXCEPT ![s] = @ \cup {r}]
  /\ UNCHANGED <<now, serverVars, coordVars, requests, rest>>

(* handler.run() returns.                                                      *)
HandlerReturns(s, c) ==
  /\ conn[s][c] = "serving"
  /\ SetConn(s, c, "ending")
  /\ active' = [active EXCEPT ![s] = @ - 1]
  /\ UNCHANGED <<now, pc, shutdown, permits, drain_start, forced, coordVars, owned, requests, rest>>

DropContext(s, c) ==
  /\ conn[s][c] = "ending"
  /\ SetConn(s, c, "ended")
  /\ permits' = [permits EXCEPT ![s] = @ + 1]
  /\ UNCHANGED <<now, pc, shutdown, active, drain_start, forced, coordVars, owned, requests, rest>>

(* A panic in handler.run() unwinds the task: the permit goes, the count stays. *)
Panic(s, c) ==
  /\ mode.panics /\ conn[s][c] = "serving"
  /\ SetConn(s, c, "panicked")
  /\ permits' = [permits EXCEPT ![s] = @ + 1]
  /\ UNCHANGED <<now, pc, shutdown, active, drain_start, forced, coordVars, owned, requests, rest>>

---------------------------------------------------------------------------
(* The tasks of the coordination. A task that finds its shutdown flag ends.    *)

Due(s, task) == wake[s][task] \in 0 .. now
Sleep(s, task, time) == wake' = [wake EXCEPT ![s][task] = time]
Again(s, task) == Sleep(s, task, now + HeartbeatInterval)

Subscribe(s, stream) ==
  /\ wake[s] # Idle /\ stream \notin listening[s]
  /\ listening' = [listening EXCEPT ![s] = @ \cup {stream}]
  /\ UNCHANGED <<now, serverVars, raft, stopping, wake, stale, epochs, failures, cleaning, cache_epoch, skipped, owned,
                 requests, rest>>

(* A heartbeat of a server that is not registered is accepted and changes      *)
(* nothing.                                                                    *)
Heartbeat(s) ==
  /\ Due(s, "heartbeat")
  /\ IF stopping[s]
       THEN Sleep(s, "heartbeat", Never) /\ UNCHANGED raft
       ELSE /\ Applied(s, [op |-> "UpdateHeartbeat", val |-> s, timestamp |-> now])
            /\ Again(s, "heartbeat")
  /\ UNCHANGED <<now, serverVars, stopping, stale, listening, epochs, failures, cleaning, cache_epoch, skipped, owned,
                 requests, rest>>

(* check_heartbeats reads the stale servers and then fails them one by one.    *)
Threshold == IF now > HeartbeatTimeout THEN now - HeartbeatTimeout ELSE 0
CheckHeartbeats(s) ==
  /\ Due(s, "monitor") /\ stale[s] = {}
  /\ IF stopping[s]
       THEN Sleep(s, "monitor", Never) /\ UNCHANGED stale
       ELSE /\ stale' = [stale EXCEPT ![s] = GetStaleServers(raft[s], Threshold)]
            /\ IF stale'[s] = {} THEN Again(s, "monitor") ELSE UNCHANGED wake
  /\ UNCHANGED <<now, serverVars, raft, stopping, listening, epochs, failures, cleaning, cache_epoch, skipped, owned,
                 requests, rest>>

Broadcast(s, stream, queue, event) == IF stream \in listening[s] THEN Append(queue, event) ELSE queue

(* handle_server_failure: a broadcast reaches those who have subscribed.       *)
HandleServerFailure(s) ==
  \E failed \in stale[s] :
    LET done == Apply(raft[s], [op |-> "UnregisterServer", val |-> failed])
    IN  /\ raft' = [raft EXCEPT ![s] = done.st]
        /\ failures' = [failures EXCEPT ![s] = Broadcast(s, "failure", @, failed)]
        /\ epochs' = [epochs EXCEPT ![s] = Broadcast(s, "epoch", @, done.ret)]
        /\ stale' = [stale EXCEPT ![s] = @ \ {failed}]
        /\ Sleep(s, "monitor", IF stale'[s] = {} THEN now + HeartbeatInterval ELSE wake[s].monitor)
        /\ UNCHANGED <<now, serverVars, stopping, listening, cleaning, cache_epoch, skipped, owned, requests, rest>>

(* The epoch listener; when the flag is set it drops the event and ends.       *)
EpochChanged(s) ==
  /\ epochs[s] # <<>>
  /\ IF stopping[s]
       THEN epochs' = [epochs EXCEPT ![s] = <<>>] /\ UNCHANGED cache_epoch
       ELSE /\ epochs' = [epochs EXCEPT ![s] = Tail(@)]
            /\ cache_epoch' = [cache_epoch EXCEPT ![s] = Head(epochs[s])]
  /\ UNCHANGED <<now, serverVars, raft, stopping, wake, stale, listening, failures, cleaning, skipped, owned,
                 requests, rest>>

(* The failure listener: two calls of the store, then invalidate_all. An error *)
(* is logged. The event stays at the head of its queue until it is dealt with. *)
ServerFailed(s) ==
  /\ failures[s] # <<>> /\ cleaning[s] = "none"
  /\ IF stopping[s]
       THEN failures' = [failures EXCEPT ![s] = <<>>] /\ UNCHANGED cleaning
       ELSE cleaning' = [cleaning EXCEPT ![s] = "leases"] /\ UNCHANGED failures
  /\ UNCHANGED <<now, serverVars, raft, stopping, wake, stale, listening, epochs, cache_epoch, skipped, owned,
                 requests, rest>>

Removed(s, r) ==
  \/ owned' = [owned EXCEPT ![Head(failures[s])] = @ \ {r}] /\ UNCHANGED skipped
  \/ mode.faults /\ skipped' = [skipped EXCEPT ![s] = TRUE] /\ UNCHANGED owned

MutantDeleteLeases(s) ==
  /\ cleaning[s] = "leases"
  /\ Removed(s, "lease")
  /\ cleaning' = [cleaning EXCEPT ![s] = IF skipped'[s] THEN "invalidate" ELSE "locks"]
  /\ UNCHANGED <<now, serverVars, raft, stopping, wake, stale, listening, epochs, failures, cache_epoch, requests, rest>>
DeleteLeases(s) ==
  /\ cleaning[s] = "leases"
  /\ Removed(s, "lease")
  /\ cleaning' = [cleaning EXCEPT ![s] = "locks"]
  /\ UNCHANGED <<now, serverVars, raft, stopping, wake, stale, listening, epochs, failures, cache_epoch, requests, rest>>

ReleaseLocks(s) ==
  /\ cleaning[s] = "locks"
  /\ Removed(s, "lock")
  /\ cleaning' = [cleaning EXCEPT ![s] = "invalidate"]
  /\ UNCHANGED <<now, serverVars, raft, stopping, wake, stale, listening, epochs, failures, cache_epoch, requests, rest>>

InvalidateAll(s) ==
  /\ cleaning[s] = "invalidate"
  /\ cleaning' = [cleaning EXCEPT ![s] = "none"]
  /\ failures' = [failures EXCEPT ![s] = Tail(@)]
  /\ UNCHANGED <<now, serverVars, raft, stopping, wake, stale, listening, epochs, cache_epoch, skipped, owned,
                 requests, rest>>

---------------------------------------------------------------------------
(* The state machine also has leases and locks, which nothing in the server    *)
(* asks for: any request may come to a coordinator that stands by itself.      *)
Request(s, q) ==
  /\ requests < MaxRequests
  /\ Applied(s, q)
  /\ requests' = requests + 1
  /\ UNCHANGED <<now, serverVars, stopping, wake, stale, listening, epochs, failures, cleaning, cache_epoch, skipped,
                 owned, rest>>

Crash(s) ==
  /\ mode.crashes /\ up = mode.servers
  /\ up' = up \ {s}
  /\ UNCHANGED <<now, serverVars, coordVars, owned, requests, mode>>

(* The clock. Timers are late only in a mode that says so.                     *)
Waiting(s) == \/ pc[s] = "new" /\ now >= mode.delay
              \/ ~mode.late /\ (stale[s] # {} \/ \E task \in DOMAIN wake[s] : Due(s, task))
Tick ==
  /\ now < mode.end \/ \E s \in up : pc[s] = "drain" /\ now - drain_start[s] <= DrainTimeout
  /\ \A s \in up : ~Waiting(s)
  /\ now' = now + 1
  /\ UNCHANGED <<serverVars, coordVars, owned, requests, rest>>

RunStep(s) == Start(s) \/ Bind(s) \/ CreateTlsAcceptor(s) \/ Break(s) \/ DrainConnections(s) \/ Stop(s)
ConnStep(s, c) == Accept(s, c) \/ Handshake(s, c) \/ HandlerReturns(s, c) \/ DropContext(s, c) \/ Panic(s, c)
Timer(s) == Heartbeat(s) \/ CheckHeartbeats(s) \/ HandleServerFailure(s)
Listen(s) == EpochChanged(s) \/ ServerFailed(s) \/ DeleteLeases(s) \/ ReleaseLocks(s) \/ InvalidateAll(s)
CoordStep(s) ==
  \/ Timer(s) \/ Listen(s)
  \/ \E stream \in {"epoch", "failure"} : Subscribe(s, stream)

Next ==
  \/ Tick
  \/ \E s \in up :
       \/ RunStep(s) \/ CoordStep(s) \/ Shutdown(s) \/ Crash(s)
       \/ \E c \in mode.conns : ConnStep(s, c) \/ \E r \in {"lease", "lock"} : Serve(s, c, r)
  \/ \E s \in Servers \ mode.servers : \E q \in mode.requests : Request(s, q)

(* Fairness: the clock goes on, and tokio polls a task that is ready; select!  *)
(* picks among its ready branches at random, so that a pending shutdown is     *)
(* not passed over for ever. Clients need not do anything.                     *)
Fairness ==
  /\ WF_vars(Tick)
  /\ \A s \in Servers : /\ WF_vars(s \in up /\ RunStep(s))
                        /\ WF_vars(s \in up /\ Timer(s))
                        /\ WF_vars(s \in up /\ Listen(s))
Spec == Init /\ [][Next]_vars /\ Fairness

---------------------------------------------------------------------------
(* active_connections counts the connection tasks from before they are spawned *)
(* until they end, whichever way the TLS handshake and the handler end (a       *)
(* panic excepted), and the permits taken bound it.                             *)
CountMatches ==
  \A s \in Servers :
    LET In(labels) == Cardinality({c \in Conns : conn[s][c] \in labels})
    IN  /\ active[s] = In({"handshake", "serving", "panicked"})
        /\ MaxConnections - permits[s] = In({"handshake", "serving", "ending"})

(* run() gets past the drain with a connection task still at work only when the *)
(* drain has timed out: no connection slips in between the shutdown flag, the   *)
(* end of the accept loop and the reading of the counter.                       *)
DrainedOrForced ==
  \A s \in Servers : pc[s] \in {"stop", "returned"} /\ ~forced[s] =>
                       \A c \in Conns : conn[s][c] \notin {"handshake", "serving"}

(* The coordinator of a server whose timers are on time and that is started     *)
(* soon after it is made never takes it for failed.                             *)
PromptNeverFailed ==
  \A s \in mode.servers : ~mode.late /\ mode.delay + HeartbeatInterval <= HeartbeatTimeout =>
                       raft[s].cache_epoch = 1 /\ stale[s] = {}

(* check_lease_conflict never offers a state that conflicts with a lease it     *)
(* leaves alone or reports.                                                     *)
GrantedNeverConflicts ==
  \A s \in Servers : \A l \in raft[s].leases : \A key \in {x.lease_key : x \in raft[s].leases} \cup {"new"} :
    \A requested \in SUBSET {"R", "W", "H"} :
      l.lease_key # key =>
        ~LeasesConflict(l.lease_state, CheckLeaseConflict(raft[s], l.file_path, key, requested).granted)

(* The locks AcquireLock has granted never cover the same byte for two handles, *)
(* one of them exclusively, though the end of a range saturates and a length of *)
(* 0 means all the rest of the file. (The byte at u64::MAX is in no range.)     *)
CoordLocksCompatible ==
  LET Covers(l, b) == l.offset <= b /\ (l.length = 0 \/ b < l.offset + l.length)
  IN  \A s \in Servers : \A l, o \in raft[s].locks : \A b \in 0 .. (U64Max - 1) :
        l.file_path = o.file_path /\ Covers(l, b) /\ Covers(o, b) /\ l.exclusive => l.handle_id = o.handle_id

(* What the state machine grants, leases and locks, never conflicts.            *)
CoordGrantsCompatible == GrantedNeverConflicts /\ CoordLocksCompatible

(* A shutdown that is signalled while connections are accepted ends run() by    *)
(* the drain timeout, though clients never leave and though handlers panic.     *)
ShutdownReturns ==
  \A s \in Servers : (shutdown[s] /\ pc[s] = "accept") ~> (pc[s] = "returned" \/ s \notin up)

(* The failure listener releases the locks of the server that failed also when  *)
(* the deletion of its leases has failed, unless their release fails as well or *)
(* the coordination is stopped first.                                           *)
CleanupReachesLocks ==
  \A s \in Servers : (cleaning[s] = "leases") ~> (cleaning[s] = "locks" \/ s \notin up)

(* What the header of RaftCoordinator says follows a server's failure: the      *)
(* leases and locks of a server that has crashed are cleaned up.                *)
CrashedCleanedUp == \A s \in Servers : [](s \notin up => <>(owned[s] = {} \/ up = {}))

(* What the comment on run() says: it returns when all connections have         *)
(* drained.                                                                     *)
ReturnsDrained ==
  \A s \in Servers : pc[s] = "returned" => \A c \in Conns : conn[s][c] \notin {"handshake", "serving"}
==============================================================================
