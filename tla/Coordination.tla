---------------------------- MODULE Coordination ----------------------------
(***************************************************************************)
(* Cache epochs across a cluster: the coordinator service (membership,     *)
(* heartbeat monitor, epoch broadcasts), the coordinator client of each    *)
(* SMB server, the tasks of ServerCoordination, and the epoch-tagged cache *)
(* of the server.                                                          *)
(*                                                                         *)
(* The coordinator's state lives in memory behind a RwLock; broadcasts are *)
(* sent after the lock is released.  Each server runs a heartbeat task, a  *)
(* subscription task and an epoch listener concurrently; heartbeat task    *)
(* and subscription task write the same cached_epoch and feed the same     *)
(* channel.                                                                *)
(*                                                                         *)
(* The cache is reduced to one key: the epoch its entry is tagged with.    *)
(* The server failure stream is left out: nothing feeds failure_tx of the  *)
(* client.  Heartbeats that are refused change nothing (the error is       *)
(* logged), so they are not steps.                                         *)
(***************************************************************************)
EXTENDS Naturals, Sequences

CONSTANTS
  Servers,      \* server ids
  StreamCap,    \* capacity of the coordinator's broadcast channel (64)
  ListenerCap,  \* capacity of the client's broadcast channel (16)
  MaxEpoch,     \* bound on the epoch, for model checking
  MaxRestarts   \* bound on restarts of the coordinator

ASSUME ConstantsAssumption ==
  /\ StreamCap \in Nat \ {0} /\ ListenerCap \in Nat \ {0}
  /\ MaxEpoch \in Nat /\ MaxRestarts \in Nat

VARIABLES
  cache_epoch,    \* CoordinationState.cache_epoch
  servers,        \* CoordinationState.servers: the registered ids
  recent,         \* those whose last_heartbeat is within the timeout
  stale_servers,  \* what the monitor has read and still has to remove
  monitor_epoch,  \* the epoch the monitor is about to broadcast, or 0
  unsent,         \* epochs other handlers are about to broadcast
  restarts,
  up,             \* servers that have started and not stopped
  stream,         \* subscription of each server: epochs on their way to it
  subscribed,     \* "no", "yes" or "ended"
  cached_epoch,   \* CoordinatorClient.cached_epoch
  heartbeat,      \* heartbeat task: [at, epoch]
  forwarding,     \* subscription task: the epoch it is about to send on, or 0
  epoch_rx,       \* the epoch listener's channel
  listening,      \* servers whose epoch listener has subscribed
  setting,        \* listener between set_epoch(e) and invalidate_all: e, or 0
  current_epoch,  \* LocalCache.current_epoch
  entry,          \* the cache entry: [epoch, since], or NoEntry
  handled         \* history: the largest epoch the listener has handled

coordVars == <<cache_epoch, servers, recent, stale_servers, monitor_epoch, unsent, restarts>>
streamVars == <<stream, subscribed>>
clientVars == <<cached_epoch, heartbeat, forwarding, epoch_rx, listening>>
cacheVars == <<setting, current_epoch, entry, handled>>
vars == <<coordVars, up, streamVars, clientVars, cacheVars>>

Epoch == Nat \ {0}

\* No heartbeat, one whose response is under way, one that has stored a new epoch
\* and has still to send it to the listener.
Heartbeat == [at : {"idle", "response", "send"}, epoch : Nat]
NoHeartbeat == [at |-> "idle", epoch |-> 0]

\* An entry carries the epoch of the cache when it was put and, as history, the
\* epochs the listener had handled by then.
Entry == [epoch : Nat, since : Nat]
NoEntry == [epoch |-> 0, since |-> 0]

\* CacheEntry::is_valid, the TTL aside.
IsValid(s) == entry[s] # NoEntry /\ entry[s].epoch = current_epoch[s]

------------------------------------------------------------------------------
(* The coordinator *)

\* CoordinationState::apply(UnregisterServer): the epoch grows even if the server
\* is not registered.
Unregister(s) ==
  /\ cache_epoch < MaxEpoch
  /\ servers' = servers \ {s}
  /\ recent' = recent \ {s}
  /\ cache_epoch' = cache_epoch + 1

\* epoch_tx.send: every subscriber gets the epoch; one that lags gets an error
\* instead, which ends its subscription.
Broadcast(e) ==
  /\ stream' = [s \in Servers |->
       IF subscribed[s] # "yes" THEN stream[s]
       ELSE IF Len(stream[s]) < StreamCap THEN Append(stream[s], e) ELSE <<>>]
  /\ subscribed' = [s \in Servers |->
       IF subscribed[s] = "yes" /\ Len(stream[s]) >= StreamCap THEN "ended" ELSE subscribed[s]]

\* heartbeat_timeout_secs pass without a heartbeat from s.
HeartbeatExpires(s) ==
  /\ s \in servers \cap recent
  /\ recent' = recent \ {s}
  /\ UNCHANGED <<cache_epoch, servers, stale_servers, monitor_epoch, unsent, restarts>>
  /\ UNCHANGED <<up, streamVars, clientVars, cacheVars>>

\* The monitor reads the stale servers under the read lock and releases it.
MonitorRead ==
  /\ stale_servers = {} /\ monitor_epoch = 0
  /\ servers \ recent # {}
  /\ stale_servers' = servers \ recent
  /\ UNCHANGED <<cache_epoch, servers, recent, monitor_epoch, unsent, restarts>>
  /\ UNCHANGED <<up, streamVars, clientVars, cacheVars>>

\* It removes them one by one under the write lock, whatever has come in between.
MonitorRemove(s) ==
  /\ s \in stale_servers /\ monitor_epoch = 0
  /\ Unregister(s)
  /\ stale_servers' = stale_servers \ {s}
  /\ monitor_epoch' = cache_epoch'
  /\ UNCHANGED <<unsent, restarts, up, streamVars, clientVars, cacheVars>>

MonitorBroadcast ==
  /\ monitor_epoch # 0
  /\ Broadcast(monitor_epoch)
  /\ monitor_epoch' = 0
  /\ UNCHANGED <<cache_epoch, servers, recent, stale_servers, unsent, restarts>>
  /\ UNCHANGED <<up, clientVars, cacheVars>>

\* Mutant: the handler announces the epoch after the one it has applied.
MutantIncrementEpoch ==
  /\ cache_epoch < MaxEpoch
  /\ cache_epoch' = cache_epoch + 1
  /\ unsent' = unsent \cup {cache_epoch' + 1}
  /\ UNCHANGED <<servers, recent, stale_servers, monitor_epoch, restarts>>
  /\ UNCHANGED <<up, streamVars, clientVars, cacheVars>>

\* The increment_epoch RPC.
IncrementEpoch ==
  /\ cache_epoch < MaxEpoch
  /\ cache_epoch' = cache_epoch + 1
  /\ unsent' = unsent \cup {cache_epoch'}
  /\ UNCHANGED <<servers, recent, stale_servers, monitor_epoch, restarts>>
  /\ UNCHANGED <<up, streamVars, clientVars, cacheVars>>

\* The end of the leave_cluster and increment_epoch handlers.
HandlerBroadcast(e) ==
  /\ e \in unsent
  /\ Broadcast(e)
  /\ unsent' = unsent \ {e}
  /\ UNCHANGED <<cache_epoch, servers, recent, stale_servers, monitor_epoch, restarts>>
  /\ UNCHANGED <<up, clientVars, cacheVars>>

\* The coordinator restarts: its state was in memory.
CoordinatorRestart ==
  /\ restarts < MaxRestarts
  /\ restarts' = restarts + 1
  /\ cache_epoch' = 1
  /\ servers' = {} /\ recent' = {} /\ stale_servers' = {}
  /\ monitor_epoch' = 0 /\ unsent' = {}
  /\ stream' = [s \in Servers |-> <<>>]
  /\ subscribed' = [s \in Servers |-> IF subscribed[s] = "yes" THEN "ended" ELSE subscribed[s]]
  /\ UNCHANGED <<up, clientVars, cacheVars>>

------------------------------------------------------------------------------
(* A server: start and stop *)

\* start(): register_server and the answer.  A new process has an empty cache.
Register(s) ==
  /\ s \notin up
  /\ up' = up \cup {s}
  /\ servers' = servers \cup {s}
  /\ recent' = recent \cup {s}
  /\ cached_epoch' = [cached_epoch EXCEPT ![s] = cache_epoch]
  /\ UNCHANGED <<cache_epoch, stale_servers, monitor_epoch, unsent, restarts>>
  /\ UNCHANGED <<streamVars, heartbeat, forwarding, epoch_rx, listening, cacheVars>>

\* What is left of a process that has gone.
Gone(s) ==
  /\ up' = up \ {s}
  /\ stream' = [stream EXCEPT ![s] = <<>>]
  /\ subscribed' = [subscribed EXCEPT ![s] = "no"]
  /\ cached_epoch' = [cached_epoch EXCEPT ![s] = 0]
  /\ heartbeat' = [heartbeat EXCEPT ![s] = NoHeartbeat]
  /\ forwarding' = [forwarding EXCEPT ![s] = 0]
  /\ epoch_rx' = [epoch_rx EXCEPT ![s] = <<>>]
  /\ listening' = listening \ {s}
  /\ setting' = [setting EXCEPT ![s] = 0]
  /\ current_epoch' = [current_epoch EXCEPT ![s] = 1]
  /\ entry' = [entry EXCEPT ![s] = NoEntry]
  /\ handled' = [handled EXCEPT ![s] = 0]

Crash(s) ==
  /\ s \in up
  /\ Gone(s)
  /\ UNCHANGED coordVars

\* stop(): leave_cluster.
LeaveCluster(s) ==
  /\ s \in up
  /\ Unregister(s)
  /\ unsent' = unsent \cup {cache_epoch'}
  /\ Gone(s)
  /\ UNCHANGED <<stale_servers, monitor_epoch, restarts>>

------------------------------------------------------------------------------
(* A server: heartbeat task, subscription task, epoch listener, cache *)

\* epoch_tx.send in the client.  Nobody gets it before the listener subscribes; a
\* listener that lags loses the oldest epochs.
Notify(s, e) ==
  epoch_rx' = [epoch_rx EXCEPT ![s] =
    IF s \notin listening THEN @
    ELSE IF Len(@) < ListenerCap THEN Append(@, e) ELSE Append(Tail(@), e)]

\* The heartbeat RPC of a registered server.
HeartbeatRequest(s) ==
  /\ s \in up \cap servers
  /\ heartbeat[s].at = "idle"
  /\ recent' = recent \cup {s}
  /\ heartbeat' = [heartbeat EXCEPT ![s] = [at |-> "response", epoch |-> cache_epoch]]
  /\ UNCHANGED <<cache_epoch, servers, stale_servers, monitor_epoch, unsent, restarts>>
  /\ UNCHANGED <<up, streamVars, cached_epoch, forwarding, epoch_rx, listening, cacheVars>>

\* Mutant: the heartbeat's epoch is ignored.
MutantHeartbeatStore(s) ==
  /\ heartbeat[s].at = "response"
  /\ heartbeat' = [heartbeat EXCEPT ![s] = NoHeartbeat]
  /\ UNCHANGED <<coordVars, up, streamVars, cached_epoch, forwarding, epoch_rx, listening>>
  /\ UNCHANGED cacheVars

\* The response: the epoch is stored if it differs.
HeartbeatStore(s) ==
  /\ heartbeat[s].at = "response"
  /\ IF heartbeat[s].epoch = cached_epoch[s]
     THEN heartbeat' = [heartbeat EXCEPT ![s] = NoHeartbeat] /\ UNCHANGED cached_epoch
     ELSE /\ heartbeat' = [heartbeat EXCEPT ![s].at = "send"]
          /\ cached_epoch' = [cached_epoch EXCEPT ![s] = heartbeat[s].epoch]
  /\ UNCHANGED <<coordVars, up, streamVars, forwarding, epoch_rx, listening, cacheVars>>

HeartbeatSend(s) ==
  /\ heartbeat[s].at = "send"
  /\ Notify(s, heartbeat[s].epoch)
  /\ heartbeat' = [heartbeat EXCEPT ![s] = NoHeartbeat]
  /\ UNCHANGED <<coordVars, up, streamVars, cached_epoch, forwarding, listening, cacheVars>>

\* The request times out or the response is lost.
HeartbeatLost(s) ==
  /\ heartbeat[s].at = "response"
  /\ heartbeat' = [heartbeat EXCEPT ![s] = NoHeartbeat]
  /\ UNCHANGED <<coordVars, up, streamVars, cached_epoch, forwarding, epoch_rx, listening>>
  /\ UNCHANGED cacheVars

\* run_epoch_subscription, once.
Subscribe(s) ==
  /\ s \in up
  /\ subscribed[s] = "no"
  /\ subscribed' = [subscribed EXCEPT ![s] = "yes"]
  /\ UNCHANGED <<coordVars, up, stream, clientVars, cacheVars>>

StreamStore(s) ==
  /\ subscribed[s] = "yes" /\ stream[s] # <<>> /\ forwarding[s] = 0
  /\ cached_epoch' = [cached_epoch EXCEPT ![s] = Head(stream[s])]
  /\ forwarding' = [forwarding EXCEPT ![s] = Head(stream[s])]
  /\ stream' = [stream EXCEPT ![s] = Tail(@)]
  /\ UNCHANGED <<coordVars, up, subscribed, heartbeat, epoch_rx, listening, cacheVars>>

StreamSend(s) ==
  /\ forwarding[s] # 0
  /\ Notify(s, forwarding[s])
  /\ forwarding' = [forwarding EXCEPT ![s] = 0]
  /\ UNCHANGED <<coordVars, up, streamVars, cached_epoch, heartbeat, listening, cacheVars>>

\* The stream fails: the subscription task ends and is not restarted.
StreamError(s) ==
  /\ subscribed[s] = "yes"
  /\ subscribed' = [subscribed EXCEPT ![s] = "ended"]
  /\ stream' = [stream EXCEPT ![s] = <<>>]
  /\ UNCHANGED <<coordVars, up, clientVars, cacheVars>>

\* The epoch listener subscribes to the client's channel.
Listen(s) ==
  /\ s \in up \ listening
  /\ listening' = listening \cup {s}
  /\ UNCHANGED <<coordVars, up, streamVars, cached_epoch, heartbeat, forwarding, epoch_rx>>
  /\ UNCHANGED cacheVars

SetEpoch(s) ==
  /\ epoch_rx[s] # <<>> /\ setting[s] = 0
  /\ current_epoch' = [current_epoch EXCEPT ![s] = Head(epoch_rx[s])]
  /\ setting' = [setting EXCEPT ![s] = Head(epoch_rx[s])]
  /\ epoch_rx' = [epoch_rx EXCEPT ![s] = Tail(@)]
  /\ UNCHANGED <<coordVars, up, streamVars, cached_epoch, heartbeat, forwarding, listening>>
  /\ UNCHANGED <<entry, handled>>

\* Mutant: set_epoch alone is relied on.
MutantInvalidateAll(s) ==
  /\ setting[s] # 0
  /\ setting' = [setting EXCEPT ![s] = 0]
  /\ handled' = [handled EXCEPT ![s] = IF setting[s] > @ THEN setting[s] ELSE @]
  /\ UNCHANGED <<coordVars, up, streamVars, clientVars, current_epoch, entry>>

InvalidateAll(s) ==
  /\ setting[s] # 0
  /\ current_epoch' = [current_epoch EXCEPT ![s] = @ + 1]
  /\ setting' = [setting EXCEPT ![s] = 0]
  /\ handled' = [handled EXCEPT ![s] = IF setting[s] > @ THEN setting[s] ELSE @]
  /\ UNCHANGED <<coordVars, up, streamVars, clientVars, entry>>

\* put_session, put_handle, put_tree.
Put(s) ==
  /\ s \in up
  /\ entry' = [entry EXCEPT ![s] = [epoch |-> current_epoch[s], since |-> handled[s]]]
  /\ UNCHANGED <<coordVars, up, streamVars, clientVars, setting, current_epoch, handled>>

\* A lookup that finds a stale entry, an expired TTL, an LRU eviction or a remove.
Drop(s) ==
  /\ entry[s] # NoEntry
  /\ entry' = [entry EXCEPT ![s] = NoEntry]
  /\ UNCHANGED <<coordVars, up, streamVars, clientVars, setting, current_epoch, handled>>

------------------------------------------------------------------------------
Coordinator ==
  \/ \E s \in Servers : HeartbeatExpires(s) \/ MonitorRemove(s)
  \/ MonitorRead
  \/ MonitorBroadcast
  \/ IncrementEpoch
  \/ \E e \in unsent : HandlerBroadcast(e)
  \/ CoordinatorRestart

Server(s) ==
  \/ Register(s) \/ Crash(s) \/ LeaveCluster(s)
  \/ HeartbeatRequest(s) \/ HeartbeatStore(s) \/ HeartbeatSend(s) \/ HeartbeatLost(s)
  \/ Subscribe(s) \/ StreamStore(s) \/ StreamSend(s) \/ StreamError(s)
  \/ Listen(s) \/ SetEpoch(s) \/ InvalidateAll(s)
  \/ Put(s) \/ Drop(s)

Next == Coordinator \/ \E s \in Servers : Server(s)

Init ==
  /\ cache_epoch = 1
  /\ servers = {} /\ recent = {} /\ stale_servers = {}
  /\ monitor_epoch = 0 /\ unsent = {} /\ restarts = 0
  /\ up = {}
  /\ stream = [s \in Servers |-> <<>>]
  /\ subscribed = [s \in Servers |-> "no"]
  /\ cached_epoch = [s \in Servers |-> 0]
  /\ heartbeat = [s \in Servers |-> NoHeartbeat]
  /\ forwarding = [s \in Servers |-> 0]
  /\ epoch_rx = [s \in Servers |-> <<>>]
  /\ listening = {}
  /\ setting = [s \in Servers |-> 0]
  /\ current_epoch = [s \in Servers |-> 1]
  /\ entry = [s \in Servers |-> NoEntry]
  /\ handled = [s \in Servers |-> 0]

Spec == Init /\ [][Next]_vars

\* The runtime polls every task that can run, and not every heartbeat response is
\* lost.  Nothing is assumed of clocks, crashes and registrations.
FairSpec ==
  /\ Spec
  /\ WF_vars(MonitorBroadcast) /\ WF_vars(\E e \in unsent : HandlerBroadcast(e))
  /\ \A s \in Servers :
       /\ WF_vars(HeartbeatRequest(s)) /\ SF_vars(HeartbeatStore(s)) /\ WF_vars(HeartbeatSend(s))
       /\ WF_vars(StreamStore(s)) /\ WF_vars(StreamSend(s))
       /\ WF_vars(Listen(s)) /\ WF_vars(SetEpoch(s)) /\ WF_vars(InvalidateAll(s))

------------------------------------------------------------------------------
(* Properties *)

\* The variables hold what the code's types allow, and a server that is not up has
\* no client and no cache.
TypeOK ==
  /\ cache_epoch \in Epoch
  /\ servers \subseteq Servers /\ recent \subseteq servers /\ stale_servers \subseteq Servers
  /\ monitor_epoch \in Nat /\ unsent \subseteq Epoch /\ restarts \in Nat
  /\ up \subseteq Servers /\ listening \subseteq up
  /\ stream \in [Servers -> Seq(Epoch)]
  /\ subscribed \in [Servers -> {"no", "yes", "ended"}]
  /\ cached_epoch \in [Servers -> Nat]
  /\ heartbeat \in [Servers -> Heartbeat]
  /\ forwarding \in [Servers -> Nat]
  /\ epoch_rx \in [Servers -> Seq(Epoch)]
  /\ setting \in [Servers -> Nat]
  /\ current_epoch \in [Servers -> Epoch]
  /\ entry \in [Servers -> Entry]
  /\ handled \in [Servers -> Nat]

\* When the listener has handled an epoch larger than all it has handled before,
\* nothing cached earlier is valid: set_epoch followed by invalidate_all never lands
\* on the tag of an old entry, also if epochs were skipped, repeated or reordered
\* before and entries were put between the two calls.
NewEpochInvalidates ==
  [][\A s \in Servers : handled'[s] > handled[s] => ~IsValid(s)']_vars

\* Why: no tag is beyond the next epoch (the inductive invariant of the theorem).
TagInv ==
  \A s \in Servers :
    /\ setting[s] = 0 => current_epoch[s] <= handled[s] + 1
    /\ setting[s] # 0 => current_epoch[s] = setting[s]
    /\ entry[s].epoch <= handled[s] + 1 \/ entry[s].epoch <= setting[s]

\* While the coordinator keeps running no server is ahead of it: every epoch in a
\* channel, a response or a task, and every epoch handled, is one the coordinator
\* has reached.
NeverAhead ==
  restarts = 0 =>
    /\ monitor_epoch <= cache_epoch
    /\ \A e \in unsent : e <= cache_epoch
    /\ \A s \in Servers :
         /\ cached_epoch[s] <= cache_epoch /\ heartbeat[s].epoch <= cache_epoch
         /\ forwarding[s] <= cache_epoch /\ setting[s] <= cache_epoch
         /\ handled[s] <= cache_epoch
         /\ \A i \in 1..Len(stream[s]) : stream[s][i] <= cache_epoch
         /\ \A i \in 1..Len(epoch_rx[s]) : epoch_rx[s][i] <= cache_epoch

\* The client of a server that stays registered ends up with the coordinator's
\* epoch, though streams fail for good, broadcasts overtake each other and responses
\* are late: the heartbeat repairs it.
ClientLearnsEpoch ==
  \A s \in Servers :
    <>[](s \in up \cap servers) => <>[](cached_epoch[s] = cache_epoch)

(* What the documentation says and the code does not do *)

\* An entry that was invalidated is not valid again, the instant between set_epoch
\* and invalidate_all aside.  A late heartbeat response sets the epoch back.
InvalidatedStaysInvalid ==
  \A s \in Servers : setting[s] = 0 /\ IsValid(s) => entry[s].since = handled[s]

\* Only a server without a recent heartbeat is removed.  The monitor removes what was
\* stale when it looked.
RemovedOnlyIfStale ==
  [][\A s \in servers \ servers' : s \in up' /\ restarts' = restarts => s \notin recent]_vars

\* The caches of the servers that stay registered are invalidated by every epoch.  An
\* epoch that arrives before the listener has subscribed is never handled.
CachesInvalidate ==
  \A s \in Servers :
    <>[](s \in up \cap servers) => <>[](handled[s] = cache_epoch)

\* The epoch survives the coordinator.
EpochNeverDecreases == [][cache_epoch' >= cache_epoch]_vars
==============================================================================
