------------------------------- MODULE Leases -------------------------------
(***************************************************************************)
(* Leases on the files of one server: the lease part of handle_create,     *)
(* handle_lease_break_ack, the lease part of handle_close and the cleanup  *)
(* of a lost connection, with the lease table of the in-memory StateStore  *)
(* and the LeaseBreakRegistry they share.                                  *)
(*                                                                         *)
(* A connection runs one handler at a time; every `.await` is a point      *)
(* where other connections run.  break_lease keeps a read guard on the     *)
(* registry shard of the lease for as long as it waits, and handlers that  *)
(* write to that shard block the worker thread they run on.                *)
(*                                                                         *)
(* Abstracted: epochs and lease versions, sharing modes (every open shares *)
(* everything), durable handles, oplocks and the rest of CREATE.  A lease  *)
(* key belongs to one connection.  The in-memory store lives in one        *)
(* process, so no conflict is with a lease of another server.              *)
(***************************************************************************)
EXTENDS Naturals, Sequences, FiniteSets

CONSTANTS
  Conns,       \* connections
  Keys,        \* lease keys
  Owner,       \* Owner[k]: the connection that uses lease key k
  FileOf,      \* FileOf[k]: the file opened with lease key k
  ShardOf,     \* ShardOf[k]: the shard of lease_connections k hashes to
  Wants,       \* Wants[k]: the LeaseState values requested with lease key k
  ChannelCap,  \* capacity of a connection's break event channel (32)
  Workers,     \* worker threads of the runtime
  Pipelined,   \* clients send requests without waiting for the answers
  MaxOpens     \* bound on the opens per lease key, for model checking

\* A lease state is its set of bits.  LeaseEntry, lease_break.rs and the store
\* give them these names.
READ_CACHING == 1
WRITE_CACHING == 2
HANDLE_CACHING == 4

\* What the client means by the bits: the wire format of the protocol crate.
WIRE_HANDLE_CACHING == 2
WIRE_WRITE_CACHING == 4

LeaseState == SUBSET {READ_CACHING, WRITE_CACHING, HANDLE_CACHING}

ASSUME ConstantsAssumption ==
  /\ Owner \in [Keys -> Conns]
  /\ DOMAIN FileOf = Keys
  /\ DOMAIN ShardOf = Keys
  /\ Wants \in [Keys -> SUBSET LeaseState]
  /\ Keys # {}
  /\ ChannelCap \in Nat \ {0}
  /\ Workers \in Nat \ {0}
  /\ MaxOpens \in Nat \ {0}
  /\ Pipelined \in BOOLEAN

VARIABLES
  leases,             \* lease keys present in the StateStore
  lease_state,        \* their lease_state ({} when absent)
  lease_connections,  \* lease keys present in the registry
  pending_breaks,     \* connections whose break_lease has an entry in pending_breaks
  break_rx,           \* break event channel of each connection
  opens,              \* handles in the StateStore with this lease_key
  pc,                 \* where each connection's handler is suspended
  req,                \* the locals of the handler each connection runs
  notified,           \* break notifications a client has not answered
  caching,            \* history: what the client may cache under the key
  regrown             \* history: a write-back gave bits back to a lease

vars == <<leases, lease_state, lease_connections, pending_breaks, break_rx, opens, pc, req,
          notified, caching, regrown>>

storeVars == <<leases, lease_state, regrown>>
clientVars == <<notified, caching>>

Labels == {"idle", "break", "send", "pending", "wait", "expired", "update", "recheck",
           "register", "unregister", "delete", "ack_get", "ack_put", "cleanup", "closed"}

\* A conflicting lease as check_and_create_lease returned it.
Snapshot == [key : Keys, state : LeaseState]

Event == [key : Keys, state : LeaseState, new_state : LeaseState]

\* The locals of a handler: the lease key it is about; for CREATE the requested
\* and granted state, the conflicts still to break and the one being broken, what
\* completion_rx holds and the resulting state; for an acknowledgment, `state` is
\* the acked state.
Locals == [key : Keys, want : LeaseState, granted : LeaseState, todo : SUBSET Snapshot,
           snap : Snapshot, result : {"none", "Acknowledged", "Disconnected"}, state : LeaseState]

------------------------------------------------------------------------------
(* Lease conflicts *)

\* leases_conflict, in the store.
LeasesConflict(existing, requested) ==
  \/ WRITE_CACHING \in existing /\ requested # {}
  \/ WRITE_CACHING \in requested /\ existing # {}

\* Mutant: only the request's own WRITE_CACHING is looked at.
MutantReduceLeaseState(requested, states) == requested \ {WRITE_CACHING}

\* reduce_lease_state, for a non-empty set of conflicting states.
ReduceLeaseState(requested, states) ==
  IF \E s \in states : WRITE_CACHING \in s THEN {} ELSE requested \ {WRITE_CACHING}

CalculateBreakState(existing, requested) ==
  IF WRITE_CACHING \in requested THEN existing \cap {READ_CACHING}
  ELSE IF HANDLE_CACHING \in requested THEN existing \cap {READ_CACHING, WRITE_CACHING}
  ELSE existing \ {WRITE_CACHING}

\* has_lease_conflict, in the handler.
HasLeaseConflict(existing, requested) ==
  WRITE_CACHING \in existing \/ WRITE_CACHING \in requested

BreakTo(c) == CalculateBreakState(req[c].snap.state, req[c].want)

OthersOnFile(k) == {l \in leases : FileOf[l] = FileOf[k] /\ l # k}

------------------------------------------------------------------------------
(* Guards and worker threads *)

\* c is inside break_lease, which holds a Ref into lease_connections.
HoldsGuard(c) == pc[c] \in {"send", "pending", "wait", "expired"}

ShardFree(k) == \A c \in Conns : HoldsGuard(c) => ShardOf[req[c].snap.key] # ShardOf[k]

KeysOf(c) == {k \in Keys : Owner[k] = c}

\* c is inside DashMap::insert or remove and waits for a shard: its thread is stuck.
Blocked(c) ==
  \/ pc[c] \in {"register", "unregister"} /\ ~ShardFree(req[c].key)
  \/ pc[c] = "cleanup" /\ \E k \in KeysOf(c) \cap lease_connections : ~ShardFree(k)

FreeWorker == Cardinality({c \in Conns : Blocked(c)}) < Workers

------------------------------------------------------------------------------
(* Steps of a handler *)

Goto(c, l) == pc' = [pc EXCEPT ![c] = l]

AnyKey == CHOOSE k \in Keys : TRUE
NoSnapshot == [key |-> AnyKey, state |-> {}]

LocalsOf(k) ==
  [key |-> k, want |-> {}, granted |-> {}, todo |-> {}, snap |-> NoSnapshot,
   result |-> "none", state |-> {}]

\* The handler of c returns.
Answer(c) == Goto(c, "idle") /\ req' = [req EXCEPT ![c] = LocalsOf(AnyKey)]

\* The message loop sends queued break events before it reads the socket, but not
\* before it has processed the requests it has already read.
NextRequest(c) == pc[c] = "idle" /\ (Pipelined \/ break_rx[c] = <<>>)

\* After a conflict has been dealt with: the next one, or the re-check.
NextConflict(todo) == IF todo = {} THEN "recheck" ELSE "break"

\* handle_create up to check_and_create_lease, which finds the conflicts and
\* inserts the lease with the reduced state under one write lock.
HandleCreate(c, k, want) ==
  /\ NextRequest(c)
  /\ Owner[k] = c
  /\ opens[k] < MaxOpens
  /\ LET conflicts == {l \in OthersOnFile(k) : LeasesConflict(lease_state[l], want)}
         granted == IF conflicts = {} THEN want
                    ELSE ReduceLeaseState(want, {lease_state[l] : l \in conflicts})
         breaks == {l \in conflicts : CalculateBreakState(lease_state[l], want) # lease_state[l]}
         todo == {[key |-> l, state |-> lease_state[l]] : l \in breaks}
     IN /\ leases' = leases \cup {k}
        /\ lease_state' = [lease_state EXCEPT ![k] = granted]
        /\ req' = [req EXCEPT ![c] = [key |-> k, want |-> want, granted |-> granted,
                     todo |-> todo, snap |-> NoSnapshot, result |-> "none", state |-> {}]]
        /\ Goto(c, IF conflicts = {} THEN "register" ELSE NextConflict(todo))
  /\ UNCHANGED <<lease_connections, pending_breaks, break_rx, opens, clientVars, regrown>>

\* break_lease: the registry lookup.  A lease that is not there is skipped.
BreakLookup(c) ==
  /\ pc[c] = "break"
  /\ \E s \in req[c].todo :
       LET todo == req[c].todo \ {s}
       IN IF s.key \in lease_connections
          THEN /\ req' = [req EXCEPT ![c] = [@ EXCEPT !.snap = s, !.todo = todo, !.result = "none"]]
               /\ Goto(c, "send")
          ELSE /\ req' = [req EXCEPT ![c] = [@ EXCEPT !.todo = todo]]
               /\ Goto(c, NextConflict(todo))
  /\ UNCHANGED <<storeVars, lease_connections, pending_breaks, break_rx, opens, clientVars>>

\* break_lease: the event goes to the owner's channel, once there is room in it.
\* A lease of READ alone would need no acknowledgment; a dropped receiver ends
\* the break with SendFailed.
BreakSend(c) ==
  /\ pc[c] = "send"
  /\ LET s == req[c].snap
         owner == Owner[s.key]
     IN IF pc[owner] = "closed"
        THEN Goto(c, NextConflict(req[c].todo)) /\ UNCHANGED <<req, break_rx>>
        ELSE /\ Len(break_rx[owner]) < ChannelCap
             /\ break_rx' = [break_rx EXCEPT ![owner] =
                  Append(@, [key |-> s.key, state |-> s.state, new_state |-> BreakTo(c)])]
             /\ IF s.state = {READ_CACHING}
                THEN Goto(c, "update") /\ req' = [req EXCEPT ![c] = [@ EXCEPT !.state = BreakTo(c)]]
                ELSE Goto(c, "pending") /\ UNCHANGED req
  /\ UNCHANGED <<storeVars, lease_connections, pending_breaks, opens, clientVars>>

\* break_lease: only now is the break known to handle_acknowledgment.
BreakRegister(c) ==
  /\ pc[c] = "pending"
  /\ pending_breaks' = pending_breaks \cup {c}
  /\ Goto(c, "wait")
  /\ UNCHANGED <<storeVars, lease_connections, break_rx, opens, req, clientVars>>

\* Mutant: the timer starts when the notification is sent.
MutantBreakTimeout(c) ==
  /\ pc[c] = "wait"
  /\ req[c].result = "none"
  /\ break_rx[Owner[req[c].snap.key]] = <<>>
  /\ Goto(c, "expired")
  /\ caching' = [caching EXCEPT ![req[c].snap.key] = {}]
  /\ UNCHANGED <<storeVars, lease_connections, pending_breaks, break_rx, opens, req, notified>>

\* break_timeout passes.  The client has lost its lease, whether it knows or not.
BreakTimeout(c) ==
  /\ pc[c] = "wait"
  /\ req[c].result = "none"
  /\ Goto(c, "expired")
  /\ caching' = [caching EXCEPT ![req[c].snap.key] = {}]
  /\ UNCHANGED <<storeVars, lease_connections, pending_breaks, break_rx, opens, req, notified>>

\* break_lease returns and drops its guard; the handler works out the final state.
BreakReturn(c) ==
  /\ \/ pc[c] = "wait" /\ req[c].result # "none"
     \/ pc[c] = "expired"
  /\ pending_breaks' = pending_breaks \ {c}
  /\ req' = [req EXCEPT ![c] = [@ EXCEPT
       !.state = IF pc[c] = "wait" /\ req[c].result = "Acknowledged" THEN req[c].state ELSE {}]]
  /\ Goto(c, "update")
  /\ UNCHANGED <<storeVars, lease_connections, break_rx, opens, clientVars>>

\* update_lease with the entry of the snapshot: an insert, even after a delete.
UpdateLease(c) ==
  /\ pc[c] = "update"
  /\ regrown' = (regrown \/ ~(req[c].state \subseteq lease_state[req[c].snap.key]))
  /\ leases' = leases \cup {req[c].snap.key}
  /\ lease_state' = [lease_state EXCEPT ![req[c].snap.key] = req[c].state]
  /\ Goto(c, NextConflict(req[c].todo))
  /\ req' = [req EXCEPT ![c] = [@ EXCEPT !.state = {}, !.snap = NoSnapshot, !.result = "none"]]
  /\ UNCHANGED <<lease_connections, pending_breaks, break_rx, opens, clientVars>>

\* get_leases_for_file after the breaks; the answer may grant all that was asked
\* for, the stored lease stays as it is.
Recheck(c) ==
  /\ pc[c] = "recheck"
  /\ LET still == {l \in OthersOnFile(req[c].key) : HasLeaseConflict(lease_state[l], req[c].want)}
     IN req' = [req EXCEPT ![c] = [@ EXCEPT
                  !.granted = IF still = {} THEN req[c].want ELSE req[c].granted]]
  /\ Goto(c, "register")
  /\ UNCHANGED <<storeVars, lease_connections, pending_breaks, break_rx, opens, clientVars>>

\* register_lease, create_handle and the answer.
RegisterLease(c) ==
  /\ pc[c] = "register"
  /\ ShardFree(req[c].key)
  /\ lease_connections' = lease_connections \cup {req[c].key}
  /\ opens' = [opens EXCEPT ![req[c].key] = @ + 1]
  /\ caching' = [caching EXCEPT ![req[c].key] = req[c].granted]
  /\ Answer(c)
  /\ UNCHANGED <<storeVars, pending_breaks, break_rx, notified>>

\* The message loop takes a break event and sends the notification.  A client
\* without an open under the key has nothing to answer.
SendLeaseBreakNotification(c) ==
  /\ pc[c] = "idle"
  /\ break_rx[c] # <<>>
  /\ LET e == Head(break_rx[c])
     IN notified' = [notified EXCEPT ![c] =
          IF opens[e.key] = 0 THEN @ ELSE @ \cup {[key |-> e.key, new_state |-> e.new_state]}]
  /\ break_rx' = [break_rx EXCEPT ![c] = Tail(@)]
  /\ UNCHANGED <<storeVars, lease_connections, pending_breaks, opens, pc, req, caching>>

\* handle_lease_break_ack up to the registry: handle_acknowledgment takes some
\* pending break of the key, not necessarily the one the client answers.  An acked
\* state it does not allow fails the acknowledgment and drops that break.
HandleLeaseBreakAck(c, n, acked) ==
  /\ NextRequest(c)
  /\ acked \subseteq n.new_state
  /\ notified' = [notified EXCEPT ![c] = @ \ {n}]
  /\ caching' = [caching EXCEPT ![n.key] = @ \cap acked]
  /\ LET match == {p \in pending_breaks : req[p].snap.key = n.key}
     IN \/ /\ match = {}
           /\ UNCHANGED <<pending_breaks, pc, req>>
        \/ \E p \in match :
             /\ pending_breaks' = pending_breaks \ {p}
             /\ IF acked \subseteq BreakTo(p)
                THEN /\ req' = [req EXCEPT
                          ![p] = [@ EXCEPT !.result = "Acknowledged", !.state = acked],
                          ![c] = [LocalsOf(n.key) EXCEPT !.state = acked]]
                     /\ Goto(c, "ack_get")
                ELSE /\ req' = [req EXCEPT ![p] = [@ EXCEPT !.result = "Disconnected"]]
                     /\ UNCHANGED pc
  /\ UNCHANGED <<storeVars, lease_connections, break_rx, opens>>

\* handle_lease_break_ack: get_lease, then update_lease of what it returned.
AckGetLease(c) ==
  /\ pc[c] = "ack_get"
  /\ IF req[c].key \in leases THEN Goto(c, "ack_put") /\ UNCHANGED req ELSE Answer(c)
  /\ UNCHANGED <<storeVars, lease_connections, pending_breaks, break_rx, opens, clientVars>>

AckUpdateLease(c) ==
  /\ pc[c] = "ack_put"
  /\ regrown' = (regrown \/ ~(req[c].state \subseteq lease_state[req[c].key]))
  /\ leases' = leases \cup {req[c].key}
  /\ lease_state' = [lease_state EXCEPT ![req[c].key] = req[c].state]
  /\ Answer(c)
  /\ UNCHANGED <<lease_connections, pending_breaks, break_rx, opens, clientVars>>

\* handle_close of a handle with a lease.
HandleClose(c, k) ==
  /\ NextRequest(c)
  /\ Owner[k] = c
  /\ opens[k] > 0
  /\ req' = [req EXCEPT ![c] = LocalsOf(k)]
  /\ Goto(c, "unregister")
  /\ UNCHANGED <<storeVars, lease_connections, pending_breaks, break_rx, opens, clientVars>>

\* Mutant: break_lease holds no guard while it waits.
MutantUnregisterLease(c) ==
  /\ pc[c] = "unregister"
  /\ lease_connections' = lease_connections \ {req[c].key}
  /\ Goto(c, "delete")
  /\ UNCHANGED <<storeVars, pending_breaks, break_rx, opens, req, clientVars>>

UnregisterLease(c) ==
  /\ pc[c] = "unregister"
  /\ ShardFree(req[c].key)
  /\ lease_connections' = lease_connections \ {req[c].key}
  /\ Goto(c, "delete")
  /\ UNCHANGED <<storeVars, pending_breaks, break_rx, opens, req, clientVars>>

\* handle_close: delete_lease, delete_handle and the answer.  The lease goes with
\* the first of its handles to be closed.
DeleteLease(c) ==
  /\ pc[c] = "delete"
  /\ LET k == req[c].key
     IN /\ leases' = leases \ {k}
        /\ lease_state' = [lease_state EXCEPT ![k] = {}]
        /\ opens' = [opens EXCEPT ![k] = @ - 1]
        /\ IF opens[k] = 1
           THEN /\ caching' = [caching EXCEPT ![k] = {}]
                /\ notified' = [notified EXCEPT ![c] = {n \in @ : n.key # k}]
           ELSE UNCHANGED <<clientVars>>
  /\ Answer(c)
  /\ UNCHANGED <<lease_connections, pending_breaks, break_rx, regrown>>

\* The connection is lost; run() cleans up when the handler is done.
Disconnect(c) ==
  /\ pc[c] = "idle"
  /\ Goto(c, "cleanup")
  /\ caching' = [k \in Keys |-> IF Owner[k] = c THEN {} ELSE caching[k]]
  /\ notified' = [notified EXCEPT ![c] = {}]
  /\ UNCHANGED <<storeVars, lease_connections, pending_breaks, break_rx, opens, req>>

\* unregister_connection_leases removes the keys one by one; then the channel's
\* receiver is dropped.  Leases and handles stay in the store.
UnregisterConnectionLeases(c) ==
  /\ pc[c] = "cleanup"
  /\ LET left == KeysOf(c) \cap lease_connections
     IN \/ /\ left = {}
           /\ Goto(c, "closed")
           /\ break_rx' = [break_rx EXCEPT ![c] = <<>>]
           /\ UNCHANGED lease_connections
        \/ \E k \in left :
             /\ ShardFree(k)
             /\ lease_connections' = lease_connections \ {k}
             /\ UNCHANGED <<pc, break_rx>>
  /\ UNCHANGED <<storeVars, pending_breaks, opens, req, clientVars>>

\* A request or the end of the connection, as the client chooses.
Client(c) ==
  \/ \E k \in Keys : \E want \in Wants[k] : HandleCreate(c, k, want)
  \/ \E n \in notified[c] : \E acked \in SUBSET n.new_state : HandleLeaseBreakAck(c, n, acked)
  \/ \E k \in Keys : HandleClose(c, k)
  \/ Disconnect(c)

\* What the server does by itself for connection c.
Server(c) ==
  \/ BreakLookup(c)
  \/ BreakSend(c)
  \/ BreakRegister(c)
  \/ BreakTimeout(c)
  \/ BreakReturn(c)
  \/ UpdateLease(c)
  \/ Recheck(c)
  \/ RegisterLease(c)
  \/ SendLeaseBreakNotification(c)
  \/ AckGetLease(c)
  \/ AckUpdateLease(c)
  \/ UnregisterLease(c)
  \/ DeleteLease(c)
  \/ UnregisterConnectionLeases(c)

Next == FreeWorker /\ \E c \in Conns : Client(c) \/ Server(c)

Init ==
  /\ leases = {}
  /\ lease_state = [k \in Keys |-> {}]
  /\ lease_connections = {}
  /\ pending_breaks = {}
  /\ break_rx = [c \in Conns |-> <<>>]
  /\ opens = [k \in Keys |-> 0]
  /\ pc = [c \in Conns |-> "idle"]
  /\ req = [c \in Conns |-> LocalsOf(AnyKey)]
  /\ notified = [c \in Conns |-> {}]
  /\ caching = [k \in Keys |-> {}]
  /\ regrown = FALSE

Spec == Init /\ [][Next]_vars

\* Every task that can run is polled eventually: the runtime's scheduler and timers.
\* Nothing is assumed of the clients.
FairSpec == Spec /\ \A c \in Conns : WF_vars(FreeWorker /\ Server(c))

------------------------------------------------------------------------------
(* Properties *)

\* The variables hold what the code's types allow; absent leases are counted as {}.
TypeOK ==
  /\ leases \subseteq Keys
  /\ lease_state \in [Keys -> LeaseState]
  /\ \A k \in Keys \ leases : lease_state[k] = {}
  /\ lease_connections \subseteq Keys
  /\ pending_breaks \subseteq Conns
  /\ break_rx \in [Conns -> Seq(Event)]
  /\ opens \in [Keys -> Nat]
  /\ pc \in [Conns -> Labels]
  /\ req \in [Conns -> Locals]
  /\ notified \in [Conns -> SUBSET [key : Keys, new_state : LeaseState]]
  /\ caching \in [Keys -> LeaseState]
  /\ regrown \in BOOLEAN

\* No wakeup is lost and no break is leaked: a break_lease that waits without a
\* result is in pending_breaks, where an acknowledgment finds it, and whatever is
\* in pending_breaks has a break_lease waiting for it.
BreaksTracked ==
  /\ \A c \in pending_breaks : pc[c] \in {"wait", "expired"} /\ req[c].result = "none"
  /\ \A c \in Conns : pc[c] = "wait" /\ req[c].result = "none" => c \in pending_breaks

\* While a break is under way its lease stays registered and the owner's channel
\* stays open, though the owner may close or disconnect at any time: the event can
\* always be sent.
BreakReachesOwner ==
  \A c \in Conns : HoldsGuard(c) =>
    /\ req[c].snap.key \in lease_connections
    /\ pc[Owner[req[c].snap.key]] # "closed"

\* A break takes bits away and only from a lease that has to acknowledge it: never
\* from a lease of READ alone (calculate_break_state and leases_conflict together).
BreaksTakeAway ==
  \A c \in Conns : HoldsGuard(c) =>
    /\ BreakTo(c) \subseteq req[c].snap.state
    /\ BreakTo(c) # req[c].snap.state
    /\ req[c].snap.state # {READ_CACHING}

\* Why the three properties above hold, as an inductive invariant: handlers of CREATE
\* and CLOSE are about a key of their own connection, CLOSE about an open one; a break
\* that is not registered yet has no result; a registered lease has a live
\* connection; and every lease that is or will be broken was in conflict and has
\* something to lose.
Breakable(s, want) ==
  LeasesConflict(s.state, want) /\ CalculateBreakState(s.state, want) # s.state

HandlerInv(c) ==
  /\ pc[c] \notin {"idle", "ack_get", "ack_put", "cleanup", "closed"} => Owner[req[c].key] = c
  /\ pc[c] \in {"unregister", "delete"} => opens[req[c].key] > 0
  /\ pc[c] \in {"send", "pending"} => req[c].result = "none"
  /\ \A s \in req[c].todo : Breakable(s, req[c].want)
  /\ HoldsGuard(c) => Breakable(req[c].snap, req[c].want)

BreakInv ==
  /\ \A c \in Conns : HandlerInv(c)
  /\ \A k \in lease_connections : pc[Owner[k]] # "closed"

\* In the store, a lease with WRITE_CACHING excludes any caching by another key of
\* the file (leases_conflict).  The code does not keep this; see the next property.
StoreExclusive ==
  \A k, l \in leases :
    k # l /\ FileOf[k] = FileOf[l] => ~LeasesConflict(lease_state[k], lease_state[l])

\* check_and_create_lease, breaks and closes keep the leases of a file compatible;
\* the one thing that can end it is a write-back (update_lease after a break or an
\* acknowledgment) that restores bits the lease has lost since it was read.
ExclusiveUntilRegrown == regrown \/ StoreExclusive

\* Every request is answered, also when clients never acknowledge a break.
EveryRequestAnswered ==
  \A c \in Conns : pc[c] # "idle" ~> pc[c] \in {"idle", "closed"}

(* What the documentation says and the code does not do *)

Quiet == \A c \in Conns : pc[c] = "idle"

\* Only one client caches writes to a file: WRITE_CACHING as the protocol crate
\* encodes it in CREATE responses.  The store tests the bit of HANDLE_CACHING.
WireWriteExclusive ==
  \A k, l \in Keys : k # l /\ FileOf[k] = FileOf[l] =>
    ~(WIRE_WRITE_CACHING \in caching[k] \cap caching[l])

\* What clients may cache never conflicts, by the store's own rule.  After a break
\* handle_create answers with more than it has stored.
CachingExclusive ==
  \A k, l \in Keys : k # l /\ FileOf[k] = FileOf[l] => ~LeasesConflict(caching[k], caching[l])

\* A client that has been notified of a break in progress can acknowledge it.
\* break_lease sends the event before it registers the pending break.
NotifiedCanAcknowledge ==
  \A c \in Conns : \A n \in notified[c] : \A p \in Conns :
    pc[p] = "pending" /\ req[p].snap.key = n.key => BreakTo(p) # n.new_state

\* A lease is there as long as an open uses it (handle_close of another open).
LeaseLivesWhileOpen ==
  \A k \in Keys : pc[Owner[k]] = "idle" /\ opens[k] > 0 => k \in leases

\* A lease goes with its last open.  update_lease after a break brings it back.
NoGhostLease ==
  Quiet => \A k \in leases : opens[k] > 0

\* A lease whose connection is gone does not stand in the way of an open: a break
\* that finds no entry in the registry completes with NONE.
UnreachableLeaseYields ==
  \A c \in Conns : pc[c] = "recheck" =>
    \A k \in OthersOnFile(req[c].key) :
      pc[Owner[k]] = "closed" =>
        CalculateBreakState(lease_state[k], req[c].want) = lease_state[k]
==============================================================================
