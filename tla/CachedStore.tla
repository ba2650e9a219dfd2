---------------------------- MODULE CachedStore -----------------------------
(***************************************************************************)
(* CachedStateStore on every server of a cluster: sessions, trees and      *)
(* handles are read through and written through the server's LocalCache;   *)
(* every other call goes straight to the bulk store they share.  A call is *)
(* interrupted at its awaits: before the bulk store, before the cache, and *)
(* inside put_*, which reads the epoch before it waits for the lock.       *)
(*                                                                         *)
(* The bulk store is one whose calls are atomic (StateStore).              *)
(*                                                                         *)
(* Behaviours are serial or not.  In a serial one a record is used by one  *)
(* server at a time (clients stay with their server), calls on it do not   *)
(* overlap, it moves only to a server whose cache has no valid entry of    *)
(* it, and a call that fails has had no effect.  Otherwise anything may    *)
(* overlap, and a call may fail after its effect.  Epochs only grow here;  *)
(* that they may not is shown in Coordination.                             *)
(***************************************************************************)
EXTENDS Naturals

CONSTANTS
  Clients,   \* tasks
  Servers,
  ServerOf,  \* [Clients -> Servers]
  Keys,      \* <<kind, id>>
  Calls,     \* see StateStore
  NoRecord,
  Modes,     \* how a behaviour goes: serial or not, with which calls, and which servers
             \* have a coordinator, hence a cache
  MaxCalls, MaxFaults, MaxEpoch

GetCalls == {"get_session", "get_tree", "get_handle"}
PutCalls == {"create_session", "update_session", "create_tree", "create_handle", "update_handle"}
RemoveCalls == {"delete_session", "refresh_session", "delete_tree", "delete_handle"}

\* The methods of the store, by the kind of record they are about.
Methods ==
  ({"session"} \X {"create_session", "get_session", "update_session", "delete_session", "refresh_session",
                   "list_sessions"})
  \cup ({"tree"} \X {"create_tree", "get_tree", "get_trees_by_session", "delete_tree"})
  \cup ({"handle"} \X {"create_handle", "get_handle", "update_handle", "get_handles_by_session",
                       "get_handles_for_file", "delete_handle"})
  \cup ({"lock"} \X {"create_lock", "get_locks", "delete_lock"})
  \cup ({"distlock"} \X {"acquire_distributed_lock", "release_distributed_lock", "extend_distributed_lock"})
  \cup ({"counter"} \X {"next_session_id", "next_tree_id", "next_handle_id", "next_file_lock_id"})

ASSUME ConstantsAssumption ==
  /\ ServerOf \in [Clients -> Servers] /\ Servers # {}
  /\ Modes \subseteq [serial : BOOLEAN, calls : SUBSET Calls, caching : SUBSET Servers]
  /\ \A o \in Calls : o.key \in Keys /\ o.key[1] = o.kind /\ <<o.kind, o.fn>> \in Methods
  /\ MaxCalls \in Nat /\ MaxFaults \in Nat /\ MaxEpoch \in Nat

VARIABLES
  bulk,           \* the bulk store: [Keys -> a record or NoRecord]
  cache,          \* LocalCache of each server: an entry or NoEntry for each key
  current_epoch,  \* its epoch
  home,           \* the server whose clients use a record, in a serial behaviour
  call, ret,      \* the call of each task and its answer
  at,             \* where it is
  held,           \* the record it will put into the cache
  tag,            \* the epoch it has read for it
  mode, calls, faults,
  ever, since     \* history, see below

vars == <<bulk, cache, current_epoch, home, call, ret, at, held, tag, mode, calls, faults, ever, since>>

Store == INSTANCE StateStore WITH
  Droppable <- {}, table <- bulk

Idle == [fn |-> "idle"]
Pending == [is |-> "pending"]
Value(v) == [is |-> "value", val |-> v]
Error == [is |-> "error"]
NoEntry == [val |-> NoRecord, epoch |-> 0]

\* CacheEntry::is_valid.  An entry whose TTL has passed is one that Drop has removed.
IsValid(s, k) == cache[s][k] # NoEntry /\ cache[s][k].epoch = current_epoch[s]

Key(c) == call[c].key
Here(c) == ServerOf[c]

------------------------------------------------------------------------------
(* Calls *)

\* Where a call starts, by the store's methods for sessions, ...
SessionStart(o) == IF o.fn = "get_session" THEN "lookup" ELSE "bulk"

\* ... for trees, ...
TreeStart(o) == IF o.fn = "get_tree" THEN "lookup" ELSE "bulk"

\* ... for handles, ...
HandleStart(o) == IF o.fn = "get_handle" THEN "lookup" ELSE "bulk"

\* ... and for everything else: the bulk store, and nothing more.
DirectStart(o) == "bulk"

StartAt(o) ==
  CASE o.kind = "session" -> SessionStart(o)
    [] o.kind = "tree" -> TreeStart(o)
    [] o.kind = "handle" -> HandleStart(o)
    [] OTHER -> DirectStart(o)

Start(c) ==
  /\ call[c] = Idle /\ calls < MaxCalls
  /\ \E o \in mode.calls :
       /\ mode.serial => /\ home[o.key] = Here(c)
                    /\ \A d \in Clients : call[d] # Idle => Key(d) # o.key
       /\ call' = [call EXCEPT ![c] = o]
       /\ at' = [at EXCEPT ![c] = StartAt(o)]
  /\ calls' = calls + 1
  /\ UNCHANGED <<bulk, cache, current_epoch, home, ret, held, tag, mode, faults, ever, since>>

Return(c) ==
  /\ at[c] = "done"
  /\ call' = [call EXCEPT ![c] = Idle]
  /\ ret' = [ret EXCEPT ![c] = Pending]
  /\ at' = [at EXCEPT ![c] = "idle"]
  /\ held' = [held EXCEPT ![c] = NoRecord]
  /\ tag' = [tag EXCEPT ![c] = 0]
  /\ UNCHANGED <<bulk, cache, current_epoch, home, mode, calls, faults, ever, since>>

------------------------------------------------------------------------------
(* The cache *)

Hit(c) ==
  /\ at[c] = "lookup" /\ Here(c) \in mode.caching
  /\ IsValid(Here(c), Key(c))
  /\ ret' = [ret EXCEPT ![c] = Value(cache[Here(c)][Key(c)].val)]
  /\ at' = [at EXCEPT ![c] = "done"]
  /\ UNCHANGED <<bulk, cache, current_epoch, home, call, held, tag, mode, calls, faults, ever, since>>

\* A stale entry is popped.
Miss(c) ==
  /\ at[c] = "lookup"
  /\ Here(c) \in mode.caching => ~IsValid(Here(c), Key(c))
  /\ cache' = IF Here(c) \in mode.caching THEN [cache EXCEPT ![Here(c)][Key(c)] = NoEntry] ELSE cache
  /\ at' = [at EXCEPT ![c] = "bulk"]
  /\ UNCHANGED <<bulk, current_epoch, home, call, ret, held, tag, mode, calls, faults, ever, since>>

\* put_session, put_tree, put_handle: CacheEntry::new reads the epoch ...
PutTag(c) ==
  /\ at[c] = "tag"
  /\ tag' = [tag EXCEPT ![c] = current_epoch[Here(c)]]
  /\ at' = [at EXCEPT ![c] = "insert"]
  /\ UNCHANGED <<bulk, cache, current_epoch, home, call, ret, held, mode, calls, faults, ever, since>>

\* ... and the entry is inserted under the lock.
PutInsert(c) ==
  /\ at[c] = "insert"
  /\ cache' = [cache EXCEPT ![Here(c)][Key(c)] = [val |-> held[c], epoch |-> tag[c]]]
  /\ at' = [at EXCEPT ![c] = "done"]
  /\ UNCHANGED <<bulk, current_epoch, home, call, ret, held, tag, mode, calls, faults, ever, since>>

\* remove_session, remove_tree, remove_handle.
Evict(c) ==
  /\ at[c] = "evict"
  /\ cache' = [cache EXCEPT ![Here(c)][Key(c)] = NoEntry]
  /\ at' = [at EXCEPT ![c] = "done"]
  /\ UNCHANGED <<bulk, current_epoch, home, call, ret, held, tag, mode, calls, faults, ever, since>>

\* The TTL of an entry, or the LRU limit.
Drop(s, k) ==
  /\ cache[s][k] # NoEntry
  /\ cache' = [cache EXCEPT ![s][k] = NoEntry]
  /\ UNCHANGED <<bulk, current_epoch, home, call, ret, at, held, tag, mode, calls, faults, ever, since>>

\* Mutant: the epoch stays as it is.
MutantInvalidateAll(s) ==
  /\ s \in mode.caching /\ current_epoch[s] < MaxEpoch
  /\ since' = [since EXCEPT ![s] = [k \in Keys |->
       {bulk[k]} \cup {held[c] : c \in {c \in Clients : at[c] = "tag" /\ Here(c) = s /\ Key(c) = k}}]]
  /\ UNCHANGED <<bulk, cache, current_epoch, home, call, ret, at, held, tag, mode, calls, faults, ever>>

\* invalidate_all, on a new epoch.  History: what the server may serve of k from now
\* on is what the bulk store holds, and what a task has read and not yet tagged.
InvalidateAll(s) ==
  /\ s \in mode.caching /\ current_epoch[s] < MaxEpoch
  /\ current_epoch' = [current_epoch EXCEPT ![s] = @ + 1]
  /\ since' = [since EXCEPT ![s] = [k \in Keys |->
       {bulk[k]} \cup {held[c] : c \in {c \in Clients : at[c] = "tag" /\ Here(c) = s /\ Key(c) = k}}]]
  /\ UNCHANGED <<bulk, cache, home, call, ret, at, held, tag, mode, calls, faults, ever>>

\* The clients that use a record move to another server (failover).
Move(k, s) ==
  /\ mode.serial /\ home[k] # s
  /\ \E o \in mode.calls : o.key = k
  /\ \A c \in Clients : call[c] # Idle => Key(c) # k
  /\ s \in mode.caching => ~IsValid(s, k)
  /\ home' = [home EXCEPT ![k] = s]
  /\ UNCHANGED <<bulk, cache, current_epoch, call, ret, at, held, tag, mode, calls, faults, ever, since>>

------------------------------------------------------------------------------
(* The bulk store *)

\* The effect of the call, and the values the store has held since.
Bulk(c) ==
  /\ at[c] = "bulk"
  /\ bulk' = Store!Effect(bulk, call[c]).table
  /\ ret' = [ret EXCEPT ![c] = Store!Effect(bulk, call[c]).ret]
  /\ ever' = [k \in Keys |-> ever[k] \cup {bulk'[k]}]
  /\ since' = [s \in Servers |-> [k \in Keys |-> since[s][k] \cup {bulk'[k]}]]
  /\ UNCHANGED <<cache, current_epoch, home, call, tag, mode, calls, faults>>

\* The result is cached if there is one.
BulkGet(c) ==
  /\ call[c].fn \in GetCalls
  /\ Bulk(c)
  /\ held' = [held EXCEPT ![c] = bulk[Key(c)]]
  /\ at' = [at EXCEPT ![c] = IF bulk[Key(c)] = NoRecord \/ Here(c) \notin mode.caching THEN "done" ELSE "tag"]

\* Write-through.
BulkPut(c) ==
  /\ call[c].fn \in PutCalls
  /\ Bulk(c)
  /\ held' = [held EXCEPT ![c] = call[c].rec]
  /\ at' = [at EXCEPT ![c] = IF Here(c) \in mode.caching THEN "tag" ELSE "done"]

\* Mutant: a refreshed or deleted record stays in the cache.
MutantBulkRemove(c) ==
  /\ call[c].fn \in RemoveCalls
  /\ Bulk(c)
  /\ at' = [at EXCEPT ![c] = "done"]
  /\ UNCHANGED held

BulkRemove(c) ==
  /\ call[c].fn \in RemoveCalls
  /\ Bulk(c)
  /\ at' = [at EXCEPT ![c] = IF Here(c) \in mode.caching THEN "evict" ELSE "done"]
  /\ UNCHANGED held

BulkDirect(c) ==
  /\ call[c].fn \notin GetCalls \cup PutCalls \cup RemoveCalls
  /\ Bulk(c)
  /\ at' = [at EXCEPT ![c] = "done"]
  /\ UNCHANGED held

\* The answer is lost, the effect is not; `?` leaves the cache as it was.
BulkFailsLate(c) ==
  /\ ~mode.serial /\ faults < MaxFaults
  /\ at[c] = "bulk"
  /\ bulk' = Store!Effect(bulk, call[c]).table
  /\ ret' = [ret EXCEPT ![c] = Error]
  /\ ever' = [k \in Keys |-> ever[k] \cup {bulk'[k]}]
  /\ since' = [s \in Servers |-> [k \in Keys |-> since[s][k] \cup {bulk'[k]}]]
  /\ at' = [at EXCEPT ![c] = "done"]
  /\ faults' = faults + 1
  /\ UNCHANGED <<cache, current_epoch, home, call, held, tag, mode, calls>>

\* `?`: nothing is cached or removed.
BulkFails(c) ==
  /\ at[c] = "bulk" /\ faults < MaxFaults
  /\ faults' = faults + 1
  /\ ret' = [ret EXCEPT ![c] = Error]
  /\ at' = [at EXCEPT ![c] = "done"]
  /\ UNCHANGED <<bulk, cache, current_epoch, home, call, held, tag, mode, calls, ever, since>>

------------------------------------------------------------------------------
Next ==
  \/ \E c \in Clients :
       \/ Start(c) \/ Return(c) \/ Hit(c) \/ Miss(c) \/ PutTag(c) \/ PutInsert(c) \/ Evict(c)
       \/ BulkGet(c) \/ BulkPut(c) \/ BulkRemove(c) \/ BulkDirect(c)
       \/ BulkFails(c) \/ BulkFailsLate(c)
  \/ \E s \in Servers : InvalidateAll(s) \/ \E k \in Keys : Drop(s, k) \/ Move(k, s)

Init ==
  /\ bulk = Store!Empty
  /\ cache = [s \in Servers |-> [k \in Keys |-> NoEntry]]
  /\ current_epoch = [s \in Servers |-> 1]
  /\ home = [k \in Keys |-> CHOOSE s \in Servers : TRUE]
  /\ call = [c \in Clients |-> Idle]
  /\ ret = [c \in Clients |-> Pending]
  /\ at = [c \in Clients |-> "idle"]
  /\ held = [c \in Clients |-> NoRecord]
  /\ tag = [c \in Clients |-> 0]
  /\ mode \in Modes
  /\ calls = 0 /\ faults = 0
  /\ ever = [k \in Keys |-> {bulk[k]}]
  /\ since = [s \in Servers |-> [k \in Keys |-> {bulk[k]}]]

Spec == Init /\ [][Next]_vars

------------------------------------------------------------------------------
(* Properties *)

\* No server serves a record that the bulk store has not held: a write that the store
\* refuses is not in the cache either.
NoPhantom ==
  \A s \in Servers, k \in Keys : IsValid(s, k) => cache[s][k].val \in ever[k]

\* An invalidation forgets: what a server has in its cache is something the bulk store
\* has held since the last invalidation, or that a task of this server had read before
\* it and tagged after it.  Nothing older comes back, whatever overlaps.
InvalidationForgets ==
  \A s \in Servers, k \in Keys : IsValid(s, k) => cache[s][k].val \in since[s][k]

\* In a serial behaviour the cache of the server that uses a record agrees with the
\* bulk store, except between the two steps of a call that changes it.
Coherent ==
  mode.serial =>
    \A k \in Keys :
      IsValid(home[k], k) /\ (\A c \in Clients : call[c] # Idle => Key(c) # k)
        => cache[home[k]][k].val = bulk[k]

\* In a serial behaviour the cached store is the store: every call takes effect on,
\* and answers from, the bulk store at one instant.
Abstract == INSTANCE StateStore WITH
  Droppable <- {},
  table <- IF mode.serial THEN bulk ELSE Store!Empty,
  call <- IF mode.serial THEN call ELSE [c \in Clients |-> Idle],
  ret <- IF mode.serial THEN ret ELSE [c \in Clients |-> Pending]

ImplementsStateStore == Abstract!Spec

(* What the documentation says and the code does not do *)

\* Strong consistency: a cached record that is not being written is what the store holds.
AlwaysCoherent ==
  \A s \in Servers, k \in Keys :
    IsValid(s, k) /\ (\A c \in Clients : call[c] # Idle => Key(c) # k)
      => cache[s][k].val = bulk[k]
==============================================================================
