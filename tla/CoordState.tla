----------------------------- MODULE CoordState -----------------------------
(* rustsmb-coord-raft/src/state.rs: the state machine of the embedded           *)
(* coordinator and what each CoordRequest does to it. A hash map is a set of    *)
(* records with one record for each key; the state of a lease is its set of     *)
(* caching rights, a subset of {"R", "W", "H"}.                                 *)
EXTENDS Integers, FiniteSets

CONSTANT U64Max  \* u64::MAX

Default == [cache_epoch |-> 1, servers |-> {}, leases |-> {}, locks |-> {}, next_lock_id |-> 1]

MutantLockEnd(l) == IF l.offset + l.length > U64Max THEN U64Max ELSE l.offset + l.length
LockEnd(l) == IF l.length = 0 \/ l.offset + l.length > U64Max THEN U64Max ELSE l.offset + l.length
ConflictsWith(l, o) ==
  /\ l.file_path = o.file_path /\ l.handle_id # o.handle_id
  /\ l.offset < LockEnd(o) /\ o.offset < LockEnd(l)
  /\ l.exclusive \/ o.exclusive

(* A ByteRangeLock: its offset and length are u64.                              *)
IsLock(l) ==
  /\ l = [lock_id |-> l.lock_id, file_path |-> l.file_path, handle_id |-> l.handle_id, session_id |-> l.session_id,
          server_id |-> l.server_id, offset |-> l.offset, length |-> l.length, exclusive |-> l.exclusive]
  /\ l.offset \in 0 .. U64Max /\ l.length \in 0 .. U64Max /\ l.exclusive \in BOOLEAN

LeasesConflict(existing, requested) ==
  ("W" \in existing /\ requested # {}) \/ ("W" \in requested /\ existing # {})

ReduceLeaseState(requested, conflicts) ==
  IF \E l \in conflicts : "W" \in l.lease_state THEN {} ELSE requested \ {"W"}

(* What may be granted to a request, and the leases it conflicts with.          *)
CheckLeaseConflict(st, file_path, lease_key, requested) ==
  LET existing  == {l \in st.leases : l.file_path = file_path /\ l.lease_key # lease_key}
      conflicts == {l \in existing : LeasesConflict(l.lease_state, requested)}
  IN  [conflicts |-> conflicts,
       granted   |-> IF conflicts = {} THEN requested ELSE ReduceLeaseState(requested, conflicts)]

(* A lock identifier is used up even when the lock is refused.                  *)
AcquireLock(st, lock) ==
  LET next == [st EXCEPT !.next_lock_id = @ + 1]
  IN  IF \E o \in st.locks : ConflictsWith(lock, o)
        THEN [st |-> next, ret |-> FALSE]
        ELSE [st |-> [next EXCEPT !.locks = @ \cup {[lock EXCEPT !.lock_id = st.next_lock_id]}], ret |-> TRUE]

KeepLocks(st, kept) == [st EXCEPT !.locks = kept]

Bumped(st) == [st EXCEPT !.cache_epoch = @ + 1]

(* A CoordRequest.                                                              *)
IsRequest(q) ==
  /\ q.op \in {"RegisterServer", "UnregisterServer", "UpdateHeartbeat", "IncrementEpoch", "CreateLease", "UpdateLease",
               "DeleteLease", "ReleaseLeasesForServer", "AcquireLock", "ReleaseLock", "ReleaseLocksForSession",
               "ReleaseLocksForHandle", "ReleaseLocksForServer"}
  /\ q.op = "AcquireLock" => IsLock(q.val)

Apply(st, q) ==
  LET Ok(next) == [st |-> next, ret |-> "ok"]
  IN  CASE q.op = "RegisterServer" -> Ok([st EXCEPT !.servers = {r \in @ : r.server_id # q.val.server_id} \cup {q.val}])
        [] q.op = "UnregisterServer" ->
             LET next == Bumped([st EXCEPT !.servers = {r \in @ : r.server_id # q.val}])
             IN  [st |-> next, ret |-> next.cache_epoch]
        [] q.op = "UpdateHeartbeat" ->
             Ok([st EXCEPT !.servers = {IF r.server_id = q.val THEN [r EXCEPT !.last_heartbeat = q.timestamp] ELSE r :
                                          r \in @}])
        [] q.op = "IncrementEpoch" -> [st |-> Bumped(st), ret |-> st.cache_epoch + 1]
        [] q.op = "CreateLease" ->
             IF \E l \in st.leases : l.lease_key = q.val.lease_key
               THEN [st |-> st, ret |-> "error"] ELSE Ok([st EXCEPT !.leases = @ \cup {q.val}])
        [] q.op = "UpdateLease" -> Ok([st EXCEPT !.leases = {l \in @ : l.lease_key # q.val.lease_key} \cup {q.val}])
        [] q.op = "DeleteLease" -> Ok([st EXCEPT !.leases = {l \in @ : l.lease_key # q.val}])
        [] q.op = "ReleaseLeasesForServer" -> Ok([st EXCEPT !.leases = {l \in @ : l.server_id # q.val}])
        [] q.op = "AcquireLock" -> AcquireLock(st, q.val)
        [] q.op = "ReleaseLock" -> Ok(KeepLocks(st, {l \in st.locks : l.lock_id # q.val}))
        [] q.op = "ReleaseLocksForSession" -> Ok(KeepLocks(st, {l \in st.locks : l.session_id # q.val}))
        [] q.op = "ReleaseLocksForHandle" -> Ok(KeepLocks(st, {l \in st.locks : l.handle_id # q.val}))
        [] q.op = "ReleaseLocksForServer" -> Ok(KeepLocks(st, {l \in st.locks : l.server_id # q.val}))

MutantGetStaleServers(st, threshold) == {r.server_id : r \in {x \in st.servers : x.last_heartbeat <= threshold}}
GetStaleServers(st, threshold) == {r.server_id : r \in {x \in st.servers : x.last_heartbeat < threshold}}
==============================================================================
