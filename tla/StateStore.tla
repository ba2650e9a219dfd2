----------------------------- MODULE StateStore -----------------------------
(***************************************************************************)
(* The StateStore trait as MemoryStateStore implements it: every call has  *)
(* its effect and its answer in one step, under the lock of one table,     *)
(* somewhere between its start and its return.                             *)
(*                                                                         *)
(* A table entry is addressed by <<kind, id>>.  Records carry the fields   *)
(* that calls select by: the user of a session, the session of a tree or   *)
(* handle, the handle of a lock.  Leases and cluster-wide file locks,      *)
(* whose calls check before they insert, are in Leases and FileLocks.      *)
(*                                                                         *)
(* A store may drop entries that have a time to live (Droppable; none in   *)
(* memory), and a call may fail with or without its effect (StateError).   *)
(***************************************************************************)
EXTENDS Naturals

CONSTANTS
  Clients,    \* tasks that call the store
  Keys,       \* <<kind, id>>
  Calls,      \* the calls, see below
  Droppable,  \* keys the store may drop by itself
  NoRecord

VARIABLES
  table,  \* [Keys -> a record or NoRecord]
  call,   \* the call of each client, or Idle
  ret     \* its answer, or Pending

storeVars == <<table, call, ret>>

Idle == [fn |-> "idle"]
Pending == [is |-> "pending"]
Ok == [is |-> "ok"]
Error == [is |-> "error"]
Value(v) == [is |-> "value", val |-> v]

\* What a call leaves in the table, and what it answers.
Outcome(t, answer) == [table |-> t, ret |-> answer]

------------------------------------------------------------------------------
(* The calls: [fn, kind, key, ...] with the record o.rec that a call writes (the
   token of a distributed lock), or o.field and o.owner that a list selects by. *)

Write(t, o) == Outcome([t EXCEPT ![o.key] = o.rec], Ok)
Look(t, o) == Outcome(t, Value(t[o.key]))
Remove(t, o) == Outcome([t EXCEPT ![o.key] = NoRecord], Ok)
List(t, o) ==
  Outcome(t, Value({t[k] : k \in {k \in Keys : /\ k[1] = o.kind /\ t[k] # NoRecord
                                               /\ t[k][o.field] = o.owner}}))

SessionCall(t, o) ==
  CASE o.fn \in {"create_session", "update_session"} -> Write(t, o)
    [] o.fn = "get_session" -> Look(t, o)
    [] o.fn = "delete_session" -> Remove(t, o)
    [] o.fn = "refresh_session" ->
         Outcome(IF t[o.key] = NoRecord THEN t ELSE [t EXCEPT ![o.key].live = TRUE], Ok)
    [] o.fn = "list_sessions" -> List(t, o)

TreeCall(t, o) ==
  CASE o.fn = "create_tree" -> Write(t, o)
    [] o.fn = "get_tree" -> Look(t, o)
    [] o.fn = "get_trees_by_session" -> List(t, o)
    [] o.fn = "delete_tree" -> Remove(t, o)

HandleCall(t, o) ==
  CASE o.fn \in {"create_handle", "update_handle"} -> Write(t, o)
    [] o.fn = "get_handle" -> Look(t, o)
    [] o.fn \in {"get_handles_by_session", "get_handles_for_file"} -> List(t, o)
    [] o.fn = "delete_handle" -> Remove(t, o)

LockCall(t, o) ==
  CASE o.fn = "create_lock" -> Write(t, o)
    [] o.fn = "get_locks" -> List(t, o)
    [] o.fn = "delete_lock" -> Remove(t, o)

\* acquire, release and extend: the entry is the token of the holder.
DistributedLockCall(t, o) ==
  CASE o.fn = "acquire_distributed_lock" ->
         IF t[o.key] = NoRecord THEN Outcome([t EXCEPT ![o.key] = o.rec], Value(o.rec))
                                ELSE Outcome(t, Value(NoRecord))
    [] o.fn = "release_distributed_lock" ->
         Outcome(IF t[o.key] = o.rec THEN [t EXCEPT ![o.key] = NoRecord] ELSE t, Ok)
    [] o.fn = "extend_distributed_lock" -> Outcome(t, Value(t[o.key] = o.rec))

\* next_session_id, next_tree_id, next_handle_id and next_file_lock_id: the entry is
\* the counter, the id the next number.
CounterCall(t, o) == Outcome([t EXCEPT ![o.key] = @ + 1], Value(t[o.key] + 1))

Effect(t, o) ==
  CASE o.kind = "session" -> SessionCall(t, o)
    [] o.kind = "tree" -> TreeCall(t, o)
    [] o.kind = "handle" -> HandleCall(t, o)
    [] o.kind = "lock" -> LockCall(t, o)
    [] o.kind = "distlock" -> DistributedLockCall(t, o)
    [] o.kind = "counter" -> CounterCall(t, o)

------------------------------------------------------------------------------
Empty == [k \in Keys |-> IF k[1] = "counter" THEN 0 ELSE NoRecord]

Init ==
  /\ table = Empty
  /\ call = [c \in Clients |-> Idle]
  /\ ret = [c \in Clients |-> Pending]

Start(c) ==
  /\ call[c] = Idle
  /\ call'[c] \in Calls
  /\ call' = [call EXCEPT ![c] = call'[c]]
  /\ UNCHANGED <<table, ret>>

Perform(c) ==
  /\ call[c] # Idle /\ ret[c] = Pending
  /\ table' = Effect(table, call[c]).table
  /\ ret' = [ret EXCEPT ![c] = Effect(table, call[c]).ret]
  /\ UNCHANGED call

Fail(c) ==
  /\ call[c] # Idle
  /\ ret' = [ret EXCEPT ![c] = Error]
  /\ UNCHANGED <<table, call>>

Return(c) ==
  /\ ret[c] # Pending
  /\ call' = [call EXCEPT ![c] = Idle]
  /\ ret' = [ret EXCEPT ![c] = Pending]
  /\ UNCHANGED table

Drop(k) ==
  /\ table[k] # NoRecord
  /\ table' = [table EXCEPT ![k] = NoRecord]
  /\ UNCHANGED <<call, ret>>

Next ==
  \/ \E c \in Clients : Start(c) \/ Perform(c) \/ Fail(c) \/ Return(c)
  \/ \E k \in Droppable : Drop(k)

Spec == Init /\ [][Next]_storeVars
==============================================================================
