----------------------------- MODULE RedisStore -----------------------------
(***************************************************************************)
(* RedisStateStore: the calls of the StateStore trait as the Redis         *)
(* commands they issue.  Redis runs one command at a time (or one MULTI /  *)
(* EXEC block, or one script); between two commands of a call the commands *)
(* of other servers run, and any command can fail, which ends the call     *)
(* with what it has done so far.                                           *)
(*                                                                         *)
(* A call is a record with the commands to issue (cmds).  A command says   *)
(* what the code does with its reply, which may put further commands in    *)
(* front of those that are left.                                           *)
(*                                                                         *)
(* Records are stored under <<kind, id>>; sets of keys under               *)
(* <<kind, field, value>> are the indexes (smb:handle:session:...).        *)
(* Calls on different kinds touch different keys, so that a behaviour uses *)
(* the calls of one family.  Serialisation is left out: what is stored is  *)
(* the record.                                                             *)
(***************************************************************************)
EXTENDS Naturals, Sequences, FiniteSets

CONSTANTS
  Clients,    \* tasks of the servers that share the Redis instance
  Keys,       \* <<kind, id>>
  IndexKeys,  \* <<kind, field, value>>
  Families,   \* [name -> [calls, atomic]]: sets of calls; atomic: single-record calls
  NoRecord,
  MaxCalls,   \* calls in a behaviour
  MaxFaults,  \* commands that fail
  MaxTries    \* attempts of check_and_create_lease (3)

VARIABLES
  str,       \* string keys: [Keys -> a record or NoRecord]
  volatile,  \* those with a time to live
  idx,       \* sets: [IndexKeys -> SUBSET Keys]
  family,    \* the family of calls of this behaviour
  op,        \* the call of each client, or Idle
  todo,      \* its commands
  found,     \* <<key, record>> pairs it has read
  ret,       \* its answer, or Pending
  tries,     \* attempts of check_and_create_lease
  watch,     \* WATCH: [on, dirty]
  calls, faults, used,        \* bounds, and ids that were handed out
  alone, settled, stable      \* history, see below

redis == <<str, volatile, idx>>
client == <<op, todo, found, ret, tries, watch>>
bounds == <<family, calls, faults, used>>
history == <<alone, settled, stable>>
vars == <<redis, client, bounds, history>>

Idle == [fn |-> "idle", kind |-> "none", does |-> "nothing"]
Pending == [is |-> "pending"]
Ok == [is |-> "ok"]
Error == [is |-> "error"]
Value(v) == [is |-> "value", val |-> v]

\* The answer to an aborted EXEC that is taken for success.
Unstored == [is |-> "value", val |-> TRUE, stored |-> FALSE]

NoWatch == [on |-> <<>>, dirty |-> FALSE]

------------------------------------------------------------------------------
(* Keys, indexes and rules *)

\* The indexes of each kind, in the order of the SADD commands (mod keys).
Fields(kind) ==
  CASE kind = "session" -> <<"user">>
    [] kind \in {"tree", "handle"} -> <<"session">>
    [] kind = "lock" -> <<"handle">>
    [] kind = "lease" -> <<"file", "server">>
    [] kind = "filelock" -> <<"file", "session", "handle", "server">>
    [] OTHER -> <<>>

IndexSeq(k, r, fields) == [i \in 1..Len(fields) |-> <<k[1], fields[i], r[fields[i]]>>]
Indexes(k, r) == {<<k[1], Fields(k[1])[i], r[Fields(k[1])[i]]>> : i \in 1..Len(Fields(k[1]))}

\* locks_conflict.
locks_conflict(e, n) ==
  /\ e.file = n.file
  /\ ~(n.offset >= e.offset + e.length \/ e.offset >= n.offset + n.length)
  /\ e.exclusive \/ n.exclusive

\* check_lease_conflicts.  States are sets of caching rights.
check_lease_conflicts(existing, requested) ==
  LET writer(l) == "W" \in l.state /\ requested # {}
      wanted(l) == "W" \notin l.state /\ "W" \in requested /\ l.state # {}
      conflicts == {l \in existing : writer(l) \/ wanted(l)}
  IN [conflicts |-> conflicts,
      granted |-> IF \E l \in existing : "W" \in l.state THEN {}
                  ELSE IF conflicts # {} THEN requested \ {"W"} ELSE requested]

------------------------------------------------------------------------------
(* Commands *)

Set(k, r, answer) == [cmd |-> "SET", key |-> k, rec |-> r, ttl |-> FALSE, ret |-> answer]
SetEx(k, r, answer) == [cmd |-> "SET", key |-> k, rec |-> r, ttl |-> TRUE, ret |-> answer]
Del(k) == [cmd |-> "DEL", key |-> k]
DelIndex(i) == [cmd |-> "DELINDEX", idx |-> i]
Get(k, then, fields) == [cmd |-> "GET", key |-> k, then |-> then, fields |-> fields]
Smembers(i, then, fields) == [cmd |-> "SMEMBERS", idx |-> i, then |-> then, fields |-> fields]
Sadds(k, r) ==
  LET is == IndexSeq(k, r, Fields(k[1]))
  IN [j \in 1..Len(is) |-> [cmd |-> "SADD", idx |-> is[j], key |-> k]]
Srems(k, r, fields, lenient) ==
  LET is == IndexSeq(k, r, fields)
  IN [j \in 1..Len(is) |-> [cmd |-> "SREM", idx |-> is[j], key |-> k, lenient |-> lenient]]

\* The shapes the calls share: store and index; read; read and remove; read every
\* member of an index; remove every member of an index and the index.
Store(fn, k, r, cmds) ==
  [fn |-> fn, kind |-> k[1], does |-> "write", key |-> k, rec |-> r, cmds |-> cmds]
Fetch(fn, k) ==
  [fn |-> fn, kind |-> k[1], does |-> "read", key |-> k, cmds |-> <<Get(k, "answer", <<>>)>>]
Erase(fn, k) ==
  [fn |-> fn, kind |-> k[1], does |-> "remove", key |-> k,
   cmds |-> <<Get(k, "remove", Fields(k[1])), Del(k)>>]
ListOf(fn, i) ==
  [fn |-> fn, kind |-> i[1], does |-> "list", idx |-> i, cmds |-> <<Smembers(i, "collect", <<>>)>>]
Purge(fn, i, fields, lenient) ==
  [fn |-> fn, kind |-> i[1], does |-> "purge", idx |-> i, lenient |-> lenient,
   cmds |-> <<Smembers(i, "remove", fields), DelIndex(i)>>]

------------------------------------------------------------------------------
(* Sessions, trees, handles, locks *)

\* Without time left the session is stored without a time to live.
create_session(k, r) ==
  Store("create_session", k, r,
        <<IF r.live THEN SetEx(k, r, Ok) ELSE Set(k, r, Ok)>> \o Sadds(k, r))
get_session(k) == Fetch("get_session", k)
update_session(k, r) == [create_session(k, r) EXCEPT !.fn = "update_session"]

delete_session(k) == Erase("delete_session", k)

\* The session that was read is written back, with a new expiry time.
refresh_session(k) ==
  [fn |-> "refresh_session", kind |-> "session", does |-> "touch", key |-> k,
   cmds |-> <<Get(k, "refresh", <<>>)>>]

\* For one user by the index, for all users by a scan of the keys.
list_sessions(user) ==
  IF user = NoRecord
  THEN [fn |-> "list_sessions", kind |-> "session", does |-> "scan",
        cmds |-> <<[cmd |-> "SCAN"]>>]
  ELSE ListOf("list_sessions", <<"session", "user", user>>)

create_tree(k, r) == Store("create_tree", k, r, <<Set(k, r, Ok)>> \o Sadds(k, r))
get_tree(k) == Fetch("get_tree", k)
get_trees_by_session(s) == ListOf("get_trees_by_session", <<"tree", "session", s>>)

\* The session is part of the key: nothing has to be read, and the record goes first.
delete_tree(k, r) ==
  [fn |-> "delete_tree", kind |-> "tree", does |-> "remove", key |-> k,
   cmds |-> <<Del(k)>> \o Srems(k, r, Fields("tree"), FALSE)]

create_handle(k, r) == Store("create_handle", k, r, <<Set(k, r, Ok)>> \o Sadds(k, r))
get_handle(k) == Fetch("get_handle", k)

\* Mutant: an update does not index the handle under its session.
Mutant_update_handle(k, r) == Store("update_handle", k, r, <<Set(k, r, Ok)>>)

\* The index of an earlier session of the handle keeps it.
update_handle(k, r) == [create_handle(k, r) EXCEPT !.fn = "update_handle"]
get_handles_by_session(s) == ListOf("get_handles_by_session", <<"handle", "session", s>>)

\* KEYS smb:handle:* also matches the indexes smb:handle:session:*.
get_handles_for_file(path) ==
  [fn |-> "get_handles_for_file", kind |-> "handle", does |-> "keys", path |-> path,
   cmds |-> <<[cmd |-> "KEYS"]>>]
delete_handle(k) == Erase("delete_handle", k)

create_lock(k, r) == Store("create_lock", k, r, <<Set(k, r, Ok)>> \o Sadds(k, r))
get_locks(h) == ListOf("get_locks", <<"lock", "handle", h>>)
delete_lock(k) == Erase("delete_lock", k)

------------------------------------------------------------------------------
(* Distributed locks and counters: one command each *)

Single(fn, k, r, cmd) ==
  [fn |-> fn, kind |-> k[1], does |-> "single", key |-> k, rec |-> r,
   cmds |-> <<[cmd |-> cmd, key |-> k, rec |-> r]>>]

\* Mutant: SET without NX.
Mutant_acquire_distributed_lock(k, token) ==
  [Single("acquire_distributed_lock", k, token, "SETNX")
     EXCEPT !.cmds = <<SetEx(k, token, Value(token))>>]

\* SET NX EX.
acquire_distributed_lock(k, token) == Single("acquire_distributed_lock", k, token, "SETNX")

\* Scripts: compare with the token, then DEL or EXPIRE.
release_distributed_lock(k, token) == Single("release_distributed_lock", k, token, "DELIF")
extend_distributed_lock(k, token) == Single("extend_distributed_lock", k, token, "EXPIREIF")

next_session_id(k) == Single("next_session_id", k, NoRecord, "INCR")
next_tree_id(k) == Single("next_tree_id", k, NoRecord, "INCR")
next_handle_id(k) == Single("next_handle_id", k, NoRecord, "INCR")
next_file_lock_id(k) == Single("next_file_lock_id", k, NoRecord, "INCR")

------------------------------------------------------------------------------
(* Leases *)

create_lease(k, r) ==
  Store("create_lease", k, r, <<Get(k, "absent", <<>>), Set(k, r, Ok)>> \o Sadds(k, r))
get_lease(k) == Fetch("get_lease", k)

\* The record only: whether it is (still) indexed is not looked at.
update_lease(k, r) ==
  [Store("update_lease", k, r, <<Set(k, r, Ok)>>) EXCEPT !.does = "touch"]
delete_lease(k) == Erase("delete_lease", k)
get_leases_for_file(f) == ListOf("get_leases_for_file", <<"lease", "file", f>>)

\* Mutant: the index of the file is not watched.
Mutant_check_and_create_lease(k, r) ==
  Store("check_and_create_lease", k, r,
        <<Smembers(<<"lease", "file", r.file>>, "collect", <<>>), [cmd |-> "EXEC"]>>)

\* One attempt: WATCH the index of the file, read its leases, MULTI/EXEC.
check_and_create_lease(k, r) ==
  Store("check_and_create_lease", k, r,
        <<[cmd |-> "WATCH", idx |-> <<"lease", "file", r.file>>],
          Smembers(<<"lease", "file", r.file>>, "collect", <<>>),
          [cmd |-> "EXEC"]>>)

\* Only the index of the file is cleaned on the way, the one of the server last.
delete_leases_for_server(s) ==
  Purge("delete_leases_for_server", <<"lease", "server", s>>, <<"file">>, FALSE)

------------------------------------------------------------------------------
(* Cluster-wide file locks *)

\* Mutant: the lock is indexed under its handle, session and server only.
Mutant_acquire_file_lock(k, r) ==
  [Store("acquire_file_lock", k, r,
         <<Smembers(<<"filelock", "file", r.file>>, "check", <<>>), Set(k, r, Value(TRUE))>>
           \o Tail(Sadds(k, r)))
     EXCEPT !.does = "acquire"]

\* Check, then set: nothing makes the two one step.
acquire_file_lock(k, r) ==
  [Store("acquire_file_lock", k, r,
         <<Smembers(<<"filelock", "file", r.file>>, "check", <<>>), Set(k, r, Value(TRUE))>>
           \o Sadds(k, r))
     EXCEPT !.does = "acquire"]
release_file_lock(k) == Erase("release_file_lock", k)
get_file_locks(f) == ListOf("get_file_locks", <<"filelock", "file", f>>)

\* The lock leaves the other indexes, errors ignored; its own index goes last.
release_file_locks_for_session(s) ==
  Purge("release_file_locks_for_session", <<"filelock", "session", s>>,
        <<"file", "handle", "server">>, TRUE)
release_file_locks_for_handle(h) ==
  Purge("release_file_locks_for_handle", <<"filelock", "handle", h>>,
        <<"file", "session", "server">>, TRUE)
release_file_locks_for_server(s) ==
  Purge("release_file_locks_for_server", <<"filelock", "server", s>>,
        <<"file", "session", "handle">>, TRUE)

------------------------------------------------------------------------------
(* History.  A pair <<key, index>> is settled once a call that stores the record
   has returned, no other call on the record having overlapped it, and until a call
   that may take the record out of the index begins or the record expires.
   stable[c] are the keys that have been settled since the call of c began. *)

\* o and p, two calls that write, concern one record.
Concern(o, p) ==
  LET keyed(x) == x.does \in {"write", "acquire", "touch", "remove"}
      indexed(x) == x.does \in {"write", "acquire"}
  IN \/ keyed(o) /\ keyed(p) /\ o.key = p.key
     \/ o.does = "purge" /\ indexed(p) /\ o.idx \in Indexes(p.key, p.rec)
     \/ p.does = "purge" /\ indexed(o) /\ p.idx \in Indexes(o.key, o.rec)

\* The pairs that o may undo.
Undone(o) ==
  {x \in settled :
     \/ o.does = "remove" /\ x[1] = o.key
     \/ o.does \in {"write", "acquire"} /\ x[1] = o.key /\ x[2] \notin Indexes(o.key, o.rec)
     \/ o.does = "purge" /\ <<x[1], o.idx>> \in settled}

\* The index that a call reads.
ReadIndex(o) ==
  CASE o.does \in {"list", "purge"} -> o.idx
    [] o.does = "acquire" -> <<"filelock", "file", o.rec.file>>
    [] OTHER -> <<>>

Forget(pairs) ==
  /\ settled' = settled \ pairs
  /\ stable' = [c \in Clients |->
                  {k \in stable[c] : <<k, ReadIndex(op[c])>> \notin pairs}]

------------------------------------------------------------------------------
(* Calls *)

Fresh(o) == o.fn \in {"create_session", "create_tree", "create_handle", "create_lock",
                      "acquire_file_lock", "acquire_distributed_lock"}

\* The id of a new record comes from a counter, a token from the clock.
Id(o) == IF o.kind = "distlock" THEN o.rec ELSE o.key

Call(c, o) ==
  /\ op[c] = Idle /\ calls < MaxCalls
  /\ Fresh(o) => Id(o) \notin used
  /\ used' = IF Fresh(o) THEN used \cup {Id(o)} ELSE used
  /\ op' = [op EXCEPT ![c] = o]
  /\ todo' = [todo EXCEPT ![c] = o.cmds]
  /\ calls' = calls + 1
  /\ alone' = [d \in Clients |->
                 IF d = c THEN \A e \in Clients : ~Concern(o, op[e])
                 ELSE alone[d] /\ ~Concern(o, op[d])]
  /\ settled' = settled \ Undone(o)
  /\ stable' = [d \in Clients |->
                  IF d = c THEN {k \in Keys : <<k, ReadIndex(o)>> \in settled \ Undone(o)}
                  ELSE {k \in stable[d] : <<k, ReadIndex(op[d])>> \notin Undone(o)}]
  /\ UNCHANGED <<redis, found, ret, tries, watch, family, faults>>

\* The commands of a call are done.
Return(c) ==
  /\ op[c] # Idle /\ todo[c] = <<>>
  /\ settled' = IF op[c].does \in {"write", "acquire"} /\ alone[c] /\ ret[c] \in {Ok, Value(TRUE)}
                THEN settled \cup ({op[c].key} \X Indexes(op[c].key, op[c].rec))
                ELSE settled
  /\ op' = [op EXCEPT ![c] = Idle]
  /\ found' = [found EXCEPT ![c] = {}]
  /\ ret' = [ret EXCEPT ![c] = Pending]
  /\ tries' = [tries EXCEPT ![c] = 1]
  /\ stable' = [stable EXCEPT ![c] = {}]
  /\ UNCHANGED <<redis, todo, watch, bounds, alone>>

\* A command, or the connection, fails: `?` ends the call.  The call that purges
\* file locks goes on when an SREM fails.
Fault(c) ==
  /\ todo[c] # <<>> /\ faults < MaxFaults
  /\ faults' = faults + 1
  /\ IF Head(todo[c]).cmd = "SREM" /\ Head(todo[c]).lenient
     THEN /\ todo' = [todo EXCEPT ![c] = Tail(@)]
          /\ UNCHANGED <<ret, watch>>
     ELSE /\ todo' = [todo EXCEPT ![c] = <<>>]
          /\ ret' = [ret EXCEPT ![c] = Error]
          /\ watch' = [watch EXCEPT ![c] = NoWatch]
  /\ UNCHANGED <<redis, op, found, tries, family, calls, used, history>>

------------------------------------------------------------------------------
(* One command of a call *)

Command(c, name) == todo[c] # <<>> /\ Head(todo[c]).cmd = name

\* SADD, SREM and DEL of a set notify the clients that watch it, if it changes.
ChangeIndex(new) ==
  /\ idx' = new
  /\ watch' = [d \in Clients |->
       IF watch[d].on # <<>> /\ watch[d].on[1] \in {i \in IndexKeys : new[i] # idx[i]}
       THEN [watch[d] EXCEPT !.dirty = TRUE] ELSE watch[d]]

SET(c) ==
  /\ Command(c, "SET")
  /\ LET m == Head(todo[c]) IN
     /\ str' = [str EXCEPT ![m.key] = m.rec]
     /\ volatile' = IF m.ttl THEN volatile \cup {m.key} ELSE volatile \ {m.key}
     /\ ret' = [ret EXCEPT ![c] = m.ret]
  /\ todo' = [todo EXCEPT ![c] = Tail(@)]
  /\ UNCHANGED <<idx, op, found, tries, watch, bounds, history>>

DEL(c) ==
  /\ Command(c, "DEL")
  /\ str' = [str EXCEPT ![Head(todo[c]).key] = NoRecord]
  /\ volatile' = volatile \ {Head(todo[c]).key}
  /\ ret' = [ret EXCEPT ![c] = Ok]
  /\ todo' = [todo EXCEPT ![c] = Tail(@)]
  /\ UNCHANGED <<idx, op, found, tries, watch, bounds, history>>

SADD(c) ==
  /\ Command(c, "SADD")
  /\ ChangeIndex([idx EXCEPT ![Head(todo[c]).idx] = @ \cup {Head(todo[c]).key}])
  /\ todo' = [todo EXCEPT ![c] = Tail(@)]
  /\ UNCHANGED <<str, volatile, op, found, ret, tries, bounds, history>>

SREM(c) ==
  /\ Command(c, "SREM")
  /\ ChangeIndex([idx EXCEPT ![Head(todo[c]).idx] = @ \ {Head(todo[c]).key}])
  /\ todo' = [todo EXCEPT ![c] = Tail(@)]
  /\ UNCHANGED <<str, volatile, op, found, ret, tries, bounds, history>>

DELINDEX(c) ==
  /\ Command(c, "DELINDEX")
  /\ ChangeIndex([idx EXCEPT ![Head(todo[c]).idx] = {}])
  /\ todo' = [todo EXCEPT ![c] = Tail(@)]
  /\ ret' = [ret EXCEPT ![c] = Ok]
  /\ UNCHANGED <<str, volatile, op, found, tries, bounds, history>>

\* GET, by what the code does with the reply.
GetAnswer(c) ==
  /\ Command(c, "GET") /\ Head(todo[c]).then = "answer"
  /\ ret' = [ret EXCEPT ![c] = Value(str[Head(todo[c]).key])]
  /\ todo' = [todo EXCEPT ![c] = Tail(@)]
  /\ UNCHANGED <<redis, op, found, tries, watch, bounds, history>>

GetCollect(c) ==
  /\ Command(c, "GET") /\ Head(todo[c]).then = "collect"
  /\ LET k == Head(todo[c]).key IN
     found' = [found EXCEPT ![c] =
       IF str[k] = NoRecord \/ (op[c].does = "keys" /\ str[k].path # op[c].path)
       THEN @ ELSE @ \cup {<<k, str[k]>>}]
  /\ todo' = [todo EXCEPT ![c] = Tail(@)]
  /\ UNCHANGED <<redis, op, ret, tries, watch, bounds, history>>

GetRemove(c) ==
  /\ Command(c, "GET") /\ Head(todo[c]).then = "remove"
  /\ LET m == Head(todo[c])
         lenient == op[c].does = "purge" /\ op[c].lenient
         rems == IF str[m.key] = NoRecord THEN <<>> ELSE Srems(m.key, str[m.key], m.fields, lenient)
     IN todo' = [todo EXCEPT ![c] = rems \o Tail(@)]
  /\ UNCHANGED <<redis, op, found, ret, tries, watch, bounds, history>>

GetRefresh(c) ==
  /\ Command(c, "GET") /\ Head(todo[c]).then = "refresh"
  /\ LET k == Head(todo[c]).key IN
     IF str[k] = NoRecord
     THEN /\ ret' = [ret EXCEPT ![c] = Ok]
          /\ todo' = [todo EXCEPT ![c] = Tail(@)]
     ELSE /\ todo' = [todo EXCEPT ![c] = <<SetEx(k, [str[k] EXCEPT !.live = TRUE], Ok)>> \o Tail(@)]
          /\ UNCHANGED ret
  /\ UNCHANGED <<redis, op, found, tries, watch, bounds, history>>

GetAbsent(c) ==
  /\ Command(c, "GET") /\ Head(todo[c]).then = "absent"
  /\ IF str[Head(todo[c]).key] = NoRecord
     THEN todo' = [todo EXCEPT ![c] = Tail(@)] /\ UNCHANGED ret
     ELSE todo' = [todo EXCEPT ![c] = <<>>] /\ ret' = [ret EXCEPT ![c] = Error]
  /\ UNCHANGED <<redis, op, found, tries, watch, bounds, history>>

GetCheck(c) ==
  /\ Command(c, "GET") /\ Head(todo[c]).then = "check"
  /\ LET e == str[Head(todo[c]).key] IN
     IF e # NoRecord /\ locks_conflict(e, op[c].rec)
     THEN todo' = [todo EXCEPT ![c] = <<>>] /\ ret' = [ret EXCEPT ![c] = Value(FALSE)]
     ELSE todo' = [todo EXCEPT ![c] = Tail(@)] /\ UNCHANGED ret
  /\ UNCHANGED <<redis, op, found, tries, watch, bounds, history>>

\* The orders in which a set may be listed.
Orders(S) == {s \in [1..Cardinality(S) -> S] : \A i, j \in DOMAIN s : s[i] = s[j] => i = j}

\* SMEMBERS: every member is read, and with "remove" then removed.
SMEMBERS(c) ==
  /\ Command(c, "SMEMBERS")
  /\ LET m == Head(todo[c])
         each(k) == IF m.then = "remove" THEN <<Get(k, m.then, m.fields), Del(k)>>
                    ELSE <<Get(k, m.then, m.fields)>>
     IN \E s \in Orders(idx[m.idx]) :
          LET gets[i \in 0..Len(s)] == IF i = 0 THEN <<>> ELSE gets[i - 1] \o each(s[i])
          IN todo' = [todo EXCEPT ![c] = gets[Len(s)] \o Tail(@)]
  /\ UNCHANGED <<redis, op, found, ret, tries, watch, bounds, history>>

\* SCAN returns every key that is there all the time, and may return others; keys of
\* the user indexes do not parse as a session id.
SCAN(c) ==
  /\ Command(c, "SCAN")
  /\ LET here == {k \in Keys : k[1] = "session" /\ str[k] # NoRecord}
         ids == {k \in Keys : k[1] = "session"}
     IN \E S \in {T \in SUBSET ids : here \subseteq T} : \E s \in Orders(S) :
          todo' = [todo EXCEPT ![c] = [i \in 1..Len(s) |-> Get(s[i], "collect", <<>>)]]
  /\ UNCHANGED <<redis, op, found, ret, tries, watch, bounds, history>>

\* KEYS smb:handle:*: the handles and the session indexes that are not empty.
KEYS(c) ==
  /\ Command(c, "KEYS")
  /\ LET here == {k \in Keys : k[1] = "handle" /\ str[k] # NoRecord}
         sets == {i \in IndexKeys : i[1] = "handle" /\ idx[i] # {}}
     IN \E s \in Orders(here \cup sets) :
          todo' = [todo EXCEPT ![c] =
                     [i \in 1..Len(s) |-> IF s[i] \in sets THEN [cmd |-> "GETSET", idx |-> s[i]]
                                          ELSE Get(s[i], "collect", <<>>)]]
  /\ UNCHANGED <<redis, op, found, ret, tries, watch, bounds, history>>

\* GET of a key that holds a set: WRONGTYPE.
GETSET(c) ==
  /\ Command(c, "GETSET")
  /\ IF idx[Head(todo[c]).idx] = {}
     THEN todo' = [todo EXCEPT ![c] = Tail(@)] /\ UNCHANGED ret
     ELSE todo' = [todo EXCEPT ![c] = <<>>] /\ ret' = [ret EXCEPT ![c] = Error]
  /\ UNCHANGED <<redis, op, found, tries, watch, bounds, history>>

\* SET NX EX: nil, no token, if the key exists.
SETNX(c) ==
  /\ Command(c, "SETNX")
  /\ LET m == Head(todo[c]) IN
     IF str[m.key] = NoRecord
     THEN /\ str' = [str EXCEPT ![m.key] = m.rec]
          /\ volatile' = volatile \cup {m.key}
          /\ ret' = [ret EXCEPT ![c] = Value(m.rec)]
     ELSE /\ ret' = [ret EXCEPT ![c] = Value(NoRecord)]
          /\ UNCHANGED <<str, volatile>>
  /\ todo' = [todo EXCEPT ![c] = Tail(@)]
  /\ UNCHANGED <<idx, op, found, tries, watch, bounds, history>>

DELIF(c) ==
  /\ Command(c, "DELIF")
  /\ LET m == Head(todo[c]) IN
     IF str[m.key] = m.rec
     THEN str' = [str EXCEPT ![m.key] = NoRecord] /\ volatile' = volatile \ {m.key}
     ELSE UNCHANGED <<str, volatile>>
  /\ ret' = [ret EXCEPT ![c] = Ok]
  /\ todo' = [todo EXCEPT ![c] = Tail(@)]
  /\ UNCHANGED <<idx, op, found, tries, watch, bounds, history>>

EXPIREIF(c) ==
  /\ Command(c, "EXPIREIF")
  /\ ret' = [ret EXCEPT ![c] = Value(str[Head(todo[c]).key] = Head(todo[c]).rec)]
  /\ todo' = [todo EXCEPT ![c] = Tail(@)]
  /\ UNCHANGED <<redis, op, found, tries, watch, bounds, history>>

INCR(c) ==
  /\ Command(c, "INCR")
  /\ str' = [str EXCEPT ![Head(todo[c]).key] = @ + 1]
  /\ ret' = [ret EXCEPT ![c] = Value(str[Head(todo[c]).key] + 1)]
  /\ todo' = [todo EXCEPT ![c] = Tail(@)]
  /\ UNCHANGED <<volatile, idx, op, found, tries, watch, bounds, history>>

WATCH(c) ==
  /\ Command(c, "WATCH")
  /\ watch' = [watch EXCEPT ![c] = [on |-> <<Head(todo[c]).idx>>, dirty |-> FALSE]]
  /\ todo' = [todo EXCEPT ![c] = Tail(@)]
  /\ UNCHANGED <<redis, op, found, ret, tries, bounds, history>>

\* The leases read and the state that is granted.
Decision(c) == check_lease_conflicts({x[2] : x \in found[c]}, op[c].rec.state)
Refused(c) == Decision(c).conflicts # {} /\ Decision(c).granted = {}

UNWATCH(c) ==
  /\ Command(c, "EXEC") /\ Refused(c)
  /\ ret' = [ret EXCEPT ![c] = Value(FALSE)]
  /\ watch' = [watch EXCEPT ![c] = NoWatch]
  /\ todo' = [todo EXCEPT ![c] = <<>>]
  /\ UNCHANGED <<redis, op, found, tries, bounds, history>>

EXEC(c) ==
  /\ Command(c, "EXEC") /\ ~Refused(c) /\ ~watch[c].dirty
  /\ LET k == op[c].key
         lease == [op[c].rec EXCEPT !.state = Decision(c).granted]
         new == [i \in IndexKeys |-> IF i \in Indexes(k, lease) THEN idx[i] \cup {k} ELSE idx[i]]
     IN /\ str' = [str EXCEPT ![k] = lease]
        /\ volatile' = volatile \ {k}
        /\ idx' = new
        /\ watch' = [d \in Clients |->
             IF d = c THEN NoWatch
             ELSE IF watch[d].on # <<>> /\ new[watch[d].on[1]] # idx[watch[d].on[1]]
             THEN [watch[d] EXCEPT !.dirty = TRUE] ELSE watch[d]]
  /\ ret' = [ret EXCEPT ![c] = Value(TRUE)]
  /\ todo' = [todo EXCEPT ![c] = <<>>]
  /\ UNCHANGED <<op, found, tries, bounds, history>>

\* EXEC of a transaction whose watched key has changed does nothing and replies nil.
\* The code retries if that is an error, MaxTries times in all; the conversion of nil to
\* () in the client library is none, and the call then reports the lease as granted.
ExecAborted(c) ==
  /\ Command(c, "EXEC") /\ ~Refused(c) /\ watch[c].dirty
  /\ watch' = [watch EXCEPT ![c] = NoWatch]
  /\ \/ /\ ret' = [ret EXCEPT ![c] = Unstored]
        /\ todo' = [todo EXCEPT ![c] = <<>>]
        /\ UNCHANGED <<found, tries>>
     \/ /\ tries[c] < MaxTries
        /\ tries' = [tries EXCEPT ![c] = @ + 1]
        /\ todo' = [todo EXCEPT ![c] = op[c].cmds]
        /\ found' = [found EXCEPT ![c] = {}]
        /\ UNCHANGED ret
     \/ /\ tries[c] = MaxTries
        /\ ret' = [ret EXCEPT ![c] = Error]
        /\ todo' = [todo EXCEPT ![c] = <<>>]
        /\ UNCHANGED <<found, tries>>
  /\ UNCHANGED <<redis, op, bounds, history>>

\* A time to live ends.  The indexes keep the key.
Expire(k) ==
  /\ k \in volatile
  /\ str' = [str EXCEPT ![k] = NoRecord]
  /\ volatile' = volatile \ {k}
  /\ Forget({x \in settled : x[1] = k})
  /\ alone' = [c \in Clients |-> alone[c] /\ ~(op[c].does = "write" /\ op[c].key = k)]
  /\ UNCHANGED <<idx, client, bounds>>

------------------------------------------------------------------------------
Step(c) ==
  \/ SET(c) \/ DEL(c) \/ SADD(c) \/ SREM(c) \/ DELINDEX(c)
  \/ GetAnswer(c) \/ GetCollect(c) \/ GetRemove(c) \/ GetRefresh(c) \/ GetAbsent(c) \/ GetCheck(c)
  \/ SMEMBERS(c) \/ SCAN(c) \/ KEYS(c) \/ GETSET(c)
  \/ SETNX(c) \/ DELIF(c) \/ EXPIREIF(c) \/ INCR(c)
  \/ WATCH(c) \/ UNWATCH(c) \/ EXEC(c) \/ ExecAborted(c)

Next ==
  \/ \E c \in Clients : (\E o \in Families[family].calls : Call(c, o)) \/ Step(c) \/ Return(c) \/ Fault(c)
  \/ \E k \in volatile : Expire(k)

Init ==
  /\ str = [k \in Keys |-> IF k[1] = "counter" THEN 0 ELSE NoRecord]
  /\ volatile = {}
  /\ idx = [i \in IndexKeys |-> {}]
  /\ family \in DOMAIN Families
  /\ op = [c \in Clients |-> Idle]
  /\ todo = [c \in Clients |-> <<>>]
  /\ found = [c \in Clients |-> {}]
  /\ ret = [c \in Clients |-> Pending]
  /\ tries = [c \in Clients |-> 1]
  /\ watch = [c \in Clients |-> NoWatch]
  /\ calls = 0 /\ faults = 0 /\ used = {}
  /\ alone = [c \in Clients |-> FALSE]
  /\ settled = {}
  /\ stable = [c \in Clients |-> {}]

Spec == Init /\ [][Next]_vars

------------------------------------------------------------------------------
(* Properties *)

\* What a call has stored and indexed, undisturbed, is there and indexed: no call on
\* another record, no failed or half-done call, removes it from the table or from an
\* index it is looked up by.
SettledIndexed ==
  \A x \in settled : str[x[1]] # NoRecord /\ x[1] \in idx[x[2]]

\* A list by session, user, handle or file misses nothing that was settled before it
\* began and stayed so: the teardown of a session finds every handle and tree of it.
ListComplete ==
  \A c \in Clients :
    op[c].does = "list" /\ todo[c] = <<>> /\ ret[c] # Error
      => \A k \in stable[c] : \E x \in found[c] : x[1] = k

\* A file lock is never granted against a lock whose acquisition had returned when it
\* was requested, and which has not been released since.
AcquireRespectsGranted ==
  \A c \in Clients :
    op[c].does = "acquire" /\ ret[c] = Value(TRUE)
      => \A k \in stable[c] : ~locks_conflict(str[k], op[c].rec)

\* Of the leases of a file that are held (created undisturbed, no removal begun), one
\* with WRITE caching is the only one with any caching: WATCH makes check and creation
\* one step, as long as update_lease takes rights away.
WriteCachingExclusive ==
  \A x, y \in {x \in settled : x[2][1] = "lease" /\ x[2][2] = "file"} :
    x[2] = y[2] /\ x # y /\ "W" \in str[x[1]].state => str[y[1]].state = {}

\* The single-record calls, the distributed locks and the counters implement the
\* trait as the in-memory store does: one effect at one instant of each call, though
\* index commands of several calls interleave and calls fail half-way.  Lists are not
\* atomic, and refresh_session, the leases and the file locks are not part of it.
Atomic(c) == Families[family].atomic /\ op[c].does \in {"write", "read", "remove", "single"}

AtomicCalls ==
  {o \in UNION {Families[f].calls : f \in {f \in DOMAIN Families : Families[f].atomic}} :
     o.does \in {"write", "read", "remove", "single"}}

Abstract == INSTANCE StateStore WITH
  Calls <- AtomicCalls,
  Droppable <- {k \in Keys : k[1] \in {"session", "distlock"}},
  table <- [k \in Keys |-> IF Families[family].atomic THEN str[k]
                           ELSE IF k[1] = "counter" THEN 0 ELSE NoRecord],
  call <- [c \in Clients |-> IF Atomic(c) THEN op[c] ELSE [fn |-> "idle"]],
  ret <- [c \in Clients |-> IF Atomic(c) THEN ret[c] ELSE Pending]

ImplementsStateStore == Abstract!Spec

(* What the documentation says and the code does not do *)

\* Conflicting file locks are never both granted.
NoConflictingFileLocks ==
  \A k, l \in {k \in Keys : k[1] = "filelock" /\ str[k] # NoRecord} :
    k # l => ~locks_conflict(str[k], str[l])

\* The handles of a file can be listed while handles are open.
FileScanAnswers ==
  \A c \in Clients :
    op[c].does = "keys" /\ todo[c] = <<>> /\ faults = 0 => ret[c] # Error
==============================================================================
