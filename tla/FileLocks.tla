------------------------------ MODULE FileLocks ------------------------------
(***************************************************************************)
(* SMB2 LOCK and CLOSE as they act on byte-range locks: handle_lock and    *)
(* handle_close of the connection handler, the file-lock table of the      *)
(* in-memory StateStore, and the lock table of the VFS backend.            *)
(*                                                                         *)
(* A connection runs one request at a time and every `.await` of a handler *)
(* is a point where the other connections may run, so a request is a       *)
(* sequence of actions with a program counter per connection.  A handle    *)
(* may be used from several connections when its session is bound to them  *)
(* (multi-channel): ChannelsOf says from which.                            *)
(*                                                                         *)
(* Abstracted: tree connects (a handle stands for a live tree connect),    *)
(* the session check of handle_lock (a connection only names handles of    *)
(* its own session), parsing, lock ownership data no one reads, and what   *)
(* handle_close does besides: its lease (module Leases), delete-on-close.  *)
(***************************************************************************)
EXTENDS Naturals, Sequences, FiniteSets

CONSTANTS
  Conns,        \* connections, each running one handler at a time
  Handles,      \* open file handles (persistent ids)
  Files,        \* file paths
  FileOf,       \* FileOf[h]: the path handle h was opened on
  ChannelsOf,   \* ChannelsOf[h]: connections bound to h's session
  Requests,     \* the Locks arrays clients send
  Backend,      \* "ranges" (backend-memory) or "flock" (backend-local)
  I64Max,       \* i64::MAX
  U64Max,       \* u64::MAX
  MaxLockId     \* bound on next_file_lock_id, for model checking

Element == [op : {"lock", "unlock", "badflags"}, exclusive : BOOLEAN,
            fail_immediately : BOOLEAN, offset : 0 .. U64Max, length : 0 .. U64Max]

ASSUME ConstantsAssumption ==
  /\ I64Max \in Nat /\ U64Max \in Nat /\ I64Max < U64Max
  /\ MaxLockId \in Nat
  /\ Handles # {}
  /\ FileOf \in [Handles -> Files]
  /\ ChannelsOf \in [Handles -> SUBSET Conns]
  /\ Requests \subseteq Seq(Element)
  /\ Backend \in {"ranges", "flock"}

VARIABLES
  handles,            \* handles present in the StateStore
  file_locks,         \* the StateStore's file_locks: set of DistributedLock
  next_file_lock_id,  \* the StateStore's lock id counter
  node_locks,         \* the backend's lock table: file -> set of FileLock
  pc,                 \* where each connection's handler is suspended
  req,                \* the locals of the handler each connection runs
  granted             \* history: ranges whose holder was answered SUCCESS

vars == <<handles, file_locks, next_file_lock_id, node_locks, pc, req, granted>>

Labels == {"idle", "element", "lock", "acquire", "rollback", "release", "unlock",
           "close", "delete"}

Statuses == {"none", "Success", "FileClosed", "InvalidParameter", "InvalidLockRange",
             "LockNotGranted", "FileLockConflict"}

FileLock == [start : Nat, length : Nat, exclusive : BOOLEAN]

DistributedLock == [lock_id : Nat, handle : Handles, offset : Nat, length : Nat,
                    exclusive : BOOLEAN]

\* The locals of handle_lock: the handle, the whole Locks array, the part of it
\* still to do, the ids acquired so far and those a rollback still has to release,
\* the id found for an unlock (0: none), and the status of the answer.
Locals == [handle : Handles, elems : Seq(Element), todo : Seq(Element),
           acquired : SUBSET Nat, undo : SUBSET Nat, found : Nat, status : Statuses]

------------------------------------------------------------------------------
(* Ranges and conflicts *)

RangeEnd(offset, length) ==
  IF length = 0 THEN U64Max
  ELSE IF offset + length > U64Max THEN U64Max ELSE offset + length

\* DistributedLock::conflicts_with: locks of one handle never conflict.
ConflictsWith(a, b) ==
  /\ FileOf[a.handle] = FileOf[b.handle]
  /\ a.handle # b.handle
  /\ a.offset < RangeEnd(b.offset, b.length)
  /\ b.offset < RangeEnd(a.offset, a.length)
  /\ a.exclusive \/ b.exclusive

\* The lock a LOCK element asks for on handle h, under the given id.
LockFor(h, e, id) ==
  [lock_id |-> id, handle |-> h, offset |-> e.offset, length |-> e.length,
   exclusive |-> e.exclusive]

\* The range as the backend sees it: without an owner.
FileLockFor(e) == [start |-> e.offset, length |-> e.length, exclusive |-> e.exclusive]

\* The range check of handle_lock; checked_add cannot fail below I64Max.
RangeOverflows(e) == e.offset + e.length > I64Max

Current(c) == Head(req[c].todo)
File(c) == FileOf[req[c].handle]

------------------------------------------------------------------------------
(* The backend's lock table: every conflict is on the file, whoever owns it *)

BackendConflict(f, e) ==
  /\ Backend = "ranges"
  /\ \E l \in node_locks[f] :
        /\ e.offset < RangeEnd(l.start, l.length)
        /\ l.start < RangeEnd(e.offset, e.length)
        /\ l.exclusive \/ e.exclusive

\* flock on the one descriptor the server keeps per inode never conflicts with
\* itself, and its state is read by nobody else: node_locks stays empty.
BackendLocked(f, e) ==
  IF Backend = "ranges"
  THEN [node_locks EXCEPT ![f] = @ \cup {FileLockFor(e)}]
  ELSE node_locks

BackendUnlocked(f, e) ==
  [node_locks EXCEPT ![f] = {l \in @ : ~(l.start = e.offset /\ l.length = e.length)}]

------------------------------------------------------------------------------
(* Steps of a handler *)

Goto(c, l) == pc' = [pc EXCEPT ![c] = l]

Fresh(h, elems, status) ==
  [handle |-> h, elems |-> elems, todo |-> elems, acquired |-> {}, undo |-> {}, found |-> 0,
   status |-> status]

\* The handler of c returns: the connection is free for the next request.
Answer(c, status) ==
  /\ Goto(c, "idle")
  /\ req' = [req EXCEPT ![c] = Fresh(@.handle, <<>>, status)]

\* The handler of c fails with a conflict and goes on to release what this
\* request has acquired.
Conflict(c) ==
  /\ Goto(c, "rollback")
  /\ req' = [req EXCEPT
       ![c].undo = req[c].acquired,
       ![c].status = IF Current(c).fail_immediately THEN "LockNotGranted" ELSE "FileLockConflict"]

SameRange(a, b) == a.offset = b.offset /\ a.length = b.length

\* What a client counts as held: all it was granted but the ranges it asks to unlock.
GivenUp(h, elems) ==
  {g \in granted : g.handle = h /\ \E i \in DOMAIN elems : elems[i].op = "unlock" /\ SameRange(elems[i], g)}

GrantedBy(h, elems) ==
  {LockFor(h, elems[i], 0) : i \in {j \in DOMAIN elems :
     /\ elems[j].op = "lock"
     /\ \A k \in DOMAIN elems : k > j /\ elems[k].op = "unlock" => ~SameRange(elems[j], elems[k])}}

LockCount(elems) == Cardinality({i \in DOMAIN elems : elems[i].op = "lock"})

\* More than one element, one of which would have to wait.
MayBlock(elems) ==
  /\ Len(elems) > 1
  /\ \E i \in DOMAIN elems : elems[i].op # "unlock" /\ ~elems[i].fail_immediately

\* handle_lock up to the loop over the elements.
HandleLock(c, h, elems) ==
  /\ pc[c] = "idle"
  /\ c \in ChannelsOf[h]
  /\ next_file_lock_id + LockCount(elems) <= MaxLockId + 1
  /\ \/ /\ elems = <<>>
        /\ req' = [req EXCEPT ![c] = Fresh(h, <<>>, "InvalidParameter")]
        /\ UNCHANGED <<pc, granted>>
     \/ /\ elems # <<>> /\ h \notin handles
        /\ req' = [req EXCEPT ![c] = Fresh(h, <<>>, "FileClosed")]
        /\ UNCHANGED <<pc, granted>>
     \/ /\ elems # <<>> /\ h \in handles
        /\ MayBlock(elems)
        /\ req' = [req EXCEPT ![c] = Fresh(h, <<>>, "InvalidParameter")]
        /\ UNCHANGED <<pc, granted>>
     \/ /\ elems # <<>> /\ h \in handles
        /\ ~MayBlock(elems)
        /\ req' = [req EXCEPT ![c] = Fresh(h, elems, "none")]
        /\ Goto(c, "element")
        /\ granted' = granted \ GivenUp(h, elems)
  /\ UNCHANGED <<handles, file_locks, next_file_lock_id, node_locks>>

\* The loop is done: LockResponse.
AnswerLock(c) ==
  /\ pc[c] = "element"
  /\ req[c].todo = <<>>
  /\ Answer(c, "Success")
  /\ granted' = granted \cup GrantedBy(req[c].handle, req[c].elems)
  /\ UNCHANGED <<handles, file_locks, next_file_lock_id, node_locks>>

\* An invalid element ends the request at once; what the earlier elements did stays.
RejectElement(c) ==
  /\ pc[c] = "element"
  /\ req[c].todo # <<>>
  /\ \/ Current(c).op = "badflags" /\ Answer(c, "InvalidParameter")
     \/ Current(c).op # "badflags" /\ RangeOverflows(Current(c)) /\ Answer(c, "InvalidLockRange")
  /\ UNCHANGED <<handles, file_locks, next_file_lock_id, node_locks, granted>>

Valid(c) ==
  /\ pc[c] = "element"
  /\ req[c].todo # <<>>
  /\ Current(c).op # "badflags"
  /\ ~RangeOverflows(Current(c))

\* Unlock: get_file_locks, then the first entry (of a HashMap: any) of this
\* handle with exactly this range.
FindLock(c) ==
  /\ Valid(c)
  /\ Current(c).op = "unlock"
  /\ LET match == {l \in file_locks : l.handle = req[c].handle /\ SameRange(l, Current(c))}
     IN \/ match = {} /\ req' = [req EXCEPT ![c].found = 0]
        \/ \E l \in match : req' = [req EXCEPT ![c].found = l.lock_id]
  /\ Goto(c, "release")
  /\ UNCHANGED <<handles, file_locks, next_file_lock_id, node_locks, granted>>

\* Unlock: release_file_lock of what was found.
ReleaseFound(c) ==
  /\ pc[c] = "release"
  /\ file_locks' = {l \in file_locks : l.lock_id # req[c].found}
  /\ Goto(c, "unlock")
  /\ UNCHANGED <<handles, next_file_lock_id, node_locks, req, granted>>

\* Unlock: backend.unlock, whether or not the store had the lock.
BackendUnlock(c) ==
  /\ pc[c] = "unlock"
  /\ node_locks' = BackendUnlocked(File(c), Current(c))
  /\ req' = [req EXCEPT ![c].todo = Tail(@)]
  /\ Goto(c, "element")
  /\ UNCHANGED <<handles, file_locks, next_file_lock_id, granted>>

\* Lock: get_file_locks and the conflict check on that snapshot.
CheckConflicts(c) ==
  /\ Valid(c)
  /\ Current(c).op = "lock"
  /\ LET new == LockFor(req[c].handle, Current(c), 0)
     IN IF \E l \in file_locks : ConflictsWith(new, l)
        THEN Conflict(c)
        ELSE Goto(c, "lock") /\ UNCHANGED req
  /\ UNCHANGED <<handles, file_locks, next_file_lock_id, node_locks, granted>>

\* Lock: backend.lock.
BackendLock(c) ==
  /\ pc[c] = "lock"
  /\ IF BackendConflict(File(c), Current(c))
     THEN Conflict(c) /\ UNCHANGED node_locks
     ELSE /\ node_locks' = BackendLocked(File(c), Current(c))
          /\ Goto(c, "acquire")
          /\ UNCHANGED req
  /\ UNCHANGED <<handles, file_locks, next_file_lock_id, granted>>

\* Mutant: the lock is stored without looking for conflicts again.
MutantAcquireFileLock(c) ==
  /\ pc[c] = "acquire"
  /\ file_locks' = file_locks \cup {LockFor(req[c].handle, Current(c), next_file_lock_id)}
  /\ next_file_lock_id' = next_file_lock_id + 1
  /\ req' = [req EXCEPT ![c].acquired = @ \cup {next_file_lock_id}, ![c].todo = Tail(@)]
  /\ Goto(c, "element")
  /\ UNCHANGED <<handles, node_locks, granted>>

\* Lock: next_file_lock_id, then acquire_file_lock, which checks and inserts under
\* one write lock.  The handler ignores its answer: refused or not, the id counts
\* as acquired and the element as done.
AcquireFileLock(c) ==
  /\ pc[c] = "acquire"
  /\ LET lock == LockFor(req[c].handle, Current(c), next_file_lock_id)
     IN file_locks' = IF \E l \in file_locks : ConflictsWith(lock, l)
                      THEN file_locks
                      ELSE file_locks \cup {lock}
  /\ next_file_lock_id' = next_file_lock_id + 1
  /\ req' = [req EXCEPT ![c].acquired = @ \cup {next_file_lock_id}, ![c].todo = Tail(@)]
  /\ Goto(c, "element")
  /\ UNCHANGED <<handles, node_locks, granted>>

\* Mutant: the rollback stops before the last acquired lock.
MutantRollback(c) ==
  /\ pc[c] = "rollback"
  /\ IF Cardinality(req[c].undo) <= 1
     THEN /\ Goto(c, "idle")
          /\ req' = [req EXCEPT ![c].elems = <<>>, ![c].todo = <<>>, ![c].found = 0]
          /\ UNCHANGED file_locks
     ELSE \E id \in req[c].undo :
            /\ \A other \in req[c].undo : id <= other
            /\ file_locks' = {l \in file_locks : l.lock_id # id}
            /\ req' = [req EXCEPT ![c].undo = @ \ {id}]
            /\ UNCHANGED pc
  /\ UNCHANGED <<handles, next_file_lock_id, node_locks, granted>>

\* After a conflict: release_file_lock for every acquired id, in order, then the
\* error answer.  The backend keeps what it has locked.
Rollback(c) ==
  /\ pc[c] = "rollback"
  /\ IF req[c].undo = {}
     THEN /\ Goto(c, "idle")
          /\ req' = [req EXCEPT ![c].elems = <<>>, ![c].todo = <<>>, ![c].found = 0]
          /\ UNCHANGED file_locks
     ELSE \E id \in req[c].undo :
            /\ \A other \in req[c].undo : id <= other
            /\ file_locks' = {l \in file_locks : l.lock_id # id}
            /\ req' = [req EXCEPT ![c].undo = @ \ {id}]
            /\ UNCHANGED pc
  /\ UNCHANGED <<handles, next_file_lock_id, node_locks, granted>>

\* handle_close: get_handle.
HandleClose(c, h) ==
  /\ pc[c] = "idle"
  /\ c \in ChannelsOf[h]
  /\ req' = [req EXCEPT ![c] = Fresh(h, <<>>, IF h \in handles THEN "none" ELSE "FileClosed")]
  /\ IF h \in handles
     THEN Goto(c, "close") /\ granted' = {g \in granted : g.handle # h}
     ELSE UNCHANGED <<pc, granted>>
  /\ UNCHANGED <<handles, file_locks, next_file_lock_id, node_locks>>

\* Mutant: CLOSE deletes the handle only.
MutantCloseRelease(c) ==
  /\ pc[c] = "close"
  /\ Goto(c, "delete")
  /\ UNCHANGED <<handles, file_locks, next_file_lock_id, node_locks, req, granted>>

\* handle_close: release_file_locks_for_handle.  Neither backend.unlock nor
\* backend.close is called.
CloseRelease(c) ==
  /\ pc[c] = "close"
  /\ file_locks' = {l \in file_locks : l.handle # req[c].handle}
  /\ Goto(c, "delete")
  /\ UNCHANGED <<handles, next_file_lock_id, node_locks, req, granted>>

\* handle_close: delete_handle, then the answer.
CloseDelete(c) ==
  /\ pc[c] = "delete"
  /\ handles' = handles \ {req[c].handle}
  /\ Answer(c, "Success")
  /\ UNCHANGED <<file_locks, next_file_lock_id, node_locks, granted>>

Step(c) ==
  \/ \E h \in Handles, elems \in Requests : HandleLock(c, h, elems)
  \/ AnswerLock(c)
  \/ RejectElement(c)
  \/ FindLock(c)
  \/ ReleaseFound(c)
  \/ BackendUnlock(c)
  \/ CheckConflicts(c)
  \/ BackendLock(c)
  \/ AcquireFileLock(c)
  \/ Rollback(c)
  \/ \E h \in Handles : HandleClose(c, h)
  \/ CloseRelease(c)
  \/ CloseDelete(c)

Next == \E c \in Conns : Step(c)

\* Every handle has been opened by CREATE and holds no lock yet.
Init ==
  /\ handles = Handles
  /\ file_locks = {}
  /\ next_file_lock_id = 1
  /\ node_locks = [f \in Files |-> {}]
  /\ pc = [c \in Conns |-> "idle"]
  /\ req = [c \in Conns |-> Fresh(CHOOSE h \in Handles : TRUE, <<>>, "none")]
  /\ granted = {}

Spec == Init /\ [][Next]_vars

------------------------------------------------------------------------------
(* Properties *)

\* The variables hold what the code's types allow, and a handler that works on an
\* element has one.
TypeOK ==
  /\ handles \subseteq Handles
  /\ file_locks \subseteq DistributedLock
  /\ next_file_lock_id \in Nat \ {0}
  /\ node_locks \in [Files -> SUBSET FileLock]
  /\ pc \in [Conns -> Labels]
  /\ req \in [Conns -> Locals]
  /\ granted \subseteq DistributedLock
  /\ \A c \in Conns : pc[c] \in {"lock", "acquire", "release", "unlock"} => req[c].todo # <<>>

\* The StateStore never holds two conflicting locks, whatever the handlers of
\* different connections read before they wrote (acquire_file_lock).
NoConflictingLocks ==
  \A a, b \in file_locks : ~ConflictsWith(a, b)

\* A LOCK refused because of a conflict has left none of its locks in the store
\* (the rollback loops of handle_lock).
ConflictRollsBack ==
  \A c \in Conns :
    pc[c] = "idle" /\ req[c].status \in {"LockNotGranted", "FileLockConflict"} =>
      \A l \in file_locks : l.lock_id \notin req[c].acquired

\* A step removes from the store only locks of the handle its request is about,
\* though what it removes by was read or allocated several steps before.
ReleasesOnlyOwn ==
  [][\A l \in file_locks \ file_locks' :
       \E c \in Conns : /\ pc[c] \in {"release", "rollback", "close"}
                        /\ req[c].handle = l.handle
                        /\ pc'[c] # pc[c] \/ req'[c] # req[c]]_vars

\* Why the two properties above hold, as an inductive invariant: a lock id names one
\* lock of the store; the ids a handler remembers (acquired, to undo, found) are
\* below the counter and, where they still name a lock, name one of its own handle;
\* and a rollback still has every remaining lock of its request on its list.
LockIdsUnique ==
  /\ \A a, b \in file_locks : a.lock_id = b.lock_id => a = b
  /\ \A l \in file_locks : l.lock_id > 0 /\ l.lock_id < next_file_lock_id

RememberedIdsOwn ==
  \A c \in Conns :
    /\ req[c].undo \subseteq req[c].acquired
    /\ \A id \in req[c].acquired \cup {req[c].found} : id < next_file_lock_id
    /\ \A l \in file_locks :
         l.lock_id \in req[c].acquired \/ (pc[c] = "release" /\ l.lock_id = req[c].found) =>
           l.handle = req[c].handle

RollbackComplete ==
  \A c \in Conns :
    /\ \/ pc[c] = "rollback"
       \/ pc[c] = "idle" /\ req[c].status \in {"LockNotGranted", "FileLockConflict"}
       => \A l \in file_locks : l.lock_id \in req[c].acquired => l.lock_id \in req[c].undo
    /\ pc[c] = "idle" => req[c].undo = {}

LockInv == LockIdsUnique /\ RememberedIdsOwn /\ RollbackComplete

\* Each session has a single connection: no multi-channel.
SingleChannel ==
  \A h \in Handles : \A c, d \in ChannelsOf[h] : c = d

\* No lock outlives its handle: handle_close releases the locks first and the
\* handle is gone only then.  Holds when sessions have one channel.
NoOrphanLocks ==
  \A l \in file_locks : l.handle \in handles

(* What the documentation says and the code does not do *)

\* Two clients that were answered SUCCESS never hold conflicting ranges.  The
\* answer of acquire_file_lock is ignored, so this depends on the backend alone.
ExclusiveIsExclusive ==
  \A a, b \in granted : ~ConflictsWith(a, b)

Quiet == \A c \in Conns : pc[c] = "idle"

\* Once every handle is closed the backend holds no range any more (handle_close).
CloseReleasesRanges ==
  Quiet /\ handles = {} => \A file \in Files : node_locks[file] = {}

\* While no handle has been closed, every range the backend holds is one a client
\* locked with success: a refused LOCK has given its earlier ranges back.
RefusedLeavesNoRange ==
  Quiet /\ handles = Handles =>
    \A file \in Files : \A r \in node_locks[file] :
      \E l \in file_locks : FileOf[l.handle] = file /\ l.offset = r.start /\ l.length = r.length
==============================================================================
