--------------------------- MODULE HandleLifecycle ---------------------------
(***************************************************************************)
(* Sessions, tree connects and file handles from SESSION_SETUP to LOGOFF:  *)
(* the handlers of rustsmb-server, the SessionManager, the handle part of  *)
(* HandleState and the session, tree and handle tables of the in-memory    *)
(* StateStore; what becomes of a durable handle when its connection is     *)
(* lost, its session logged off or taken over, and how it is reconnected.  *)
(*                                                                         *)
(* A connection runs one request at a time; every access to the store is   *)
(* an `.await` where other connections may run.  The store's operations    *)
(* are atomic.  Reads of the session and tree tables that only gate a      *)
(* request (dispatch_command and the first get_tree of a handler) are one  *)
(* step with the handler's first read: failing them changes nothing.       *)
(*                                                                         *)
(* Abstracted: authentication (one round; a failed logon changes nothing), *)
(* the reasons a backend or a check refuses a request (it may refuse), the *)
(* file position and attributes a write-back carries, locks (FileLocks),   *)
(* leases (Leases) and oplock breaks: whether a disconnected handle still  *)
(* has HANDLE_CACHING when a CREATE looks is a choice for the handles that *)
(* were granted it.  delete_session reads and deletes the trees of a       *)
(* session in one step.  Left out: the acknowledgment of an oplock break,  *)
(* which also writes a handle back, SET_INFO's rename (paths do not        *)
(* change), reauthentication and the limit on sessions of a connection.    *)
(***************************************************************************)
EXTENDS Naturals

CONSTANTS
  Conns,       \* connections; a closed one may be accepted again
  Opens,       \* what CREATE requests ask for: see Open
  NoHandle,    \* no entry in the handle table
  Timeout,     \* durable timeout, in ticks
  Takeover,    \* clients send PreviousSessionId
  Binding,     \* clients bind sessions to several connections
  MaxSession, MaxTree, MaxHandle, MaxNow   \* bounds for model checking

SessionIds == 1 .. MaxSession
TreeIds == 1 .. MaxTree
HandleIds == 1 .. MaxHandle

Access == {"read", "write", "delete"}

\* durable: granted with a Batch oplock or a lease with HANDLE_CACHING; persistent:
\* requested with DH2Q, and kept even where durable is refused.
Open == [path : STRING, access : SUBSET Access, share : SUBSET Access,
         durable : BOOLEAN, persistent : BOOLEAN]

\* session = 0: disconnected; deadline = 0: no reconnect_deadline (None).
HandleState == [id : 0 .. MaxHandle, session : 0 .. MaxSession, tree : 0 .. MaxTree,
                open : Opens, deadline : Nat]

Handle(id, session, tree, open, deadline) ==
  [id |-> id, session |-> session, tree |-> tree, open |-> open, deadline |-> deadline]

ASSUME ConstantsAssumption ==
  /\ Opens \subseteq Open
  /\ NoHandle \notin HandleState
  /\ Timeout \in Nat
  /\ Takeover \in BOOLEAN /\ Binding \in BOOLEAN
  /\ MaxSession \in Nat /\ MaxTree \in Nat /\ MaxHandle \in Nat /\ MaxNow \in Nat

VARIABLES
  sessions,          \* the StateStore's sessions
  trees,             \* its tree connects, <<session, tree>>
  handles,           \* its handles: id -> HandleState or NoHandle
  next_session_id, next_tree_id, next_handle_id,   \* its counters
  now,               \* the clock (seconds since the epoch)
  conn_sessions,     \* Connection.SessionTable of each connection
  pc,                \* where each connection's handler is suspended
  req,               \* the locals of that handler
  holders,           \* history: <<session, tree>> whose client was given the handle
  closed             \* history: handles whose CLOSE was answered SUCCESS

store == <<sessions, trees, handles, next_session_id, next_tree_id, next_handle_id>>
vars == <<store, now, conn_sessions, pc, req, holders, closed>>

Labels == {"closed", "idle", "lost", "delete_read", "delete_handles", "delete_session",
           "tree_create", "tree_read", "tree_handles", "create", "create_check",
           "create_insert", "reconnect_tree", "reconnect", "expire", "use_tree", "use",
           "close"}

\* session, tree: of the request's header; handle: the clone the handler works on;
\* todo: the rest of a list of handles it has read; left: sessions still to clean up.
Locals == [session : 0 .. MaxSession, tree : 0 .. MaxTree,
           handle : HandleState \cup {NoHandle}, todo : SUBSET HandleState,
           left : SUBSET SessionIds]

\* The locals of a handler that starts, and of the cleanup of a connection.
Request(s, t, h) == [session |-> s, tree |-> t, handle |-> h, todo |-> {}, left |-> {}]
Cleanup(todo, left) ==
  [session |-> 0, tree |-> 0, handle |-> NoHandle, todo |-> todo, left |-> left]
NoRequest == Cleanup({}, {})

Init ==
  /\ sessions = {} /\ trees = {}
  /\ handles = [i \in HandleIds |-> NoHandle]
  /\ next_session_id = 1 /\ next_handle_id = 1
  /\ next_tree_id = [s \in SessionIds |-> 1]
  /\ now = 1
  /\ conn_sessions = [c \in Conns |-> {}]
  /\ pc = [c \in Conns |-> "closed"]
  /\ req = [c \in Conns |-> NoRequest]
  /\ holders = [i \in HandleIds |-> {}]
  /\ closed = {}

------------------------------------------------------------------------------
(* HandleState *)

\* should_preserve_for_reconnect
Preserved(h) == h.open.durable \/ h.open.persistent

\* Mutant: the handle keeps its session.
PreparedAttached(h) ==
  Handle(h.id, h.session, h.tree, h.open,
         IF h.deadline = 0 THEN now + Timeout ELSE h.deadline)

\* prepare_for_reconnect: an existing deadline is kept.
Prepared(h) ==
  Handle(h.id, 0, 0, h.open, IF h.deadline = 0 THEN now + Timeout ELSE h.deadline)

CanReconnect(h) == Preserved(h) /\ (h.deadline = 0 \/ now <= h.deadline)

\* Mutant: only what the existing handle shares is looked at.
ShareConflictOneWay(a, b) == a.path = b.path /\ ~(b.access \subseteq a.share)

\* The sharing check of CREATE, in both directions.
ShareConflict(a, b) ==
  /\ a.path = b.path
  /\ ~(b.access \subseteq a.share /\ a.access \subseteq b.share)

\* Whether a disconnected handle has HANDLE_CACHING when a CREATE asks.
HandleCaching(h) == IF h.open.durable THEN BOOLEAN ELSE {FALSE}

\* The entries of the handle table.
Stored == {handles[i] : i \in HandleIds} \ {NoHandle}

OfSession(s) == {h \in Stored : h.session = s}

------------------------------------------------------------------------------
(* Steps of a handler *)

\* Handler c goes on at label l with the given locals.
Goto(c, l, locals) ==
  /\ pc' = [pc EXCEPT ![c] = l]
  /\ req' = [req EXCEPT ![c] = locals]

Answer(c) == Goto(c, "idle", NoRequest)

\* dispatch_command lets a request of session s through.
HasSession(c, s) == pc[c] = "idle" /\ s \in conn_sessions[c] /\ s \in sessions

HasTree(c, s, t) == HasSession(c, s) /\ <<s, t>> \in trees

\* delete_handle and update_handle of the store; update_handle inserts.
DeleteHandle(i) == handles' = [handles EXCEPT ![i] = NoHandle]
UpdateHandle(h) == handles' = [handles EXCEPT ![h.id] = h]

counters == <<next_session_id, next_tree_id, next_handle_id>>
history == <<holders, closed>>

\* validate_handle_tree_id
Validates(h, s, t) == h # NoHandle /\ h.session = s /\ h.tree = t

------------------------------------------------------------------------------
(* Connections and sessions *)

\* Server::run accepts a connection.
Accept(c) ==
  /\ pc[c] = "closed"
  /\ Answer(c)
  /\ conn_sessions' = [conn_sessions EXCEPT ![c] = {}]
  /\ UNCHANGED <<store, now, history>>

\* SESSION_SETUP of a new session; with a PreviousSessionId it goes on to delete
\* that session.
SessionSetup(c, previous) ==
  /\ pc[c] = "idle" /\ next_session_id <= MaxSession
  /\ sessions' = sessions \cup {next_session_id}
  /\ conn_sessions' = [conn_sessions EXCEPT ![c] = @ \cup {next_session_id}]
  /\ next_session_id' = next_session_id + 1
  /\ IF previous = 0 THEN Answer(c) /\ UNCHANGED holders
     ELSE /\ Goto(c, "delete_read", Request(previous, 0, NoHandle))
          /\ holders' = [i \in HandleIds |-> {st \in holders[i] : st[1] # previous}]
  /\ UNCHANGED <<trees, handles, next_tree_id, next_handle_id, now, closed>>

\* SESSION_SETUP with the binding flag.
SessionBinding(c, s) ==
  /\ Binding
  /\ pc[c] = "idle" /\ s \in sessions /\ s \notin conn_sessions[c]
  /\ conn_sessions' = [conn_sessions EXCEPT ![c] = @ \cup {s}]
  /\ UNCHANGED <<store, now, pc, req, history>>

\* A request names a session that is gone from the store: dispatch_command drops it
\* from the connection.
SessionGone(c, s) ==
  /\ pc[c] = "idle" /\ s \in conn_sessions[c] /\ s \notin sessions
  /\ conn_sessions' = [conn_sessions EXCEPT ![c] = @ \ {s}]
  /\ UNCHANGED <<store, now, pc, req, history>>

Logoff(c, s) ==
  /\ HasSession(c, s)
  /\ conn_sessions' = [conn_sessions EXCEPT ![c] = @ \ {s}]
  /\ Goto(c, "delete_read", Request(s, 0, NoHandle))
  /\ holders' = [i \in HandleIds |-> {st \in holders[i] : st[1] # s}]
  /\ UNCHANGED <<store, now, closed>>

\* SessionManager::delete_session reads the session's handles ...
DeleteRead(c) ==
  /\ pc[c] = "delete_read"
  /\ Goto(c, "delete_handles", [req[c] EXCEPT !.todo = OfSession(req[c].session)])
  /\ UNCHANGED <<store, now, conn_sessions, history>>

\* ... preserves the durable ones and deletes the others, in any order ...
DeleteOne(c, h) ==
  /\ pc[c] = "delete_handles" /\ h \in req[c].todo
  /\ IF Preserved(h) THEN UpdateHandle(Prepared(h)) ELSE DeleteHandle(h.id)
  /\ Goto(c, pc[c], [req[c] EXCEPT !.todo = @ \ {h}])
  /\ UNCHANGED <<sessions, trees, counters, now, conn_sessions, history>>

\* ... then its trees ...
DeleteTrees(c) ==
  /\ pc[c] = "delete_handles" /\ req[c].todo = {}
  /\ trees' = {st \in trees : st[1] # req[c].session}
  /\ Goto(c, "delete_session", req[c])
  /\ UNCHANGED <<sessions, handles, counters, now, conn_sessions, history>>

\* ... and the session; LOGOFF or SESSION_SETUP answers.
DeleteSession(c) ==
  /\ pc[c] = "delete_session"
  /\ sessions' = sessions \ {req[c].session}
  /\ Answer(c)
  /\ UNCHANGED <<trees, handles, counters, now, conn_sessions, history>>

------------------------------------------------------------------------------
(* The end of a connection: run() after its message loop *)

Lose(c) ==
  /\ pc[c] = "idle"
  /\ Goto(c, "lost", Cleanup({}, conn_sessions[c]))
  /\ holders' = [i \in HandleIds |-> {st \in holders[i] : st[1] \notin conn_sessions[c]}]
  /\ UNCHANGED <<store, now, conn_sessions, closed>>

\* Mutant: the cleanup stops after the first session of the connection.
CleanSessionOnce(c, s) ==
  /\ pc[c] = "lost" /\ req[c].todo = {} /\ s \in req[c].left
  /\ Goto(c, "lost", Cleanup({h \in OfSession(s) : Preserved(h)}, {}))
  /\ UNCHANGED <<store, now, conn_sessions, history>>

\* Read the handles of the next session of the connection ...
CleanSession(c, s) ==
  /\ pc[c] = "lost" /\ req[c].todo = {} /\ s \in req[c].left
  /\ Goto(c, "lost", Cleanup({h \in OfSession(s) : Preserved(h)}, req[c].left \ {s}))
  /\ UNCHANGED <<store, now, conn_sessions, history>>

\* ... and write each durable one back, disconnected.
Detach(c, h) ==
  /\ pc[c] = "lost" /\ h \in req[c].todo
  /\ UpdateHandle(Prepared(h))
  /\ Goto(c, "lost", [req[c] EXCEPT !.todo = @ \ {h}])
  /\ UNCHANGED <<sessions, trees, counters, now, conn_sessions, history>>

Closed(c) ==
  /\ pc[c] = "lost" /\ req[c].todo = {} /\ req[c].left = {}
  /\ Goto(c, "closed", NoRequest)
  /\ UNCHANGED <<store, now, conn_sessions, history>>

------------------------------------------------------------------------------
(* Tree connects *)

TreeConnect(c, s) ==
  /\ HasSession(c, s) /\ next_tree_id[s] <= MaxTree
  /\ Goto(c, "tree_create", Request(s, next_tree_id[s], NoHandle))
  /\ next_tree_id' = [next_tree_id EXCEPT ![s] = @ + 1]
  /\ UNCHANGED <<sessions, trees, handles, next_session_id, next_handle_id, now,
                 conn_sessions, history>>

CreateTree(c) ==
  /\ pc[c] = "tree_create"
  /\ trees' = trees \cup {<<req[c].session, req[c].tree>>}
  /\ Answer(c)
  /\ UNCHANGED <<sessions, handles, counters, now, conn_sessions, history>>

TreeDisconnect(c, s, t) ==
  /\ HasTree(c, s, t)
  /\ Goto(c, "tree_read", Request(s, t, NoHandle))
  /\ holders' = [i \in HandleIds |-> holders[i] \ {<<s, t>>}]
  /\ UNCHANGED <<store, now, conn_sessions, closed>>

\* SessionManager::delete_tree: every handle of the tree, the durable ones too.
TreeRead(c) ==
  /\ pc[c] = "tree_read"
  /\ Goto(c, "tree_handles",
          [req[c] EXCEPT !.todo = {h \in OfSession(req[c].session) : h.tree = req[c].tree}])
  /\ UNCHANGED <<store, now, conn_sessions, history>>

TreeHandle(c, h) ==
  /\ pc[c] = "tree_handles" /\ h \in req[c].todo
  /\ DeleteHandle(h.id)
  /\ Goto(c, pc[c], [req[c] EXCEPT !.todo = @ \ {h}])
  /\ UNCHANGED <<sessions, trees, counters, now, conn_sessions, history>>

DeleteTree(c) ==
  /\ pc[c] = "tree_handles" /\ req[c].todo = {}
  /\ trees' = trees \ {<<req[c].session, req[c].tree>>}
  /\ Answer(c)
  /\ UNCHANGED <<sessions, handles, counters, now, conn_sessions, history>>

------------------------------------------------------------------------------
(* CREATE *)

Create(c, s, t, o) ==
  /\ HasTree(c, s, t)
  /\ Goto(c, "create", Request(s, t, Handle(0, s, t, o, 0)))
  /\ UNCHANGED <<store, now, conn_sessions, history>>

\* get_handles_for_file (the second time, where a Batch oplock was broken)
CreateRead(c) ==
  /\ pc[c] = "create"
  /\ Goto(c, "create_check",
          [req[c] EXCEPT !.todo = {h \in Stored : h.open.path = req[c].handle.open.path}])
  /\ UNCHANGED <<store, now, conn_sessions, history>>

\* Mutant: a handle in use is invalidated like a disconnected one.
CreateCheckActive(c, h, caching) ==
  /\ pc[c] = "create_check" /\ h \in req[c].todo
  /\ LET conflict == ShareConflict(h.open, req[c].handle.open)
     IN /\ IF caching THEN DeleteHandle(h.id) ELSE UNCHANGED handles
        /\ IF conflict /\ ~caching THEN Answer(c)
           ELSE Goto(c, pc[c], [req[c] EXCEPT !.todo = @ \ {h}])
  /\ UNCHANGED <<sessions, trees, counters, now, conn_sessions, history>>

\* The next of the existing handles: a disconnected one with HANDLE_CACHING is
\* deleted; a conflict with any other is a sharing violation.
CreateCheck(c, h, caching) ==
  /\ pc[c] = "create_check" /\ h \in req[c].todo
  /\ LET invalidate == h.session = 0 /\ caching
         conflict == ShareConflict(h.open, req[c].handle.open)
     IN /\ IF invalidate THEN DeleteHandle(h.id) ELSE UNCHANGED handles
        /\ IF conflict /\ ~invalidate THEN Answer(c)
           ELSE Goto(c, pc[c], [req[c] EXCEPT !.todo = @ \ {h}])
  /\ UNCHANGED <<sessions, trees, counters, now, conn_sessions, history>>

\* The handle gets its id and, if it is durable, its reconnect deadline.
Opened(h) ==
  Handle(next_handle_id, h.session, h.tree, h.open,
         IF h.open.durable THEN now + Timeout ELSE 0)

\* The backend has opened the file.
CreateOpen(c) ==
  /\ pc[c] = "create_check" /\ req[c].todo = {} /\ next_handle_id <= MaxHandle
  /\ Goto(c, "create_insert",
          Request(req[c].session, req[c].tree, Opened(req[c].handle)))
  /\ next_handle_id' = next_handle_id + 1
  /\ UNCHANGED <<sessions, trees, handles, next_session_id, next_tree_id, now,
                 conn_sessions, history>>

\* After the lease and oplock breaks of module Leases: create_handle, and the answer.
CreateInsert(c) ==
  /\ pc[c] = "create_insert"
  /\ UpdateHandle(req[c].handle)
  /\ Answer(c)
  /\ holders' = [holders EXCEPT ![req[c].handle.id] = @ \cup {<<req[c].session, req[c].tree>>}]
  /\ UNCHANGED <<sessions, trees, counters, now, conn_sessions, closed>>

\* The backend refuses the open, the identity check of a reconnect or the I/O.
BackendFails(c) ==
  /\ \/ pc[c] = "create_check" /\ req[c].todo = {}
     \/ pc[c] \in {"reconnect", "use"}
  /\ Answer(c)
  /\ UNCHANGED <<store, now, conn_sessions, history>>

------------------------------------------------------------------------------
(* CREATE with a durable reconnect context: handle_durable_reconnect *)

\* Mutant: a handle that is open on another session is reconnected too.
DurableReconnectOpen(c, s, t, i) ==
  /\ HasTree(c, s, t)
  /\ handles[i] # NoHandle /\ Preserved(handles[i])
  /\ Goto(c, IF CanReconnect(handles[i]) THEN "reconnect_tree" ELSE "expire",
          Request(s, t, handles[i]))
  /\ UNCHANGED <<store, now, conn_sessions, history>>

DurableReconnect(c, s, t, i) ==
  /\ HasTree(c, s, t)
  /\ handles[i] # NoHandle /\ Preserved(handles[i]) /\ handles[i].session = 0
  /\ Goto(c, IF CanReconnect(handles[i]) THEN "reconnect_tree" ELSE "expire",
          Request(s, t, handles[i]))
  /\ UNCHANGED <<store, now, conn_sessions, history>>

\* The handle's deadline has passed.
Expire(c) ==
  /\ pc[c] = "expire"
  /\ DeleteHandle(req[c].handle.id)
  /\ Answer(c)
  /\ UNCHANGED <<sessions, trees, counters, now, conn_sessions, history>>

\* get_tree of handle_durable_reconnect, and of the handlers that use a handle.
GetTree(c, from, to) ==
  /\ pc[c] = from
  /\ IF <<req[c].session, req[c].tree>> \in trees THEN Goto(c, to, req[c]) ELSE Answer(c)
  /\ UNCHANGED <<store, now, conn_sessions, history>>

ReconnectUpdate(c) ==
  /\ pc[c] = "reconnect"
  /\ UpdateHandle(Handle(req[c].handle.id, req[c].session, req[c].tree, req[c].handle.open,
                         req[c].handle.deadline))
  /\ Answer(c)
  /\ holders' = [holders EXCEPT ![req[c].handle.id] = @ \cup {<<req[c].session, req[c].tree>>}]
  /\ UNCHANGED <<sessions, trees, counters, now, conn_sessions, closed>>

------------------------------------------------------------------------------
(* READ, WRITE, SET_INFO and CLOSE *)

Use(c, s, t, i) ==
  /\ HasTree(c, s, t) /\ Validates(handles[i], s, t)
  /\ Goto(c, "use_tree", Request(s, t, handles[i]))
  /\ UNCHANGED <<store, now, conn_sessions, history>>

\* READ, WRITE on a durable handle, disposition and position information write the
\* clone back with a new position or flag; what else they do is BackendFails.
WriteBack(c) ==
  /\ pc[c] = "use"
  /\ UpdateHandle(req[c].handle)
  /\ Answer(c)
  /\ UNCHANGED <<sessions, trees, counters, now, conn_sessions, history>>

Close(c, s, t, i) ==
  /\ HasTree(c, s, t) /\ Validates(handles[i], s, t)
  /\ Goto(c, "close", Request(s, t, handles[i]))
  /\ UNCHANGED <<store, now, conn_sessions, history>>

CloseDelete(c) ==
  /\ pc[c] = "close"
  /\ DeleteHandle(req[c].handle.id)
  /\ Answer(c)
  /\ holders' = [holders EXCEPT ![req[c].handle.id] = @ \ {<<req[c].session, req[c].tree>>}]
  /\ closed' = closed \cup {req[c].handle.id}
  /\ UNCHANGED <<sessions, trees, counters, now, conn_sessions>>

------------------------------------------------------------------------------
(* The system *)

Tick ==
  /\ now < MaxNow
  /\ now' = now + 1
  /\ UNCHANGED <<store, conn_sessions, pc, req, history>>

\* Requests and losses, as clients and the network please.
Client(c) ==
  \/ Accept(c) \/ Lose(c) \/ SessionSetup(c, 0)
  \/ \E s \in SessionIds :
        \/ Takeover /\ s < next_session_id /\ SessionSetup(c, s)
        \/ SessionBinding(c, s) \/ SessionGone(c, s) \/ Logoff(c, s) \/ TreeConnect(c, s)
        \/ \E t \in TreeIds :
              \/ TreeDisconnect(c, s, t)
              \/ \E o \in Opens : Create(c, s, t, o)
              \/ \E i \in HandleIds :
                    DurableReconnect(c, s, t, i) \/ Use(c, s, t, i) \/ Close(c, s, t, i)

\* The next step of the handler c is running, or of its cleanup.
Continue(c) ==
  \/ DeleteRead(c) \/ DeleteTrees(c) \/ DeleteSession(c)
  \/ CreateTree(c) \/ TreeRead(c) \/ DeleteTree(c)
  \/ CreateRead(c) \/ CreateOpen(c) \/ CreateInsert(c) \/ BackendFails(c)
  \/ Expire(c) \/ GetTree(c, "reconnect_tree", "reconnect") \/ ReconnectUpdate(c)
  \/ GetTree(c, "use_tree", "use") \/ WriteBack(c) \/ CloseDelete(c) \/ Closed(c)
  \/ \E s \in SessionIds : CleanSession(c, s)
  \/ \E h \in req[c].todo :
        \/ DeleteOne(c, h) \/ Detach(c, h) \/ TreeHandle(c, h)
        \/ \E caching \in HandleCaching(h) : CreateCheck(c, h, caching)

Next == Tick \/ \E c \in Conns : Client(c) \/ Continue(c)

Spec == Init /\ [][Next]_vars

\* A handler that is not waiting for its client is run by the executor.
FairSpec == Spec /\ \A c \in Conns : WF_vars(Continue(c))

------------------------------------------------------------------------------
(* Properties *)

\* The tables, counters and handler locals hold what the code's types allow: no stored
\* session, tree or handle has the id 0, which stands for "none".
TypeOK ==
  /\ sessions \subseteq SessionIds /\ trees \subseteq SessionIds \X TreeIds
  /\ handles \in [HandleIds -> HandleState \cup {NoHandle}]
  /\ next_session_id \in Nat \ {0} /\ next_handle_id \in Nat \ {0}
  /\ next_tree_id \in [SessionIds -> Nat \ {0}]
  /\ now \in Nat \ {0}
  /\ conn_sessions \in [Conns -> SUBSET SessionIds]
  /\ pc \in [Conns -> Labels] /\ req \in [Conns -> Locals]
  /\ holders \in [HandleIds -> SUBSET (SessionIds \X TreeIds)]
  /\ closed \subseteq HandleIds

\* The handle table, the handles being created and the clones handlers work on.
Copies ==
  Stored \cup (UNION {req[c].todo : c \in Conns})
    \cup ({req[c].handle : c \in Conns} \ {NoHandle})

\* Whatever stale clone update_handle writes back, it never turns one open into
\* another: all copies of an id, in the store and in every handler, are of one open,
\* and an id that next_handle_id has not given out is nowhere.
HandleIdentity ==
  \A g, h \in Copies :
     /\ g.id < next_handle_id
     /\ g.id = h.id /\ g.id # 0 => g.open = h.open

Attached(i) == handles[i] # NoHandle /\ handles[i].session # 0

\* A handle that belongs to a session belongs to one the store still knows, through
\* a tree it still knows: LOGOFF, TREE_DISCONNECT and the end of a connection leave
\* none behind, whatever else runs.  (One channel per session, no takeover.)
AttachedHasTree ==
  \A i \in HandleIds : Attached(i) =>
     /\ handles[i].session \in sessions
     /\ <<handles[i].session, handles[i].tree>> \in trees

\* The list of handles that c works off has handle i.
Listed(c, i) == \E g \in req[c].todo : g.id = i

\* Connection c may still use handle i, or is about to disconnect or delete it.
Reaches(c, i) ==
  \/ pc[c] \notin {"closed", "lost"} /\ handles[i].session \in conn_sessions[c]
  \/ pc[c] = "lost" /\ handles[i].session \in req[c].left
  \/ pc[c] = "delete_read" /\ handles[i].session = req[c].session
  \/ pc[c] \in {"lost", "delete_handles"} /\ Listed(c, i)

\* No durable handle is stranded: while it is marked as open on a session (so that
\* handle_durable_reconnect refuses it), some connection can use it or is about to
\* mark it disconnected.  (One channel per session, no takeover.)
NoStrandedHandle ==
  \A i \in HandleIds :
     Attached(i) /\ Preserved(handles[i]) => \E c \in Conns : Reaches(c, i)

\* Two handles on a file are there together only if each shares what the other may
\* do: the sharing check of CREATE, over reconnects, invalidation and the handles
\* that outlive their connection.  (One connection at a time.)
SharesCompatible ==
  \A g, h \in Stored : g.id # h.id => ~ShareConflict(g.open, h.open)

\* A handle whose CLOSE was answered SUCCESS is not in the store again.  (One
\* connection at a time: update_handle inserts what it does not find.)
ClosedStaysClosed == \A i \in closed : handles[i] = NoHandle

\* handle_durable_reconnect gives a handle to one session only: "Reconnect is only
\* valid when the handle is in disconnected state".
OneHolder == \A i \in HandleIds : \A st, other \in holders[i] : st = other

\* A handle that is answered with success can be used: it is in the store and belongs
\* to the session and tree it was given to, until that client closes it, logs off,
\* disconnects the tree or loses the connection.  (One connection at a time.)
HolderServed ==
  \A i \in HandleIds : \A st \in holders[i] : Validates(handles[i], st[1], st[2])

\* prepare_for_reconnect: a handle that is disconnected can be reconnected for the
\* durable timeout, "How long to keep handle after disconnect before expiring".
KeptForTimeout ==
  [][\A i \in HandleIds :
       (handles[i] # NoHandle /\ handles[i].session # 0
          /\ handles'[i] # NoHandle /\ handles'[i].session = 0)
       => handles'[i].deadline >= now + Timeout]_vars

\* The end of a connection disconnects a durable handle only where no other channel
\* of its session is open.
LastChannelDetaches ==
  [][\A c \in Conns, i \in HandleIds :
       (pc[c] = "lost" /\ req'[c] # req[c] /\ Attached(i) /\ ~Attached(i)')
       => \A d \in Conns : handles[i].session \in conn_sessions[d] => pc[d] \in {"lost", "closed"}]_vars

\* Once a connection is lost, its durable handles are soon marked disconnected, so
\* that the client can reconnect them.  (One channel per session.)
LossDetaches ==
  \A i \in HandleIds, s \in SessionIds :
     (/\ \E c \in Conns : pc[c] = "lost" /\ s \in conn_sessions[c]
      /\ handles[i] # NoHandle /\ Preserved(handles[i]) /\ handles[i].session = s)
     ~> (handles[i] = NoHandle \/ handles[i].session # s)

------------------------------------------------------------------------------
(* What the proofs need besides *)

DeleteLabels == {"delete_read", "delete_handles", "delete_session"}
CreateLabels == {"create", "create_check", "create_insert"}
UseLabels == {"use_tree", "use", "close"}
ReconnectLabels == {"reconnect_tree", "reconnect", "expire"}
\* Handlers that work for a tree, or for making one.
TreeLabels == {"tree_read", "tree_handles"} \cup CreateLabels \cup UseLabels \cup ReconnectLabels

\* The locals label l relies on are there.
LocalsFor(l, r) ==
  /\ l \in {"tree_create"} \cup TreeLabels => r.session \in SessionIds /\ r.tree \in TreeIds
  /\ l \in DeleteLabels => r.session \in SessionIds
  /\ l \in CreateLabels \cup UseLabels \cup ReconnectLabels => r.handle \in HandleState
  /\ l \in {"create_insert"} \cup UseLabels \cup ReconnectLabels => r.handle.id \in HandleIds
  /\ \A h \in r.todo : h.id \in HandleIds

\* Every handler has its locals, and a handle is stored under its id.
LocalsOK ==
  /\ \A c \in Conns : LocalsFor(pc[c], req[c])
  /\ \A i \in HandleIds : handles[i] # NoHandle => handles[i].id = i

\* The sessions connection c works for; the one it is deleting is no longer in its
\* table.
Owns(c) == conn_sessions[c] \cup (IF pc[c] \in DeleteLabels THEN {req[c].session} ELSE {})

\* A session is worked for by one connection.
OneOwner ==
  /\ \A c \in Conns : \A s \in Owns(c) : s < next_session_id
  /\ \A c, d \in Conns : c # d => Owns(c) \cap Owns(d) = {}

\* While a handler runs, the session and tree it was let through for stay.
Served(c) ==
  /\ pc[c] \in {"tree_create"} \cup TreeLabels =>
       req[c].session \in conn_sessions[c] /\ req[c].session \in sessions
  /\ pc[c] \in TreeLabels => <<req[c].session, req[c].tree>> \in trees
  /\ pc[c] \in DeleteLabels => req[c].session \notin conn_sessions[c]
  /\ pc[c] \in CreateLabels \cup UseLabels =>
       req[c].handle.session = req[c].session /\ req[c].handle.tree = req[c].tree
  /\ pc[c] = "lost" => req[c].left \subseteq conn_sessions[c]

\* When a session or tree is about to be deleted, the handles that still belong to it
\* are on the list of those to be dealt with.
Pending(c) ==
  \A i \in HandleIds : Attached(i) /\ handles[i].session = req[c].session =>
     /\ pc[c] = "delete_handles" => Listed(c, i)
     /\ pc[c] # "delete_session"
     /\ pc[c] = "tree_handles" /\ handles[i].tree = req[c].tree => Listed(c, i)

\* One channel per session, no takeover: what makes AttachedHasTree and
\* NoStrandedHandle inductive.
HandleInv ==
  /\ AttachedHasTree /\ NoStrandedHandle /\ OneOwner
  /\ \A c \in Conns : Served(c) /\ Pending(c)

\* One connection at a time: the handles a handler has read are still those of the
\* store, a CREATE has still to check whatever it may conflict with, and no client
\* counts on the handles that are to be detached or deleted.
Current(l, r) ==
  /\ \A h \in r.todo : handles[h.id] = h
  /\ l \in UseLabels \cup ReconnectLabels => handles[r.handle.id] = r.handle
  /\ l \in ReconnectLabels => r.handle.session = 0
  /\ l \in CreateLabels \cup UseLabels => r.handle.session = r.session /\ r.handle.tree = r.tree
  /\ l = "create_check" => \A h \in Stored : ShareConflict(h.open, r.handle.open) => h \in r.todo
  /\ l = "create_insert" => /\ handles[r.handle.id] = NoHandle /\ r.handle.id \notin closed
                            /\ \A h \in Stored : ~ShareConflict(h.open, r.handle.open)
  /\ l \in {"delete_handles", "tree_handles", "lost"} => \A h \in r.todo : holders[h.id] = {}
  /\ l = "delete_read" => \A i \in HandleIds : \A st \in holders[i] : st[1] # r.session
  /\ l = "tree_read" => \A i \in HandleIds : <<r.session, r.tree>> \notin holders[i]
  /\ l = "lost" => \A i \in HandleIds : \A st \in holders[i] : st[1] \notin r.left

Tables ==
  /\ SharesCompatible /\ HolderServed /\ ClosedStaysClosed
  /\ \A i \in closed : i < next_handle_id

\* What makes SharesCompatible, HolderServed and ClosedStaysClosed inductive.
SerialInv == Tables /\ \A c \in Conns : Current(pc[c], req[c])
==============================================================================
