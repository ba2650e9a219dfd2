------------------------ MODULE HandleLifecycleProofs ------------------------
(***************************************************************************)
(* Proofs about HandleLifecycle, for any number of connections, opens and  *)
(* ids.  For every use of sessions: types and the identity of handles.     *)
(* For one channel per session and no takeover: no durable handle is ever  *)
(* stranded, and every open handle has its session and tree.  For one      *)
(* connection at a time: handles that conflict are never there together,   *)
(* and whoever was given a handle is served.                               *)
(***************************************************************************)
EXTENDS HandleLifecycle, TLAPS

TypeInv == TypeOK /\ LocalsOK

------------------------------------------------------------------------------
(* Numbers, ids and pairs *)

\* The counters of the store only grow.
LEMMA Orders ==
  /\ \A n \in Nat : n <= n /\ n >= n /\ ~(n < n) /\ n + 1 \in Nat /\ n <= n + 1
  /\ \A i, m, n \in Nat : i < m /\ (m <= n \/ n >= m) => i < n
  /\ \A m, n \in Nat : ~(m < n /\ m >= n)
  /\ \A m \in Nat \ {0} : \A n \in Nat : n >= m => 0 < n
  BY SMT

\* Ids are positive; a counter within its bound is one.
LEMMA Ids ==
  /\ SessionIds \subseteq Nat /\ TreeIds \subseteq Nat /\ HandleIds \subseteq Nat /\ 0 \notin SessionIds
  /\ \A n \in Nat \ {0} : n <= MaxHandle => n \in HandleIds
  BY SMT, ConstantsAssumption DEF SessionIds, TreeIds, HandleIds

\* 0 stands for no session, tree or handle.
LEMMA IdRanges ==
  /\ 0 \in 0 .. MaxSession /\ 0 \in 0 .. MaxTree /\ 0 \in 0 .. MaxHandle
  /\ SessionIds \subseteq 0 .. MaxSession /\ TreeIds \subseteq 0 .. MaxTree
  /\ HandleIds \subseteq 0 .. MaxHandle
  BY SMT, ConstantsAssumption DEF SessionIds, TreeIds, HandleIds

\* Pairs of a session and a tree.
LEMMA Pairs == \A S, T : \A P \in SUBSET (S \X T) : \A st \in P : st = <<st[1], st[2]>> /\ st[1] \in S
  BY SMT

------------------------------------------------------------------------------
(* The records the handlers pass around *)

\* prepare_for_reconnect changes the session, the tree and the deadline only.
LEMMA PreparedType ==
  ASSUME now \in Nat, NEW h \in HandleState
  PROVE  /\ Prepared(h) \in HandleState
         /\ Prepared(h).session = 0 /\ Prepared(h).id = h.id /\ Prepared(h).open = h.open
BY SMTT(30), ConstantsAssumption DEF Prepared, Handle, HandleState

\* Fresh locals.
LEMMA RequestType ==
  /\ \A s \in 0 .. MaxSession, t \in 0 .. MaxTree, h \in HandleState \cup {NoHandle} :
       Request(s, t, h) \in Locals
  /\ \A todo \in SUBSET HandleState, left \in SUBSET SessionIds : Cleanup(todo, left) \in Locals
  /\ NoRequest \in Locals /\ LocalsFor("idle", NoRequest)
<1>1. 0 \in 0 .. MaxSession /\ 0 \in 0 .. MaxTree
  BY Zenon, IdRanges
<1>2. \A s \in 0 .. MaxSession, t \in 0 .. MaxTree, h \in HandleState \cup {NoHandle} :
        Request(s, t, h) \in Locals
  BY Zenon DEF Request, Locals
<1>3. \A todo \in SUBSET HandleState, left \in SUBSET SessionIds : Cleanup(todo, left) \in Locals
  BY Zenon, <1>1 DEF Cleanup, Locals
<1>4. LocalsFor("idle", NoRequest)
  BY Zenon DEF NoRequest, Cleanup, LocalsFor, TreeLabels, DeleteLabels, CreateLabels, UseLabels,
         ReconnectLabels
<1> QED
  BY Zenon, <1>2, <1>3, <1>4 DEF NoRequest

\* A handler goes on: only its own label and locals change.
LEMMA GotoType ==
  ASSUME TypeInv, NEW c \in Conns, NEW l \in Labels, NEW r \in Locals, LocalsFor(l, r),
         Goto(c, l, r)
  PROVE  /\ pc' \in [Conns -> Labels] /\ req' \in [Conns -> Locals]
         /\ pc'[c] = l /\ req'[c] = r
         /\ \A d \in Conns : d # c => pc'[d] = pc[d] /\ req'[d] = req[d]
         /\ \A d \in Conns : LocalsFor(pc'[d], req'[d])
<1>1. /\ pc' \in [Conns -> Labels] /\ req' \in [Conns -> Locals]
      /\ pc'[c] = l /\ req'[c] = r
      /\ \A d \in Conns : d # c => pc'[d] = pc[d] /\ req'[d] = req[d]
  BY Zenon DEF Goto, TypeInv, TypeOK
<1>2. \A d \in Conns : LocalsFor(pc'[d], req'[d])
  <2> TAKE d \in Conns
  <2>1. CASE d = c
    BY Zenon, <1>1, <2>1
  <2>2. CASE d # c
    BY Zenon, <1>1, <2>2 DEF TypeInv, LocalsOK
  <2> QED
    BY Zenon, <2>1, <2>2
<1> QED
  BY Zenon, <1>1, <1>2

\* The entries of the handle table are under their ids.
LEMMA StoredType ==
  ASSUME TypeInv
  PROVE  \A h \in Stored : h \in HandleState /\ h.id \in HandleIds /\ handles[h.id] = h
BY SMTT(30) DEF TypeInv, TypeOK, LocalsOK, Stored

\* update_handle and create_handle set one entry ...
LEMMA UpdateType ==
  ASSUME TypeInv, NEW h \in HandleState, h.id \in HandleIds, UpdateHandle(h)
  PROVE  /\ handles' \in [HandleIds -> HandleState \cup {NoHandle}]
         /\ handles'[h.id] = h
         /\ \A i \in HandleIds : i # h.id => handles'[i] = handles[i]
         /\ \A i \in HandleIds : handles'[i] # NoHandle => handles'[i].id = i
BY Zenon DEF UpdateHandle, TypeInv, TypeOK, LocalsOK

\* ... and delete_handle clears one.
LEMMA DeleteType ==
  ASSUME TypeInv, NEW i \in HandleIds, DeleteHandle(i)
  PROVE  /\ handles' \in [HandleIds -> HandleState \cup {NoHandle}]
         /\ handles'[i] = NoHandle
         /\ \A j \in HandleIds : j # i => handles'[j] = handles[j]
         /\ \A j \in HandleIds : handles'[j] # NoHandle => handles'[j].id = j
BY Zenon DEF DeleteHandle, TypeInv, TypeOK, LocalsOK

------------------------------------------------------------------------------
(* Types *)

\* The part of TypeInv that is not about handlers.
StoreOK ==
  /\ sessions \subseteq SessionIds /\ trees \subseteq SessionIds \X TreeIds
  /\ handles \in [HandleIds -> HandleState \cup {NoHandle}]
  /\ next_session_id \in Nat \ {0} /\ next_handle_id \in Nat \ {0}
  /\ next_tree_id \in [SessionIds -> Nat \ {0}]
  /\ now \in Nat \ {0}
  /\ conn_sessions \in [Conns -> SUBSET SessionIds]
  /\ holders \in [HandleIds -> SUBSET (SessionIds \X TreeIds)]
  /\ closed \subseteq HandleIds
  /\ \A i \in HandleIds : handles[i] # NoHandle => handles[i].id = i

\* A step that keeps the store typed and leads one handler to a label with its locals
\* preserves TypeInv.
LEMMA Advance ==
  ASSUME TypeInv, StoreOK', NEW c \in Conns, NEW l \in Labels, NEW r \in Locals,
         LocalsFor(l, r), Goto(c, l, r)
  PROVE  TypeInv'
<1>1. /\ pc' \in [Conns -> Labels] /\ req' \in [Conns -> Locals]
      /\ \A d \in Conns : LocalsFor(pc'[d], req'[d])
  BY Zenon, GotoType
<1>2. TypeOK'
  BY Zenon, <1>1 DEF StoreOK, TypeOK
<1>3. LocalsOK'
  BY Zenon, <1>1 DEF StoreOK, LocalsOK, LocalsFor
<1> QED
  BY Zenon, <1>2, <1>3 DEF TypeInv

\* The same for a handler that returns.
LEMMA AdvanceIdle ==
  ASSUME TypeInv, StoreOK', NEW c \in Conns, Answer(c)
  PROVE  TypeInv'
BY Zenon, Advance, RequestType DEF Answer, Labels


\* Steps that leave the store and the connection table alone.
LEMMA FrameStore ==
  ASSUME TypeInv, UNCHANGED <<sessions, trees, handles, next_session_id, now>>,
         next_tree_id' \in [SessionIds -> Nat \ {0}], next_handle_id' \in Nat \ {0},
         conn_sessions' \in [Conns -> SUBSET SessionIds],
         holders' \in [HandleIds -> SUBSET (SessionIds \X TreeIds)], UNCHANGED closed
  PROVE  StoreOK'
BY Zenon DEF TypeInv, TypeOK, LocalsOK, StoreOK

\* Steps that write one handle.
LEMMA FrameHandle ==
  ASSUME TypeInv, UNCHANGED <<sessions, trees, counters, now, conn_sessions>>,
         handles' \in [HandleIds -> HandleState \cup {NoHandle}],
         \A i \in HandleIds : handles'[i] # NoHandle => handles'[i].id = i,
         holders' \in [HandleIds -> SUBSET (SessionIds \X TreeIds)],
         closed' \subseteq HandleIds
  PROVE  StoreOK'
BY Zenon DEF TypeInv, TypeOK, LocalsOK, StoreOK, counters

\* Requests and losses keep the types.
LEMMA ClientType ==
  ASSUME TypeInv, NEW c \in Conns, Client(c)
  PROVE  TypeInv'
<1> USE DEF TypeInv
<1>h. /\ \A S : [i \in HandleIds |-> {st \in holders[i] : st[1] \notin S}]
                   \in [HandleIds -> SUBSET (SessionIds \X TreeIds)]
      /\ \A s : [i \in HandleIds |-> {st \in holders[i] : st[1] # s}]
                   \in [HandleIds -> SUBSET (SessionIds \X TreeIds)]
      /\ \A st : [i \in HandleIds |-> holders[i] \ {st}]
                   \in [HandleIds -> SUBSET (SessionIds \X TreeIds)]
  BY Zenon DEF TypeOK
<1>0. 0 \in 0 .. MaxSession /\ 0 \in 0 .. MaxTree /\ 0 \in 0 .. MaxHandle
      /\ SessionIds \subseteq 0 .. MaxSession /\ TreeIds \subseteq 0 .. MaxTree
  BY Zenon, IdRanges
<1>t. conn_sessions \in [Conns -> SUBSET SessionIds] /\ handles \in [HandleIds -> HandleState \cup {NoHandle}]
      /\ next_tree_id \in [SessionIds -> Nat \ {0}] /\ next_handle_id \in Nat \ {0}
      /\ next_session_id \in Nat \ {0}
      /\ holders \in [HandleIds -> SUBSET (SessionIds \X TreeIds)]
  BY Zenon DEF TypeOK
<1>1. ASSUME Accept(c) PROVE TypeInv'
  <2>1. StoreOK'
    BY Zenon, <1>1, <1>t, FrameStore DEF Accept, store, history
  <2> QED
    BY Zenon, <1>1, <2>1, AdvanceIdle DEF Accept
<1>2. ASSUME Lose(c) PROVE TypeInv'
  <2>1. StoreOK'
    BY Zenon, <1>2, <1>t, <1>h, FrameStore DEF Lose, store
  <2>2. Cleanup({}, conn_sessions[c]) \in Locals
    BY Zenon, <1>t, RequestType
  <2>3. LocalsFor("lost", Cleanup({}, conn_sessions[c]))
    BY Zenon DEF LocalsFor, Cleanup, TreeLabels, DeleteLabels, CreateLabels, UseLabels, ReconnectLabels
  <2>4. "lost" \in Labels
    BY Zenon DEF Labels
  <2>5. Goto(c, "lost", Cleanup({}, conn_sessions[c]))
    BY Zenon, <1>2 DEF Lose
  <2> QED
    BY Zenon, <2>1, <2>2, <2>3, <2>4, <2>5, Advance
<1>3. ASSUME NEW p \in {0} \cup SessionIds, SessionSetup(c, p) PROVE TypeInv'
  <2>1. next_session_id \in SessionIds
    BY SMTT(30), <1>3, <1>t DEF SessionSetup, SessionIds
  <2>2. StoreOK'
    BY SMTT(30), <1>3, <1>t, <1>h, <2>1 DEF SessionSetup, StoreOK, TypeOK, LocalsOK
  <2>3. CASE p = 0
    BY Zenon, <1>3, <2>2, <2>3, AdvanceIdle DEF SessionSetup
  <2>4. CASE p # 0
    <3>1. Goto(c, "delete_read", Request(p, 0, NoHandle))
      BY Zenon, <1>3, <2>4 DEF SessionSetup
    <3>2. Request(p, 0, NoHandle) \in Locals
      BY Zenon, <1>0, RequestType
    <3>3. LocalsFor("delete_read", Request(p, 0, NoHandle))
      BY Zenon, <2>4 DEF LocalsFor, Request, TreeLabels, DeleteLabels, CreateLabels, UseLabels, ReconnectLabels
    <3>4. "delete_read" \in Labels
      BY Zenon DEF Labels
    <3> QED
      BY Zenon, <2>2, <3>1, <3>2, <3>3, <3>4, Advance
  <2> QED
    BY Zenon, <2>3, <2>4
<1>4. ASSUME NEW s \in SessionIds, SessionBinding(c, s) PROVE TypeInv'
  BY Zenon, <1>4 DEF SessionBinding, TypeOK, LocalsOK, store, history
<1>5. ASSUME NEW s \in SessionIds, SessionGone(c, s) PROVE TypeInv'
  BY Zenon, <1>5 DEF SessionGone, TypeOK, LocalsOK, store, history
<1>6. ASSUME NEW s \in SessionIds, Logoff(c, s) PROVE TypeInv'
  <2>1. StoreOK'
    BY Zenon, <1>6, <1>t, <1>h, FrameStore DEF Logoff, store
  <2>2. Request(s, 0, NoHandle) \in Locals
    BY Zenon, <1>0, RequestType
  <2>3. LocalsFor("delete_read", Request(s, 0, NoHandle))
    BY Zenon DEF LocalsFor, Request, TreeLabels, DeleteLabels, CreateLabels, UseLabels, ReconnectLabels
  <2>4. "delete_read" \in Labels
    BY Zenon DEF Labels
  <2>5. Goto(c, "delete_read", Request(s, 0, NoHandle))
    BY Zenon, <1>6 DEF Logoff
  <2> QED
    BY Zenon, <2>1, <2>2, <2>3, <2>4, <2>5, Advance
<1>7. ASSUME NEW s \in SessionIds, TreeConnect(c, s) PROVE TypeInv'
  <2>1. next_tree_id[s] \in TreeIds
    BY SMTT(30), <1>7, <1>t DEF TreeConnect, TreeIds
  <2>2. StoreOK'
    BY SMTT(30), <1>7, <1>t, FrameStore DEF TreeConnect, history
  <2>3. Request(s, next_tree_id[s], NoHandle) \in Locals
    BY Zenon, <1>0, <2>1, RequestType
  <2>4. LocalsFor("tree_create", Request(s, next_tree_id[s], NoHandle))
    BY Zenon, <2>1 DEF LocalsFor, Request, TreeLabels, DeleteLabels, CreateLabels, UseLabels, ReconnectLabels
  <2>5. "tree_create" \in Labels
    BY Zenon DEF Labels
  <2>6. Goto(c, "tree_create", Request(s, next_tree_id[s], NoHandle))
    BY Zenon, <1>7 DEF TreeConnect
  <2> QED
    BY Zenon, <2>2, <2>3, <2>4, <2>5, <2>6, Advance
<1>8. ASSUME NEW s \in SessionIds, NEW t \in TreeIds, TreeDisconnect(c, s, t) PROVE TypeInv'
  <2>1. StoreOK'
    BY Zenon, <1>8, <1>t, <1>h, FrameStore DEF TreeDisconnect, store
  <2>2. Request(s, t, NoHandle) \in Locals
    BY Zenon, <1>0, RequestType
  <2>3. LocalsFor("tree_read", Request(s, t, NoHandle))
    BY Zenon DEF LocalsFor, Request, TreeLabels, DeleteLabels, CreateLabels, UseLabels, ReconnectLabels
  <2>4. "tree_read" \in Labels
    BY Zenon DEF Labels
  <2>5. Goto(c, "tree_read", Request(s, t, NoHandle))
    BY Zenon, <1>8 DEF TreeDisconnect
  <2> QED
    BY Zenon, <2>1, <2>2, <2>3, <2>4, <2>5, Advance
<1>9. ASSUME NEW s \in SessionIds, NEW t \in TreeIds, NEW o \in Opens, Create(c, s, t, o)
      PROVE  TypeInv'
  <2>1. StoreOK'
    BY Zenon, <1>9, <1>t, FrameStore DEF Create, store, history
  <2>2. Handle(0, s, t, o, 0) \in HandleState
    BY Zenon, <1>0 DEF Handle, HandleState
  <2>3. Request(s, t, Handle(0, s, t, o, 0)) \in Locals
    BY Zenon, <1>0, <2>2, RequestType
  <2>4. LocalsFor("create", Request(s, t, Handle(0, s, t, o, 0)))
    BY Zenon, <2>2 DEF LocalsFor, Request, TreeLabels, DeleteLabels, CreateLabels, UseLabels, ReconnectLabels
  <2>5. "create" \in Labels
    BY Zenon DEF Labels
  <2>6. Goto(c, "create", Request(s, t, Handle(0, s, t, o, 0)))
    BY Zenon, <1>9 DEF Create
  <2> QED
    BY Zenon, <2>1, <2>3, <2>4, <2>5, <2>6, Advance
<1>10. ASSUME NEW s \in SessionIds, NEW t \in TreeIds, NEW i \in HandleIds,
              NEW l \in {"reconnect_tree", "expire", "use_tree", "close"},
              handles[i] # NoHandle, Goto(c, l, Request(s, t, handles[i])),
              UNCHANGED <<store, now, conn_sessions, history>>
       PROVE  TypeInv'
  <2>1. StoreOK'
    BY Zenon, <1>10, <1>t, FrameStore DEF store, history
  <2>2. handles[i] \in HandleState /\ handles[i].id \in HandleIds
    BY Zenon, <1>10, <1>t DEF LocalsOK
  <2>3. Request(s, t, handles[i]) \in Locals
    BY Zenon, <1>0, <2>2, RequestType
  <2>4. LocalsFor(l, Request(s, t, handles[i]))
    BY Zenon, <2>2 DEF LocalsFor, Request, TreeLabels, DeleteLabels, CreateLabels, UseLabels, ReconnectLabels
  <2>5. l \in Labels
    BY Zenon DEF Labels
  <2> QED
    BY Zenon, <1>10, <2>1, <2>3, <2>4, <2>5, Advance
<1>11. ASSUME NEW s \in SessionIds, NEW t \in TreeIds, NEW i \in HandleIds,
              DurableReconnect(c, s, t, i) \/ Use(c, s, t, i) \/ Close(c, s, t, i)
       PROVE  TypeInv'
  BY Zenon, <1>10, <1>11 DEF DurableReconnect, Use, Close, Validates
<1> QED
  BY Zenon, <1>1, <1>2, <1>3, <1>4, <1>5, <1>6, <1>7, <1>8, <1>9, <1>11 DEF Client

\* A new list to work off.
LEMMA TodoLocals ==
  ASSUME NEW r \in Locals, NEW hs \in SUBSET HandleState, \A h \in hs : h.id \in HandleIds
  PROVE  LET q == [r EXCEPT !.todo = hs]
         IN  /\ q \in Locals /\ q.todo = hs /\ q.session = r.session /\ q.tree = r.tree
             /\ q.handle = r.handle /\ q.left = r.left
             /\ LocalsFor("delete_read", r) => LocalsFor("delete_handles", q)
             /\ LocalsFor("tree_read", r) => LocalsFor("tree_handles", q)
             /\ LocalsFor("create", r) => LocalsFor("create_check", q)
             /\ \A l \in Labels : LocalsFor(l, r) => LocalsFor(l, q)
<1> DEFINE q == [r EXCEPT !.todo = hs]
<1>1. /\ q \in Locals /\ q.todo = hs /\ q.session = r.session /\ q.tree = r.tree
      /\ q.handle = r.handle /\ q.left = r.left
  BY Zenon DEF Locals
<1> HIDE DEF q
<1>2. /\ LocalsFor("delete_read", r) => LocalsFor("delete_handles", q)
      /\ LocalsFor("tree_read", r) => LocalsFor("tree_handles", q)
      /\ LocalsFor("create", r) => LocalsFor("create_check", q)
      /\ \A l \in Labels : LocalsFor(l, r) => LocalsFor(l, q)
  BY Zenon, <1>1 DEF LocalsFor, TreeLabels, DeleteLabels, CreateLabels, UseLabels, ReconnectLabels
<1> QED
  BY Zenon, <1>1, <1>2 DEF q

\* Every step of a running handler keeps the types.
LEMMA ContinueType ==
  ASSUME TypeInv, NEW c \in Conns, Continue(c)
  PROVE  TypeInv'
<1> USE DEF TypeInv
<1>0. 0 \in 0 .. MaxSession /\ 0 \in 0 .. MaxTree
      /\ SessionIds \subseteq 0 .. MaxSession /\ TreeIds \subseteq 0 .. MaxTree
      /\ HandleIds \subseteq 0 .. MaxHandle
  BY Zenon, IdRanges
<1>t. /\ conn_sessions \in [Conns -> SUBSET SessionIds]
      /\ handles \in [HandleIds -> HandleState \cup {NoHandle}]
      /\ next_tree_id \in [SessionIds -> Nat \ {0}] /\ next_handle_id \in Nat \ {0}
      /\ holders \in [HandleIds -> SUBSET (SessionIds \X TreeIds)] /\ closed \subseteq HandleIds
      /\ now \in Nat /\ trees \subseteq SessionIds \X TreeIds /\ sessions \subseteq SessionIds
  BY Zenon DEF TypeOK
<1>r. /\ req[c] \in Locals /\ LocalsFor(pc[c], req[c]) /\ pc[c] \in Labels
      /\ req[c].todo \subseteq HandleState /\ \A h \in req[c].todo : h.id \in HandleIds
      /\ req[c].left \subseteq SessionIds
      /\ req[c].session \in 0 .. MaxSession /\ req[c].tree \in 0 .. MaxTree
  BY Zenon DEF TypeOK, LocalsOK, LocalsFor, Locals
<1>l. {"delete_handles", "delete_session", "tree_handles", "create_check", "create_insert",
       "reconnect", "use", "lost", "closed"} \subseteq Labels
  BY Zenon DEF Labels
<1>s. \A h \in Stored : h \in HandleState /\ h.id \in HandleIds
  BY Zenon, StoredType
<1>n. UNCHANGED <<store, now, conn_sessions, history>> => StoreOK'
  BY Zenon, <1>t, FrameStore DEF store, history
<1>q. /\ pc[c] \in CreateLabels \cup UseLabels \cup ReconnectLabels =>
           /\ req[c].handle \in HandleState
           /\ req[c].session \in SessionIds /\ req[c].tree \in TreeIds
      /\ pc[c] \in {"create_insert"} \cup UseLabels \cup ReconnectLabels => req[c].handle.id \in HandleIds
  BY Zenon, <1>r DEF LocalsFor, TreeLabels
<1>1. ASSUME DeleteRead(c) PROVE TypeInv'
  <2> DEFINE q == [req[c] EXCEPT !.todo = OfSession(req[c].session)]
  <2>1. q \in Locals /\ LocalsFor("delete_handles", q)
    BY ZenonT(60), <1>1, <1>r, <1>s, TodoLocals DEF DeleteRead, OfSession
  <2>2. StoreOK' /\ Goto(c, "delete_handles", q)
    BY Zenon, <1>1, <1>n DEF DeleteRead
  <2> QED
    BY Zenon, <1>l, <2>1, <2>2, Advance
<1>2. ASSUME DeleteTrees(c) PROVE TypeInv'
  <2>1. LocalsFor("delete_session", req[c])
    BY Zenon, <1>2, <1>r DEF DeleteTrees, LocalsFor, TreeLabels, DeleteLabels, CreateLabels, UseLabels, ReconnectLabels
  <2>2. StoreOK' /\ Goto(c, "delete_session", req[c])
    BY Zenon, <1>2, <1>t DEF DeleteTrees, StoreOK, TypeOK, LocalsOK, counters, history
  <2> QED
    BY Zenon, <1>l, <1>r, <2>1, <2>2, Advance
<1>3. ASSUME DeleteSession(c) PROVE TypeInv'
  <2>1. StoreOK'
    BY Zenon, <1>3, <1>t DEF DeleteSession, StoreOK, TypeOK, LocalsOK, counters, history
  <2> QED
    BY Zenon, <1>3, <2>1, AdvanceIdle DEF DeleteSession
<1>4. ASSUME CreateTree(c) PROVE TypeInv'
  <2>1. <<req[c].session, req[c].tree>> \in SessionIds \X TreeIds
    BY Zenon, <1>4, <1>r DEF CreateTree, LocalsFor
  <2>2. StoreOK'
    BY Zenon, <1>4, <1>t, <2>1 DEF CreateTree, StoreOK, TypeOK, LocalsOK, counters, history
  <2> QED
    BY Zenon, <1>4, <2>2, AdvanceIdle DEF CreateTree
<1>5. ASSUME TreeRead(c) PROVE TypeInv'
  <2> DEFINE q == [req[c] EXCEPT !.todo = {h \in OfSession(req[c].session) : h.tree = req[c].tree}]
  <2>1. q \in Locals /\ LocalsFor("tree_handles", q)
    BY ZenonT(60), <1>5, <1>r, <1>s, TodoLocals DEF TreeRead, OfSession
  <2>2. StoreOK' /\ Goto(c, "tree_handles", q)
    BY Zenon, <1>5, <1>n DEF TreeRead
  <2> QED
    BY Zenon, <1>l, <2>1, <2>2, Advance
<1>6. ASSUME DeleteTree(c) PROVE TypeInv'
  <2>1. StoreOK'
    BY Zenon, <1>6, <1>t DEF DeleteTree, StoreOK, TypeOK, LocalsOK, counters, history
  <2> QED
    BY Zenon, <1>6, <2>1, AdvanceIdle DEF DeleteTree
<1>7. ASSUME CreateRead(c) PROVE TypeInv'
  <2> DEFINE q == [req[c] EXCEPT !.todo = {h \in Stored : h.open.path = req[c].handle.open.path}]
  <2>1. q \in Locals /\ LocalsFor("create_check", q)
    BY ZenonT(60), <1>7, <1>r, <1>s, TodoLocals DEF CreateRead
  <2>2. StoreOK' /\ Goto(c, "create_check", q)
    BY Zenon, <1>7, <1>n DEF CreateRead
  <2> QED
    BY Zenon, <1>l, <2>1, <2>2, Advance
<1>8. ASSUME CreateOpen(c) PROVE TypeInv'
  <2> DEFINE q == Request(req[c].session, req[c].tree, Opened(req[c].handle))
  <2>1. pc[c] \in CreateLabels /\ next_handle_id \in HandleIds
    BY SMTT(30), <1>8, <1>t DEF CreateOpen, CreateLabels, HandleIds
  <2>2. Opened(req[c].handle) \in HandleState /\ Opened(req[c].handle).id \in HandleIds
    BY SMTT(30), <1>0, <1>t, <1>q, <2>1, ConstantsAssumption DEF Opened, Handle, HandleState
  <2>3. q \in Locals
    BY Zenon, <1>r, <2>2, RequestType
  <2>4. LocalsFor("create_insert", q)
    BY Zenon, <1>q, <2>1, <2>2 DEF LocalsFor, Request, TreeLabels, DeleteLabels, CreateLabels, UseLabels, ReconnectLabels
  <2>5. StoreOK'
    BY SMTT(30), <1>8, <1>t, FrameStore DEF CreateOpen, history
  <2>6. Goto(c, "create_insert", q)
    BY Zenon, <1>8 DEF CreateOpen
  <2> QED
    BY Zenon, <1>l, <2>3, <2>4, <2>5, <2>6, Advance
<1>u. ASSUME NEW h \in HandleState, h.id \in HandleIds, UpdateHandle(h), Answer(c),
             UNCHANGED <<sessions, trees, counters, now, conn_sessions, closed>>,
             holders' \in [HandleIds -> SUBSET (SessionIds \X TreeIds)]
      PROVE  TypeInv'
  BY Zenon, <1>t, <1>u, UpdateType, FrameHandle, AdvanceIdle
<1>d. ASSUME NEW i \in HandleIds, DeleteHandle(i), Answer(c),
             UNCHANGED <<sessions, trees, counters, now, conn_sessions>>, closed' \subseteq HandleIds,
             holders' \in [HandleIds -> SUBSET (SessionIds \X TreeIds)]
      PROVE  TypeInv'
  BY Zenon, <1>t, <1>d, DeleteType, FrameHandle, AdvanceIdle
<1>9. ASSUME CreateInsert(c) PROVE TypeInv'
  <2>1. req[c].handle \in HandleState /\ req[c].handle.id \in HandleIds
        /\ req[c].session \in SessionIds /\ req[c].tree \in TreeIds
    BY Zenon, <1>9, <1>q DEF CreateInsert, CreateLabels
  <2>2. holders' \in [HandleIds -> SUBSET (SessionIds \X TreeIds)]
    BY SMTT(30), <1>9, <1>t, <2>1 DEF CreateInsert
  <2> QED
    BY Zenon, <1>9, <1>u, <2>1, <2>2 DEF CreateInsert
<1>10. ASSUME BackendFails(c) PROVE TypeInv'
  BY Zenon, <1>10, <1>n, AdvanceIdle DEF BackendFails
<1>11. ASSUME Expire(c) PROVE TypeInv'
  <2>1. req[c].handle.id \in HandleIds
    BY Zenon, <1>11, <1>q DEF Expire, ReconnectLabels
  <2> QED
    BY Zenon, <1>11, <1>t, <1>d, <2>1 DEF Expire, history
<1>12. ASSUME NEW from, NEW to, GetTree(c, from, to),
              \/ from = "reconnect_tree" /\ to = "reconnect"
              \/ from = "use_tree" /\ to = "use"
       PROVE  TypeInv'
  <2>1. LocalsFor(to, req[c])
    BY Zenon, <1>12, <1>r DEF GetTree, LocalsFor, TreeLabels, DeleteLabels, CreateLabels, UseLabels, ReconnectLabels
  <2>2. StoreOK'
    BY Zenon, <1>12, <1>n DEF GetTree
  <2>3. CASE <<req[c].session, req[c].tree>> \in trees
    BY Zenon, <1>12, <1>l, <1>r, <2>1, <2>2, <2>3, Advance DEF GetTree
  <2>4. CASE <<req[c].session, req[c].tree>> \notin trees
    BY Zenon, <1>12, <2>2, <2>4, AdvanceIdle DEF GetTree
  <2> QED
    BY Zenon, <2>3, <2>4
<1>13. ASSUME ReconnectUpdate(c) PROVE TypeInv'
  <2> DEFINE h == Handle(req[c].handle.id, req[c].session, req[c].tree, req[c].handle.open,
                         req[c].handle.deadline)
  <2>1. req[c].handle \in HandleState /\ req[c].handle.id \in HandleIds
        /\ req[c].session \in SessionIds /\ req[c].tree \in TreeIds
    BY Zenon, <1>13, <1>q DEF ReconnectUpdate, ReconnectLabels
  <2>2. h \in HandleState /\ h.id = req[c].handle.id
    BY Zenon, <1>0, <2>1 DEF Handle, HandleState
  <2>3. holders' \in [HandleIds -> SUBSET (SessionIds \X TreeIds)]
    BY SMTT(30), <1>13, <1>t, <2>1 DEF ReconnectUpdate
  <2>4. UpdateHandle(h)
    BY Zenon, <1>13 DEF ReconnectUpdate
  <2> HIDE DEF h
  <2> QED
    BY Zenon, <1>13, <1>u, <2>1, <2>2, <2>3, <2>4 DEF ReconnectUpdate
<1>14. ASSUME WriteBack(c) PROVE TypeInv'
  <2>1. req[c].handle \in HandleState /\ req[c].handle.id \in HandleIds
    BY Zenon, <1>14, <1>q DEF WriteBack, UseLabels
  <2> QED
    BY Zenon, <1>14, <1>t, <1>u, <2>1 DEF WriteBack, history
<1>15. ASSUME CloseDelete(c) PROVE TypeInv'
  <2>1. req[c].handle.id \in HandleIds
    BY Zenon, <1>15, <1>q DEF CloseDelete, UseLabels
  <2>2. holders' \in [HandleIds -> SUBSET (SessionIds \X TreeIds)]
    BY Zenon, <1>15, <1>t, <2>1 DEF CloseDelete
  <2> QED
    BY Zenon, <1>15, <1>t, <1>d, <2>1, <2>2 DEF CloseDelete
<1>c. ASSUME NEW todo \in SUBSET HandleState, \A h \in todo : h.id \in HandleIds,
             NEW left \in SUBSET SessionIds
      PROVE  Cleanup(todo, left) \in Locals /\ LocalsFor("lost", Cleanup(todo, left))
             /\ LocalsFor("closed", NoRequest)
  <2>1. Cleanup(todo, left) \in Locals
    BY Zenon, RequestType
  <2>2. LocalsFor("lost", Cleanup(todo, left))
    BY Zenon, <1>c DEF LocalsFor, Cleanup, TreeLabels, DeleteLabels, CreateLabels, UseLabels, ReconnectLabels
  <2>3. LocalsFor("closed", NoRequest)
    BY Zenon DEF LocalsFor, Cleanup, NoRequest, TreeLabels, DeleteLabels, CreateLabels, UseLabels, ReconnectLabels
  <2> QED
    BY Zenon, <2>1, <2>2, <2>3
<1>16. ASSUME Closed(c) PROVE TypeInv'
  BY Zenon, <1>16, <1>c, <1>l, <1>n, RequestType, Advance DEF Closed
<1>17. ASSUME NEW s \in SessionIds, CleanSession(c, s) PROVE TypeInv'
  <2> DEFINE q == Cleanup({h \in OfSession(s) : Preserved(h)}, req[c].left \ {s})
  <2>1. q \in Locals /\ LocalsFor("lost", q)
    BY Zenon, <1>c, <1>r, <1>s DEF OfSession
  <2>2. StoreOK' /\ Goto(c, "lost", q)
    BY Zenon, <1>17, <1>n DEF CleanSession
  <2> QED
    BY Zenon, <1>l, <2>1, <2>2, Advance
<1>w. ASSUME NEW h \in req[c].todo,
             \/ UpdateHandle(Prepared(h))
             \/ DeleteHandle(h.id)
             \/ UNCHANGED handles,
             UNCHANGED <<sessions, trees, counters, now, conn_sessions, history>>
      PROVE  StoreOK'
  <2>1. h \in HandleState /\ h.id \in HandleIds /\ Prepared(h) \in HandleState /\ Prepared(h).id = h.id
    BY Zenon, <1>r, <1>t, PreparedType
  <2>2. /\ handles' \in [HandleIds -> HandleState \cup {NoHandle}]
        /\ \A i \in HandleIds : handles'[i] # NoHandle => handles'[i].id = i
    <3>1. CASE UpdateHandle(Prepared(h))
      BY Zenon, <2>1, <3>1, UpdateType
    <3>2. CASE DeleteHandle(h.id)
      BY Zenon, <2>1, <3>2, DeleteType
    <3>3. CASE UNCHANGED handles
      BY Zenon, <1>t, <3>3 DEF LocalsOK
    <3> QED
      BY Zenon, <1>w, <3>1, <3>2, <3>3
  <2> QED
    BY Zenon, <1>t, <1>w, <2>2, FrameHandle DEF history
<1>x. ASSUME NEW h \in req[c].todo, StoreOK', Goto(c, pc[c], [req[c] EXCEPT !.todo = @ \ {h}])
      PROVE  TypeInv'
  <2> DEFINE q == [req[c] EXCEPT !.todo = req[c].todo \ {h}]
  <2>1. q \in Locals /\ LocalsFor(pc[c], q)
    BY Zenon, <1>r, TodoLocals
  <2>2. Goto(c, pc[c], q)
    BY Zenon, <1>x
  <2> HIDE DEF q
  <2> QED
    BY Zenon, <1>r, <1>x, <2>1, <2>2, Advance
<1>18. ASSUME NEW h \in req[c].todo, DeleteOne(c, h) \/ Detach(c, h) \/ TreeHandle(c, h)
       PROVE  TypeInv'
  <2>1. StoreOK'
    BY Zenon, <1>18, <1>w DEF DeleteOne, Detach, TreeHandle
  <2>2. Goto(c, pc[c], [req[c] EXCEPT !.todo = @ \ {h}])
    BY Zenon, <1>18 DEF DeleteOne, Detach, TreeHandle
  <2> QED
    BY Zenon, <1>x, <2>1, <2>2
<1>19. ASSUME NEW h \in req[c].todo, NEW caching, CreateCheck(c, h, caching)
       PROVE  TypeInv'
  <2>1. StoreOK'
    BY Zenon, <1>19, <1>w DEF CreateCheck
  <2>2. Answer(c) \/ Goto(c, pc[c], [req[c] EXCEPT !.todo = @ \ {h}])
    BY Zenon, <1>19 DEF CreateCheck
  <2> QED
    BY Zenon, <1>x, <2>1, <2>2, AdvanceIdle
<1> QED
  BY Zenon, <1>1, <1>2, <1>3, <1>4, <1>5, <1>6, <1>7, <1>8, <1>9, <1>10, <1>11, <1>12, <1>13, <1>14,
     <1>15, <1>16, <1>17, <1>18, <1>19 DEF Continue

\* Every step keeps the types: the handlers' steps, the clock and stuttering.
LEMMA TypeStep ==
  ASSUME TypeInv, [Next]_vars
  PROVE  TypeInv'
<1>1. CASE Tick
  BY SMTT(30), <1>1 DEF Tick, TypeInv, TypeOK, LocalsOK, store, history
<1>2. CASE UNCHANGED vars
  BY Zenon, <1>2 DEF vars, TypeInv, TypeOK, LocalsOK, store
<1>3. ASSUME NEW c \in Conns, Client(c) PROVE TypeInv'
  BY Zenon, <1>3, ClientType
<1>4. ASSUME NEW c \in Conns, Continue(c) PROVE TypeInv'
  BY Zenon, <1>4, ContinueType
<1> QED
  BY Zenon, <1>1, <1>2, <1>3, <1>4 DEF Next

\* The types hold when the server starts.
LEMMA TypeInit ==
  ASSUME Init
  PROVE  TypeInv
<1>1. NoRequest \in Locals
  BY Zenon, RequestType
<1>2. LocalsFor("closed", NoRequest)
  BY Zenon DEF LocalsFor, Cleanup, NoRequest, TreeLabels, DeleteLabels, CreateLabels, UseLabels, ReconnectLabels
<1>3. "closed" \in Labels
  BY Zenon DEF Labels
<1> HIDE DEF NoRequest
<1>4. TypeOK
  BY SMTT(30), <1>1, <1>3 DEF Init, TypeOK
<1>5. LocalsOK
  BY Zenon, <1>2 DEF Init, LocalsOK
<1> QED
  BY Zenon, <1>4, <1>5 DEF TypeInv

\* The tables, counters and handler locals of HandleLifecycle keep their types,
\* whatever the connections do.
THEOREM TypeCorrect == Spec => []TypeOK
<1>1. Init => TypeInv
  BY Zenon, TypeInit
<1>2. TypeInv /\ [Next]_vars => TypeInv'
  BY Zenon, TypeStep
<1>3. TypeInv => TypeOK
  BY Zenon DEF TypeInv
<1> QED
  BY <1>1, <1>2, <1>3, PTL DEF Spec

------------------------------------------------------------------------------
(* Identity of handles *)

\* g is a copy of a handle some copy of which is there now, or one under creation.
From(g) == g.id = 0 \/ \E h \in Copies : g.id = h.id /\ g.open = h.open

\* Where a copy is, now and after a step.
LEMMA WhereCopies ==
  /\ \A g : g \in Stored <=> g # NoHandle /\ \E i \in HandleIds : g = handles[i]
  /\ \A g : g \in Stored' <=> g # NoHandle /\ \E i \in HandleIds : g = handles'[i]
  /\ \A g : g \in Copies <=>
       \/ g \in Stored \/ \E c \in Conns : g \in req[c].todo
       \/ g # NoHandle /\ \E c \in Conns : g = req[c].handle
  /\ \A g : g \in Copies' <=>
       \/ g \in Stored' \/ \E c \in Conns : g \in req'[c].todo
       \/ g # NoHandle /\ \E c \in Conns : g = req'[c].handle
<1>1. \A g : g \in Stored <=> g # NoHandle /\ \E i \in HandleIds : g = handles[i]
  BY Zenon DEF Stored
<1>2. \A g : g \in Stored' <=> g # NoHandle /\ \E i \in HandleIds : g = handles'[i]
  BY Zenon DEF Stored
<1>3. \A g : g \in Copies <=>
       \/ g \in Stored \/ \E c \in Conns : g \in req[c].todo
       \/ g # NoHandle /\ \E c \in Conns : g = req[c].handle
  BY Zenon DEF Copies
<1>4. \A g : g \in Copies' <=>
       \/ g \in Stored' \/ \E c \in Conns : g \in req'[c].todo
       \/ g # NoHandle /\ \E c \in Conns : g = req'[c].handle
  BY Zenon DEF Copies
<1> QED
  BY Zenon, <1>1, <1>2, <1>3, <1>4

\* What is stored, listed or held by a handler is a copy.
LEMMA IsCopy ==
  ASSUME TypeInv
  PROVE  /\ \A i \in HandleIds : handles[i] # NoHandle => From(handles[i])
         /\ \A c \in Conns : \A h \in req[c].todo : From(h)
         /\ \A c \in Conns : req[c].handle # NoHandle => From(req[c].handle)
         /\ \A h \in Stored : From(h)
BY Zenon, WhereCopies DEF From

\* Copies are handles.
LEMMA CopyType ==
  ASSUME TypeInv
  PROVE  \A g \in Copies : g \in HandleState /\ g.id \in Nat
<1>1. \A g \in Copies : g \in HandleState
  BY SMTT(30), WhereCopies DEF TypeInv, TypeOK, Locals
<1> QED
  BY SMTT(30), <1>1 DEF HandleState

\* A step that makes only copies of the handles that are there keeps their identity.
LEMMA CopyStep ==
  ASSUME TypeInv, HandleIdentity, next_handle_id \in Nat \ {0}, next_handle_id' \in Nat,
         next_handle_id' >= next_handle_id,
         \A g \in Copies' : From(g)
  PROVE  HandleIdentity'
<1>1. \A g \in Copies' : \/ g.id = 0
                         \/ \E h \in Copies : g.id = h.id /\ g.open = h.open /\ h.id \in Nat
                                              /\ h.id < next_handle_id
  BY Zenon, CopyType DEF HandleIdentity, From
<1>2. ASSUME NEW g \in Copies' PROVE g.id < next_handle_id'
  <2>1. CASE g.id = 0
    BY Zenon, <2>1, Orders
  <2>2. ASSUME NEW h \in Copies, g.id = h.id, h.id \in Nat, h.id < next_handle_id
        PROVE  g.id < next_handle_id'
    <3>1. next_handle_id \in Nat /\ h.id < next_handle_id'
      BY Zenon, <2>2, Orders
    <3> QED
      BY Zenon, <2>2, <3>1
  <2> QED
    BY Zenon, <1>1, <2>1, <2>2
<1>3. ASSUME NEW g \in Copies', NEW h \in Copies', g.id = h.id, g.id # 0
      PROVE  g.open = h.open
  BY ZenonT(60), <1>1, <1>3 DEF HandleIdentity
<1> QED
  BY Zenon, <1>2, <1>3 DEF HandleIdentity

\* A handler's step that leaves in the store and in its locals only copies.
LEMMA HandlerCopies ==
  ASSUME TypeInv, HandleIdentity, NEW c \in Conns, NEW l, NEW r \in Locals, Goto(c, l, r),
         next_handle_id' \in Nat, next_handle_id' >= next_handle_id,
         \A i \in HandleIds : handles'[i] # NoHandle => From(handles'[i]),
         \A h \in r.todo : From(h),
         r.handle # NoHandle => From(r.handle)
  PROVE  HandleIdentity'
<1>0. next_handle_id \in Nat \ {0} /\ req \in [Conns -> Locals]
  BY Zenon DEF TypeInv, TypeOK
<1>1. ASSUME NEW d \in Conns
      PROVE  /\ \A h \in req'[d].todo : From(h)
             /\ req'[d].handle # NoHandle => From(req'[d].handle)
  <2>1. CASE d = c
    BY Zenon, <1>0, <2>1 DEF Goto
  <2>2. CASE d # c
    BY Zenon, <1>0, <2>2, IsCopy DEF Goto
  <2> QED
    BY Zenon, <2>1, <2>2
<1>2. \A g \in Copies' : From(g)
  BY SMTT(30), <1>1, WhereCopies
<1> QED
  BY Zenon, <1>0, <1>2, CopyStep

\* A step that leaves the handles and the handlers' locals alone.
LEMMA QuietCopies ==
  ASSUME HandleIdentity, UNCHANGED <<handles, req, next_handle_id>>
  PROVE  HandleIdentity'
BY SMTT(30) DEF HandleIdentity, Copies, Stored

\* The locals without a handle carry no copy.
LEMMA PlainLocals ==
  /\ \A s, t : Request(s, t, NoHandle).todo = {} /\ Request(s, t, NoHandle).handle = NoHandle
  /\ \A s, t, h : Request(s, t, h).todo = {} /\ Request(s, t, h).handle = h
  /\ \A todo, left : Cleanup(todo, left).todo = todo /\ Cleanup(todo, left).handle = NoHandle
  /\ NoRequest.todo = {} /\ NoRequest.handle = NoHandle
BY Zenon DEF Request, Cleanup, NoRequest

\* The client's requests start handlers with nothing but copies.
LEMMA ClientIdentity ==
  ASSUME TypeInv, TypeInv', HandleIdentity, NEW c \in Conns, Client(c)
  PROVE  HandleIdentity'
<1>n. next_handle_id \in Nat /\ next_handle_id' \in Nat /\ req \in [Conns -> Locals] /\ req' \in [Conns -> Locals]
  BY Zenon DEF TypeInv, TypeOK
<1>h. /\ \A i \in HandleIds : handles[i] # NoHandle => From(handles[i])
      /\ \A h \in Stored : From(h)
  BY Zenon, IsCopy
<1>1. ASSUME NEW l, NEW r, Goto(c, l, r), r.todo = {}, r.handle # NoHandle => From(r.handle),
             UNCHANGED <<handles, next_handle_id>>
      PROVE  HandleIdentity'
  <2>1. r \in Locals
    BY Zenon, <1>1, <1>n DEF Goto
  <2> QED
    BY SMTT(30), <1>1, <1>n, <1>h, <2>1, HandlerCopies
<1>2. ASSUME Accept(c) \/ Lose(c) PROVE HandleIdentity'
  BY SMTT(30), <1>1, <1>2, PlainLocals DEF Accept, Lose, Answer, store
<1>3. ASSUME NEW p, SessionSetup(c, p) PROVE HandleIdentity'
  BY ZenonT(60), <1>1, <1>3, PlainLocals DEF SessionSetup, Answer
<1>4. ASSUME NEW s \in SessionIds, SessionBinding(c, s) \/ SessionGone(c, s) PROVE HandleIdentity'
  BY Zenon, <1>4, QuietCopies DEF SessionBinding, SessionGone, store
<1>5. ASSUME NEW s \in SessionIds, Logoff(c, s) \/ TreeConnect(c, s) PROVE HandleIdentity'
  BY Zenon, <1>1, <1>5, PlainLocals DEF Logoff, TreeConnect, store
<1>6. ASSUME NEW s \in SessionIds, NEW t \in TreeIds, TreeDisconnect(c, s, t) PROVE HandleIdentity'
  BY Zenon, <1>1, <1>6, PlainLocals DEF TreeDisconnect, store
<1>7. ASSUME NEW s \in SessionIds, NEW t \in TreeIds, NEW o \in Opens, Create(c, s, t, o)
      PROVE  HandleIdentity'
  <2>1. From(Handle(0, s, t, o, 0))
    BY Zenon DEF From, Handle
  <2> QED
    BY SMTT(30), <1>1, <1>7, <2>1, PlainLocals DEF Create, store
<1>8. ASSUME NEW s \in SessionIds, NEW t \in TreeIds, NEW i \in HandleIds,
             DurableReconnect(c, s, t, i) \/ Use(c, s, t, i) \/ Close(c, s, t, i)
      PROVE  HandleIdentity'
  BY SMTT(30), <1>1, <1>8, <1>h, PlainLocals DEF DurableReconnect, Use, Close, store
<1> QED
  BY Zenon, <1>2, <1>3, <1>4, <1>5, <1>6, <1>7, <1>8 DEF Client

\* The handlers' steps write back copies only; CREATE makes the one new handle.
LEMMA ContinueIdentity ==
  ASSUME TypeInv, TypeInv', HandleIdentity, NEW c \in Conns, Continue(c)
  PROVE  HandleIdentity'
<1>n. /\ next_handle_id \in Nat \ {0} /\ next_handle_id' \in Nat
      /\ req \in [Conns -> Locals] /\ req' \in [Conns -> Locals] /\ req[c] \in Locals
      /\ handles \in [HandleIds -> HandleState \cup {NoHandle}]
  BY Zenon DEF TypeInv, TypeOK
<1>h. /\ \A i \in HandleIds : handles[i] # NoHandle => From(handles[i])
      /\ \A h \in Stored : From(h)
      /\ \A h \in req[c].todo : From(h)
      /\ req[c].handle # NoHandle => From(req[c].handle)
  BY Zenon, IsCopy
<1>p. \A h : From(h) => From(Prepared(h))
  BY Zenon DEF From, Prepared, Handle
<1>g. ASSUME NEW l, NEW r, Goto(c, l, r), \A h \in r.todo : From(h), r.handle # NoHandle => From(r.handle),
             UNCHANGED next_handle_id,
             \/ UNCHANGED handles
             \/ \E i : DeleteHandle(i)
             \/ \E h : From(h) /\ UpdateHandle(h)
      PROVE  HandleIdentity'
  <2>1. r \in Locals
    BY Zenon, <1>g, <1>n DEF Goto
  <2>2. \A i \in HandleIds : handles'[i] # NoHandle => From(handles'[i])
    BY Zenon, <1>g, <1>n, <1>h DEF DeleteHandle, UpdateHandle
  <2> QED
    BY SMTT(30), <1>g, <1>n, <2>1, <2>2, HandlerCopies
<1>t. \A hs : LET q == [req[c] EXCEPT !.todo = hs] IN q.todo = hs /\ q.handle = req[c].handle
  BY Zenon, <1>n DEF Locals
<1>l. pc[c] \in CreateLabels \cup UseLabels \cup ReconnectLabels => req[c].handle \in HandleState /\ req[c].handle # NoHandle
  BY Zenon, ConstantsAssumption DEF TypeInv, LocalsOK, LocalsFor
<1>1. ASSUME DeleteRead(c) \/ TreeRead(c) \/ CreateRead(c) PROVE HandleIdentity'
  BY Zenon, <1>1, <1>g, <1>h, <1>t DEF DeleteRead, TreeRead, CreateRead, OfSession, store
<1>2. ASSUME DeleteTrees(c) PROVE HandleIdentity'
  BY Zenon, <1>2, <1>g, <1>h DEF DeleteTrees, counters
<1>3. ASSUME DeleteSession(c) \/ CreateTree(c) \/ DeleteTree(c) \/ BackendFails(c) \/ Closed(c)
      PROVE  HandleIdentity'
  BY Zenon, <1>3, <1>g, PlainLocals DEF DeleteSession, CreateTree, DeleteTree, BackendFails, Closed, Answer, counters, store
<1>4. ASSUME Expire(c) \/ CloseDelete(c) PROVE HandleIdentity'
  BY Zenon, <1>4, <1>g, PlainLocals DEF Expire, CloseDelete, Answer, counters
<1>5. ASSUME CreateInsert(c) \/ WriteBack(c) PROVE HandleIdentity'
  BY Zenon, <1>5, <1>g, <1>h, <1>l, PlainLocals DEF CreateInsert, WriteBack, Answer, counters, CreateLabels, UseLabels
<1>6. ASSUME ReconnectUpdate(c) PROVE HandleIdentity'
  <2> DEFINE h == Handle(req[c].handle.id, req[c].session, req[c].tree, req[c].handle.open,
                         req[c].handle.deadline)
  <2>1. From(req[c].handle)
    BY Zenon, <1>6, <1>h, <1>l DEF ReconnectUpdate, ReconnectLabels
  <2>2. From(h)
    BY Zenon, <2>1 DEF From, Handle
  <2> QED
    BY Zenon, <1>6, <1>g, <2>2, PlainLocals DEF ReconnectUpdate, Answer, counters
<1>7. ASSUME NEW from, NEW to, GetTree(c, from, to) PROVE HandleIdentity'
  BY Zenon, <1>7, <1>g, <1>h, PlainLocals DEF GetTree, Answer, store
<1>8. ASSUME NEW s \in SessionIds, CleanSession(c, s) PROVE HandleIdentity'
  BY SMTT(30), <1>8, <1>g, <1>h, PlainLocals DEF CleanSession, OfSession, store
<1>x. ASSUME NEW l, NEW h, Goto(c, l, [req[c] EXCEPT !.todo = @ \ {h}]), UNCHANGED next_handle_id,
             \/ UNCHANGED handles
             \/ \E i : DeleteHandle(i)
             \/ \E g : From(g) /\ UpdateHandle(g)
      PROVE  HandleIdentity'
  <2> DEFINE q == [req[c] EXCEPT !.todo = req[c].todo \ {h}]
  <2>1. Goto(c, l, q) /\ q.todo = req[c].todo \ {h} /\ q.handle = req[c].handle
    BY Zenon, <1>x, <1>t
  <2> HIDE DEF q
  <2> QED
    BY Zenon, <1>g, <1>h, <1>x, <2>1
<1>9. ASSUME NEW h \in req[c].todo, DeleteOne(c, h) \/ Detach(c, h) \/ TreeHandle(c, h)
      PROVE  HandleIdentity'
  <2>1. From(h) /\ From(Prepared(h))
    BY Zenon, <1>h, <1>p
  <2>2. UpdateHandle(Prepared(h)) \/ DeleteHandle(h.id)
    BY Zenon, <1>9 DEF DeleteOne, Detach, TreeHandle
  <2>3. UNCHANGED next_handle_id
    BY Zenon, <1>9 DEF DeleteOne, Detach, TreeHandle, counters
  <2> QED
    BY Zenon, <1>9, <1>x, <2>1, <2>2, <2>3 DEF DeleteOne, Detach, TreeHandle
<1>10. ASSUME NEW h \in req[c].todo, NEW caching, CreateCheck(c, h, caching) PROVE HandleIdentity'
  <2>1. UNCHANGED handles \/ DeleteHandle(h.id)
    BY Zenon, <1>10 DEF CreateCheck
  <2>2. UNCHANGED next_handle_id
    BY Zenon, <1>10 DEF CreateCheck, counters
  <2>3. CASE Answer(c)
    BY Zenon, <1>g, <2>1, <2>2, <2>3, PlainLocals DEF Answer
  <2>4. CASE Goto(c, pc[c], [req[c] EXCEPT !.todo = @ \ {h}])
    BY Zenon, <1>x, <2>1, <2>2, <2>4
  <2> QED
    BY Zenon, <1>10, <2>3, <2>4 DEF CreateCheck
<1>11. ASSUME CreateOpen(c) PROVE HandleIdentity'
  <2> DEFINE new == Opened(req[c].handle)
             q == Request(req[c].session, req[c].tree, new)
  <2>1. new.id = next_handle_id /\ next_handle_id' = next_handle_id + 1
    BY Zenon, <1>11 DEF CreateOpen, Opened, Handle
  <2>2. q.todo = {} /\ q.handle = new /\ Goto(c, "create_insert", q) /\ UNCHANGED handles
    BY Zenon, <1>11 DEF CreateOpen, Request
  <2> HIDE DEF new, q
  <2>3. ASSUME NEW g \in Copies' PROVE g = new \/ g \in Copies
    <3>1. CASE g \in Stored'
      BY SMTT(30), <2>2, <3>1, WhereCopies
    <3>2. ASSUME NEW d \in Conns, g \in req'[d].todo PROVE g \in Copies
      <4>1. d # c
        BY Zenon, <1>n, <2>2, <3>2 DEF Goto
      <4> QED
        BY Zenon, <1>n, <2>2, <3>2, <4>1, WhereCopies DEF Goto
    <3>3. ASSUME NEW d \in Conns, g = req'[d].handle, g # NoHandle PROVE g = new \/ g \in Copies
      <4>1. CASE d = c
        BY Zenon, <1>n, <2>2, <3>3, <4>1 DEF Goto
      <4>2. CASE d # c
        BY Zenon, <1>n, <2>2, <3>3, <4>2, WhereCopies DEF Goto
      <4> QED
        BY Zenon, <4>1, <4>2
    <3> QED
      BY ZenonT(60), <3>1, <3>2, <3>3, WhereCopies
  <2>4. \A g \in Copies : g.id < next_handle_id
    BY Zenon DEF HandleIdentity
  <2>6. \A g \in Copies' : g.id \in Nat
    <3>1. \A g \in Copies' : g \in HandleState
      <4>1. handles' \in [HandleIds -> HandleState \cup {NoHandle}] /\ req' \in [Conns -> Locals]
        BY Zenon DEF TypeInv, TypeOK
      <4>2. \A own \in Locals : own.todo \subseteq HandleState /\ own.handle \in HandleState \cup {NoHandle}
        BY Zenon DEF Locals
      <4> QED
        BY SMTT(30), <4>1, <4>2, WhereCopies
    <3> QED
      BY SMTT(30), <3>1 DEF HandleState
  <2>5. \A g \in Copies' : g = new \/ (g \in Copies /\ g.id < next_handle_id)
    BY Zenon, <2>3, <2>4
  <2> QED
    BY SMTT(30), <1>n, <2>1, <2>5, <2>6 DEF HandleIdentity
<1> QED
  BY Zenon, <1>1, <1>2, <1>3, <1>4, <1>5, <1>6, <1>7, <1>8, <1>9, <1>10, <1>11 DEF Continue

\* update_handle writes back stale clones, yet never turns one open into another: in
\* every reachable state the copies of a handle id are of the open that made it, and
\* next_handle_id is above all of them, with takeover and several channels too.
THEOREM HandlesKeepIdentity == Spec => []HandleIdentity
<1>1. Init => TypeInv /\ HandleIdentity
  <2> SUFFICES ASSUME Init PROVE TypeInv /\ HandleIdentity
    BY Zenon
  <2>1. Copies = {}
    BY ZenonT(60), WhereCopies, PlainLocals DEF Init
  <2> QED
    BY Zenon, <2>1, TypeInit DEF HandleIdentity
<1>2. TypeInv /\ HandleIdentity /\ [Next]_vars => TypeInv' /\ HandleIdentity'
  <2> SUFFICES ASSUME TypeInv, HandleIdentity, [Next]_vars PROVE TypeInv' /\ HandleIdentity'
    BY Zenon
  <2>1. TypeInv'
    BY Zenon, TypeStep
  <2>2. CASE Tick \/ UNCHANGED vars
    <3>1. UNCHANGED <<handles, req, next_handle_id>>
      BY Zenon, <2>2 DEF Tick, vars, store
    <3> QED
      BY Zenon, <2>1, <3>1, QuietCopies
  <2>3. ASSUME NEW c \in Conns, Client(c) \/ Continue(c) PROVE HandleIdentity'
    BY Zenon, <2>1, <2>3, ClientIdentity, ContinueIdentity
  <2> QED
    BY Zenon, <2>1, <2>2, <2>3 DEF Next
<1> QED
  BY <1>1, <1>2, PTL DEF Spec

------------------------------------------------------------------------------
(* No handle without its session and tree, no stranded handle *)

\* Only the handler that takes a step moves.
LEMMA GotoAt ==
  ASSUME TypeInv, NEW c \in Conns, NEW l, NEW r, Goto(c, l, r)
  PROVE  /\ pc'[c] = l /\ req'[c] = r
         /\ \A d \in Conns \ {c} : pc'[d] = pc[d] /\ req'[d] = req[d]
BY Zenon DEF TypeInv, TypeOK, Goto

\* The part of HandleInv about the connections that do not take the step: they work
\* for other sessions than c, so c cannot disturb them.
LEMMA OthersStep ==
  ASSUME TypeInv, TypeInv', HandleInv, NEW c \in Conns,
         \A d \in Conns \ {c} :
            pc'[d] = pc[d] /\ req'[d] = req[d] /\ conn_sessions'[d] = conn_sessions[d],
         next_session_id' >= next_session_id,
         \A s \in Owns(c)' : s \in Owns(c) \/ (s >= next_session_id /\ s < next_session_id'),
         \A s \in sessions : s \in sessions' \/ s \in Owns(c),
         \A st \in trees : st \in trees' \/ st[1] \in Owns(c),
         \A i \in HandleIds : Attached(i)' =>
            handles'[i] = handles[i] \/ (pc'[c] = "idle" /\ handles'[i].session \in conn_sessions'[c]),
         AttachedHasTree', Served(c)', Pending(c)',
         \A i \in HandleIds :
            Attached(i) /\ Preserved(handles[i]) /\ handles'[i] = handles[i] /\ Reaches(c, i) => Reaches(c, i)'
  PROVE  HandleInv'
<1>t. /\ next_session_id \in Nat /\ next_session_id' \in Nat /\ SessionIds \subseteq Nat
      /\ \A d \in Conns : conn_sessions[d] \subseteq SessionIds /\ conn_sessions'[d] \subseteq SessionIds
      /\ \A d \in Conns : pc[d] \in DeleteLabels => req[d].session \in SessionIds
      /\ \A d \in Conns : pc'[d] \in DeleteLabels => req'[d].session \in SessionIds
  BY Zenon, Ids DEF TypeInv, TypeOK, LocalsOK, LocalsFor
<1>o. /\ \A d \in Conns : Owns(d) \subseteq SessionIds /\ Owns(d)' \subseteq SessionIds
      /\ \A d \in Conns \ {c} : Owns(d)' = Owns(d)
      /\ \A d \in Conns : conn_sessions[d] \subseteq Owns(d) /\ conn_sessions'[d] \subseteq Owns(d)'
      /\ \A d \in Conns : pc[d] \in DeleteLabels => req[d].session \in Owns(d)
  BY ZenonT(60), <1>t DEF Owns
<1>w. OneOwner
  BY Zenon DEF HandleInv
<1>1. OneOwner'
  <2>0. /\ \A d \in Conns : \A s \in Owns(d) : s \in Nat /\ s < next_session_id
        /\ \A d \in Conns \ {c} : Owns(c) \cap Owns(d) = {}
    BY Zenon, <1>t, <1>o, <1>w DEF OneOwner
  <2>1. ASSUME NEW d \in Conns, NEW s \in Owns(d)' PROVE s < next_session_id'
    <3>1. CASE d = c
      <4>1. s \in Owns(c) \/ s < next_session_id'
        BY Zenon, <3>1
      <4>2. ASSUME s \in Owns(c) PROVE s < next_session_id'
        <5>1. s \in Nat /\ s < next_session_id
          BY Zenon, <2>0, <4>2
        <5> QED
          BY Zenon, <1>t, <5>1, Orders
      <4> QED
        BY Zenon, <4>1, <4>2
    <3>2. CASE d # c
      <4>1. s \in Owns(d)
        BY Zenon, <1>o, <3>2
      <4>2. s \in Nat /\ s < next_session_id
        BY Zenon, <2>0, <4>1
      <4> QED
        BY Zenon, <1>t, <4>2, Orders
    <3> QED
      BY Zenon, <3>1, <3>2
  <2>2. ASSUME NEW d \in Conns \ {c}, NEW s \in Owns(c)', s \in Owns(d)' PROVE FALSE
    <3>1. s \in Owns(d) /\ s \in Nat /\ s < next_session_id
      <4>1. Owns(d)' = Owns(d)
        BY Zenon, <1>o
      <4> QED
        BY Zenon, <2>0, <2>2, <4>1
    <3>2. s \in Owns(c)
      BY Zenon, <1>t, <3>1, Orders
    <3> QED
      BY Zenon, <2>0, <3>1, <3>2
  <2>3. \A d, e \in Conns \ {c} : d # e => Owns(d)' \cap Owns(e)' = {}
    BY ZenonT(60), <1>o, <1>w DEF OneOwner
  <2> QED
    BY Zenon, <2>1, <2>2, <2>3 DEF OneOwner
<1>2. ASSUME NEW d \in Conns \ {c} PROVE Served(d)'
  <2>1. Served(d) /\ \A s \in conn_sessions[d] : s \notin Owns(c)
    BY Zenon, <1>o, <1>w DEF HandleInv, OneOwner
  <2>2. pc'[d] = pc[d] /\ req'[d] = req[d] /\ conn_sessions'[d] = conn_sessions[d]
    BY Zenon
  <2>3. pc[d] \in {"tree_create"} \cup TreeLabels => req[d].session \in sessions'
    BY Zenon, <2>1 DEF Served
  <2>4. pc[d] \in TreeLabels => <<req[d].session, req[d].tree>> \in trees'
    BY Zenon, <2>1 DEF Served
  <2> QED
    BY Zenon, <2>1, <2>2, <2>3, <2>4 DEF Served
<1>3. ASSUME NEW d \in Conns \ {c} PROVE Pending(d)'
  <2>1. Pending(d) /\ Served(d) /\ pc'[d] = pc[d] /\ req'[d] = req[d]
    BY Zenon DEF HandleInv
  <2>2. pc[d] \in {"delete_handles", "delete_session", "tree_handles"} => req[d].session \in Owns(d)
    BY Zenon, <1>o, <2>1 DEF Served, DeleteLabels, TreeLabels
  <2>3. \A s \in conn_sessions'[c] : s \notin Owns(d)
    <3>1. Owns(c)' \cap Owns(d)' = {}
      BY Zenon, <1>1 DEF OneOwner
    <3>2. conn_sessions'[c] \subseteq Owns(c)' /\ Owns(d)' = Owns(d)
      BY Zenon, <1>o
    <3> QED
      BY Zenon, <3>1, <3>2
  <2>4. ASSUME NEW i \in HandleIds, Attached(i)', handles'[i].session = req[d].session,
               pc[d] \in {"delete_handles", "delete_session", "tree_handles"}
        PROVE  Attached(i) /\ handles'[i] = handles[i]
    BY Zenon, <2>2, <2>3, <2>4 DEF Attached
  <2> QED
    BY SMTT(30), <2>1, <2>4 DEF Pending, Listed
<1>4. NoStrandedHandle'
  <2> SUFFICES ASSUME NEW i \in HandleIds, Attached(i)', Preserved(handles'[i])
               PROVE  \E d \in Conns : Reaches(d, i)'
    BY Zenon DEF NoStrandedHandle, Preserved
  <2>1. CASE handles'[i] = handles[i]
    <3>1. Attached(i) /\ Preserved(handles[i])
      BY Zenon, <2>1 DEF Attached, Preserved
    <3>2. PICK d \in Conns : Reaches(d, i)
      BY Zenon, <3>1 DEF HandleInv, NoStrandedHandle
    <3>3. CASE d = c
      BY Zenon, <2>1, <3>1, <3>2, <3>3
    <3>4. CASE d # c
      <4>1. pc'[d] = pc[d] /\ req'[d] = req[d] /\ conn_sessions'[d] = conn_sessions[d]
        BY Zenon, <3>4
      <4>2. Reaches(d, i)'
        BY Zenon, <2>1, <3>2, <4>1 DEF Reaches, Listed
      <4> QED
        BY Zenon, <4>2
    <3> QED
      BY Zenon, <3>3, <3>4
  <2>2. CASE pc'[c] = "idle" /\ handles'[i].session \in conn_sessions'[c]
    <3>1. Reaches(c, i)'
      BY Zenon, <2>2 DEF Reaches
    <3> QED
      BY Zenon, <3>1
  <2> QED
    BY Zenon, <2>1, <2>2
<1> QED
  BY Zenon, <1>1, <1>2, <1>3, <1>4 DEF HandleInv

\* The step of a handler that changes no session, tree or connection table.
LEMMA HandlerStep ==
  ASSUME TypeInv, TypeInv', HandleInv, NEW c \in Conns, NEW l, NEW r, Goto(c, l, r),
         UNCHANGED <<sessions, trees, conn_sessions, next_session_id>>,
         l \in DeleteLabels => pc[c] \in DeleteLabels /\ r.session = req[c].session,
         \A i \in HandleIds : Attached(i)' =>
            \/ handles'[i] = handles[i]
            \/ /\ l = "idle"
               /\ handles'[i].session \in conn_sessions[c] /\ handles'[i].session \in sessions
               /\ <<handles'[i].session, handles'[i].tree>> \in trees,
         Served(c)', Pending(c)',
         \A i \in HandleIds :
            Attached(i) /\ Preserved(handles[i]) /\ handles'[i] = handles[i] /\ Reaches(c, i) => Reaches(c, i)'
  PROVE  HandleInv'
<1>1. /\ pc'[c] = l /\ req'[c] = r
      /\ \A d \in Conns \ {c} : pc'[d] = pc[d] /\ req'[d] = req[d]
  BY Zenon, GotoAt
<1>2. \A s \in Owns(c)' : s \in Owns(c)
  BY Zenon, <1>1 DEF Owns
<1>3. AttachedHasTree'
  BY Zenon DEF AttachedHasTree, HandleInv, Attached
<1>4. next_session_id' >= next_session_id
  BY Zenon, Orders DEF TypeInv, TypeOK
<1> QED
  BY Zenon, <1>1, <1>2, <1>3, <1>4, OthersStep

\* A handler that has worked for its session answers.
LEMMA AnswerStep ==
  ASSUME TypeInv, TypeInv', HandleInv, NEW c \in Conns, Answer(c),
         UNCHANGED <<sessions, trees, conn_sessions, next_session_id>>,
         pc[c] \notin {"lost", "closed", "delete_read", "delete_handles"},
         \A i \in HandleIds : Attached(i)' =>
            \/ handles'[i] = handles[i]
            \/ /\ handles'[i].session \in conn_sessions[c] /\ handles'[i].session \in sessions
               /\ <<handles'[i].session, handles'[i].tree>> \in trees
  PROVE  HandleInv'
<1>1. pc'[c] = "idle" /\ req'[c] = NoRequest
  BY ZenonT(60), GotoAt DEF Answer
<1>2. Served(c)'
  BY Zenon, <1>1 DEF Served, TreeLabels, DeleteLabels, CreateLabels, UseLabels, ReconnectLabels
<1>3. Pending(c)'
  BY Zenon, <1>1 DEF Pending
<1>4. \A i \in HandleIds : handles'[i] = handles[i] /\ Reaches(c, i) => Reaches(c, i)'
  BY Zenon, <1>1 DEF Reaches
<1>5. "idle" \notin DeleteLabels
  BY Zenon DEF DeleteLabels
<1> QED
  BY Zenon, <1>2, <1>3, <1>4, <1>5, HandlerStep DEF Answer

\* A handler starts: it works for a session of its connection and, but for
\* TREE_CONNECT, for a tree of that session.
LEMMA StartStep ==
  ASSUME TypeInv, TypeInv', HandleInv, NEW c \in Conns, NEW l, NEW s, NEW t, NEW h,
         HasSession(c, s), Goto(c, l, Request(s, t, h)),
         UNCHANGED <<sessions, trees, handles, conn_sessions, next_session_id>>,
         l \in {"tree_create", "tree_read", "create", "reconnect_tree", "expire", "use_tree", "close"},
         l # "tree_create" => <<s, t>> \in trees,
         l \in CreateLabels \cup UseLabels => h.session = s /\ h.tree = t
  PROVE  HandleInv'
<1> DEFINE r == Request(s, t, h)
<1>0. r.session = s /\ r.tree = t /\ r.handle = h
  BY Zenon DEF Request
<1>1. pc'[c] = l /\ req'[c] = r /\ pc[c] = "idle"
  BY Zenon, GotoAt DEF HasSession
<1> HIDE DEF r
<1>2. Served(c)'
  BY Zenon, <1>0, <1>1 DEF Served, HasSession, TreeLabels, DeleteLabels, CreateLabels, UseLabels, ReconnectLabels
<1>3. Pending(c)'
  BY Zenon, <1>1 DEF Pending
<1>4. \A i \in HandleIds : Reaches(c, i) => Reaches(c, i)'
  BY Zenon, <1>1 DEF Reaches
<1>5. l \notin DeleteLabels
  BY Zenon DEF DeleteLabels
<1>6. Goto(c, l, r)
  BY Zenon DEF r
<1> QED
  BY Zenon, <1>2, <1>3, <1>4, <1>5, <1>6, HandlerStep

\* A handler of a tree goes on for the same session and tree.
LEMMA GoOnStep ==
  ASSUME TypeInv, TypeInv', HandleInv, NEW c \in Conns, NEW l, NEW r, Goto(c, l, r),
         UNCHANGED <<sessions, trees, conn_sessions, next_session_id>>,
         \/ pc[c] \in CreateLabels /\ l \in CreateLabels
         \/ pc[c] \in UseLabels /\ l \in UseLabels
         \/ pc[c] \in ReconnectLabels /\ l \in ReconnectLabels,
         r.session = req[c].session, r.tree = req[c].tree,
         pc[c] \in CreateLabels \cup UseLabels =>
            r.handle.session = req[c].handle.session /\ r.handle.tree = req[c].handle.tree,
         \A i \in HandleIds : Attached(i)' => handles'[i] = handles[i]
  PROVE  HandleInv'
<1>1. pc'[c] = l /\ req'[c] = r
  BY Zenon DEF Goto, TypeInv, TypeOK
<1>2. Served(c)'
  BY Zenon, <1>1 DEF HandleInv, Served, TreeLabels, DeleteLabels, CreateLabels, UseLabels, ReconnectLabels
<1>3. Pending(c)'
  BY Zenon, <1>1 DEF Pending, CreateLabels, UseLabels, ReconnectLabels
<1>4. \A i \in HandleIds : handles'[i] = handles[i] /\ Reaches(c, i) => Reaches(c, i)'
  BY Zenon, <1>1 DEF Reaches, CreateLabels, UseLabels, ReconnectLabels
<1>5. l \notin DeleteLabels
  BY Zenon DEF DeleteLabels, CreateLabels, UseLabels, ReconnectLabels
<1> QED
  BY Zenon, <1>2, <1>3, <1>4, <1>5, HandlerStep

\* The clients' requests and the loss of a connection keep HandleInv.
LEMMA ClientInv ==
  ASSUME TypeInv, TypeInv', HandleInv, ~Takeover, ~Binding, NEW c \in Conns, Client(c)
  PROVE  HandleInv'
<1>t. /\ conn_sessions \in [Conns -> SUBSET SessionIds] /\ next_session_id \in Nat
      /\ next_session_id' \in Nat /\ pc \in [Conns -> Labels] /\ req \in [Conns -> Locals]
  BY Zenon DEF TypeInv, TypeOK
<1>i. HandleInv => AttachedHasTree
  BY Zenon DEF HandleInv
<1>l. {"idle", "lost", "closed"} \cap DeleteLabels = {} /\ {"idle", "lost", "closed"} \cap TreeLabels = {}
      /\ "idle" # "lost" /\ "idle" # "closed"
      /\ {"idle", "lost", "closed"} \cap (CreateLabels \cup UseLabels) = {}
      /\ {"idle", "lost", "closed"} \cap ({"tree_create"} \cup TreeLabels) = {}
      /\ "delete_read" \in DeleteLabels /\ "delete_read" \notin {"tree_create"} \cup TreeLabels
      /\ "delete_read" \notin CreateLabels \cup UseLabels
  BY Zenon DEF DeleteLabels, TreeLabels, CreateLabels, UseLabels, ReconnectLabels
<1>a. UNCHANGED handles => \A i \in HandleIds : Attached(i)' => handles'[i] = handles[i]
  BY Zenon
<1>h. UNCHANGED <<handles, sessions, trees>> => AttachedHasTree'
  BY Zenon DEF HandleInv, AttachedHasTree, Attached
<1>1. ASSUME Accept(c) PROVE HandleInv'
  <2>1. /\ pc'[c] = "idle" /\ req'[c] = NoRequest /\ conn_sessions'[c] = {}
        /\ \A d \in Conns \ {c} : pc'[d] = pc[d] /\ req'[d] = req[d] /\ conn_sessions'[d] = conn_sessions[d]
        /\ UNCHANGED <<sessions, trees, handles, next_session_id>> /\ pc[c] = "closed"
    BY Zenon, <1>1, <1>t, GotoAt DEF Accept, Answer, store
  <2>2. Served(c)' /\ Pending(c)'
    BY Zenon, <1>l, <2>1 DEF Served, Pending
  <2>3. \A i \in HandleIds : ~Reaches(c, i)
    BY Zenon, <2>1 DEF Reaches
  <2>4. \A s \in Owns(c)' : s \in Owns(c)
    BY Zenon, <1>l, <2>1 DEF Owns
  <2>5. AttachedHasTree'
    BY Zenon, <1>h, <2>1
  <2>6. next_session_id' >= next_session_id
    BY Zenon, <1>t, <2>1, Orders
  <2>7. \A i \in HandleIds : Attached(i)' => handles'[i] = handles[i]
    BY Zenon, <2>1
  <2> QED
    BY Zenon, <2>1, <2>2, <2>3, <2>4, <2>5, <2>6, <2>7, OthersStep
<1>2. ASSUME Lose(c) PROVE HandleInv'
  <2> DEFINE r == Cleanup({}, conn_sessions[c])
  <2>1. r.session = 0 /\ r.left = conn_sessions[c] /\ r.todo = {} /\ pc[c] = "idle"
        /\ Goto(c, "lost", r) /\ UNCHANGED <<sessions, trees, handles, conn_sessions, next_session_id>>
    BY Zenon, <1>2 DEF Lose, Cleanup, store
  <2> HIDE DEF r
  <2>2. pc'[c] = "lost" /\ req'[c] = r
    BY Zenon, <2>1, GotoAt
  <2>3. Served(c)' /\ Pending(c)'
    BY Zenon, <1>l, <2>1, <2>2 DEF Served, Pending
  <2>4. \A i \in HandleIds : Reaches(c, i) => Reaches(c, i)'
    BY Zenon, <2>1, <2>2 DEF Reaches
  <2> QED
    BY Zenon, <1>l, <2>1, <2>3, <2>4, HandlerStep
<1>3. ASSUME SessionSetup(c, 0) PROVE HandleInv'
  <2>1. /\ pc[c] = "idle" /\ pc'[c] = "idle" /\ req'[c] = NoRequest
        /\ conn_sessions'[c] = conn_sessions[c] \cup {next_session_id}
        /\ \A d \in Conns \ {c} : pc'[d] = pc[d] /\ req'[d] = req[d] /\ conn_sessions'[d] = conn_sessions[d]
        /\ UNCHANGED <<trees, handles>> /\ next_session_id' = next_session_id + 1
        /\ sessions' = sessions \cup {next_session_id}
    BY ZenonT(60), <1>3, <1>t, GotoAt DEF SessionSetup, Answer
  <2>2. Served(c)' /\ Pending(c)'
    BY Zenon, <1>l, <2>1 DEF Served, Pending
  <2>3. \A i \in HandleIds : Reaches(c, i) => Reaches(c, i)'
    BY Zenon, <2>1 DEF Reaches
  <2>4. \A s \in Owns(c)' : s \in Owns(c) \/ (s >= next_session_id /\ s < next_session_id')
    BY SMTT(30), <1>l, <1>t, <2>1 DEF Owns
  <2>5. AttachedHasTree'
    BY Zenon, <2>1 DEF HandleInv, AttachedHasTree, Attached
  <2>6. next_session_id' >= next_session_id
    BY Zenon, <1>t, <2>1, Orders
  <2>7. \A i \in HandleIds : Attached(i)' => handles'[i] = handles[i]
    BY Zenon, <2>1
  <2> QED
    BY Zenon, <2>1, <2>2, <2>3, <2>4, <2>5, <2>6, <2>7, OthersStep
<1>4. ASSUME NEW s \in SessionIds, SessionGone(c, s) PROVE HandleInv'
  <2>1. /\ pc[c] = "idle" /\ s \notin sessions /\ pc'[c] = pc[c] /\ req'[c] = req[c]
        /\ conn_sessions'[c] = conn_sessions[c] \ {s}
        /\ \A d \in Conns \ {c} : pc'[d] = pc[d] /\ req'[d] = req[d] /\ conn_sessions'[d] = conn_sessions[d]
        /\ UNCHANGED <<sessions, trees, handles, next_session_id>>
    BY Zenon, <1>4, <1>t DEF SessionGone, store
  <2>2. Served(c)' /\ Pending(c)'
    BY Zenon, <1>l, <2>1 DEF Served, Pending
  <2>3. \A i \in HandleIds : Attached(i) /\ Reaches(c, i) => Reaches(c, i)'
    BY Zenon, <1>i, <2>1 DEF Reaches, AttachedHasTree
  <2>4. \A q \in Owns(c)' : q \in Owns(c)
    BY Zenon, <1>l, <2>1 DEF Owns
  <2>5. AttachedHasTree'
    BY Zenon, <1>h, <2>1
  <2>6. next_session_id' >= next_session_id
    BY Zenon, <1>t, <2>1, Orders
  <2>7. \A i \in HandleIds : Attached(i)' => handles'[i] = handles[i]
    BY Zenon, <2>1
  <2> QED
    BY Zenon, <2>1, <2>2, <2>3, <2>4, <2>5, <2>6, <2>7, OthersStep
<1>5. ASSUME NEW s \in SessionIds, Logoff(c, s) PROVE HandleInv'
  <2> DEFINE r == Request(s, 0, NoHandle)
  <2>0. r.session = s
    BY Zenon DEF Request
  <2>1. /\ pc[c] = "idle" /\ s \in conn_sessions[c] /\ pc'[c] = "delete_read" /\ req'[c] = r
        /\ conn_sessions'[c] = conn_sessions[c] \ {s}
        /\ \A d \in Conns \ {c} : pc'[d] = pc[d] /\ req'[d] = req[d] /\ conn_sessions'[d] = conn_sessions[d]
        /\ UNCHANGED <<sessions, trees, handles, next_session_id>>
    BY Zenon, <1>5, <1>t, GotoAt DEF Logoff, HasSession, store
  <2> HIDE DEF r
  <2>2. Served(c)' /\ Pending(c)'
    BY Zenon, <1>l, <2>0, <2>1 DEF Served, Pending
  <2>3. \A i \in HandleIds : Reaches(c, i) => Reaches(c, i)'
    BY Zenon, <2>0, <2>1 DEF Reaches
  <2>4. \A q \in Owns(c)' : q \in Owns(c)
    BY Zenon, <1>l, <2>0, <2>1 DEF Owns
  <2>5. AttachedHasTree'
    BY Zenon, <1>h, <2>1
  <2>6. next_session_id' >= next_session_id
    BY Zenon, <1>t, <2>1, Orders
  <2>7. \A i \in HandleIds : Attached(i)' => handles'[i] = handles[i]
    BY Zenon, <2>1
  <2> QED
    BY Zenon, <2>1, <2>2, <2>3, <2>4, <2>5, <2>6, <2>7, OthersStep
<1>k. /\ "tree_create" \notin CreateLabels \cup UseLabels
      /\ "tree_read" \notin CreateLabels \cup UseLabels
      /\ "reconnect_tree" \notin CreateLabels \cup UseLabels
      /\ "expire" \notin CreateLabels \cup UseLabels
  BY Zenon DEF CreateLabels, UseLabels
<1>6. ASSUME NEW s \in SessionIds, TreeConnect(c, s) PROVE HandleInv'
  <2>1. HasSession(c, s) /\ Goto(c, "tree_create", Request(s, next_tree_id[s], NoHandle))
        /\ UNCHANGED <<sessions, trees, handles, conn_sessions, next_session_id>>
    BY Zenon, <1>6 DEF TreeConnect
  <2> QED
    BY Zenon, <1>k, <2>1, StartStep
<1>7. ASSUME NEW s \in SessionIds, NEW t \in TreeIds, TreeDisconnect(c, s, t) PROVE HandleInv'
  <2>1. HasSession(c, s) /\ Goto(c, "tree_read", Request(s, t, NoHandle)) /\ <<s, t>> \in trees
        /\ UNCHANGED <<sessions, trees, handles, conn_sessions, next_session_id>>
    BY Zenon, <1>7 DEF TreeDisconnect, HasTree, store
  <2> QED
    BY Zenon, <1>k, <2>1, StartStep
<1>8. ASSUME NEW s \in SessionIds, NEW t \in TreeIds, NEW o \in Opens, Create(c, s, t, o)
      PROVE  HandleInv'
  <2>0. Handle(0, s, t, o, 0).session = s /\ Handle(0, s, t, o, 0).tree = t
    BY Zenon DEF Handle
  <2>1. HasSession(c, s) /\ Goto(c, "create", Request(s, t, Handle(0, s, t, o, 0))) /\ <<s, t>> \in trees
        /\ UNCHANGED <<sessions, trees, handles, conn_sessions, next_session_id>>
    BY Zenon, <1>8 DEF Create, HasTree, store
  <2> QED
    BY Zenon, <2>0, <2>1, StartStep
<1>9. ASSUME NEW s \in SessionIds, NEW t \in TreeIds, NEW i \in HandleIds, DurableReconnect(c, s, t, i)
      PROVE  HandleInv'
  <2>1. HasSession(c, s) /\ <<s, t>> \in trees
        /\ UNCHANGED <<sessions, trees, handles, conn_sessions, next_session_id>>
        /\ \E l \in {"reconnect_tree", "expire"} : Goto(c, l, Request(s, t, handles[i]))
    BY Zenon, <1>9 DEF DurableReconnect, HasTree, store
  <2> QED
    BY Zenon, <1>k, <2>1, StartStep
<1>10. ASSUME NEW s \in SessionIds, NEW t \in TreeIds, NEW i \in HandleIds,
              Use(c, s, t, i) \/ Close(c, s, t, i)
       PROVE  HandleInv'
  <2>1. HasSession(c, s) /\ <<s, t>> \in trees /\ handles[i].session = s /\ handles[i].tree = t
        /\ UNCHANGED <<sessions, trees, handles, conn_sessions, next_session_id>>
        /\ \E l \in {"use_tree", "close"} : Goto(c, l, Request(s, t, handles[i]))
    BY Zenon, <1>10 DEF Use, Close, Validates, HasTree, store
  <2> QED
    BY Zenon, <2>1, StartStep
<1> QED
  BY Zenon, <1>1, <1>2, <1>3, <1>4, <1>5, <1>6, <1>7, <1>8, <1>9, <1>10 DEF Client, SessionBinding

\* Deleting a session: its handles are read, disconnected or deleted, then its trees
\* and the session itself go, when no handle belongs to it any more.
LEMMA DeleteInv ==
  ASSUME TypeInv, TypeInv', HandleInv, NEW c \in Conns,
         \/ DeleteRead(c) \/ DeleteTrees(c) \/ DeleteSession(c)
         \/ \E h \in req[c].todo : DeleteOne(c, h)
  PROVE  HandleInv'
<1>t. /\ conn_sessions \in [Conns -> SUBSET SessionIds] /\ next_session_id \in Nat
      /\ req[c] \in Locals /\ handles \in [HandleIds -> HandleState \cup {NoHandle}]
      /\ \A i \in HandleIds : handles[i] # NoHandle => handles[i].id = i
      /\ trees \subseteq SessionIds \X TreeIds
  BY Zenon DEF TypeInv, TypeOK, LocalsOK
<1>l. /\ {"delete_read", "delete_handles", "delete_session"} \subseteq DeleteLabels
      /\ DeleteLabels \cap ({"tree_create"} \cup TreeLabels) = {}
      /\ DeleteLabels \cap (CreateLabels \cup UseLabels) = {} /\ DeleteLabels \cap TreeLabels = {}
      /\ "lost" \notin DeleteLabels /\ "tree_handles" \notin DeleteLabels /\ "idle" \notin DeleteLabels
      /\ "idle" \notin {"tree_create"} \cup TreeLabels /\ "idle" \notin CreateLabels \cup UseLabels
      /\ "idle" \notin TreeLabels
  BY Zenon DEF DeleteLabels, TreeLabels, CreateLabels, UseLabels, ReconnectLabels
<1>v. Served(c) /\ Pending(c) /\ AttachedHasTree
  BY Zenon DEF HandleInv
<1>n. pc[c] \in DeleteLabels => req[c].session \notin conn_sessions[c] /\ req[c].session \in Owns(c)
  BY Zenon, <1>v DEF Served, Owns
<1>s. ASSUME NEW l \in DeleteLabels, pc'[c] = l, req'[c].session = req[c].session, pc[c] \in DeleteLabels,
             UNCHANGED conn_sessions
      PROVE  Served(c)'
  BY Zenon, <1>l, <1>n, <1>s DEF Served
<1>1. ASSUME DeleteRead(c) PROVE HandleInv'
  <2> DEFINE q == [req[c] EXCEPT !.todo = OfSession(req[c].session)]
  <2>1. q.session = req[c].session /\ q.todo = OfSession(req[c].session)
    BY Zenon, <1>t DEF Locals
  <2>2. pc[c] = "delete_read" /\ Goto(c, "delete_handles", q)
        /\ UNCHANGED <<sessions, trees, handles, conn_sessions, next_session_id>>
    BY Zenon, <1>1 DEF DeleteRead, store
  <2> HIDE DEF q
  <2>3. pc'[c] = "delete_handles" /\ req'[c] = q
    BY Zenon, <2>2, GotoAt
  <2>4. ASSUME NEW i \in HandleIds, Attached(i), handles[i].session = req[c].session PROVE Listed(c, i)'
    <3>1. handles[i] \in q.todo /\ handles[i].id = i
      BY Zenon, <1>t, <2>1, <2>4 DEF OfSession, Stored, Attached
    <3> QED
      BY Zenon, <2>3, <3>1 DEF Listed
  <2>5. Pending(c)'
    BY Zenon, <2>1, <2>2, <2>3, <2>4 DEF Pending, Attached
  <2>6. \A i \in HandleIds : Attached(i) /\ Reaches(c, i) => Reaches(c, i)'
    BY Zenon, <2>2, <2>3, <2>4 DEF Reaches
  <2>7. Served(c)'
    BY Zenon, <1>l, <1>s, <2>1, <2>2, <2>3
  <2> QED
    BY Zenon, <1>l, <2>1, <2>2, <2>5, <2>6, <2>7, HandlerStep
<1>2. ASSUME NEW h \in req[c].todo, DeleteOne(c, h) PROVE HandleInv'
  <2> DEFINE q == [req[c] EXCEPT !.todo = req[c].todo \ {h}]
  <2>1. q.session = req[c].session /\ q.todo = req[c].todo \ {h}
    BY Zenon, <1>t DEF Locals
  <2>2. pc[c] = "delete_handles" /\ Goto(c, "delete_handles", q)
        /\ UNCHANGED <<sessions, trees, conn_sessions, next_session_id>>
    BY Zenon, <1>2 DEF DeleteOne, counters
  <2> HIDE DEF q
  <2>3. pc'[c] = "delete_handles" /\ req'[c] = q
    BY Zenon, <2>2, GotoAt
  <2>4. \A i \in HandleIds : Attached(i)' => handles'[i] = handles[i] /\ i # h.id
    BY SMTT(30), <1>2, <1>t DEF DeleteOne, UpdateHandle, DeleteHandle, Attached, Prepared, Handle
  <2>5. ASSUME NEW i \in HandleIds, i # h.id, Listed(c, i) PROVE Listed(c, i)'
    BY Zenon, <2>1, <2>3, <2>5 DEF Listed
  <2>6. Pending(c)'
    BY ZenonT(60), <1>v, <2>1, <2>2, <2>3, <2>4, <2>5 DEF Pending, Attached
  <2>7. \A i \in HandleIds : Attached(i) /\ handles'[i] = handles[i] /\ Reaches(c, i) => Reaches(c, i)'
    BY Zenon, <2>2, <2>3, <2>4, <2>5 DEF Reaches, Attached
  <2>8. Served(c)'
    BY Zenon, <1>l, <1>s, <2>1, <2>2, <2>3
  <2> QED
    BY Zenon, <1>l, <2>1, <2>2, <2>4, <2>6, <2>7, <2>8, HandlerStep
<1>3. ASSUME DeleteTrees(c) PROVE HandleInv'
  <2>1. /\ pc[c] = "delete_handles" /\ req[c].todo = {} /\ Goto(c, "delete_session", req[c])
        /\ trees' = {st \in trees : st[1] # req[c].session}
        /\ UNCHANGED <<sessions, handles, conn_sessions, next_session_id>>
    BY Zenon, <1>3 DEF DeleteTrees, counters
  <2>2. /\ pc'[c] = "delete_session" /\ req'[c] = req[c]
        /\ \A d \in Conns \ {c} : pc'[d] = pc[d] /\ req'[d] = req[d]
    BY Zenon, <2>1, GotoAt
  <2>3. \A i \in HandleIds : Attached(i) => handles[i].session # req[c].session
    BY Zenon, <1>v, <2>1 DEF Pending, Listed
  <2>4. AttachedHasTree'
    BY Zenon, <1>v, <2>1, <2>3 DEF AttachedHasTree, Attached
  <2>5. Pending(c)'
    BY Zenon, <2>1, <2>2, <2>3 DEF Pending, Attached
  <2>6. \A i \in HandleIds : Attached(i) /\ Reaches(c, i) => Reaches(c, i)'
    BY Zenon, <2>1, <2>2, <2>3 DEF Reaches, Listed
  <2>7. Served(c)'
    BY Zenon, <1>l, <1>s, <2>1, <2>2
  <2>8. \A s \in Owns(c)' : s \in Owns(c)
    BY Zenon, <1>l, <2>1, <2>2 DEF Owns
  <2>9. \A st \in trees : st \in trees' \/ st[1] \in Owns(c)
    BY Zenon, <1>l, <1>n, <2>1
  <2>10. \A i \in HandleIds : Attached(i)' => handles'[i] = handles[i]
    BY Zenon, <2>1
  <2>11. next_session_id' >= next_session_id
    BY Zenon, <1>t, <2>1, Orders
  <2> QED
    BY Zenon, <2>1, <2>2, <2>4, <2>5, <2>6, <2>7, <2>8, <2>9, <2>10, <2>11, OthersStep
<1>4. ASSUME DeleteSession(c) PROVE HandleInv'
  <2>1. /\ pc[c] = "delete_session" /\ Goto(c, "idle", NoRequest)
        /\ sessions' = sessions \ {req[c].session}
        /\ UNCHANGED <<trees, handles, conn_sessions, next_session_id>>
    BY Zenon, <1>4 DEF DeleteSession, counters, Answer
  <2>2. /\ pc'[c] = "idle" /\ req'[c] = NoRequest
        /\ \A d \in Conns \ {c} : pc'[d] = pc[d] /\ req'[d] = req[d]
    BY Zenon, <2>1, GotoAt
  <2>3. \A i \in HandleIds : Attached(i) => handles[i].session # req[c].session
    BY Zenon, <1>v, <2>1 DEF Pending
  <2>4. AttachedHasTree'
    BY Zenon, <1>v, <2>1, <2>3 DEF AttachedHasTree, Attached
  <2>5. Pending(c)' /\ Served(c)'
    BY Zenon, <1>l, <2>2 DEF Pending, Served
  <2>6. \A i \in HandleIds : Attached(i) /\ Reaches(c, i) => Reaches(c, i)'
    BY Zenon, <2>1, <2>2 DEF Reaches
  <2>8. \A s \in Owns(c)' : s \in Owns(c)
    BY Zenon, <1>l, <2>1, <2>2 DEF Owns
  <2>9. \A s \in sessions : s \in sessions' \/ s \in Owns(c)
    BY Zenon, <1>l, <1>n, <2>1
  <2>10. \A i \in HandleIds : Attached(i)' => handles'[i] = handles[i]
    BY Zenon, <2>1
  <2>11. next_session_id' >= next_session_id
    BY Zenon, <1>t, <2>1, Orders
  <2> QED
    BY Zenon, <2>1, <2>2, <2>4, <2>5, <2>6, <2>8, <2>9, <2>10, <2>11, OthersStep
<1> QED
  BY Zenon, <1>1, <1>2, <1>3, <1>4

\* Tree connects: a tree goes when its list of handles, read while the tree's own
\* connection can open no other, is worked off.
LEMMA TreeInv ==
  ASSUME TypeInv, TypeInv', HandleInv, NEW c \in Conns,
         \/ CreateTree(c) \/ TreeRead(c) \/ DeleteTree(c)
         \/ \E h \in req[c].todo : TreeHandle(c, h)
  PROVE  HandleInv'
<1>t. /\ next_session_id \in Nat /\ conn_sessions \in [Conns -> SUBSET SessionIds]
      /\ req[c] \in Locals /\ handles \in [HandleIds -> HandleState \cup {NoHandle}]
      /\ \A i \in HandleIds : handles[i] # NoHandle => handles[i].id = i
  BY Zenon DEF TypeInv, TypeOK, LocalsOK
<1>l. /\ {"tree_read", "tree_handles"} \subseteq TreeLabels
      /\ {"tree_read", "tree_handles"} \cap DeleteLabels = {}
      /\ {"tree_read", "tree_handles"} \cap (CreateLabels \cup UseLabels) = {}
      /\ {"idle", "tree_create"} \cap DeleteLabels = {} /\ "idle" \notin {"tree_create"} \cup TreeLabels
      /\ "idle" \notin CreateLabels \cup UseLabels /\ "idle" \notin TreeLabels
  BY Zenon DEF DeleteLabels, TreeLabels, CreateLabels, UseLabels, ReconnectLabels
<1>v. Served(c) /\ Pending(c) /\ AttachedHasTree
  BY Zenon DEF HandleInv
<1>n. pc[c] \in {"tree_read", "tree_handles"} =>
        /\ req[c].session \in conn_sessions[c] /\ req[c].session \in sessions
        /\ <<req[c].session, req[c].tree>> \in trees /\ req[c].session \in Owns(c)
  BY Zenon, <1>l, <1>v DEF Served, Owns
<1>s. ASSUME pc'[c] = "tree_handles", req'[c].session = req[c].session, req'[c].tree = req[c].tree,
             pc[c] \in {"tree_read", "tree_handles"}, UNCHANGED <<conn_sessions, sessions, trees>>
      PROVE  Served(c)'
  BY Zenon, <1>l, <1>n, <1>s DEF Served
<1>1. ASSUME TreeRead(c) PROVE HandleInv'
  <2> DEFINE hs == {h \in OfSession(req[c].session) : h.tree = req[c].tree}
             q == [req[c] EXCEPT !.todo = hs]
  <2>1. q.session = req[c].session /\ q.tree = req[c].tree /\ q.todo = hs
    BY Zenon, <1>t DEF Locals
  <2>2. pc[c] = "tree_read" /\ Goto(c, "tree_handles", q)
        /\ UNCHANGED <<sessions, trees, handles, conn_sessions, next_session_id>>
    BY Zenon, <1>1 DEF TreeRead, store
  <2> HIDE DEF q
  <2>3. pc'[c] = "tree_handles" /\ req'[c] = q
    BY Zenon, <2>2, GotoAt
  <2>4. ASSUME NEW i \in HandleIds, Attached(i), handles[i].session = req[c].session,
               handles[i].tree = req[c].tree
        PROVE  Listed(c, i)'
    <3>1. handles[i] \in q.todo /\ handles[i].id = i
      BY Zenon, <1>t, <2>1, <2>4 DEF OfSession, Stored, Attached
    <3> QED
      BY Zenon, <2>3, <3>1 DEF Listed
  <2>5. Pending(c)'
    BY Zenon, <2>1, <2>2, <2>3, <2>4 DEF Pending, Attached
  <2>6. \A i \in HandleIds : Reaches(c, i) => Reaches(c, i)'
    BY Zenon, <2>2, <2>3 DEF Reaches
  <2>7. Served(c)'
    BY Zenon, <1>s, <2>1, <2>2, <2>3
  <2> QED
    BY Zenon, <1>l, <2>1, <2>2, <2>5, <2>6, <2>7, HandlerStep
<1>2. ASSUME NEW h \in req[c].todo, TreeHandle(c, h) PROVE HandleInv'
  <2> DEFINE q == [req[c] EXCEPT !.todo = req[c].todo \ {h}]
  <2>1. q.session = req[c].session /\ q.tree = req[c].tree /\ q.todo = req[c].todo \ {h}
    BY Zenon, <1>t DEF Locals
  <2>2. pc[c] = "tree_handles" /\ Goto(c, "tree_handles", q)
        /\ UNCHANGED <<sessions, trees, conn_sessions, next_session_id>>
    BY Zenon, <1>2 DEF TreeHandle, counters
  <2> HIDE DEF q
  <2>3. pc'[c] = "tree_handles" /\ req'[c] = q
    BY ZenonT(60), <2>2, GotoAt
  <2>4. \A i \in HandleIds : Attached(i)' => handles'[i] = handles[i] /\ i # h.id
    BY Zenon, <1>2, <1>t DEF TreeHandle, DeleteHandle, Attached
  <2>5. ASSUME NEW i \in HandleIds, i # h.id, Listed(c, i) PROVE Listed(c, i)'
    BY Zenon, <2>1, <2>3, <2>5 DEF Listed
  <2>6. Pending(c)'
    BY ZenonT(60), <1>v, <2>1, <2>2, <2>3, <2>4, <2>5 DEF Pending, Attached
  <2>7. \A i \in HandleIds : handles'[i] = handles[i] /\ Reaches(c, i) => Reaches(c, i)'
    BY Zenon, <2>2, <2>3 DEF Reaches
  <2>8. Served(c)'
    BY Zenon, <1>s, <2>1, <2>2, <2>3
  <2> QED
    BY Zenon, <1>l, <2>1, <2>2, <2>4, <2>6, <2>7, <2>8, HandlerStep
<1>a. ASSUME Goto(c, "idle", NoRequest), pc[c] \in {"tree_create", "tree_handles"}
      PROVE  /\ pc'[c] = "idle" /\ req'[c] = NoRequest
             /\ \A d \in Conns \ {c} : pc'[d] = pc[d] /\ req'[d] = req[d]
             /\ Pending(c)' /\ Served(c)'
             /\ UNCHANGED <<handles, conn_sessions>> =>
                   \A i \in HandleIds : Reaches(c, i) => Reaches(c, i)'
             /\ UNCHANGED conn_sessions => \A s \in Owns(c)' : s \in Owns(c)
  <2>1. /\ pc'[c] = "idle" /\ req'[c] = NoRequest
        /\ \A d \in Conns \ {c} : pc'[d] = pc[d] /\ req'[d] = req[d]
    BY Zenon, <1>a, GotoAt
  <2>2. Pending(c)' /\ Served(c)'
    BY Zenon, <1>l, <2>1 DEF Pending, Served
  <2>3. UNCHANGED <<handles, conn_sessions>> => \A i \in HandleIds : Reaches(c, i) => Reaches(c, i)'
    BY Zenon, <1>a, <2>1 DEF Reaches
  <2>4. UNCHANGED conn_sessions => \A s \in Owns(c)' : s \in Owns(c)
    BY Zenon, <1>l, <2>1 DEF Owns
  <2> QED
    BY Zenon, <2>1, <2>2, <2>3, <2>4
<1>3. ASSUME CreateTree(c) PROVE HandleInv'
  <2>1. /\ pc[c] = "tree_create" /\ Goto(c, "idle", NoRequest)
        /\ trees' = trees \cup {<<req[c].session, req[c].tree>>}
        /\ UNCHANGED <<sessions, handles, conn_sessions, next_session_id>>
    BY Zenon, <1>3 DEF CreateTree, counters, Answer
  <2>2. AttachedHasTree'
    BY Zenon, <1>v, <2>1 DEF AttachedHasTree, Attached
  <2>3. \A i \in HandleIds : Attached(i)' => handles'[i] = handles[i]
    BY Zenon, <2>1
  <2>4. next_session_id' >= next_session_id
    BY Zenon, <1>t, <2>1, Orders
  <2> QED
    BY Zenon, <1>a, <2>1, <2>2, <2>3, <2>4, OthersStep
<1>4. ASSUME DeleteTree(c) PROVE HandleInv'
  <2>1. /\ pc[c] = "tree_handles" /\ req[c].todo = {} /\ Goto(c, "idle", NoRequest)
        /\ trees' = trees \ {<<req[c].session, req[c].tree>>}
        /\ UNCHANGED <<sessions, handles, conn_sessions, next_session_id>>
    BY Zenon, <1>4 DEF DeleteTree, counters, Answer
  <2>2. \A i \in HandleIds : Attached(i) =>
          handles[i].session # req[c].session \/ handles[i].tree # req[c].tree
    BY Zenon, <1>v, <2>1 DEF Pending, Listed
  <2>3. AttachedHasTree'
    BY Zenon, <1>v, <2>1, <2>2 DEF AttachedHasTree, Attached
  <2>4. \A st \in trees : st \in trees' \/ st[1] \in Owns(c)
    BY SMTT(30), <1>n, <2>1
  <2>5. \A i \in HandleIds : Attached(i)' => handles'[i] = handles[i]
    BY Zenon, <2>1
  <2>6. next_session_id' >= next_session_id
    BY Zenon, <1>t, <2>1, Orders
  <2> QED
    BY Zenon, <1>a, <2>1, <2>3, <2>4, <2>5, <2>6, OthersStep
<1> QED
  BY Zenon, <1>1, <1>2, <1>3, <1>4

\* The end of a connection: a session leaves the list of those to clean up only when
\* its durable handles are on the list of those to disconnect.
LEMMA LossInv ==
  ASSUME TypeInv, TypeInv', HandleInv, NEW c \in Conns,
         \/ Closed(c) \/ \E s \in SessionIds : CleanSession(c, s)
         \/ \E h \in req[c].todo : Detach(c, h)
  PROVE  HandleInv'
<1>t. /\ req[c] \in Locals /\ handles \in [HandleIds -> HandleState \cup {NoHandle}]
      /\ \A i \in HandleIds : handles[i] # NoHandle => handles[i].id = i
  BY Zenon DEF TypeInv, TypeOK, LocalsOK
<1>l. /\ {"lost", "closed"} \cap DeleteLabels = {} /\ {"lost", "closed"} \cap TreeLabels = {}
      /\ {"lost", "closed"} \cap ({"tree_create"} \cup TreeLabels) = {}
      /\ {"lost", "closed"} \cap (CreateLabels \cup UseLabels) = {}
  BY Zenon DEF DeleteLabels, TreeLabels, CreateLabels, UseLabels, ReconnectLabels
<1>v. Served(c)
  BY Zenon DEF HandleInv
<1>s. ASSUME pc[c] = "lost", pc'[c] \in {"lost", "closed"}, req'[c].left \subseteq req[c].left,
             UNCHANGED conn_sessions
      PROVE  Served(c)' /\ Pending(c)'
  BY Zenon, <1>l, <1>s, <1>v DEF Served, Pending
<1>1. ASSUME Closed(c) PROVE HandleInv'
  <2>1. /\ pc[c] = "lost" /\ req[c].todo = {} /\ req[c].left = {} /\ Goto(c, "closed", NoRequest)
        /\ UNCHANGED <<sessions, trees, handles, conn_sessions, next_session_id>>
        /\ NoRequest.left = {}
    BY Zenon, <1>1 DEF Closed, store, NoRequest, Cleanup
  <2>2. pc'[c] = "closed" /\ req'[c] = NoRequest
    BY Zenon, <2>1, GotoAt
  <2>3. \A i \in HandleIds : ~Reaches(c, i)
    BY Zenon, <2>1 DEF Reaches, Listed
  <2>4. Served(c)' /\ Pending(c)'
    BY Zenon, <1>s, <2>1, <2>2
  <2> QED
    BY Zenon, <1>l, <2>1, <2>3, <2>4, HandlerStep
<1>2. ASSUME NEW s \in SessionIds, CleanSession(c, s) PROVE HandleInv'
  <2> DEFINE hs == {h \in OfSession(s) : Preserved(h)}
             q == Cleanup(hs, req[c].left \ {s})
  <2>1. q.todo = hs /\ q.left = req[c].left \ {s}
    BY Zenon DEF Cleanup
  <2>2. /\ pc[c] = "lost" /\ req[c].todo = {} /\ Goto(c, "lost", q)
        /\ UNCHANGED <<sessions, trees, handles, conn_sessions, next_session_id>>
    BY Zenon, <1>2 DEF CleanSession, store
  <2> HIDE DEF q
  <2>3. pc'[c] = "lost" /\ req'[c] = q
    BY ZenonT(60), <2>2, GotoAt
  <2>4. ASSUME NEW i \in HandleIds, Attached(i), Preserved(handles[i]), handles[i].session = s
        PROVE  Listed(c, i)'
    <3>1. handles[i] \in q.todo /\ handles[i].id = i
      BY Zenon, <1>t, <2>1, <2>4 DEF OfSession, Stored, Attached
    <3> QED
      BY Zenon, <2>3, <3>1 DEF Listed
  <2>5. \A i \in HandleIds : Attached(i) /\ Preserved(handles[i]) /\ Reaches(c, i) => Reaches(c, i)'
    BY Zenon, <2>1, <2>2, <2>3, <2>4 DEF Reaches, Listed
  <2>6. Served(c)' /\ Pending(c)'
    BY Zenon, <1>s, <2>1, <2>2, <2>3
  <2> QED
    BY Zenon, <1>l, <2>2, <2>5, <2>6, HandlerStep
<1>3. ASSUME NEW h \in req[c].todo, Detach(c, h) PROVE HandleInv'
  <2> DEFINE q == [req[c] EXCEPT !.todo = req[c].todo \ {h}]
  <2>1. q.left = req[c].left /\ q.todo = req[c].todo \ {h}
    BY Zenon, <1>t DEF Locals
  <2>2. pc[c] = "lost" /\ Goto(c, "lost", q)
        /\ UNCHANGED <<sessions, trees, conn_sessions, next_session_id>>
    BY Zenon, <1>3 DEF Detach, counters
  <2> HIDE DEF q
  <2>3. pc'[c] = "lost" /\ req'[c] = q
    BY Zenon, <2>2, GotoAt
  <2>4. \A i \in HandleIds : Attached(i)' => handles'[i] = handles[i] /\ i # h.id
    BY Zenon, <1>3, <1>t DEF Detach, UpdateHandle, Attached, Prepared, Handle
  <2>5. ASSUME NEW i \in HandleIds, i # h.id, Listed(c, i) PROVE Listed(c, i)'
    BY Zenon, <2>1, <2>3, <2>5 DEF Listed
  <2>6. \A i \in HandleIds : Attached(i) /\ handles'[i] = handles[i] /\ Reaches(c, i) => Reaches(c, i)'
    BY Zenon, <2>1, <2>2, <2>3, <2>4, <2>5 DEF Reaches, Attached
  <2>7. Served(c)' /\ Pending(c)'
    BY Zenon, <1>s, <2>1, <2>2, <2>3
  <2> QED
    BY Zenon, <1>l, <2>2, <2>4, <2>6, <2>7, HandlerStep
<1> QED
  BY Zenon, <1>1, <1>2, <1>3

\* CREATE, the reconnect, the requests that use a handle, and CLOSE: what they write
\* belongs to the session and tree they were let through for, and those stay while
\* the handler runs.
LEMMA RequestInv ==
  ASSUME TypeInv, TypeInv', HandleInv, NEW c \in Conns,
         \/ CreateRead(c) \/ CreateOpen(c) \/ CreateInsert(c) \/ BackendFails(c)
         \/ Expire(c) \/ GetTree(c, "reconnect_tree", "reconnect") \/ ReconnectUpdate(c)
         \/ GetTree(c, "use_tree", "use") \/ WriteBack(c) \/ CloseDelete(c)
         \/ \E h \in req[c].todo : \E caching \in HandleCaching(h) : CreateCheck(c, h, caching)
  PROVE  HandleInv'
<1>t. req[c] \in Locals /\ handles \in [HandleIds -> HandleState \cup {NoHandle}]
  BY Zenon DEF TypeInv, TypeOK
<1>v. Served(c)
  BY Zenon DEF HandleInv
<1>e. \A hs : LET q == [req[c] EXCEPT !.todo = hs]
              IN  q.session = req[c].session /\ q.tree = req[c].tree /\ q.handle = req[c].handle
  BY Zenon, <1>t DEF Locals
<1>d. /\ \A i : DeleteHandle(i) => \A j \in HandleIds : Attached(j)' => handles'[j] = handles[j]
      /\ UNCHANGED handles => \A j \in HandleIds : Attached(j)' => handles'[j] = handles[j]
  BY Zenon, <1>t DEF DeleteHandle, Attached
<1>w. ASSUME NEW h, UpdateHandle(h), h.session = req[c].session, h.tree = req[c].tree,
             pc[c] \in {"create_insert", "use", "reconnect"}, Answer(c),
             UNCHANGED <<sessions, trees, conn_sessions, next_session_id>>
      PROVE  HandleInv'
  <2>1. /\ req[c].session \in conn_sessions[c] /\ req[c].session \in sessions
        /\ <<req[c].session, req[c].tree>> \in trees
    BY Zenon, <1>v, <1>w DEF Served, TreeLabels, CreateLabels, UseLabels, ReconnectLabels
  <2>2. \A i \in HandleIds : handles'[i] = handles[i] \/ handles'[i] = h
    BY Zenon, <1>t, <1>w DEF UpdateHandle
  <2> QED
    BY Zenon, <1>w, <2>1, <2>2, AnswerStep
<1>1. ASSUME CreateRead(c) PROVE HandleInv'
  <2> DEFINE q == [req[c] EXCEPT !.todo = {h \in Stored : h.open.path = req[c].handle.open.path}]
  <2>1. /\ pc[c] \in CreateLabels /\ "create_check" \in CreateLabels /\ Goto(c, "create_check", q)
        /\ UNCHANGED <<sessions, trees, handles, conn_sessions, next_session_id>>
    BY Zenon, <1>1 DEF CreateRead, CreateLabels, store
  <2>2. q.session = req[c].session /\ q.tree = req[c].tree /\ q.handle = req[c].handle
    BY Zenon, <1>e
  <2> HIDE DEF q
  <2> QED
    BY Zenon, <1>d, <2>1, <2>2, GoOnStep
<1>2. ASSUME CreateOpen(c) PROVE HandleInv'
  <2> DEFINE q == Request(req[c].session, req[c].tree, Opened(req[c].handle))
  <2>1. /\ pc[c] \in CreateLabels /\ "create_insert" \in CreateLabels /\ Goto(c, "create_insert", q)
        /\ UNCHANGED <<sessions, trees, handles, conn_sessions, next_session_id>>
    BY Zenon, <1>2 DEF CreateOpen, CreateLabels
  <2>2. q.session = req[c].session /\ q.tree = req[c].tree
        /\ q.handle.session = req[c].handle.session /\ q.handle.tree = req[c].handle.tree
    BY Zenon DEF Request, Opened, Handle
  <2> HIDE DEF q
  <2> QED
    BY Zenon, <1>d, <2>1, <2>2, GoOnStep
<1>3. ASSUME CreateInsert(c) \/ WriteBack(c) PROVE HandleInv'
  <2>1. /\ pc[c] \in {"create_insert", "use"} /\ UpdateHandle(req[c].handle) /\ Answer(c)
        /\ UNCHANGED <<sessions, trees, conn_sessions, next_session_id>>
    BY Zenon, <1>3 DEF CreateInsert, WriteBack, counters
  <2>2. req[c].handle.session = req[c].session /\ req[c].handle.tree = req[c].tree
    BY Zenon, <1>v, <2>1 DEF Served, CreateLabels, UseLabels
  <2> QED
    BY Zenon, <1>w, <2>1, <2>2
<1>4. ASSUME ReconnectUpdate(c) PROVE HandleInv'
  <2> DEFINE h == Handle(req[c].handle.id, req[c].session, req[c].tree, req[c].handle.open,
                         req[c].handle.deadline)
  <2>1. /\ pc[c] = "reconnect" /\ UpdateHandle(h) /\ Answer(c)
        /\ UNCHANGED <<sessions, trees, conn_sessions, next_session_id>>
    BY Zenon, <1>4 DEF ReconnectUpdate, counters
  <2>2. h.session = req[c].session /\ h.tree = req[c].tree
    BY Zenon DEF Handle
  <2> HIDE DEF h
  <2> QED
    BY Zenon, <1>w, <2>1, <2>2
<1>5. ASSUME BackendFails(c) PROVE HandleInv'
  <2>1. /\ Answer(c) /\ UNCHANGED <<sessions, trees, handles, conn_sessions, next_session_id>>
        /\ pc[c] \notin {"lost", "closed", "delete_read", "delete_handles"}
    BY Zenon, <1>5 DEF BackendFails, store
  <2> QED
    BY Zenon, <1>d, <2>1, AnswerStep
<1>6. ASSUME Expire(c) \/ CloseDelete(c) PROVE HandleInv'
  <2>1. /\ Answer(c) /\ UNCHANGED <<sessions, trees, conn_sessions, next_session_id>>
        /\ pc[c] \notin {"lost", "closed", "delete_read", "delete_handles"}
        /\ DeleteHandle(req[c].handle.id)
    BY Zenon, <1>6 DEF Expire, CloseDelete, counters
  <2> QED
    BY Zenon, <1>d, <2>1, AnswerStep
<1>7. ASSUME NEW from, NEW to, GetTree(c, from, to),
             \/ from = "reconnect_tree" /\ to = "reconnect"
             \/ from = "use_tree" /\ to = "use"
      PROVE  HandleInv'
  <2>1. /\ pc[c] = from
        /\ Answer(c) \/ Goto(c, to, req[c])
        /\ UNCHANGED <<sessions, trees, handles, conn_sessions, next_session_id>>
    BY Zenon, <1>7 DEF GetTree, store
  <2>2. CASE Answer(c)
    BY Zenon, <1>7, <1>d, <2>1, <2>2, AnswerStep DEF GetTree
  <2>3. CASE Goto(c, to, req[c])
    <3>1. \/ pc[c] \in UseLabels /\ to \in UseLabels
          \/ pc[c] \in ReconnectLabels /\ to \in ReconnectLabels
      BY Zenon, <1>7 DEF GetTree, UseLabels, ReconnectLabels
    <3> QED
      BY Zenon, <1>d, <2>1, <2>3, <3>1, GoOnStep
  <2> QED
    BY Zenon, <2>1, <2>2, <2>3
<1>8. ASSUME NEW h \in req[c].todo, NEW caching, CreateCheck(c, h, caching) PROVE HandleInv'
  <2> DEFINE q == [req[c] EXCEPT !.todo = req[c].todo \ {h}]
  <2>1. /\ pc[c] = "create_check" /\ UNCHANGED <<sessions, trees, conn_sessions, next_session_id>>
        /\ DeleteHandle(h.id) \/ UNCHANGED handles
        /\ Answer(c) \/ Goto(c, "create_check", q)
    BY Zenon, <1>8 DEF CreateCheck, counters
  <2>2. q.session = req[c].session /\ q.tree = req[c].tree /\ q.handle = req[c].handle
    BY Zenon, <1>e
  <2> HIDE DEF q
  <2>3. \A j \in HandleIds : Attached(j)' => handles'[j] = handles[j]
    BY Zenon, <1>d, <2>1
  <2>4. CASE Answer(c)
    BY Zenon, <2>1, <2>3, <2>4, AnswerStep
  <2>5. CASE Goto(c, "create_check", q)
    <3>1. "create_check" \in CreateLabels
      BY Zenon DEF CreateLabels
    <3> QED
      BY Zenon, <2>1, <2>2, <2>3, <2>5, <3>1, GoOnStep
  <2> QED
    BY Zenon, <2>1, <2>4, <2>5
<1> QED
  BY Zenon, <1>1, <1>2, <1>3, <1>4, <1>5, <1>6, <1>7, <1>8

\* A step that leaves all that HandleInv speaks of.
LEMMA QuietInv ==
  ASSUME HandleInv, UNCHANGED <<sessions, trees, handles, conn_sessions, pc, req, next_session_id>>
  PROVE  HandleInv'
<1>1. AttachedHasTree' /\ NoStrandedHandle'
  BY ZenonT(60) DEF HandleInv, AttachedHasTree, NoStrandedHandle, Attached, Preserved, Reaches, Listed
<1>2. OneOwner'
  BY Zenon DEF HandleInv, OneOwner, Owns
<1>3. \A c \in Conns : Served(c)' /\ Pending(c)'
  BY ZenonT(60) DEF HandleInv, Served, Pending, Attached, Listed
<1> QED
  BY Zenon, <1>1, <1>2, <1>3 DEF HandleInv

\* HandleInv is inductive where no client takes a session over or binds a second
\* connection to one.
LEMMA HandleInvInvariant ==
  ASSUME ~Takeover, ~Binding
  PROVE  Spec => [](TypeInv /\ HandleInv)
<1>1. Init => TypeInv /\ HandleInv
  <2> SUFFICES ASSUME Init PROVE TypeInv /\ HandleInv
    BY Zenon
  <2>1. /\ \A i \in HandleIds : handles[i] = NoHandle
        /\ \A c \in Conns : pc[c] = "closed" /\ conn_sessions[c] = {}
    BY Zenon DEF Init
  <2>2. AttachedHasTree /\ NoStrandedHandle /\ \A c \in Conns : Pending(c)
    BY Zenon, <2>1 DEF AttachedHasTree, NoStrandedHandle, Attached, Pending
  <2>3. \A c \in Conns : Owns(c) = {} /\ Served(c)
    BY Zenon, <2>1 DEF Owns, Served, TreeLabels, DeleteLabels, CreateLabels, UseLabels, ReconnectLabels
  <2>4. OneOwner
    BY Zenon, <2>3 DEF OneOwner
  <2> QED
    BY Zenon, <2>2, <2>3, <2>4, TypeInit DEF HandleInv
<1>2. TypeInv /\ HandleInv /\ [Next]_vars => TypeInv' /\ HandleInv'
  <2> SUFFICES ASSUME TypeInv, HandleInv, [Next]_vars PROVE TypeInv' /\ HandleInv'
    BY Zenon
  <2>1. TypeInv'
    BY Zenon, TypeStep
  <2>2. ASSUME Tick \/ UNCHANGED vars PROVE HandleInv'
    <3>1. UNCHANGED <<sessions, trees, handles, conn_sessions, pc, req, next_session_id>>
      BY Zenon, <2>2 DEF Tick, vars, store
    <3> QED
      BY Zenon, <3>1, QuietInv
  <2>3. ASSUME NEW c \in Conns, Client(c) PROVE HandleInv'
    BY Zenon, <2>1, <2>3, ClientInv
  <2>4. ASSUME NEW c \in Conns, Continue(c) PROVE HandleInv'
    BY Zenon, <2>1, <2>4, DeleteInv, TreeInv, LossInv, RequestInv DEF Continue
  <2> QED
    BY Zenon, <2>1, <2>2, <2>3, <2>4 DEF Next
<1> QED
  BY <1>1, <1>2, PTL DEF Spec

\* LOGOFF, TREE_DISCONNECT and the end of a connection leave no handle behind on a
\* session or a tree that the store no longer knows, whatever other connections do:
\* one channel per session, no PreviousSessionId.
THEOREM NoHandleWithoutTree ==
  ASSUME ~Takeover, ~Binding
  PROVE  Spec => []AttachedHasTree
<1>1. TypeInv /\ HandleInv => AttachedHasTree
  BY Zenon DEF HandleInv
<1> QED
  BY <1>1, HandleInvInvariant, PTL

\* A durable handle that is marked as open on a session can be used by some connection
\* or is about to be marked disconnected, so that its client can always get it back:
\* one channel per session, no PreviousSessionId.
THEOREM NoDurableHandleStranded ==
  ASSUME ~Takeover, ~Binding
  PROVE  Spec => []NoStrandedHandle
<1>1. TypeInv /\ HandleInv => NoStrandedHandle
  BY Zenon DEF HandleInv
<1> QED
  BY <1>1, HandleInvInvariant, PTL

------------------------------------------------------------------------------
(* One connection at a time: sharing, and who is served *)

\* Another handler never runs in between.
Alone == \A c, d \in Conns : c = d

\* An entry of the handle table is found under its id.
LEMMA InStored ==
  ASSUME NEW i \in HandleIds, handles[i] # NoHandle
  PROVE  handles[i] \in Stored
BY Zenon DEF Stored

\* Where the handle table is as it was, and clients count on no more handles than
\* before, the tables stay as they should be.
LEMMA TablesKept ==
  ASSUME TypeInv, Tables, UNCHANGED <<handles, closed>>,
         next_handle_id' \in Nat, next_handle_id <= next_handle_id',
         \A i \in HandleIds : holders'[i] \subseteq holders[i]
  PROVE  Tables'
<1>1. SharesCompatible' /\ ClosedStaysClosed'
  BY Zenon DEF Tables, SharesCompatible, ClosedStaysClosed, Stored
<1>2. HolderServed'
  BY Zenon DEF Tables, HolderServed, Validates
<1>3. \A i \in closed : i \in Nat /\ i < next_handle_id
  BY Zenon, Ids DEF Tables, TypeInv, TypeOK
<1>4. \A i \in closed' : i < next_handle_id'
  BY Zenon, <1>3, Orders DEF TypeInv, TypeOK
<1> QED
  BY Zenon, <1>1, <1>2, <1>4 DEF Tables

\* delete_handle of a handle that no client counts on any more.
LEMMA TablesDelete ==
  ASSUME TypeInv, Tables, NEW i \in HandleIds, DeleteHandle(i), i < next_handle_id,
         UNCHANGED next_handle_id, closed' \subseteq closed \cup {i},
         \A j \in HandleIds : holders'[j] \subseteq holders[j], holders'[i] = {}
  PROVE  Tables'
<1>1. handles'[i] = NoHandle /\ \A j \in HandleIds : j # i => handles'[j] = handles[j]
  BY Zenon, DeleteType
<1>2. Stored' \subseteq Stored
  BY Zenon, <1>1 DEF Stored
<1>3. SharesCompatible'
  BY Zenon, <1>2 DEF Tables, SharesCompatible
<1>4. closed \subseteq HandleIds
  BY Zenon DEF TypeInv, TypeOK
<1>5. ClosedStaysClosed'
  BY Zenon, <1>1, <1>4 DEF Tables, ClosedStaysClosed
<1>6. HolderServed'
  <2> SUFFICES ASSUME NEW j \in HandleIds, NEW st \in holders'[j]
               PROVE  Validates(handles'[j], st[1], st[2])
    BY Zenon DEF HolderServed, Validates
  <2>1. j # i /\ st \in holders[j]
    BY Zenon
  <2> QED
    BY Zenon, <1>1, <2>1 DEF Tables, HolderServed
<1>7. \A j \in closed' : j < next_handle_id'
  BY Zenon DEF Tables
<1> QED
  BY Zenon, <1>3, <1>5, <1>6, <1>7 DEF Tables

\* update_handle or create_handle of a handle that conflicts with no other, is not
\* closed, and belongs to whoever counts on it.
LEMMA TablesUpdate ==
  ASSUME TypeInv, Tables, NEW g \in HandleState, g.id \in HandleIds, UpdateHandle(g),
         UNCHANGED <<next_handle_id, closed>>, g.id \notin closed,
         \A h \in Stored : h.id # g.id =>
           ~ShareConflict(h.open, g.open) /\ ~ShareConflict(g.open, h.open),
         \A j \in HandleIds : j # g.id => holders'[j] = holders[j],
         \A st \in holders'[g.id] : st[1] = g.session /\ st[2] = g.tree
  PROVE  Tables'
<1>0. g # NoHandle
  BY Zenon, ConstantsAssumption
<1>1. handles'[g.id] = g /\ \A j \in HandleIds : j # g.id => handles'[j] = handles[j]
  BY Zenon, UpdateType
<1>2. \A h \in Stored' : h = g \/ (h \in Stored /\ h.id # g.id)
  <2> TAKE h \in Stored'
  <2>1. PICK j \in HandleIds : h = handles'[j] /\ h # NoHandle
    BY Zenon DEF Stored
  <2>2. CASE j = g.id
    BY Zenon, <1>1, <2>1, <2>2
  <2>3. CASE j # g.id
    BY Zenon, <1>1, <2>1, <2>3, InStored DEF TypeInv, LocalsOK
  <2> QED
    BY Zenon, <2>2, <2>3
<1>3. SharesCompatible'
  BY Zenon, <1>2 DEF Tables, SharesCompatible
<1>4. ClosedStaysClosed'
  BY Zenon, <1>1 DEF Tables, ClosedStaysClosed, TypeInv, TypeOK
<1>5. HolderServed'
  <2> SUFFICES ASSUME NEW j \in HandleIds, NEW st \in holders'[j]
               PROVE  Validates(handles'[j], st[1], st[2])
    BY Zenon DEF HolderServed, Validates
  <2>1. CASE j = g.id
    BY Zenon, <1>0, <1>1, <2>1 DEF Validates
  <2>2. CASE j # g.id
    BY Zenon, <1>1, <2>2 DEF Tables, HolderServed
  <2> QED
    BY Zenon, <2>1, <2>2
<1>6. \A j \in closed' : j < next_handle_id'
  BY Zenon DEF Tables
<1> QED
  BY Zenon, <1>3, <1>4, <1>5, <1>6 DEF Tables

\* The only handler goes on.
LEMMA SerialStep ==
  ASSUME TypeInv, Alone, NEW c \in Conns, NEW l, NEW r, Goto(c, l, r), Tables', Current(l, r)'
  PROVE  SerialInv'
<1>1. pc'[c] = l /\ req'[c] = r
  BY Zenon DEF Goto, TypeInv, TypeOK
<1>2. ASSUME NEW d \in Conns PROVE Current(pc[d], req[d])'
  <2>1. d = c
    BY Zenon DEF Alone
  <2> QED
    BY ZenonT(60), <1>1, <2>1 DEF Current
<1> QED
  BY Zenon, <1>2 DEF SerialInv

\* The only handler returns.
LEMMA SerialAnswer ==
  ASSUME TypeInv, Alone, NEW c \in Conns, Answer(c) \/ Goto(c, "closed", NoRequest), Tables'
  PROVE  SerialInv'
<1>1. PICK l \in {"idle", "closed"} : Goto(c, l, NoRequest)
  BY Zenon DEF Answer
<1>2. NoRequest.todo = {}
  BY Zenon DEF NoRequest, Cleanup
<1>3. Current(l, NoRequest)'
  BY Zenon, <1>2 DEF Current, UseLabels, ReconnectLabels, CreateLabels
<1> QED
  BY Zenon, <1>1, <1>3, SerialStep

\* The only handler goes on, and neither the handle table nor the clients' handles
\* change.
LEMMA SerialQuiet ==
  ASSUME TypeInv, SerialInv, Alone, NEW c \in Conns, NEW l, NEW r, Goto(c, l, r),
         UNCHANGED <<handles, next_handle_id, history>>, Current(l, r)
  PROVE  SerialInv'
<1>1. next_handle_id \in Nat /\ next_handle_id <= next_handle_id'
  BY Zenon, Orders DEF TypeInv, TypeOK
<1>2. UNCHANGED <<holders, closed>>
  BY Zenon DEF history
<1>3. Tables'
  BY Zenon, <1>1, <1>2, TablesKept DEF SerialInv
<1>4. Current(l, r)'
  BY ZenonT(60), <1>2 DEF Current, Stored
<1> QED
  BY Zenon, <1>3, <1>4, SerialStep

\* The same for a handler that returns.
LEMMA SerialReturns ==
  ASSUME TypeInv, SerialInv, Alone, NEW c \in Conns,
         Answer(c) \/ Goto(c, "closed", NoRequest),
         UNCHANGED <<handles, next_handle_id, history>>
  PROVE  SerialInv'
<1>1. next_handle_id \in Nat /\ next_handle_id <= next_handle_id'
  BY Zenon, Orders DEF TypeInv, TypeOK
<1>2. Tables'
  BY Zenon, <1>1, TablesKept DEF SerialInv, history
<1> QED
  BY Zenon, <1>2, SerialAnswer

\* A step of the sessions only.
LEMMA SerialStutter ==
  ASSUME TypeInv, SerialInv, UNCHANGED <<handles, next_handle_id, pc, req, holders, closed>>
  PROVE  SerialInv'
<1>1. next_handle_id \in Nat /\ next_handle_id <= next_handle_id'
  BY Zenon, Orders DEF TypeInv, TypeOK
<1>2. Tables'
  BY Zenon, <1>1, TablesKept DEF SerialInv
<1>3. \A c \in Conns : Current(pc[c], req[c])'
  <2> TAKE c \in Conns
  <2>1. PICK l, r : l = pc[c] /\ r = req[c]
    BY Zenon
  <2>2. Current(l, r)
    BY Zenon, <2>1 DEF SerialInv
  <2>3. Current(l, r)'
    BY ZenonT(60), <2>2 DEF Current, Stored
  <2> QED
    BY Zenon, <2>1, <2>3
<1> QED
  BY Zenon, <1>2, <1>3 DEF SerialInv

\* What requests and losses start.
LEMMA SerialClient ==
  ASSUME TypeInv, SerialInv, Alone, NEW c \in Conns, Client(c)
  PROVE  SerialInv'
<1>n. next_handle_id \in Nat /\ next_handle_id <= next_handle_id
  BY Zenon, Orders DEF TypeInv, TypeOK
<1>t. Tables
  BY Zenon DEF SerialInv
<1>1. ASSUME Accept(c) PROVE SerialInv'
  BY Zenon, <1>1, SerialReturns DEF Accept, store
<1>2. ASSUME Lose(c) PROVE SerialInv'
  <2>1. PICK r : r = Cleanup({}, conn_sessions[c])
    BY Zenon
  <2>2. r.todo = {} /\ r.left = conn_sessions[c]
    BY Zenon, <2>1 DEF Cleanup
  <2>3. \A i \in HandleIds : holders'[i] = {st \in holders[i] : st[1] \notin conn_sessions[c]}
    BY Zenon, <1>2 DEF Lose
  <2>4. \A i \in HandleIds : holders'[i] \subseteq holders[i] /\ \A st \in holders'[i] : st[1] \notin r.left
    BY Zenon, <2>2, <2>3
  <2>5. Tables'
    BY Zenon, <1>2, <1>n, <1>t, <2>4, TablesKept DEF Lose, store
  <2>6. Current("lost", r)'
    BY Zenon, <2>2, <2>4 DEF Current, UseLabels, ReconnectLabels, CreateLabels
  <2>7. Goto(c, "lost", r)
    BY Zenon, <1>2, <2>1 DEF Lose
  <2> QED
    BY Zenon, <2>5, <2>6, <2>7, SerialStep
<1>3. ASSUME NEW s, Goto(c, "delete_read", Request(s, 0, NoHandle)),
             holders' = [i \in HandleIds |-> {st \in holders[i] : st[1] # s}],
             UNCHANGED <<handles, next_handle_id, closed>>
      PROVE  SerialInv'
  <2>1. PICK r : r = Request(s, 0, NoHandle)
    BY Zenon
  <2>2. r.todo = {} /\ r.session = s
    BY Zenon, <2>1 DEF Request
  <2>3. \A i \in HandleIds : holders'[i] \subseteq holders[i] /\ \A st \in holders'[i] : st[1] # s
    BY Zenon, <1>3
  <2>4. Tables'
    BY Zenon, <1>3, <1>n, <1>t, <2>3, TablesKept
  <2>5. Current("delete_read", r)'
    BY Zenon, <2>2, <2>3 DEF Current, UseLabels, ReconnectLabels, CreateLabels
  <2> QED
    BY Zenon, <1>3, <2>1, <2>4, <2>5, SerialStep
<1>4. ASSUME NEW p, SessionSetup(c, p) PROVE SerialInv'
  <2>1. CASE p = 0
    BY Zenon, <1>4, <2>1, SerialReturns DEF SessionSetup, history
  <2>2. CASE p # 0
    BY Zenon, <1>4, <2>2, <1>3 DEF SessionSetup
  <2> QED
    BY Zenon, <2>1, <2>2
<1>5. ASSUME NEW s, SessionBinding(c, s) \/ SessionGone(c, s) PROVE SerialInv'
  <2>1. UNCHANGED <<handles, next_handle_id, pc, req, holders, closed>>
    BY Zenon, <1>5 DEF SessionBinding, SessionGone, store, history
  <2> QED
    BY Zenon, <2>1, SerialStutter
<1>6. ASSUME NEW s, Logoff(c, s) PROVE SerialInv'
  BY Zenon, <1>6, <1>3 DEF Logoff, store
<1>7. ASSUME NEW s, TreeConnect(c, s) PROVE SerialInv'
  <2>1. PICK r : r = Request(s, next_tree_id[s], NoHandle)
    BY Zenon
  <2>2. r.todo = {}
    BY Zenon, <2>1 DEF Request
  <2>3. Current("tree_create", r)
    BY Zenon, <2>2 DEF Current, UseLabels, ReconnectLabels, CreateLabels
  <2> QED
    BY Zenon, <1>7, <2>1, <2>3, SerialQuiet DEF TreeConnect
<1>8. ASSUME NEW s, NEW t, TreeDisconnect(c, s, t) PROVE SerialInv'
  <2>1. PICK r : r = Request(s, t, NoHandle)
    BY Zenon
  <2>2. r.todo = {} /\ r.session = s /\ r.tree = t
    BY Zenon, <2>1 DEF Request
  <2>3. \A i \in HandleIds : holders'[i] \subseteq holders[i] /\ <<s, t>> \notin holders'[i]
    BY Zenon, <1>8 DEF TreeDisconnect
  <2>4. Tables'
    BY Zenon, <1>8, <1>n, <1>t, <2>3, TablesKept DEF TreeDisconnect, store
  <2>5. Current("tree_read", r)'
    BY Zenon, <2>2, <2>3 DEF Current, UseLabels, ReconnectLabels, CreateLabels
  <2>6. Goto(c, "tree_read", r)
    BY Zenon, <1>8, <2>1 DEF TreeDisconnect
  <2> QED
    BY Zenon, <2>4, <2>5, <2>6, SerialStep
<1>9. ASSUME NEW s, NEW t, NEW o, Create(c, s, t, o) PROVE SerialInv'
  <2>1. PICK r : r = Request(s, t, Handle(0, s, t, o, 0))
    BY Zenon
  <2>2. r.todo = {} /\ r.session = s /\ r.tree = t /\ r.handle.session = s /\ r.handle.tree = t
    BY Zenon, <2>1 DEF Request, Handle
  <2>3. Current("create", r)
    BY Zenon, <2>2 DEF Current, UseLabels, ReconnectLabels, CreateLabels
  <2> QED
    BY Zenon, <1>9, <2>1, <2>3, SerialQuiet DEF Create, store
<1>10. ASSUME NEW s, NEW t, NEW i \in HandleIds, DurableReconnect(c, s, t, i) PROVE SerialInv'
  <2>1. PICK r : r = Request(s, t, handles[i])
    BY Zenon
  <2>2. r.todo = {} /\ r.handle = handles[i] /\ r.handle.session = 0 /\ r.handle.id = i
    <3>1. r.todo = {} /\ r.handle = handles[i]
      BY Zenon, <2>1 DEF Request
    <3> QED
      BY Zenon, <3>1, <1>10 DEF DurableReconnect, TypeInv, LocalsOK
  <2>3. PICK l \in {"reconnect_tree", "expire"} : Goto(c, l, r)
    BY Zenon, <1>10, <2>1 DEF DurableReconnect
  <2>4. Current(l, r)
    BY Zenon, <2>2 DEF Current, UseLabels, ReconnectLabels, CreateLabels
  <2> QED
    BY Zenon, <1>10, <2>3, <2>4, SerialQuiet DEF DurableReconnect, store
<1>11. ASSUME NEW s, NEW t, NEW i \in HandleIds, Use(c, s, t, i) \/ Close(c, s, t, i)
       PROVE  SerialInv'
  <2>1. PICK r : r = Request(s, t, handles[i])
    BY Zenon
  <2>2. /\ r.todo = {} /\ r.handle = handles[i] /\ r.handle.id = i
        /\ r.handle.session = r.session /\ r.handle.tree = r.tree
    <3>1. r.todo = {} /\ r.handle = handles[i] /\ r.session = s /\ r.tree = t
      BY Zenon, <2>1 DEF Request
    <3> QED
      BY Zenon, <3>1, <1>11 DEF Use, Close, Validates, TypeInv, LocalsOK
  <2>3. PICK l \in {"use_tree", "close"} : Goto(c, l, r)
    BY Zenon, <1>11, <2>1 DEF Use, Close
  <2>4. Current(l, r)
    BY Zenon, <2>2 DEF Current, UseLabels, ReconnectLabels, CreateLabels
  <2> QED
    BY Zenon, <1>11, <2>3, <2>4, SerialQuiet DEF Use, Close, store
<1> QED
  BY Zenon, <1>1, <1>2, <1>4, <1>5, <1>6, <1>7, <1>8, <1>9, <1>10, <1>11 DEF Client

\* Who counts on a stored handle is the session and tree it belongs to.
LEMMA HolderIs ==
  ASSUME TypeInv, SerialInv
  PROVE  /\ \A h \in Stored : \A st \in holders[h.id] : st[1] = h.session /\ st[2] = h.tree
         /\ \A h \in Stored : h.session = 0 => holders[h.id] = {}
         /\ \A h \in Stored : h.id \notin closed /\ h \in HandleState /\ h.id \in HandleIds
         /\ \A i \in HandleIds : \A st \in holders[i] : st = <<st[1], st[2]>> /\ st[1] # 0
<1>1. \A h \in Stored : h \in HandleState /\ h.id \in HandleIds /\ handles[h.id] = h
  BY Zenon, StoredType
<1>2. \A h \in Stored : \A st \in holders[h.id] : st[1] = h.session /\ st[2] = h.tree
  <2> TAKE h \in Stored
  <2> TAKE st \in holders[h.id]
  <2>1. Validates(handles[h.id], st[1], st[2])
    BY Zenon, <1>1 DEF SerialInv, Tables, HolderServed
  <2> QED
    BY Zenon, <1>1, <2>1 DEF Validates
<1>3. \A i \in HandleIds : \A st \in holders[i] : st = <<st[1], st[2]>> /\ st[1] \in SessionIds
  BY ZenonT(60), Pairs DEF TypeInv, TypeOK
<1>4. 0 \notin SessionIds
  BY Zenon, Ids
<1>5. \A h \in Stored : h # NoHandle
  BY Zenon DEF Stored
<1>6. \A h \in Stored : h.id \notin closed
  BY Zenon, <1>1, <1>5 DEF SerialInv, Tables, ClosedStaysClosed
<1>7. ASSUME NEW h \in Stored, h.session = 0 PROVE holders[h.id] = {}
  <2>1. \A st \in holders[h.id] : FALSE
    BY Zenon, <1>1, <1>2, <1>3, <1>4, <1>7
  <2> QED
    BY Zenon, <2>1
<1>8. \A i \in HandleIds : \A st \in holders[i] : st = <<st[1], st[2]>> /\ st[1] # 0
  BY Zenon, <1>3, <1>4
<1> QED
  BY Zenon, <1>1, <1>2, <1>6, <1>7, <1>8

\* A handler's list has handles of the store.
LEMMA ListedStored ==
  ASSUME TypeInv, SerialInv, NEW c \in Conns
  PROVE  \A h \in req[c].todo : /\ h \in HandleState /\ h.id \in HandleIds
                                /\ handles[h.id] = h /\ h \in Stored
<1>1. \A h \in req[c].todo : h \in HandleState /\ h.id \in HandleIds
  BY Zenon DEF TypeInv, TypeOK, LocalsOK, LocalsFor, Locals
<1>2. \A h \in req[c].todo : handles[h.id] = h
  BY Zenon DEF SerialInv, Current
<1>3. \A h \in req[c].todo : h # NoHandle
  BY Zenon, <1>1, ConstantsAssumption
<1> QED
  BY Zenon, <1>1, <1>2, <1>3, InStored

\* An id that is in use was given out.
LEMMA IdsGiven ==
  ASSUME TypeInv, HandleIdentity
  PROVE  /\ \A h \in Stored : h.id < next_handle_id
         /\ \A c \in Conns : req[c].handle # NoHandle => req[c].handle.id < next_handle_id
BY ZenonT(60), WhereCopies DEF HandleIdentity

\* ShareConflict does not depend on who comes first.
LEMMA ConflictBothWays ==
  ASSUME NEW a, NEW b
  PROVE  ShareConflict(a, b) <=> ShareConflict(b, a)
BY Zenon DEF ShareConflict

\* The next handle of a list is detached or deleted.
LEMMA SerialWork ==
  ASSUME TypeInv, SerialInv, HandleIdentity, Alone, NEW c \in Conns, NEW h \in req[c].todo,
         pc[c] \in {"delete_handles", "tree_handles", "lost"},
         Goto(c, pc[c], [req[c] EXCEPT !.todo = @ \ {h}]),
         UNCHANGED <<next_handle_id, history>>,
         DeleteHandle(h.id) \/ UpdateHandle(Prepared(h))
  PROVE  SerialInv'
<1>1. /\ h \in HandleState /\ h.id \in HandleIds /\ handles[h.id] = h /\ h \in Stored
      /\ h.id < next_handle_id
  BY Zenon, ListedStored, IdsGiven
<1>2. PICK l, r : l = pc[c] /\ r = [req[c] EXCEPT !.todo = @ \ {h}]
  BY Zenon
<1>3. r.todo = req[c].todo \ {h} /\ r.left = req[c].left
  BY Zenon, <1>2 DEF TypeInv, TypeOK, Locals
<1>4. Current(l, req[c])
  BY Zenon, <1>2 DEF SerialInv
<1>5. holders[h.id] = {} /\ UNCHANGED holders /\ UNCHANGED closed
  BY Zenon, <1>2, <1>4 DEF Current, history
<1>6. Tables' /\ \A j \in HandleIds : j # h.id => handles'[j] = handles[j]
  <2>0. Tables
    BY Zenon DEF SerialInv
  <2>1. CASE DeleteHandle(h.id)
    BY Zenon, <2>0, <2>1, <1>1, <1>5, TablesDelete, DeleteType
  <2>2. CASE UpdateHandle(Prepared(h))
    <3>0. now \in Nat
      BY Zenon DEF TypeInv, TypeOK
    <3>1. PICK g : g = Prepared(h)
      BY Zenon
    <3>2. g \in HandleState /\ g.id = h.id /\ g.open = h.open
      BY Zenon, <1>1, <3>0, <3>1, PreparedType
    <3>3. h.id \notin closed
      BY Zenon, <1>1, HolderIs
    <3>4. \A k \in Stored : k.id # g.id =>
            ~ShareConflict(k.open, g.open) /\ ~ShareConflict(g.open, k.open)
      BY Zenon, <1>1, <2>0, <3>2 DEF Tables, SharesCompatible
    <3>5. UpdateHandle(g)
      BY Zenon, <2>2, <3>1
    <3>6. Tables'
      BY Zenon, <1>1, <1>5, <2>0, <3>2, <3>3, <3>4, <3>5, TablesUpdate
    <3>7. \A j \in HandleIds : j # g.id => handles'[j] = handles[j]
      BY Zenon, <1>1, <3>2, <3>5, UpdateType
    <3> QED
      BY Zenon, <3>2, <3>6, <3>7
  <2> QED
    BY Zenon, <2>1, <2>2
<1>7. \A g \in r.todo : handles'[g.id] = g
  <2> TAKE g \in r.todo
  <2>1. g \in req[c].todo /\ g # h
    BY Zenon, <1>3
  <2>2. g.id \in HandleIds /\ handles[g.id] = g
    BY Zenon, <2>1, ListedStored
  <2>3. g.id # h.id
    BY Zenon, <1>1, <2>1, <2>2
  <2> QED
    BY Zenon, <1>6, <2>2, <2>3
<1>8. Current(l, r)'
  BY Zenon, <1>2, <1>3, <1>4, <1>5, <1>7 DEF Current, UseLabels, ReconnectLabels, CreateLabels
<1> QED
  BY Zenon, <1>2, <1>6, <1>8, SerialStep

\* LOGOFF, TREE_DISCONNECT and the end of a connection.
LEMMA SerialEnds ==
  ASSUME TypeInv, SerialInv, HandleIdentity, Alone, NEW c \in Conns,
         \/ DeleteRead(c) \/ DeleteTrees(c) \/ DeleteSession(c) \/ TreeRead(c) \/ DeleteTree(c)
         \/ Closed(c) \/ \E s \in SessionIds : CleanSession(c, s)
         \/ \E h \in req[c].todo : DeleteOne(c, h) \/ Detach(c, h) \/ TreeHandle(c, h)
  PROVE  SerialInv'
<1>0. Current(pc[c], req[c]) /\ req[c] \in Locals
  BY Zenon DEF SerialInv, TypeInv, TypeOK
<1>t. \A hs : /\ [req[c] EXCEPT !.todo = hs].todo = hs
              /\ [req[c] EXCEPT !.todo = hs].session = req[c].session
  BY Zenon, <1>0 DEF Locals
<1>s. \A h \in Stored : handles[h.id] = h /\ h.id \in HandleIds
  BY Zenon, StoredType
<1>1. ASSUME DeleteRead(c) PROVE SerialInv'
  <2>1. PICK r : r = [req[c] EXCEPT !.todo = OfSession(req[c].session)]
    BY Zenon
  <2>2. r.todo = OfSession(req[c].session)
    BY Zenon, <1>t, <2>1
  <2>3. \A i \in HandleIds : \A st \in holders[i] : st[1] # req[c].session
    BY Zenon, <1>0, <1>1 DEF DeleteRead, Current
  <2>4. \A h \in r.todo : h \in Stored /\ h.session = req[c].session
    BY Zenon, <2>2 DEF OfSession
  <2>5. ASSUME NEW h \in r.todo, NEW st \in holders[h.id] PROVE FALSE
    <3>1. st[1] = h.session /\ h.id \in HandleIds
      BY Zenon, <1>s, <2>4, HolderIs
    <3> QED
      BY Zenon, <2>3, <2>4, <3>1
  <2>6. \A h \in r.todo : handles[h.id] = h /\ holders[h.id] = {}
    BY Zenon, <1>s, <2>4, <2>5
  <2>7. Current("delete_handles", r)
    BY Zenon, <2>6 DEF Current, UseLabels, ReconnectLabels, CreateLabels
  <2> QED
    BY Zenon, <1>1, <2>1, <2>7, SerialQuiet DEF DeleteRead, store
<1>2. ASSUME DeleteTrees(c) PROVE SerialInv'
  <2>1. Current("delete_session", req[c])
    BY Zenon, <1>2 DEF DeleteTrees, Current, UseLabels, ReconnectLabels, CreateLabels
  <2> QED
    BY Zenon, <1>2, <2>1, SerialQuiet DEF DeleteTrees, counters
<1>3. ASSUME DeleteSession(c) \/ DeleteTree(c) \/ Closed(c) PROVE SerialInv'
  BY Zenon, <1>3, SerialReturns DEF DeleteSession, DeleteTree, Closed, counters, store
<1>4. ASSUME TreeRead(c) PROVE SerialInv'
  <2>1. PICK r : r = [req[c] EXCEPT !.todo = {h \in OfSession(req[c].session) : h.tree = req[c].tree}]
    BY Zenon
  <2>2. r.todo = {h \in OfSession(req[c].session) : h.tree = req[c].tree}
    BY Zenon, <1>t, <2>1
  <2>3. \A i \in HandleIds : <<req[c].session, req[c].tree>> \notin holders[i]
    BY Zenon, <1>0, <1>4 DEF TreeRead, Current
  <2>4. \A h \in r.todo : h \in Stored /\ h.session = req[c].session /\ h.tree = req[c].tree
    BY Zenon, <2>2 DEF OfSession
  <2>5. ASSUME NEW h \in r.todo, NEW st \in holders[h.id] PROVE FALSE
    <3>1. st = <<st[1], st[2]>> /\ st[1] = req[c].session /\ st[2] = req[c].tree
      BY ZenonT(60), <1>s, <2>4, HolderIs
    <3>2. st = <<req[c].session, req[c].tree>>
      BY Zenon, <3>1
    <3> QED
      BY Zenon, <1>s, <2>3, <2>4, <3>2
  <2>6. \A h \in r.todo : handles[h.id] = h /\ holders[h.id] = {}
    BY Zenon, <1>s, <2>4, <2>5
  <2>7. Current("tree_handles", r)
    BY Zenon, <2>6 DEF Current, UseLabels, ReconnectLabels, CreateLabels
  <2> QED
    BY Zenon, <1>4, <2>1, <2>7, SerialQuiet DEF TreeRead, store
<1>5. ASSUME NEW s \in SessionIds, CleanSession(c, s) PROVE SerialInv'
  <2>1. PICK r : r = Cleanup({h \in OfSession(s) : Preserved(h)}, req[c].left \ {s})
    BY Zenon
  <2>2. r.todo = {h \in OfSession(s) : Preserved(h)} /\ r.left = req[c].left \ {s}
    BY Zenon, <2>1 DEF Cleanup
  <2>3. \A i \in HandleIds : \A st \in holders[i] : st[1] \notin req[c].left
    BY Zenon, <1>0, <1>5 DEF CleanSession, Current
  <2>4. \A h \in r.todo : h \in Stored /\ h.session \in req[c].left
    BY Zenon, <1>5, <2>2 DEF OfSession, CleanSession
  <2>5. ASSUME NEW h \in r.todo, NEW st \in holders[h.id] PROVE FALSE
    <3>1. st[1] = h.session /\ h.id \in HandleIds
      BY Zenon, <1>s, <2>4, HolderIs
    <3> QED
      BY Zenon, <2>3, <2>4, <3>1
  <2>6. \A h \in r.todo : handles[h.id] = h /\ holders[h.id] = {}
    BY Zenon, <1>s, <2>4, <2>5
  <2>7. Current("lost", r)
    BY Zenon, <2>2, <2>3, <2>6 DEF Current, UseLabels, ReconnectLabels, CreateLabels
  <2> QED
    BY Zenon, <1>5, <2>1, <2>7, SerialQuiet DEF CleanSession, store
<1>6. ASSUME NEW h \in req[c].todo, DeleteOne(c, h) \/ Detach(c, h) \/ TreeHandle(c, h)
      PROVE  SerialInv'
  <2>1. DeleteHandle(h.id) \/ UpdateHandle(Prepared(h))
    BY Zenon, <1>6 DEF DeleteOne, Detach, TreeHandle
  <2>2. /\ pc[c] \in {"delete_handles", "tree_handles", "lost"}
        /\ Goto(c, pc[c], [req[c] EXCEPT !.todo = @ \ {h}])
        /\ UNCHANGED <<next_handle_id, history>>
    BY Zenon, <1>6 DEF DeleteOne, Detach, TreeHandle, counters
  <2> QED
    BY Zenon, <2>1, <2>2, SerialWork
<1> QED
  BY Zenon, <1>1, <1>2, <1>3, <1>4, <1>5, <1>6

\* What a handle says of itself.
HasFields(h, id, session, tree, open) ==
  h.id = id /\ h.session = session /\ h.tree = tree /\ h.open = open

\* A handle has the fields it is made of.
LEMMA FieldsOf ==
  ASSUME NEW h, NEW id, NEW session, NEW tree, NEW open, NEW until,
         h = Handle(id, session, tree, open, until)
  PROVE HasFields(h, id, session, tree, open)
  BY Zenon DEF Handle, HasFields

\* CREATE up to the insertion of the handle.
LEMMA SerialCreate ==
  ASSUME TypeInv, SerialInv, HandleIdentity, Alone, NEW c \in Conns,
         \/ CreateRead(c) \/ CreateOpen(c) \/ CreateTree(c) \/ BackendFails(c)
         \/ \E h \in req[c].todo : \E caching \in HandleCaching(h) : CreateCheck(c, h, caching)
  PROVE  SerialInv'
<1>0. Current(pc[c], req[c]) /\ req[c] \in Locals /\ Tables
  BY Zenon DEF SerialInv, TypeInv, TypeOK
<1>t. \A hs : LET r == [req[c] EXCEPT !.todo = hs]
              IN  /\ r.todo = hs /\ r.session = req[c].session /\ r.tree = req[c].tree
                  /\ r.handle = req[c].handle
  BY Zenon, <1>0 DEF Locals
<1>s. \A h \in Stored : handles[h.id] = h /\ h.id \in HandleIds /\ h.id < next_handle_id
  BY Zenon, StoredType, IdsGiven
<1>1. ASSUME CreateRead(c) PROVE SerialInv'
  <2>1. PICK r : r = [req[c] EXCEPT !.todo = {h \in Stored : h.open.path = req[c].handle.open.path}]
    BY Zenon
  <2>2. /\ r.todo = {h \in Stored : h.open.path = req[c].handle.open.path}
        /\ r.session = req[c].session /\ r.tree = req[c].tree /\ r.handle = req[c].handle
    BY Zenon, <1>t, <2>1
  <2>3. r.handle.session = r.session /\ r.handle.tree = r.tree
    BY Zenon, <1>0, <1>1, <2>2 DEF CreateRead, Current, CreateLabels
  <2>4. \A h \in Stored : ShareConflict(h.open, r.handle.open) => h \in r.todo
    BY Zenon, <2>2 DEF ShareConflict
  <2>5. \A h \in r.todo : handles[h.id] = h
    BY Zenon, <1>s, <2>2
  <2>6. Current("create_check", r)
    BY Zenon, <2>3, <2>4, <2>5 DEF Current, UseLabels, ReconnectLabels, CreateLabels
  <2> QED
    BY Zenon, <1>1, <2>1, <2>6, SerialQuiet DEF CreateRead, store
<1>2. ASSUME CreateTree(c) \/ BackendFails(c) PROVE SerialInv'
  BY Zenon, <1>2, SerialReturns DEF CreateTree, BackendFails, counters, store
<1>3. ASSUME CreateOpen(c) PROVE SerialInv'
  <2>1. PICK r : r = Request(req[c].session, req[c].tree, Opened(req[c].handle))
    BY Zenon
  <2>2. /\ r.todo = {} /\ r.session = req[c].session /\ r.tree = req[c].tree
        /\ r.handle = Opened(req[c].handle)
    BY Zenon, <2>1 DEF Request
  <2>3. /\ r.handle.id = next_handle_id /\ r.handle.session = req[c].handle.session
        /\ r.handle.tree = req[c].handle.tree /\ r.handle.open = req[c].handle.open
    <3>1. PICK until : r.handle = Handle(next_handle_id, req[c].handle.session, req[c].handle.tree,
                                         req[c].handle.open, until)
      BY Zenon, <2>2 DEF Opened
    <3>2. HasFields(r.handle, next_handle_id, req[c].handle.session, req[c].handle.tree,
                    req[c].handle.open)
      BY Zenon, <3>1, FieldsOf
    <3> QED
      BY Zenon, <3>2 DEF HasFields
  <2>4. next_handle_id \in HandleIds /\ next_handle_id' \in Nat /\ next_handle_id <= next_handle_id'
    BY Zenon, <1>3, Orders, Ids DEF CreateOpen, TypeInv, TypeOK
  <2>5. ~(next_handle_id < next_handle_id)
    BY Zenon, Orders DEF TypeInv, TypeOK
  <2>6. handles[next_handle_id] = NoHandle
    <3> SUFFICES ASSUME handles[next_handle_id] # NoHandle PROVE FALSE
      BY Zenon
    <3>1. handles[next_handle_id] \in Stored /\ handles[next_handle_id].id = next_handle_id
      BY Zenon, <2>4, InStored DEF TypeInv, LocalsOK
    <3> QED
      BY Zenon, <1>s, <2>5, <3>1
  <2>7. next_handle_id \notin closed
    BY Zenon, <1>0, <2>5 DEF Tables
  <2>8. \A h \in Stored : ~ShareConflict(h.open, r.handle.open)
    BY Zenon, <1>0, <1>3, <2>3 DEF CreateOpen, Current
  <2>9. r.handle.session = r.session /\ r.handle.tree = r.tree
    BY Zenon, <1>0, <1>3, <2>2, <2>3 DEF CreateOpen, Current, CreateLabels
  <2>10. UNCHANGED <<handles, holders, closed>>
    BY Zenon, <1>3 DEF CreateOpen, history
  <2>11. Tables'
    BY Zenon, <1>0, <2>4, <2>10, TablesKept
  <2>12. Current("create_insert", r)
    BY Zenon, <2>2, <2>3, <2>6, <2>7, <2>8, <2>9 DEF Current, UseLabels, ReconnectLabels, CreateLabels
  <2>13. Current("create_insert", r)'
    BY ZenonT(60), <2>10, <2>12 DEF Current, Stored
  <2>14. Goto(c, "create_insert", r)
    BY Zenon, <1>3, <2>1 DEF CreateOpen
  <2> QED
    BY Zenon, <2>11, <2>13, <2>14, SerialStep
<1>4. ASSUME NEW h \in req[c].todo, NEW caching, CreateCheck(c, h, caching) PROVE SerialInv'
  <2>0. h \in Stored /\ h.id \in HandleIds /\ handles[h.id] = h /\ h.id < next_handle_id
    BY Zenon, <1>s, ListedStored
  <2>1. PICK r : r = [req[c] EXCEPT !.todo = @ \ {h}]
    BY Zenon
  <2>2. /\ r.todo = req[c].todo \ {h} /\ r.handle = req[c].handle
        /\ r.session = req[c].session /\ r.tree = req[c].tree
    BY Zenon, <1>t, <2>1
  <2>3. Current("create_check", req[c])
    BY Zenon, <1>0, <1>4 DEF CreateCheck
  <2>4. r.handle.session = r.session /\ r.handle.tree = r.tree
    BY Zenon, <2>2, <2>3 DEF Current, CreateLabels
  <2>5. \A g \in Stored : g # h /\ ShareConflict(g.open, r.handle.open) => g \in r.todo
    BY Zenon, <2>2, <2>3 DEF Current
  <2>6. UNCHANGED <<next_handle_id, holders, closed>> /\ UNCHANGED history
    BY Zenon, <1>4 DEF CreateCheck, counters, history
  <2>7. CASE h.session = 0 /\ caching
    <3>1. DeleteHandle(h.id) /\ Goto(c, "create_check", r)
      BY Zenon, <1>4, <2>1, <2>7 DEF CreateCheck
    <3>2. holders[h.id] = {}
      BY Zenon, <2>0, <2>7, HolderIs
    <3>3. Tables'
      BY Zenon, <1>0, <2>0, <2>6, <3>1, <3>2, TablesDelete
    <3>4. handles'[h.id] = NoHandle /\ \A j \in HandleIds : j # h.id => handles'[j] = handles[j]
      BY Zenon, <2>0, <3>1, DeleteType
    <3>5. \A g \in Stored' : g \in Stored /\ g # h
      <4> TAKE g \in Stored'
      <4>1. PICK j \in HandleIds : g = handles'[j] /\ g # NoHandle
        BY Zenon DEF Stored
      <4>2. j # h.id /\ g = handles[j]
        BY Zenon, <3>4, <4>1
      <4> QED
        BY Zenon, <4>1, <4>2, InStored DEF TypeInv, LocalsOK
    <3>6. \A g \in Stored' : ShareConflict(g.open, r.handle.open) => g \in r.todo
      BY Zenon, <2>5, <3>5
    <3>7. \A g \in r.todo : handles'[g.id] = g
      <4> TAKE g \in r.todo
      <4>1. g.id \in HandleIds /\ handles[g.id] = g /\ g # h
        BY Zenon, <2>2, ListedStored
      <4> QED
        BY Zenon, <2>0, <3>4, <4>1
    <3>8. Current("create_check", r)'
      BY Zenon, <2>4, <3>6, <3>7 DEF Current, UseLabels, ReconnectLabels, CreateLabels
    <3> QED
      BY Zenon, <3>1, <3>3, <3>8, SerialStep
  <2>8. CASE ~(h.session = 0 /\ caching) /\ ShareConflict(h.open, req[c].handle.open)
    BY Zenon, <1>4, <2>6, <2>8, SerialReturns DEF CreateCheck
  <2>9. CASE ~(h.session = 0 /\ caching) /\ ~ShareConflict(h.open, req[c].handle.open)
    <3>1. Goto(c, "create_check", r) /\ UNCHANGED handles
      BY Zenon, <1>4, <2>1, <2>9 DEF CreateCheck
    <3>2. \A g \in Stored : ShareConflict(g.open, r.handle.open) => g \in r.todo
      BY Zenon, <2>2, <2>5, <2>9
    <3>3. \A g \in r.todo : handles[g.id] = g
      BY Zenon, <2>2, ListedStored
    <3>4. Current("create_check", r)
      BY Zenon, <2>4, <3>2, <3>3 DEF Current, UseLabels, ReconnectLabels, CreateLabels
    <3> QED
      BY Zenon, <2>6, <3>1, <3>4, SerialQuiet
  <2> QED
    BY Zenon, <2>7, <2>8, <2>9
<1> QED
  BY Zenon, <1>1, <1>2, <1>3, <1>4

\* The end of CREATE, and the requests that use a handle.
LEMMA SerialUse ==
  ASSUME TypeInv, SerialInv, HandleIdentity, Alone, NEW c \in Conns,
         \/ CreateInsert(c) \/ Expire(c) \/ GetTree(c, "reconnect_tree", "reconnect")
         \/ ReconnectUpdate(c) \/ GetTree(c, "use_tree", "use") \/ WriteBack(c) \/ CloseDelete(c)
  PROVE  SerialInv'
<1>0. Current(pc[c], req[c]) /\ LocalsFor(pc[c], req[c]) /\ Tables
  BY Zenon DEF SerialInv, TypeInv, LocalsOK
<1>g. PICK g : g = req[c].handle
  BY Zenon
<1>s. /\ \A i \in HandleIds : handles[i] = NoHandle => holders[i] = {}
      /\ holders \in [HandleIds -> SUBSET (SessionIds \X TreeIds)]
  BY Zenon, <1>0 DEF Tables, HolderServed, Validates, TypeInv, TypeOK
<1>1. ASSUME CreateInsert(c) PROVE SerialInv'
  <2>1. /\ g \in HandleState /\ g.id \in HandleIds /\ handles[g.id] = NoHandle /\ g.id \notin closed
        /\ g.session = req[c].session /\ g.tree = req[c].tree
        /\ \A h \in Stored : ~ShareConflict(h.open, g.open)
    BY Zenon, <1>0, <1>1, <1>g DEF CreateInsert, Current, LocalsFor, CreateLabels
  <2>2. \A h \in Stored : ~ShareConflict(h.open, g.open) /\ ~ShareConflict(g.open, h.open)
    BY Zenon, <2>1, ConflictBothWays
  <2>3. holders' = [holders EXCEPT ![g.id] = @ \cup {<<g.session, g.tree>>}]
    BY Zenon, <1>1, <1>g, <2>1 DEF CreateInsert
  <2>4. holders'[g.id] = {<<g.session, g.tree>>} /\ \A j \in HandleIds : j # g.id => holders'[j] = holders[j]
    BY Zenon, <1>s, <2>1, <2>3
  <2>5. \A st \in holders'[g.id] : st[1] = g.session /\ st[2] = g.tree
    BY SMTT(30), <2>4
  <2>6. UpdateHandle(g) /\ UNCHANGED <<next_handle_id, closed>> /\ Answer(c)
    BY Zenon, <1>1, <1>g DEF CreateInsert, counters
  <2>7. Tables'
    BY Zenon, <1>0, <2>1, <2>2, <2>4, <2>5, <2>6, TablesUpdate
  <2> QED
    BY Zenon, <2>6, <2>7, SerialAnswer
<1>2. ASSUME pc[c] \in UseLabels \cup ReconnectLabels
      PROVE  /\ g \in Stored /\ g \in HandleState /\ g.id \in HandleIds /\ handles[g.id] = g
             /\ g.id < next_handle_id /\ g.id \notin closed
             /\ \A h \in Stored : h.id # g.id =>
                  ~ShareConflict(h.open, g.open) /\ ~ShareConflict(g.open, h.open)
             /\ pc[c] \in ReconnectLabels => holders[g.id] = {}
  <2>1. g \in HandleState /\ g.id \in HandleIds /\ handles[g.id] = g
    BY Zenon, <1>0, <1>2, <1>g DEF Current, LocalsFor
  <2>2. g # NoHandle
    BY Zenon, <2>1, ConstantsAssumption
  <2>3. g \in Stored
    BY Zenon, <2>1, <2>2, InStored
  <2>4. g.id < next_handle_id /\ g.id \notin closed
    BY Zenon, <2>3, IdsGiven, HolderIs
  <2>5. pc[c] \in ReconnectLabels => holders[g.id] = {}
    BY Zenon, <1>0, <1>g, <2>3, HolderIs DEF Current
  <2>6. \A h \in Stored : h.id # g.id =>
          ~ShareConflict(h.open, g.open) /\ ~ShareConflict(g.open, h.open)
    BY Zenon, <1>0, <2>3 DEF Tables, SharesCompatible
  <2> QED
    BY Zenon, <2>1, <2>3, <2>4, <2>5, <2>6
<1>3. ASSUME Expire(c) PROVE SerialInv'
  <2>1. pc[c] \in ReconnectLabels
    BY Zenon, <1>3 DEF Expire, ReconnectLabels
  <2>2. DeleteHandle(g.id) /\ UNCHANGED <<next_handle_id, holders, closed>> /\ Answer(c)
    BY Zenon, <1>3, <1>g DEF Expire, counters, history
  <2>3. Tables'
    BY Zenon, <1>0, <1>2, <2>1, <2>2, TablesDelete
  <2> QED
    BY Zenon, <2>2, <2>3, SerialAnswer
<1>4. ASSUME NEW from, NEW to, GetTree(c, from, to), Current(from, req[c]) => Current(to, req[c])
      PROVE  SerialInv'
  <2>1. UNCHANGED <<handles, next_handle_id, history>>
    BY Zenon, <1>4 DEF GetTree, store
  <2>2. CASE Answer(c)
    BY Zenon, <2>1, <2>2, SerialReturns
  <2>3. CASE Goto(c, to, req[c])
    BY Zenon, <1>0, <1>4, <2>1, <2>3, SerialQuiet DEF GetTree
  <2> QED
    BY Zenon, <1>4, <2>2, <2>3 DEF GetTree
<1>5. /\ Current("reconnect_tree", req[c]) => Current("reconnect", req[c])
      /\ Current("use_tree", req[c]) => Current("use", req[c])
  BY Zenon DEF Current, UseLabels, ReconnectLabels, CreateLabels
<1>6. ASSUME ReconnectUpdate(c) PROVE SerialInv'
  <2>1. pc[c] \in ReconnectLabels /\ req[c].session \in SessionIds /\ req[c].tree \in TreeIds
    BY Zenon, <1>0, <1>6 DEF ReconnectUpdate, ReconnectLabels, LocalsFor, TreeLabels
  <2>2. PICK k : k = Handle(g.id, req[c].session, req[c].tree, g.open, g.deadline)
    BY Zenon
  <2>3. k.id = g.id /\ k.open = g.open /\ k.session = req[c].session /\ k.tree = req[c].tree
    BY Zenon, <2>2 DEF Handle
  <2>4. k \in HandleState
    BY Zenon, <1>2, <2>1, <2>2, IdRanges DEF Handle, HandleState
  <2>5. UpdateHandle(k) /\ UNCHANGED <<next_handle_id, closed>> /\ Answer(c)
    BY Zenon, <1>6, <1>g, <2>2 DEF ReconnectUpdate, counters
  <2>6. holders' = [holders EXCEPT ![k.id] = @ \cup {<<k.session, k.tree>>}]
    BY Zenon, <1>6, <1>g, <2>3 DEF ReconnectUpdate
  <2>7. k.id \in HandleIds /\ holders[k.id] = {}
    BY Zenon, <1>2, <2>1, <2>3
  <2>8. holders'[k.id] = {<<k.session, k.tree>>} /\ \A j \in HandleIds : j # k.id => holders'[j] = holders[j]
    BY Zenon, <1>s, <2>6, <2>7
  <2>9. \A st \in holders'[k.id] : st[1] = k.session /\ st[2] = k.tree
    BY SMTT(30), <2>8
  <2>10. k.id \notin closed /\ \A h \in Stored : h.id # k.id =>
           ~ShareConflict(h.open, k.open) /\ ~ShareConflict(k.open, h.open)
    BY Zenon, <1>2, <2>1, <2>3
  <2>11. Tables'
    BY Zenon, <1>0, <2>4, <2>5, <2>7, <2>8, <2>9, <2>10, TablesUpdate
  <2> QED
    BY Zenon, <2>5, <2>11, SerialAnswer
<1>7. ASSUME WriteBack(c) PROVE SerialInv'
  <2>1. pc[c] \in UseLabels
    BY Zenon, <1>7 DEF WriteBack, UseLabels
  <2>2. UpdateHandle(g) /\ UNCHANGED <<next_handle_id, holders, closed>> /\ Answer(c)
    BY Zenon, <1>7, <1>g DEF WriteBack, counters, history
  <2>3. \A st \in holders'[g.id] : st[1] = g.session /\ st[2] = g.tree
    BY Zenon, <1>2, <2>1, <2>2, HolderIs
  <2>4. Tables'
    BY Zenon, <1>0, <1>2, <2>1, <2>2, <2>3, TablesUpdate
  <2> QED
    BY Zenon, <2>2, <2>4, SerialAnswer
<1>8. ASSUME CloseDelete(c) PROVE SerialInv'
  <2>1. pc[c] \in UseLabels /\ g.session = req[c].session /\ g.tree = req[c].tree
    BY Zenon, <1>0, <1>8, <1>g DEF CloseDelete, UseLabels, Current
  <2>2. DeleteHandle(g.id) /\ UNCHANGED next_handle_id /\ closed' = closed \cup {g.id} /\ Answer(c)
    BY Zenon, <1>8, <1>g DEF CloseDelete, counters
  <2>3. holders' = [holders EXCEPT ![g.id] = @ \ {<<g.session, g.tree>>}]
    BY Zenon, <1>8, <1>g, <2>1 DEF CloseDelete
  <2>4. /\ holders'[g.id] = holders[g.id] \ {<<g.session, g.tree>>}
        /\ \A j \in HandleIds : holders'[j] \subseteq holders[j]
    BY Zenon, <1>s, <1>2, <2>1, <2>3
  <2>5. ASSUME NEW st \in holders[g.id] PROVE st = <<g.session, g.tree>>
    <3>1. st = <<st[1], st[2]>> /\ st[1] = g.session /\ st[2] = g.tree
      BY Zenon, <1>2, <2>1, HolderIs
    <3> QED
      BY Zenon, <3>1
  <2>6. holders'[g.id] = {}
    BY Zenon, <2>4, <2>5
  <2>7. Tables'
    BY Zenon, <1>0, <1>2, <2>1, <2>2, <2>4, <2>6, TablesDelete
  <2> QED
    BY Zenon, <2>2, <2>7, SerialAnswer
<1> QED
  BY Zenon, <1>1, <1>3, <1>4, <1>5, <1>6, <1>7, <1>8

\* What one connection at a time keeps.
LEMMA SerialInvariant ==
  ASSUME Alone
  PROVE  Spec => [](TypeInv /\ SerialInv)
<1>1. Init => TypeInv /\ SerialInv
  <2> SUFFICES ASSUME Init PROVE TypeInv /\ SerialInv
    BY Zenon
  <2>1. /\ \A i \in HandleIds : handles[i] = NoHandle /\ holders[i] = {}
        /\ closed = {} /\ \A c \in Conns : pc[c] = "closed" /\ req[c].todo = {}
    BY Zenon, PlainLocals DEF Init
  <2>2. Stored = {}
    BY Zenon, <2>1 DEF Stored
  <2>3. Tables
    BY Zenon, <2>1, <2>2 DEF Tables, SharesCompatible, HolderServed, ClosedStaysClosed
  <2>4. \A c \in Conns : Current(pc[c], req[c])
    BY Zenon, <2>1 DEF Current, UseLabels, ReconnectLabels, CreateLabels
  <2> QED
    BY Zenon, <2>3, <2>4, TypeInit DEF SerialInv
<1>2. TypeInv /\ SerialInv /\ HandleIdentity /\ [Next]_vars => TypeInv' /\ SerialInv'
  <2> SUFFICES ASSUME TypeInv, SerialInv, HandleIdentity, [Next]_vars
               PROVE  TypeInv' /\ SerialInv'
    BY Zenon
  <2>1. TypeInv'
    BY Zenon, TypeStep
  <2>2. ASSUME Tick \/ UNCHANGED vars PROVE SerialInv'
    <3>1. UNCHANGED <<handles, next_handle_id, pc, req, holders, closed>>
      BY Zenon, <2>2 DEF Tick, vars, store, history
    <3> QED
      BY Zenon, <3>1, SerialStutter
  <2>3. ASSUME NEW c \in Conns, Client(c) PROVE SerialInv'
    BY Zenon, <2>3, SerialClient
  <2>4. ASSUME NEW c \in Conns, Continue(c) PROVE SerialInv'
    BY Zenon, <2>4, SerialEnds, SerialCreate, SerialUse DEF Continue
  <2> QED
    BY Zenon, <2>1, <2>2, <2>3, <2>4 DEF Next
<1> QED
  BY <1>1, <1>2, HandlesKeepIdentity, PTL DEF Spec

\* One connection at a time: the sharing check of CREATE keeps conflicting handles
\* apart over reconnects, invalidation, and handles that outlive their connection.
THEOREM SharingHolds ==
  ASSUME Alone
  PROVE  Spec => []SharesCompatible
<1>1. SerialInv => SharesCompatible
  BY Zenon DEF SerialInv, Tables
<1> QED
  BY <1>1, SerialInvariant, PTL

\* One connection at a time: whoever was given a handle finds it in the store, on their
\* session and tree, until they close it or end the session, tree or connection.
THEOREM HoldersAreServed ==
  ASSUME Alone
  PROVE  Spec => []HolderServed
<1>1. SerialInv => HolderServed
  BY Zenon DEF SerialInv, Tables
<1> QED
  BY <1>1, SerialInvariant, PTL

\* One connection at a time: handle_durable_reconnect gives a handle to one session
\* only.
THEOREM HolderIsAlone ==
  ASSUME Alone
  PROVE  Spec => []OneHolder
<1>1. TypeInv /\ SerialInv => OneHolder
  <2> SUFFICES ASSUME TypeInv, SerialInv, NEW i \in HandleIds, NEW st \in holders[i],
                      NEW other \in holders[i]
               PROVE  st = other
    BY Zenon DEF OneHolder
  <2>1. /\ Validates(handles[i], st[1], st[2]) /\ Validates(handles[i], other[1], other[2])
        /\ st = <<st[1], st[2]>> /\ other = <<other[1], other[2]>>
    BY Zenon, HolderIs DEF SerialInv, Tables, HolderServed
  <2>2. st[1] = other[1] /\ st[2] = other[2]
    BY Zenon, <2>1 DEF Validates
  <2> QED
    BY Zenon, <2>1, <2>2
<1> QED
  BY <1>1, SerialInvariant, PTL

\* One connection at a time: no handler writes back a handle whose CLOSE was answered,
\* although update_handle inserts what it does not find.
THEOREM ClosedNeverReturns ==
  ASSUME Alone
  PROVE  Spec => []ClosedStaysClosed
<1>1. SerialInv => ClosedStaysClosed
  BY Zenon DEF SerialInv, Tables
<1> QED
  BY <1>1, SerialInvariant, PTL

==============================================================================
