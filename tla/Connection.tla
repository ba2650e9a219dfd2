------------------------------ MODULE Connection ------------------------------
(***************************************************************************)
(* ConnectionHandler: the message loop of a connection, compound requests, *)
(* the checks in front of every command, credits, signatures, and          *)
(* SESSION_SETUP with its providers, over connections of one or several    *)
(* servers that share a state store.                                       *)
(*                                                                         *)
(* A message is [related, cmds]: the commands of one frame, and the flag   *)
(* SMB2_FLAGS_RELATED_OPERATIONS of its second header.  A command is       *)
(* [op, sid, tid, fid, charge, ask, arg]; Sentinel stands for the all-ones *)
(* ids.  A command runs in steps, one for each store call whose answer     *)
(* another connection can outdate: the session lookup, the tree lookup,    *)
(* the handler (SESSION_SETUP in two).  File requests are represented by   *)
(* CREATE and by operations on a handle; what they do to files, leases and *)
(* locks is in FileRequests, HandleLifecycle, Leases and FileLocks.        *)
(***************************************************************************)
EXTENDS Authentication, Sequences, FiniteSets

CONSTANTS
  Conns,
  ServerOf,         \* [Conns -> servers]
  Modes,            \* families of client behaviour: how often a client sends, ...
  Says(_, _),       \* what it may send
  Sids,             \* the session ids there may be: a bound
  MaxBreaks,        \* bound on break events queued to a connection
  MaxSessions,      \* of a connection: ConnectionConfig
  InitialCredits, MaxCredits   \* CreditConfig

ASSUME CreditsAssumption ==
  InitialCredits \in Nat /\ MaxCredits \in Nat \ {0} /\ InitialCredits <= MaxCredits

\* No session has the id 0, which is none's; an established session has the id 1.
ASSUME BoundsAssumption == Sids \subseteq Nat \ {0} /\ 1 \in Sids /\ MaxBreaks \in Nat

VARIABLES
  mode,      \* the family of client behaviour this run is in
  conn,      \* per connection: up, dialect, sessions, keys, auth
  wire,      \* complete frames in the socket, and a close behind them
  buffer,    \* frames read and not yet processed (read_buf)
  breaks,    \* break events queued to the connection
  work,      \* the message in processing
  credits,   \* CreditManager::available
  store,     \* sessions, trees, handles and counters of the state store
  provider,  \* the NTLM provider of each server
  sent,      \* messages each client has sent
  reply      \* the last message answered, and its responses

vars == <<mode, conn, wire, buffer, breaks, work, credits, store, provider, sent, reply>>

Sentinel == 99
NoDialect == "none"
NoKey == 0
NoSession == [user |-> NoUser, key |-> NoKey, dialect |-> NoDialect, live |-> FALSE]

Command(op, sid, tid, fid, arg) ==
  [op |-> op, sid |-> sid, tid |-> tid, fid |-> fid, charge |-> 1, ask |-> 1, arg |-> arg]
Message(related, cmds) == [related |-> related, cmds |-> cmds]
EOF == Message(FALSE, <<>>)

\* A header has all its fields, and a frame at least one command.
WellFormed(cmd) ==
  /\ cmd = [op |-> cmd.op, sid |-> cmd.sid, tid |-> cmd.tid, fid |-> cmd.fid,
            charge |-> cmd.charge, ask |-> cmd.ask, arg |-> cmd.arg]
  /\ cmd.charge \in Nat /\ cmd.ask \in Nat

ASSUME MessagesAssumption ==
  \A m \in Modes : \A c \in Conns : \A msg \in Says(m.name, c) \ {EOF} :
    /\ msg.related \in BOOLEAN /\ Len(msg.cmds) \in Nat \ {0}
    /\ \A i \in 1..Len(msg.cmds) : WellFormed(msg.cmds[i])

-------------------------------------------------------------------------------
(* CreditManager.  One task owns a connection's manager, so the compare-and-swap
   loops run once. *)

AtLeast(n, m) == IF n < m THEN m ELSE n
AtMost(n, m) == IF n > m THEN m ELSE n

MutantConsumed(available, charge) == IF available < charge THEN available ELSE available - charge

Consumed(available, charge) ==
  LET n == AtLeast(charge, 1) IN IF available < n THEN available ELSE available - n

CalculateGrant(available, requested) ==
  LET headroom == MaxCredits - available
      target == MaxCredits \div 2
      base == IF available < target THEN 1 + (target - available) \div 4 ELSE 1
  IN AtMost(AtLeast(base, requested), headroom)

-------------------------------------------------------------------------------
(* Keys and signatures.  The session key of the n-th session created is 2n, and the
   signing key that SMB 3 derives from it 2n+1.  Guests and anonymous users have a key
   everyone knows, NullKey. *)

NullKey == 1
DerivedKey(dialect, key) == IF dialect = "3.0" /\ key # NullKey THEN key + 1 ELSE key

Unsigned == [key |-> NoKey, related |-> FALSE, next |-> FALSE]
Signature(key, r) == [key |-> key, related |-> r.related, next |-> r.next]

\* sign_message, and verify_request_signature for a request signed with cmd.arg.key.
Signed(key, r) == [r EXCEPT !.sig = Signature(key, r)]
Verified(key, cmd) == cmd.arg.key = key

\* maybe_sign_response: with a key for the session of the response, unless it is
\* signed already.
MaybeSigned(keys, r) ==
  IF r.sid \in DOMAIN keys /\ keys[r.sid] # NoKey /\ r.sig = Unsigned
  THEN Signed(keys[r.sid], r)
  ELSE r

MutantReSigned(keys, r) == r

\* re_sign_response: a signed response of a session that still has a key.
ReSigned(keys, r) ==
  IF r.sid \in DOMAIN keys /\ keys[r.sid] # NoKey /\ r.sig # Unsigned
  THEN Signed(keys[r.sid], r)
  ELSE r

\* combine_compound_responses: flags and NextCommand of every response, signed again.
\* The response to CANCEL is empty: it keeps its place here and adds nothing to the frame.
Combined(keys, related, rs) ==
  [i \in 1..Len(rs) |->
     LET r == [rs[i] EXCEPT !.related = related, !.next = (i # Len(rs))]
     IN IF related \/ i # Len(rs) THEN ReSigned(keys, r) ELSE r]

-------------------------------------------------------------------------------
Response(cmd, status, sid, tid, fid, granted) ==
  [op |-> cmd.op, status |-> status, sid |-> sid, tid |-> tid, fid |-> fid,
   credits |-> granted, related |-> FALSE, next |-> FALSE, sig |-> Unsigned]

\* build_error_response_with_ids: one credit, which the manager does not count.
ErrorResponse(cmd, status) == Response(cmd, status, cmd.sid, cmd.tid, cmd.fid, 1)

Context == [index |-> 1, sid |-> 0, tid |-> 0, fid |-> 0, set |-> FALSE, error |-> "none"]
NoWork == [stage |-> "idle"]
Working(m, stage) ==
  [stage |-> stage, msg |-> m, ctx |-> Context, cmd |-> m.cmds[1], out |-> <<>>, ran |-> {},
   setup |-> NoSession, id |-> 0, user |-> NoUser]

NoReply == [msg |-> Message(FALSE, <<>>), out |-> <<>>, ran |-> {}]

Fresh == [up |-> TRUE, dialect |-> NoDialect, sessions |-> {}, keys |-> [s \in Sids |-> NoKey],
          auth |-> None]

(* The start of a mode is the state of the connections and of the store the clients find: all
   connections fresh or negotiated, or session 1 with tree 1 and file 1 open, bound to
   each of them. *)
Established(bound) ==
  [up |-> TRUE, dialect |-> "3.0", sessions |-> {1}, auth |-> IF bound THEN None ELSE 1,
   keys |-> [[s \in Sids |-> NoKey] EXCEPT ![1] = IF bound THEN 2 ELSE 3]]

Init ==
  /\ mode \in Modes
  /\ conn = [c \in Conns |->
       IF mode.start = "fresh" THEN [Fresh EXCEPT !.dialect = mode.dialect[c]] ELSE Established(c \in mode.bound)]
  /\ store =
       IF mode.start = "fresh"
       THEN [sessions |-> [s \in Sids |-> NoSession], trees |-> {}, handles |-> {},
             nextSid |-> 1, nextTid |-> [s \in Sids \cup {0} |-> 1], nextFid |-> 1, made |-> 1]
       ELSE [sessions |-> [s \in Sids |->
               IF s = 1 THEN [user |-> Account("u"), key |-> 2, dialect |-> "3.0", live |-> TRUE]
               ELSE NoSession],
             trees |-> {<<1, 1>>}, handles |-> {[fid |-> 1, sid |-> 1, tid |-> 1]},
             nextSid |-> 1, nextTid |-> [[s \in Sids \cup {0} |-> 1] EXCEPT ![1] = 2], nextFid |-> 2,
             made |-> 2]
  /\ provider = [s \in {ServerOf[c] : c \in Conns} |->
       [NtlmNew(Sids, mode.anonymous) EXCEPT !.next = IF mode.start = "fresh" THEN 1 ELSE 2]]
  /\ wire = [c \in Conns |-> <<>>]
  /\ buffer = [c \in Conns |-> <<>>]
  /\ breaks = [c \in Conns |-> 0]
  /\ work = [c \in Conns |-> NoWork]
  /\ credits = [c \in Conns |-> InitialCredits]
  /\ sent = [c \in Conns |-> 0]
  /\ reply = [c \in Conns |-> NoReply]

-------------------------------------------------------------------------------
(* The client, and the other connections as far as they queue break events here. *)

Send(c) ==
  /\ conn[c].up
  /\ c \in mode.endless \/ sent[c] < mode.max[c]
  /\ Len(wire[c]) + Len(buffer[c]) + (IF work[c] = NoWork THEN 0 ELSE 1) < mode.flight
  /\ EOF \notin {wire[c][i] : i \in 1..Len(wire[c])}
  /\ \E m \in Says(mode.name, c) : wire' = [wire EXCEPT ![c] = Append(@, m)]
  /\ sent' = [sent EXCEPT ![c] = IF c \in mode.endless THEN @ ELSE @ + 1]
  /\ UNCHANGED <<mode, conn, buffer, breaks, work, credits, store, provider, reply>>

\* An event is queued by the requests of other connections.
BreakEvent(c) ==
  /\ c \in mode.breaks /\ conn[c].up /\ breaks[c] < MaxBreaks
  /\ breaks' = [breaks EXCEPT ![c] = @ + 1]
  /\ UNCHANGED <<mode, conn, wire, buffer, work, credits, store, provider, sent, reply>>

-------------------------------------------------------------------------------
(* run_message_loop: the frames in the buffer first, then the first of a break event
   and data from the socket that is ready.  A close behind a partial frame ends the
   loop as one behind a whole frame does. *)

Closed(c) ==
  /\ conn' = [conn EXCEPT ![c] = [Fresh EXCEPT !.up = FALSE]]
  /\ wire' = [wire EXCEPT ![c] = <<>>]
  /\ buffer' = [buffer EXCEPT ![c] = <<>>]
  /\ breaks' = [breaks EXCEPT ![c] = 0]
  /\ work' = [work EXCEPT ![c] = NoWork]
  /\ UNCHANGED <<mode, credits, store, provider, sent, reply>>

IdleLoop(c) == conn[c].up /\ work[c] = NoWork /\ buffer[c] = <<>>

SendBreak(c) ==
  /\ IdleLoop(c) /\ breaks[c] > 0
  /\ breaks' = [breaks EXCEPT ![c] = @ - 1]
  /\ UNCHANGED <<mode, conn, wire, buffer, work, credits, store, provider, sent, reply>>

ReadFrames(c) ==
  /\ Head(wire[c]) # EOF
  /\ \E n \in 1..Len(wire[c]) :
       /\ \A i \in 1..n : wire[c][i] # EOF
       /\ buffer' = [buffer EXCEPT ![c] = SubSeq(wire[c], 1, n)]
       /\ wire' = [wire EXCEPT ![c] = SubSeq(wire[c], n + 1, Len(wire[c]))]
  /\ UNCHANGED <<mode, conn, breaks, work, credits, store, provider, sent, reply>>

MutantRead(c) ==
  /\ IdleLoop(c) /\ wire[c] # <<>>
  /\ IF Head(wire[c]) = EOF THEN Closed(c) ELSE ReadFrames(c)

Read(c) ==
  /\ IdleLoop(c) /\ breaks[c] = 0 /\ wire[c] # <<>>
  /\ IF Head(wire[c]) = EOF THEN Closed(c) ELSE ReadFrames(c)

-------------------------------------------------------------------------------
(* Processing of a message.  Finished ends it: what is sent was signed response by
   response, and process_and_respond signs the frame once more if it can, which is the
   first response that is in it. *)

Silent(r) == r.status = "silent"
Leads(out, i) == ~Silent(out[i]) /\ \A j \in 1..(i - 1) : Silent(out[j])

Finished(c, w, keys, out) ==
  /\ work' = [work EXCEPT ![c] = NoWork]
  /\ reply' = [reply EXCEPT ![c] =
       [msg |-> w.msg, ran |-> w.ran,
        out |-> [i \in 1..Len(out) |-> IF Leads(out, i) THEN MaybeSigned(keys, out[i]) ELSE out[i]]]]

\* The result of command w.ctx.index: what CompoundContext::advance and the loop keep.
\* keys are the connection's keys after the command.
Answer(c, w, keys, r, ok) ==
  LET n == w.ctx.index
      out == Append(w.out, MaybeSigned(keys, r))
      ctx == [index |-> n + 1,
              sid |-> IF n = 1 /\ ok THEN w.cmd.sid ELSE w.ctx.sid,
              tid |-> IF n = 1 /\ ok THEN w.cmd.tid ELSE w.ctx.tid,
              fid |-> IF ok /\ r.op = "create" THEN r.fid ELSE w.ctx.fid,
              set |-> w.ctx.set \/ (n = 1 /\ ok),
              error |-> IF ok THEN w.ctx.error ELSE r.status]
  IN CASE Len(w.msg.cmds) = 1 -> Finished(c, w, keys, out)
       [] Len(w.msg.cmds) > 1 /\ n = Len(w.msg.cmds) ->
            Finished(c, w, keys, Combined(keys, w.msg.related, out))
       [] OTHER ->
            /\ work' = [work EXCEPT ![c] = [w EXCEPT !.ctx = ctx, !.out = out, !.stage = "resolve"]]
            /\ UNCHANGED reply

Fails(c, w, status) == Answer(c, w, conn[c].keys, ErrorResponse(w.cmd, status), FALSE)

\* A response built by build_response_header: it asks the manager for credits.
Grant(c, w) == CalculateGrant(credits[c], w.cmd.ask)
Granted(c, w) == credits' = [credits EXCEPT ![c] = @ + Grant(c, w)]
Succeeds(c, w, keys, sid, tid, fid) ==
  /\ Granted(c, w)
  /\ Answer(c, w, keys, Response(w.cmd, "ok", sid, tid, fid, Grant(c, w)), TRUE)

\* try_parse_message and process_message: a frame without a readable first header
\* cannot even be refused, so it ends the connection; an unreadable second header
\* fails the whole message.
Take(c) ==
  /\ conn[c].up /\ work[c] = NoWork /\ buffer[c] # <<>>
  /\ LET m == Head(buffer[c]) IN
     IF m.cmds[1].op = "bad" THEN Closed(c)
     ELSE /\ buffer' = [buffer EXCEPT ![c] = Tail(@)]
          /\ IF Len(m.cmds) > 1 /\ m.cmds[2].op = "bad"
             THEN Finished(c, Working(m, "resolve"), conn[c].keys,
                           <<ErrorResponse(m.cmds[1], "invalid")>>)
             ELSE work' = [work EXCEPT ![c] = Working(m, "resolve")] /\ UNCHANGED reply
          /\ UNCHANGED <<mode, conn, wire, breaks, credits, store, provider, sent>>

FileOps == {"close", "read"}   \* and the others that take the FileId of a related CREATE
NeedsTree == FileOps \cup {"create", "tree_disconnect"}
NeedsSession == NeedsTree \cup {"logoff", "tree_connect"}

\* resolve_related_header and resolve_session_id, resolve_tree_id: all ones mean the
\* ids of the first command, which are known only if it succeeded.
Unresolved(w, cmd) == ~w.ctx.set /\ (cmd.sid = Sentinel \/ cmd.tid = Sentinel)
Resolved(w, cmd) ==
  [cmd EXCEPT !.sid = IF @ = Sentinel THEN w.ctx.sid ELSE @,
              !.tid = IF @ = Sentinel THEN w.ctx.tid ELSE @]

\* dispatch_command_compound: after a CREATE a related command works on its FileId.
WithFile(w, cmd) ==
  IF cmd.op \in FileOps /\ w.ctx.fid # 0 THEN [cmd EXCEPT !.fid = w.ctx.fid] ELSE cmd

\* A dispatched command: charged, and on its way to the checks.
Dispatched(c, w, cmd) ==
  /\ credits' = [credits EXCEPT ![c] = IF cmd.op = "negotiate" THEN @ ELSE Consumed(@, cmd.charge)]
  /\ work' = [work EXCEPT ![c] = [w EXCEPT !.cmd = cmd, !.ran = @ \cup {w.ctx.index},
                                           !.stage = IF cmd.op \in NeedsSession THEN "session" ELSE "run"]]
  /\ UNCHANGED reply

MutantRelated(c, w, cmd) ==
  IF Unresolved(w, cmd)
  THEN Finished(c, w, conn[c].keys, <<ErrorResponse(w.msg.cmds[1], "invalid")>>) /\ UNCHANGED credits
  ELSE Dispatched(c, w, WithFile(w, Resolved(w, cmd)))

\* The commands of a related compound after the first: one that cannot be resolved
\* abandons the compound with a single answer; after a failure the rest is refused.
Related(c, w, cmd) ==
  CASE Unresolved(w, cmd) ->
         /\ Finished(c, w, conn[c].keys, <<ErrorResponse(w.msg.cmds[1], "invalid")>>)
         /\ UNCHANGED credits
    [] ~Unresolved(w, cmd) /\ w.ctx.error # "none" ->
         /\ Answer(c, w, conn[c].keys, ErrorResponse(Resolved(w, cmd), w.ctx.error), FALSE)
         /\ UNCHANGED credits
    [] OTHER -> Dispatched(c, w, WithFile(w, Resolved(w, cmd)))

Resolve(c) ==
  LET w == work[c]
      cmd == w.msg.cmds[w.ctx.index]
  IN /\ w.stage = "resolve"
     /\ CASE cmd.op = "bad" ->
               /\ Answer(c, w, conn[c].keys,
                    ErrorResponse([cmd EXCEPT !.sid = w.ctx.sid, !.tid = w.ctx.tid], "invalid"), FALSE)
               /\ UNCHANGED credits
          [] cmd.op # "bad" /\ w.msg.related /\ w.ctx.index > 1 -> Related(c, w, cmd)
          [] OTHER -> Dispatched(c, w, cmd)
     /\ UNCHANGED <<mode, conn, wire, buffer, breaks, store, provider, sent>>

-------------------------------------------------------------------------------
(* dispatch_command: the session must be in this connection's table and still in the
   store, the tree in the store; session id 0 skips the first check. *)

Continue(c, w) ==
  work' = [work EXCEPT ![c].stage = IF w.cmd.op \in NeedsTree /\ w.stage = "session"
                                    THEN "tree" ELSE "run"]

CheckSession(c) ==
  LET w == work[c] IN
  /\ w.stage = "session"
  /\ CASE w.cmd.sid = 0 -> Continue(c, w) /\ UNCHANGED <<conn, reply>>
       [] w.cmd.sid # 0 /\ w.cmd.sid \notin conn[c].sessions ->
            Fails(c, w, "session_deleted") /\ UNCHANGED conn
       [] w.cmd.sid \in conn[c].sessions /\ ~store.sessions[w.cmd.sid].live ->
            /\ Fails(c, w, "session_deleted")
            /\ conn' = [conn EXCEPT ![c].sessions = @ \ {w.cmd.sid}]
       [] OTHER -> Continue(c, w) /\ UNCHANGED <<conn, reply>>
  /\ UNCHANGED <<mode, wire, buffer, breaks, credits, store, provider, sent>>

CheckTree(c) ==
  LET w == work[c] IN
  /\ w.stage = "tree"
  /\ IF <<w.cmd.sid, w.cmd.tid>> \in store.trees
     THEN Continue(c, w) /\ UNCHANGED reply
     ELSE Fails(c, w, "network_name_deleted")
  /\ UNCHANGED <<mode, conn, wire, buffer, breaks, credits, store, provider, sent>>

-------------------------------------------------------------------------------
(* The handlers. *)

Running(c, op) == work[c].stage = "run" /\ work[c].cmd.op = op

Negotiate(c) ==
  LET w == work[c] IN
  /\ Running(c, "negotiate")
  /\ IF w.cmd.arg = NoDialect
     THEN Fails(c, w, "not_supported") /\ UNCHANGED <<conn, credits>>
     ELSE /\ conn' = [conn EXCEPT ![c].dialect = w.cmd.arg]
          /\ Succeeds(c, w, conn[c].keys, w.cmd.sid, w.cmd.tid, 0)
  /\ UNCHANGED <<mode, wire, buffer, breaks, store, provider, sent>>

\* Also the other commands that only answer.
Echo(c) ==
  /\ Running(c, "echo")
  /\ Succeeds(c, work[c], conn[c].keys, work[c].cmd.sid, work[c].cmd.tid, 0)
  /\ UNCHANGED <<mode, conn, wire, buffer, breaks, store, provider, sent>>

\* No request is ever registered with async_requests: there is nothing to cancel, and
\* CANCEL has no response.
Cancel(c) ==
  /\ Running(c, "cancel")
  /\ Answer(c, work[c], conn[c].keys, Response(work[c].cmd, "silent", 0, 0, 0, 0), TRUE)
  /\ UNCHANGED <<mode, conn, wire, buffer, breaks, credits, store, provider, sent>>

\* SessionManager::delete_session; durable handles are in HandleLifecycle.
Deleted(st, s) ==
  [st EXCEPT !.handles = {h \in @ : h.sid # s}, !.trees = {t \in @ : t[1] # s},
             !.sessions = IF s \in Sids THEN [@ EXCEPT ![s] = NoSession] ELSE @]

\* add_session: no caller looks at its answer.
WithSession(ss, s) == IF Cardinality(ss) >= MaxSessions THEN ss ELSE ss \cup {s}

Live(s) == s \in Sids /\ store.sessions[s].live

Logoff(c) ==
  LET w == work[c] IN
  /\ Running(c, "logoff")
  /\ IF ~Live(w.cmd.sid) THEN Fails(c, w, "session_deleted") /\ UNCHANGED <<conn, store, credits>>
     ELSE LET k == [conn[c].keys EXCEPT ![w.cmd.sid] = NoKey] IN
          /\ conn' = [conn EXCEPT ![c].sessions = @ \ {w.cmd.sid}, ![c].keys = k]
          /\ store' = Deleted(store, w.cmd.sid)
          /\ Succeeds(c, w, k, w.cmd.sid, w.cmd.tid, 0)
  /\ UNCHANGED <<mode, wire, buffer, breaks, provider, sent>>

TreeConnect(c) ==
  LET w == work[c]
      t == store.nextTid[w.cmd.sid]
  IN
  /\ Running(c, "tree_connect")
  /\ IF w.cmd.arg = "unknown" THEN Fails(c, w, "bad_network_name") /\ UNCHANGED <<store, credits>>
     ELSE /\ store' = [store EXCEPT !.nextTid[w.cmd.sid] = t + 1, !.trees = @ \cup {<<w.cmd.sid, t>>}]
          /\ Succeeds(c, w, conn[c].keys, w.cmd.sid, t, 0)
  /\ UNCHANGED <<mode, conn, wire, buffer, breaks, provider, sent>>

TreeDisconnect(c) ==
  LET w == work[c]
      t == <<w.cmd.sid, w.cmd.tid>>
  IN
  /\ Running(c, "tree_disconnect")
  /\ IF t \notin store.trees THEN Fails(c, w, "network_name_deleted") /\ UNCHANGED <<store, credits>>
     ELSE /\ store' = [store EXCEPT !.trees = @ \ {t},
                         !.handles = {h \in @ : h.sid # t[1] \/ h.tid # t[2]}]
          /\ Succeeds(c, w, conn[c].keys, w.cmd.sid, w.cmd.tid, 0)
  /\ UNCHANGED <<mode, conn, wire, buffer, breaks, provider, sent>>

Create(c) ==
  LET w == work[c] IN
  /\ Running(c, "create")
  /\ IF w.cmd.arg = "missing" THEN Fails(c, w, "not_found") /\ UNCHANGED <<store, credits>>
     ELSE /\ store' = [store EXCEPT !.nextFid = @ + 1, !.handles = @ \cup
                        {[fid |-> store.nextFid, sid |-> w.cmd.sid, tid |-> w.cmd.tid]}]
          /\ Succeeds(c, w, conn[c].keys, w.cmd.sid, w.cmd.tid, store.nextFid)
  /\ UNCHANGED <<mode, conn, wire, buffer, breaks, provider, sent>>

\* An operation on a handle: get_handle and validate_handle_tree_id.
FileOp(c) ==
  LET w == work[c]
      found == {h \in store.handles : h.fid = w.cmd.fid}
  IN
  /\ w.stage = "run" /\ w.cmd.op \in FileOps
  /\ CASE \A h \in found : h.sid # w.cmd.sid ->
            Fails(c, w, "file_closed") /\ UNCHANGED <<store, credits>>
       [] \E h \in found : h.sid = w.cmd.sid /\ h.tid # w.cmd.tid ->
            Fails(c, w, "invalid") /\ UNCHANGED <<store, credits>>
       [] OTHER ->
            /\ store' = [store EXCEPT !.handles = IF w.cmd.op = "close" THEN @ \ found ELSE @]
            /\ Succeeds(c, w, conn[c].keys, w.cmd.sid, w.cmd.tid, w.cmd.fid)
  /\ UNCHANGED <<mode, conn, wire, buffer, breaks, provider, sent>>

-------------------------------------------------------------------------------
(* SESSION_SETUP: cmd.arg is [token, previous, binding, signed, key]. *)

\* The session that a request with a session id re-authenticates, unless the
\* connection's context already has an id.
Existing(c, cmd) == cmd.sid \in conn[c].sessions /\ conn[c].auth = None /\ Live(cmd.sid)

AuthStatus(o) == IF o.is = "malformed" THEN "invalid" ELSE "logon_failure"

MoreProcessing(c, w, sid) ==
  /\ Granted(c, w)
  /\ Answer(c, w, conn[c].keys, Response(w.cmd, "more", sid, w.cmd.tid, 0, Grant(c, w)), TRUE)

\* authenticate, then: another round under the id of the re-authenticated session or
\* the one the provider left in the context; or the id of the session to set up, and
\* the session the store already has under it.
Authenticate(c) ==
  LET w == work[c]
      before == IF w.cmd.sid = 0 THEN None ELSE conn[c].auth
      o == SpnegoAuthenticate(provider[ServerOf[c]], before, c, w.cmd.arg.token)
      context == IF o.is = "continue" /\ Existing(c, w.cmd) THEN w.cmd.sid ELSE o.id
      id == IF o.id # None THEN o.id ELSE store.nextSid
  IN
  /\ Running(c, "session_setup") /\ ~w.cmd.arg.binding
  /\ provider' = [provider EXCEPT ![ServerOf[c]] = o.p]
  /\ conn' = [conn EXCEPT ![c].auth = context]
  /\ CASE o.is = "continue" ->
            /\ MoreProcessing(c, w, context)
            /\ UNCHANGED store
       [] o.is = "success" ->
            /\ id \in Sids
            /\ store' = [store EXCEPT !.nextSid = IF o.id # None THEN @ ELSE @ + 1]
            /\ work' = [work EXCEPT ![c].stage = "create", ![c].id = id,
                 ![c].user = o.user,
                 ![c].setup = IF Existing(c, w.cmd) THEN store.sessions[w.cmd.sid]
                              ELSE store.sessions[id]]
            /\ UNCHANGED <<reply, credits>>
       [] OTHER -> Fails(c, w, AuthStatus(o)) /\ UNCHANGED <<store, credits>>
  /\ UNCHANGED <<mode, wire, buffer, breaks, sent>>

\* A session found above is re-authenticated: it keeps its key, and enters no table.
\* A new one is created.  The previous session is deleted, the key is stored and the
\* response signed with it.
Establish(c) ==
  LET w == work[c]
      new == ~w.setup.live
      named == ~w.user.guest /\ ~w.user.anonymous
      key == IF ~new THEN w.setup.key ELSE IF named THEN 2 * store.made ELSE NullKey
      dialect == IF conn[c].dialect = NoDialect THEN "2.0" ELSE conn[c].dialect
      signing == IF ~new /\ conn[c].keys[w.id] # NoKey THEN conn[c].keys[w.id]
                 ELSE DerivedKey(dialect, key)
      keys == IF named THEN [conn[c].keys EXCEPT ![w.id] = signing] ELSE conn[c].keys
      created == IF new THEN [store EXCEPT !.made = @ + 1, !.sessions[w.id] =
                                [user |-> w.user, key |-> key, dialect |-> dialect, live |-> TRUE]]
                 ELSE store
      r == Response(w.cmd, "ok", w.id, w.cmd.tid, 0, Grant(c, w))
  IN
  /\ w.stage = "create"
  /\ store' = IF w.cmd.arg.previous # 0 /\ named THEN Deleted(created, w.cmd.arg.previous) ELSE created
  /\ conn' = [conn EXCEPT ![c].sessions = IF new THEN WithSession(@, w.id) ELSE @, ![c].keys = keys]
  /\ Granted(c, w)
  /\ Answer(c, w, keys, IF named THEN Signed(signing, r) ELSE r, TRUE)
  /\ UNCHANGED <<mode, wire, buffer, breaks, provider, sent>>

\* handle_session_binding.  The request's signature is checked with the session key
\* itself; late: the session's time was up when it was looked at.
Binding(c) ==
  LET w == work[c]
      s == IF w.cmd.sid \in Sids THEN store.sessions[w.cmd.sid] ELSE NoSession
  IN
  /\ Running(c, "session_setup") /\ w.cmd.arg.binding
  /\ \E late \in mode.late :
       LET refusal ==
             IF conn[c].dialect # "3.0" THEN "request_not_accepted"
             ELSE IF ~s.live THEN "session_deleted"
             ELSE IF conn[c].dialect # s.dialect \/ ~w.cmd.arg.signed THEN "invalid"
             ELSE IF late THEN "session_expired"
             ELSE IF s.user.guest \/ s.user.anonymous THEN "not_supported"
             ELSE IF w.cmd.sid \in conn[c].sessions THEN "request_not_accepted"
             ELSE IF ~Verified(s.key, w.cmd) THEN "access_denied" ELSE "none"
           keys == [conn[c].keys EXCEPT ![w.cmd.sid] = s.key]
       IN IF refusal # "none" THEN Fails(c, w, refusal) /\ UNCHANGED <<conn, credits>>
          ELSE /\ conn' = [conn EXCEPT ![c].sessions = WithSession(@, w.cmd.sid), ![c].keys = keys]
               /\ Succeeds(c, w, keys, w.cmd.sid, w.cmd.tid, 0)
  /\ UNCHANGED <<mode, wire, buffer, breaks, store, provider, sent>>

-------------------------------------------------------------------------------
Serve(c) ==
  \/ Take(c) \/ Resolve(c) \/ CheckSession(c) \/ CheckTree(c)
  \/ Negotiate(c) \/ Echo(c) \/ Cancel(c) \/ Logoff(c)
  \/ TreeConnect(c) \/ TreeDisconnect(c) \/ Create(c) \/ FileOp(c)
  \/ Authenticate(c) \/ Establish(c) \/ Binding(c)
  \/ SendBreak(c) \/ Read(c)

Next == \E c \in Conns : Serve(c) \/ Send(c) \/ BreakEvent(c)

\* The runtime polls the task of a connection that can go on.  It is assumed only for the
\* connections that break events are queued to.
Fairness == \A c \in Conns : WF_vars(c \in mode.breaks /\ Serve(c))

Spec == Init /\ [][Next]_vars /\ Fairness

-------------------------------------------------------------------------------
(* Properties.  They speak of the last message answered on a connection. *)

Failed(r) == r.status \notin {"ok", "more", "silent"}

TypeOK ==
  /\ \A c \in Conns : /\ conn[c].sessions \subseteq Sids
                      /\ credits[c] \in 0..MaxCredits
                      /\ breaks[c] \in 0..MaxBreaks
                      /\ work[c] = NoWork \/ conn[c].up
  /\ \A h \in store.handles : h.fid < store.nextFid

\* Command j of m works on the file that command i opens.
OpensFor(m, i, j) ==
  /\ m.cmds[i].op = "create" /\ m.cmds[j].op \in FileOps
  /\ \A k \in (i + 1)..(j - 1) : m.cmds[k].op # "create"

\* SESSION_SETUP answers with the id of the session it is about, CANCEL with nothing.
OwnSession == {"session_setup", "cancel"}

Linked(m, out, j) ==
  /\ \A i \in 1..(j - 1) : ~Failed(out[i])
  /\ m.cmds[j].sid = Sentinel /\ m.cmds[j].op \notin OwnSession => out[j].sid = m.cmds[1].sid
  /\ \A i \in 1..(j - 1) : OpensFor(m, i, j) => out[j].fid = out[i].fid

(* A related compound is one chain: nothing runs after a command that failed, what runs
   after a CREATE works on the file it opened, and an all-ones session id means the
   session of the first command -- whatever ids the later commands carry, and whatever
   another connection does to the session between two of them. *)
CompoundChain ==
  \A c \in Conns :
    LET m == reply[c].msg
        out == reply[c].out
    IN m.related /\ Len(out) > 1 /\ Len(out) = Len(m.cmds) =>
       \A j \in reply[c].ran : Linked(m, out, j)

(* The signature of a response covers the response as it is sent: the flags and the
   NextCommand that combining the responses writes after they were signed.  A LOGOFF in
   the message takes the key away before that: AlwaysSignedAsSent fails with LogoffModes. *)
SignedAsSent ==
  \A c \in Conns :
    (\A i \in 1..Len(reply[c].msg.cmds) : reply[c].msg.cmds[i].op # "logoff") =>
    \A i \in 1..Len(reply[c].out) :
      LET r == reply[c].out[i] IN r.sig # Unsigned => r.sig = Signature(r.sig.key, r)

(* The same without the exception: re_sign_response's "The existing signature is
   invalidated by the header changes, so we need to recompute it". *)
AlwaysSignedAsSent ==
  \A c \in Conns : \A i \in 1..Len(reply[c].out) :
    LET r == reply[c].out[i] IN r.sig # Unsigned => r.sig = Signature(r.sig.key, r)

(* Every response grants the client a credit, so that a client whose requests are all
   answered can always send the next, though error responses grant credits the manager
   does not count, a charge that is not covered is not taken, and a manager at its
   maximum grants nothing.  NEGOTIATE takes no credit, so repeating it may grant none, and
   neither is a charge taken that no manager could cover. *)
RespondsWithCredits ==
  \A c \in Conns :
    (\A i \in 1..Len(reply[c].msg.cmds) : reply[c].msg.cmds[i].charge <= MaxCredits) =>
    \A i \in 1..Len(reply[c].out) :
      LET r == reply[c].out[i] IN r.op # "negotiate" /\ ~Silent(r) => r.credits >= 1

(* A SESSION_SETUP that succeeds, as a new session, as a re-authentication or as a
   binding, answers with a session of this connection: the next request may use it.
   Challenges, ids and sessions of the other connection are in between.  At MaxSessions
   sessions the answer is the same, and the session is not entered. *)
SetupEntersTable ==
  [][\A c \in Conns :
       LET m == reply'[c].msg
           out == reply'[c].out
       IN (/\ reply'[c] # reply[c] /\ Len(m.cmds) = 1
           /\ m.cmds[1].op = "session_setup" /\ out[1].status = "ok")
          => out[1].sid \in conn'[c].sessions \/ Cardinality(conn[c].sessions) >= MaxSessions]_vars

(* A SESSION_SETUP with session id 0 that succeeds has established a new session, which
   is then in the table of the connection: "SessionId == 0 means this is a NEW session,
   not a continuation". *)
NewSessionIsNew ==
  [][\A c \in Conns :
       LET m == reply'[c].msg
           out == reply'[c].out
       IN (/\ reply'[c] # reply[c] /\ Len(m.cmds) = 1
           /\ m.cmds[1].op = "session_setup" /\ m.cmds[1].sid = 0
           /\ out[1].status = "ok")
          => out[1].sid \in conn'[c].sessions]_vars

(* Every command of a message gets its response: "For related requests after the first,
   propagate errors from previous commands". *)
EveryCommandAnswered ==
  \A c \in Conns :
    reply[c].msg # EOF => Len(reply[c].out) = Len(reply[c].msg.cmds)

(* A break event queued to a connection is sent, or the connection is gone, however
   busy the client keeps it: the buffer is emptied and the select prefers the event. *)
BreakDelivered == \A c \in Conns : breaks[c] > 0 ~> breaks[c] = 0

-------------------------------------------------------------------------------
(* What the proofs need besides: what holds of a message while it is processed. *)

IsList(s) == Len(s) \in Nat /\ s = [i \in 1..Len(s) |-> s[i]]

NoLogoff(m) == \A i \in 1..Len(m.cmds) : m.cmds[i].op # "logoff"
Coverable(m) == \A i \in 1..Len(m.cmds) : m.cmds[i].charge <= MaxCredits

\* A response before the responses are combined.  The key that signed it is still there.
Made(m, keys, r) ==
  /\ r = [op |-> r.op, status |-> r.status, sid |-> r.sid, tid |-> r.tid, fid |-> r.fid,
          credits |-> r.credits, related |-> FALSE, next |-> FALSE, sig |-> r.sig]
  /\ r.sig # Unsigned =>
       /\ r.sig = Signature(r.sig.key, r)
       /\ NoLogoff(m) => r.sid \in Sids /\ keys[r.sid] # NoKey
  /\ Coverable(m) /\ r.op # "negotiate" /\ ~Silent(r) => r.credits >= 1

\* The context of a related compound is the one of its chain.
Chained(w) ==
  LET n == w.ctx.index IN
  /\ w.ctx.set => w.ctx.sid = w.msg.cmds[1].sid
  /\ w.ctx.error = "none" =>
       \A i \in 1..(n - 1) :
         /\ ~Failed(w.out[i])
         /\ (/\ w.msg.cmds[i].op = "create"
             /\ \A k \in (i + 1)..(n - 1) : w.msg.cmds[k].op # "create")
            => w.ctx.fid = w.out[i].fid /\ w.ctx.fid # 0
  /\ \A j \in w.ran : j < n => Linked(w.msg, w.out, j)

\* A command on its way: its ids are resolved, and it was charged.
UnderWay(w, available) ==
  LET n == w.ctx.index
      cmd == w.msg.cmds[n]
  IN
  /\ WellFormed(w.cmd) /\ w.cmd.op = cmd.op /\ w.cmd.charge = cmd.charge
  /\ n = 1 => w.cmd.sid = cmd.sid
  /\ w.msg.related =>
       /\ w.ctx.error = "none"
       /\ cmd.sid = Sentinel => w.cmd.sid = w.msg.cmds[1].sid
       /\ cmd.op \in FileOps /\ w.ctx.fid # 0 => w.cmd.fid = w.ctx.fid
  /\ cmd.op # "negotiate" /\ cmd.charge <= MaxCredits => available < MaxCredits

\* A session that lives has a key.
Keyed(s) == s.live => s.key \in Nat \ {0}

InWork(says, w, keys, available) ==
  LET n == w.ctx.index IN
  /\ w = [stage |-> w.stage, msg |-> w.msg, ctx |-> w.ctx, cmd |-> w.cmd, out |-> w.out,
          ran |-> w.ran, setup |-> w.setup, id |-> w.id, user |-> w.user]
  /\ w.stage \in {"resolve", "session", "tree", "run", "create"}
  /\ w.msg \in says \ {EOF}
  /\ n \in 1..Len(w.msg.cmds) /\ (n = 1 => w.ctx = Context)
  /\ IsList(w.out) /\ Len(w.out) = n - 1
  /\ \A i \in 1..(n - 1) : Made(w.msg, keys, w.out[i])
  /\ w.ran \subseteq 1..n /\ (w.stage = "resolve" => n \notin w.ran)
  /\ w.msg.related => Chained(w)
  /\ w.stage # "resolve" => UnderWay(w, available)
  /\ Keyed(w.setup) /\ (w.stage = "create" => w.id \in Sids /\ w.cmd.op = "session_setup")

StoreInv(st) ==
  /\ st = [sessions |-> st.sessions, trees |-> st.trees, handles |-> st.handles,
           nextSid |-> st.nextSid, nextTid |-> st.nextTid, nextFid |-> st.nextFid, made |-> st.made]
  /\ DOMAIN st.sessions = Sids /\ \A s \in Sids : Keyed(st.sessions[s])
  /\ st.nextFid \in Nat \ {0} /\ st.made \in Nat \ {0}
  /\ \A h \in st.handles : h.fid \in Nat /\ h.fid < st.nextFid

ConnInv(k) ==
  /\ k = [up |-> k.up, dialect |-> k.dialect, sessions |-> k.sessions, keys |-> k.keys,
          auth |-> k.auth]
  /\ k.sessions \subseteq Sids /\ k.keys \in [Sids -> Nat]

ConnectionInv ==
  /\ mode \in Modes
  /\ DOMAIN conn = Conns /\ DOMAIN work = Conns /\ DOMAIN reply = Conns
  /\ DOMAIN wire = Conns /\ DOMAIN buffer = Conns
  /\ credits \in [Conns -> 0..MaxCredits] /\ breaks \in [Conns -> 0..MaxBreaks]
  /\ StoreInv(store)
  /\ \A c \in Conns :
       /\ ConnInv(conn[c])
       /\ wire[c] \in Seq(Says(mode.name, c)) /\ buffer[c] \in Seq(Says(mode.name, c) \ {EOF})
       /\ work[c] # NoWork =>
            conn[c].up /\ InWork(Says(mode.name, c), work[c], conn[c].keys, credits[c])

===============================================================================
