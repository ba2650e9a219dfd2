------------------------------ MODULE Oplocks ------------------------------
(* The oplocks of one file on one server: what CREATE, CLOSE, OPLOCK_BREAK,    *)
(* LOGOFF and the end of a connection do to them (rustsmb-server/src/          *)
(* handler.rs), and LeaseBreakRegistry's oplock half (lease_break.rs). A       *)
(* connection has one session and runs one request at a time; while it does it *)
(* neither reads its socket nor takes break events from its channel. Leases    *)
(* are in Leases. Timers: a break that waits may time out at any moment.       *)
EXTENDS Integers, Sequences

CONSTANTS
  Conns,
  Modes,        \* [levels, max, size, serial, acks, logoff]: the levels asked for and how often, the
                \* size of oplock_break_tx (32 in the code), whether CREATEs come one at a time, what
                \* acknowledgements clients send, whether they log off
  NoHandle

None == "none"
LevelII == "II"
Exclusive == {"exclusive", "batch"}
Levels == {None, LevelII, "lease"} \cup Exclusive

ASSUME OplockModes ==
  \A m \in Modes : /\ m.levels \subseteq Levels /\ m.max \in Nat /\ m.size \in Nat \ {0}
                   /\ m.serial \in BOOLEAN /\ m.logoff \in BOOLEAN /\ m.acks \in {"exact", "valid", "any"}

VARIABLES
  oplocks,      \* oplock_connections: the level of each registered handle
  pending,      \* pending_oplock_breaks: [handle, waiter]
  channel,      \* the break events [handle, ack_required] that each connection has not taken
  handles,      \* the state store: the level of each open handle
  owner,        \* the connection of each handle that was made
  op,           \* the request each connection is at: [at, level, todo, handle, id]
  answer,       \* what completion_rx of a connection holds
  session,      \* the connections that have their session
  up,           \* the connections that are up
  mode,
  granted,      \* history: the level given to the client with each handle
  asked,        \* the handles whose clients have been asked for an acknowledgement and sent none
  told          \* history: the handles whose client got a notification or sent an acknowledgement

vars == <<oplocks, pending, channel, handles, owner, op, answer, session, up, mode, granted, asked, told>>

Idle == [at |-> "idle", level |-> None, todo |-> {}, handle |-> NoHandle, id |-> 0]
Fresh == Len(owner) + 1

Init ==
  /\ mode \in Modes
  /\ oplocks = <<>> /\ handles = <<>> /\ owner = <<>> /\ granted = <<>>
  /\ pending = {} /\ asked = {} /\ told = {}
  /\ channel = [c \in Conns |-> <<>>]
  /\ op = [c \in Conns |-> Idle]
  /\ answer = [c \in Conns |-> "none"]
  /\ session = Conns /\ up = Conns

Set(f, x, v) == [y \in DOMAIN f \cup {x} |-> IF y = x THEN v ELSE f[y]]
Without(f, S) == [y \in DOMAIN f \ S |-> f[y]]

(* register_oplock, and update_oplock_level, which leaves alone what is not    *)
(* registered.                                                                 *)
Register(h, level) == oplocks' = Set(oplocks, h, level)
UpdateLevel(h, level) == oplocks' = IF h \in DOMAIN oplocks THEN Set(oplocks, h, level) ELSE oplocks

Ready(c) == c \in up /\ op[c] = Idle
At(c, label) == op[c].at = label
Become(c, new) == op' = [op EXCEPT ![c] = new]
Goto(c, label) == Become(c, [op[c] EXCEPT !.at = label])
Done(h, c) == [op[c] EXCEPT !.at = "break", !.todo = @ \ {h}]
Closed(h) == owner[h] \notin up
Full(c) == Len(channel[c]) = mode.size
Push(h) == channel' = [channel EXCEPT ![owner[h]] = Append(@, [handle |-> h, ack_required |-> oplocks[h] \in Exclusive])]

---------------------------------------------------------------------------
(* CREATE without a lease.                                                    *)

(* It reads the Batch oplocks of other sessions.                               *)
Create(c, level) ==
  /\ Ready(c) /\ c \in session /\ Fresh <= mode.max
  /\ mode.serial => \A d \in Conns : op[d] = Idle
  /\ LET h == Fresh
     IN  /\ Become(c, [at |-> "nowait", level |-> level, handle |-> h, id |-> 0,
                       todo |-> {g \in DOMAIN oplocks : owner[g] # c /\ oplocks[g] = "batch"}])
         /\ owner' = Set(owner, h, c)
         /\ granted' = Set(granted, h, None)
  /\ UNCHANGED <<oplocks, pending, channel, handles, answer, session, up, mode, asked, told>>

(* initiate_oplock_break_nowait, and the level lowered when the event is sent. *)
MutantNowait(c) ==
  \E h \in op[c].todo :
    /\ At(c, "nowait")
    /\ Become(c, [op[c] EXCEPT !.todo = @ \ {h}])
    /\ IF h \notin DOMAIN oplocks \/ Closed(h) \/ Full(owner[h]) THEN UNCHANGED channel ELSE Push(h)
    /\ UpdateLevel(h, LevelII)
    /\ UNCHANGED <<pending, handles, owner, answer, session, up, mode, granted, asked, told>>
Nowait(c) ==
  \E h \in op[c].todo :
    /\ At(c, "nowait")
    /\ Become(c, [op[c] EXCEPT !.todo = @ \ {h}])
    /\ IF h \notin DOMAIN oplocks \/ Closed(h) \/ Full(owner[h])
         THEN UNCHANGED <<channel, oplocks>>
         ELSE Push(h) /\ UpdateLevel(h, LevelII)
    /\ UNCHANGED <<pending, handles, owner, answer, session, up, mode, granted, asked, told>>

(* A sharing violation, or another error, ends it here.                        *)
Refuse(c) ==
  /\ At(c, "nowait") /\ op[c].todo = {}
  /\ Become(c, Idle)
  /\ UNCHANGED <<oplocks, pending, channel, handles, owner, answer, session, up, mode, granted, asked, told>>

(* The oplocks it conflicts with, those of its own connection too.             *)
Scan(c) ==
  /\ At(c, "nowait") /\ op[c].todo = {}
  /\ Become(c, IF op[c].level = None
                 THEN [op[c] EXCEPT !.at = "store"]
                 ELSE [op[c] EXCEPT !.at = "break", !.todo = {h \in DOMAIN oplocks : oplocks[h] \in Exclusive}])
  /\ UNCHANGED <<oplocks, pending, channel, handles, owner, answer, session, up, mode, granted, asked, told>>

(* break_oplock: the event is sent (which waits for room) before the break is  *)
(* entered as pending. An error skips the handle.                              *)
SendBreak(c) ==
  \E h \in op[c].todo :
    /\ At(c, "break")
    /\ \/ /\ h \notin DOMAIN oplocks \/ Closed(h)
          /\ Become(c, Done(h, c))
          /\ UNCHANGED <<channel, oplocks>>
       \/ /\ h \in DOMAIN oplocks /\ ~Closed(h) /\ ~Full(owner[h])
          /\ Push(h)
          /\ IF oplocks[h] \in Exclusive
               THEN Become(c, [op[c] EXCEPT !.at = "pend", !.id = h]) /\ UNCHANGED oplocks
               ELSE Become(c, Done(h, c)) /\ UpdateLevel(h, LevelII)
    /\ UNCHANGED <<pending, handles, owner, answer, session, up, mode, granted, asked, told>>

Pend(c) ==
  /\ At(c, "pend")
  /\ pending' = pending \cup {[handle |-> op[c].id, waiter |-> c]}
  /\ Goto(c, "wait")
  /\ UNCHANGED <<oplocks, channel, handles, owner, answer, session, up, mode, granted, asked, told>>

(* Acknowledged, given up by an invalid acknowledgement, or timed out: in each *)
(* case the entry goes and the level becomes Level II.                         *)
MutantNoTimeout(c) ==
  /\ At(c, "wait") /\ answer[c] # "none"
  /\ pending' = {p \in pending : p.waiter # c}
  /\ answer' = [answer EXCEPT ![c] = "none"]
  /\ UpdateLevel(op[c].id, LevelII)
  /\ Become(c, Done(op[c].id, c))
  /\ UNCHANGED <<channel, handles, owner, session, up, mode, granted, asked, told>>
MutantWaited(c) ==
  /\ At(c, "wait")
  /\ answer' = [answer EXCEPT ![c] = "none"]
  /\ UpdateLevel(op[c].id, LevelII)
  /\ Become(c, Done(op[c].id, c))
  /\ UNCHANGED <<pending, channel, handles, owner, session, up, mode, granted, asked, told>>
Waited(c) ==
  /\ At(c, "wait")
  /\ pending' = {p \in pending : p.waiter # c}
  /\ answer' = [answer EXCEPT ![c] = "none"]
  /\ UpdateLevel(op[c].id, LevelII)
  /\ Become(c, Done(op[c].id, c))
  /\ UNCHANGED <<channel, handles, owner, session, up, mode, granted, asked, told>>

(* Any oplock that remains reduces Batch and Exclusive to Level II.            *)
MutantReduced(level) == IF level \in Exclusive /\ \E h \in DOMAIN oplocks : oplocks[h] \in Exclusive THEN LevelII ELSE level
Reduced(level) == IF level \in Exclusive /\ \E h \in DOMAIN oplocks : oplocks[h] # None THEN LevelII ELSE level
Grant(c) ==
  /\ At(c, "break") /\ op[c].todo = {}
  /\ Become(c, [op[c] EXCEPT !.at = "store", !.level = Reduced(@)])
  /\ UNCHANGED <<oplocks, pending, channel, handles, owner, answer, session, up, mode, granted, asked, told>>

CreateHandle(c) ==
  /\ At(c, "store")
  /\ handles' = Set(handles, op[c].handle, op[c].level)
  /\ Goto(c, "register")
  /\ UNCHANGED <<oplocks, pending, channel, owner, answer, session, up, mode, granted, asked, told>>

Respond(c) ==
  /\ At(c, "register")
  /\ IF op[c].level = None THEN UNCHANGED oplocks ELSE Register(op[c].handle, op[c].level)
  /\ granted' = [granted EXCEPT ![op[c].handle] = op[c].level]
  /\ Become(c, Idle)
  /\ UNCHANGED <<pending, channel, handles, owner, answer, session, up, mode, asked, told>>

---------------------------------------------------------------------------
(* The break notification, sent by the loop between two requests.             *)
Notify(c) ==
  /\ Ready(c) /\ channel[c] # <<>>
  /\ LET event == Head(channel[c])
     IN  /\ told' = told \cup {event.handle}
         /\ asked' = IF event.ack_required THEN asked \cup {event.handle} ELSE asked
  /\ channel' = [channel EXCEPT ![c] = Tail(@)]
  /\ UNCHANGED <<oplocks, pending, handles, owner, op, answer, session, up, mode, granted>>

(* OPLOCK_BREAK of the client. handle_oplock_acknowledgment takes one of the   *)
(* pending breaks of the handle; whatever it answers, the level is entered in  *)
(* the registry and then in the store.                                         *)
Ack(c, h, level) ==
  /\ Ready(c) /\ h \in DOMAIN handles /\ owner[h] = c
  /\ mode.acks = "exact" => h \in asked /\ level = LevelII
  /\ mode.acks = "valid" => h \in asked /\ level \in {LevelII, None}
  /\ told' = told \cup {h} /\ asked' = asked \ {h}
  /\ Become(c, [Idle EXCEPT !.at = "ack", !.handle = h, !.level = level])
  /\ \/ \E p \in pending :
          /\ p.handle = h
          /\ pending' = pending \ {p}
          /\ answer' = [answer EXCEPT ![p.waiter] = IF level \in {LevelII, None} THEN "acknowledged" ELSE "dropped"]
     \/ /\ \A p \in pending : p.handle # h
        /\ UNCHANGED <<pending, answer>>
  /\ UNCHANGED <<oplocks, channel, handles, owner, session, up, mode, granted>>

AckRegistry(c) ==
  /\ At(c, "ack")
  /\ UpdateLevel(op[c].handle, op[c].level)
  /\ Goto(c, "ackstore")
  /\ UNCHANGED <<pending, channel, handles, owner, answer, session, up, mode, granted, asked, told>>

AckStore(c) ==
  /\ At(c, "ackstore")
  /\ handles' = Set(handles, op[c].handle, op[c].level)
  /\ Become(c, Idle)
  /\ UNCHANGED <<oplocks, pending, channel, owner, answer, session, up, mode, granted, asked, told>>

(* CLOSE unregisters the oplock when the stored handle has one.                *)
Close(c, h) ==
  /\ Ready(c) /\ c \in session /\ h \in DOMAIN handles /\ owner[h] = c
  /\ oplocks' = IF handles[h] # None THEN Without(oplocks, {h}) ELSE oplocks
  /\ handles' = Without(handles, {h})
  /\ UNCHANGED <<pending, channel, owner, op, answer, session, up, mode, granted, asked, told>>

Owned(c) == {h \in DOMAIN owner : owner[h] = c}

(* LOGOFF deletes the session with its handles; the oplocks stay registered.   *)
Logoff(c) ==
  /\ mode.logoff /\ Ready(c) /\ c \in session
  /\ session' = session \ {c}
  /\ handles' = Without(handles, Owned(c))
  /\ UNCHANGED <<oplocks, pending, channel, owner, op, answer, up, mode, granted, asked, told>>

(* The end of the connection: unregister_connection_oplocks for the sessions   *)
(* it still has. Its receiver is dropped.                                      *)
Disconnect(c) ==
  /\ Ready(c)
  /\ up' = up \ {c}
  /\ oplocks' = IF c \in session THEN Without(oplocks, Owned(c)) ELSE oplocks
  /\ channel' = [channel EXCEPT ![c] = <<>>]
  /\ UNCHANGED <<pending, handles, owner, op, answer, session, mode, granted, asked, told>>

Step(c) ==
  \/ Nowait(c) \/ Refuse(c) \/ Scan(c) \/ SendBreak(c) \/ Pend(c) \/ Waited(c) \/ Grant(c) \/ CreateHandle(c)
  \/ Respond(c) \/ AckRegistry(c) \/ AckStore(c)
Client(c) ==
  \/ \E level \in mode.levels : Create(c, level)
  \/ \E h \in DOMAIN handles : Close(c, h) \/ \E level \in {None, LevelII, "batch"} : Ack(c, h, level)
  \/ Logoff(c) \/ Disconnect(c)
Next == \E c \in Conns : Step(c) \/ Notify(c) \/ Client(c)

(* Fairness: tokio polls a task that is ready and fires its timers.            *)
Spec == Init /\ [][Next]_vars /\ \A c \in Conns : WF_vars(Step(c)) /\ WF_vars(Notify(c))

---------------------------------------------------------------------------
(* CREATEs come one at a time; clients acknowledge what they are asked to, at  *)
(* a level they may keep, and do not log off.                                  *)
Orderly == mode.serial /\ mode.acks # "any" /\ ~mode.logoff

(* A Batch or Exclusive oplock is then the only oplock registered on the file, *)
(* whatever timeouts, closes and disconnects come between.                     *)
OnlyExclusive == \A h, g \in DOMAIN oplocks : oplocks[h] \in Exclusive /\ g # h => oplocks[g] = None
ExclusiveAlone == Orderly => OnlyExclusive

(* Every entry of pending_oplock_breaks has the connection that waits for it,  *)
(* and a connection that waits without an answer has its entry: none is left   *)
(* behind by an acknowledgement, a timeout or a race of the two.               *)
PendingMatches ==
  /\ \A p \in pending : At(p.waiter, "wait") /\ op[p.waiter].id = p.handle /\ answer[p.waiter] = "none"
  /\ \A c \in Conns : At(c, "wait") /\ answer[c] = "none" =>
                        \E p \in pending : {q \in pending : q.waiter = c} = {p}

(* The server lowers no oplock behind its client's back: when the registered   *)
(* level of a handle is not the one the client was given, a notification is on *)
(* its way or has been sent, or the client has said so itself.                 *)
LoweredIsTold ==
  \A h \in DOMAIN oplocks :
    oplocks[h] # granted[h] => h \in told \/ Closed(h) \/ \E i \in DOMAIN channel[owner[h]] : channel[owner[h]][i].handle = h

(* A handle that has been closed has no oplock left that could hold down later *)
(* opens, while clients acknowledge with the level they are asked to and do    *)
(* not log off.                                                                *)
ClosedUnregistered ==
  mode.acks = "exact" /\ ~mode.logoff => DOMAIN oplocks \subseteq DOMAIN handles

(* Every CREATE and OPLOCK_BREAK is answered, though connections wait for each *)
(* other's clients and for their own, unless a channel of break events is full. *)
RequestsAnswered == \A c \in Conns : ~At(c, "idle") ~> At(c, "idle") \/ \E d \in Conns : Full(d)

(* What the comment in CREATE says the break without waiting avoids: no        *)
(* connection waits for ever for a break that only it could deliver.           *)
NeverStuck == \A c \in Conns : ~At(c, "idle") ~> At(c, "idle")

(* What the comment on unregister_oplock says: CLOSE unregisters the oplock.   *)
NoGhostOplock == DOMAIN oplocks \subseteq DOMAIN handles

(* What the comment in CREATE says: Exclusive and Batch oplocks are granted    *)
(* only when no other opens exist on the file.                                 *)
GrantedWhenAlone ==
  [][\A c \in Conns : At(c, "register") /\ op[c].level \in Exclusive /\ op'[c] = Idle =>
       DOMAIN handles = {op[c].handle}]_vars
==============================================================================
