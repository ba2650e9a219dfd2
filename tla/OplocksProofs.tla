---------------------------- MODULE OplocksProofs ----------------------------
(* Proofs about Oplocks for every set of connections, any number of opens, any *)
(* size of the channels of break events, and whatever clients ask and answer.  *)
EXTENDS Oplocks, TLAPS

Labels == {"idle", "nowait", "break", "pend", "wait", "store", "register", "ack", "ackstore"}
\* Where a connection has a handle that is not registered yet.
Creating == {"nowait", "break", "pend", "wait", "store", "register"}
Made == DOMAIN owner
Event == [handle : Made, ack_required : BOOLEAN]
Request == [at : Labels, level : Levels, todo : SUBSET Made, handle : Made \cup {NoHandle}, id : Made \cup {0}]

\* The variables keep their types, and the handles that were made are 1 .. n.
TypeOK ==
  /\ mode \in Modes
  /\ \E n \in Nat : owner \in [1 .. n -> Conns]
  /\ granted \in [Made -> Levels]
  /\ DOMAIN oplocks \subseteq Made /\ oplocks \in [DOMAIN oplocks -> Levels]
  /\ DOMAIN handles \subseteq Made /\ handles \in [DOMAIN handles -> Levels]
  /\ pending \subseteq [handle : Made, waiter : Conns]
  /\ channel \in [Conns -> Seq(Event)]
  /\ op \in [Conns -> Request]
  /\ answer \in [Conns -> {"none", "acknowledged", "dropped"}]
  /\ session \subseteq Conns /\ up \subseteq Conns
  /\ asked \subseteq Made /\ told \subseteq Made

\* The locals of a request: what it has made is its own and not registered before
\* CREATE answers, what it waits for is one of those it has to break.
LocalsOK(c) ==
  /\ At(c, "idle") => op[c] = Idle
  /\ ~At(c, "idle") => c \in up
  /\ op[c].at \in Creating => op[c].handle \in Made /\ owner[op[c].handle] = c
  /\ op[c].at \in Creating => op[c].handle \notin DOMAIN oplocks
  /\ op[c].at \in {"pend", "wait"} => op[c].id \in op[c].todo
  /\ op[c].at \in {"ack", "ackstore"} => op[c].handle \in Made /\ owner[op[c].handle] = c
LocalsInv == \A c \in Conns : LocalsOK(c)

\* pending_oplock_breaks and the connections that wait, in both directions.
PendingInv ==
  /\ \A p \in pending : At(p.waiter, "wait") /\ op[p.waiter].id = p.handle /\ answer[p.waiter] = "none"
  /\ \A c \in Conns : At(c, "wait") /\ answer[c] = "none" => [handle |-> op[c].id, waiter |-> c] \in pending
  /\ \A c \in Conns : answer[c] # "none" => At(c, "wait")

\* A break event is in the channel of the connection that made the handle.
Routed == \A c \in Conns : \A i \in DOMAIN channel[c] : owner[channel[c][i].handle] = c

\* The client of h has been told of a break, will be, or is gone.
Informed(h) ==
  h \in told \/ Closed(h) \/ \E i \in DOMAIN channel[owner[h]] : channel[owner[h]][i].handle = h

\* The level that is registered was given to the client, or the client is informed;
\* so it is before a level is lowered.
InformedInv ==
  /\ \A h \in DOMAIN oplocks : oplocks[h] # granted[h] => Informed(h)
  /\ \A c \in Conns : /\ op[c].at \in {"pend", "wait"} => Informed(op[c].id)
                      /\ op[c].at = "ack" => op[c].handle \in told

\* An event that asks the client of h for an acknowledgement.
Asks(h, i) == i \in DOMAIN channel[owner[h]] /\ channel[owner[h]][i].handle = h /\ channel[owner[h]][i].ack_required
Awaited(h) == \E c \in Conns : op[c].at \in {"pend", "wait"} /\ op[c].id = h
Acking(h) == \E c \in Conns : At(c, "ack") /\ op[c].handle = h

\* No acknowledgement of h is under way or can still come.
Quiet(h) == (\A i \in Nat : ~Asks(h, i)) /\ h \notin asked /\ ~Acking(h)

\* A client is asked once for each handle; when it has answered None, or has not been
\* asked, no acknowledgement is left that could change the level.
AskedOnce ==
  /\ \A h \in Made : /\ \A i, j \in Nat : Asks(h, i) /\ Asks(h, j) => i = j
                     /\ (\E i \in Nat : Asks(h, i)) => h \notin asked /\ ~Acking(h)
                     /\ h \in asked => ~Acking(h)
  /\ \A h \in DOMAIN oplocks : oplocks[h] = None => Quiet(h)
  /\ \A h \in DOMAIN oplocks : oplocks[h] \in Exclusive /\ ~Awaited(h) => Quiet(h)
  /\ \A c \in Conns : op[c].at \in Creating => Quiet(op[c].handle)

NoneExclusive(S) == \A h \in S : oplocks[h] \notin Exclusive

\* What the CREATE of c relies on from the moment it has read the table of oplocks.
Alone(c) ==
  /\ op[c].at \in {"nowait", "break", "pend", "wait"} => \A g \in op[c].todo : NoneExclusive(DOMAIN oplocks \ {g})
  /\ op[c].at \in {"break", "pend", "wait"} => NoneExclusive(DOMAIN oplocks \ op[c].todo)
  /\ op[c].at \in {"store", "register"} /\ op[c].level # None => NoneExclusive(DOMAIN oplocks)
  /\ op[c].at \in {"store", "register"} /\ op[c].level \in Exclusive => \A h \in DOMAIN oplocks : oplocks[h] = None
AloneInv ==
  /\ \A c, d \in Conns : op[c].at \in Creating /\ op[d].at \in Creating => c = d
  /\ session = Conns /\ \A h \in DOMAIN oplocks : owner[h] \in up
  /\ \A c \in Conns : At(c, "ack") => op[c].level \in {LevelII, None}
  /\ \A c \in Conns : Alone(c)

OrderlyInv == Orderly => AskedOnce /\ AloneInv /\ ExclusiveAlone

------------------------------------------------------------------------------
(* Partial functions *)

\* What Set and Without do to a partial function.
LEMMA SetIs ==
  ASSUME NEW f, NEW x, NEW v
  PROVE  /\ DOMAIN Set(f, x, v) = DOMAIN f \cup {x}
         /\ Set(f, x, v)[x] = v
         /\ \A y \in DOMAIN f : y # x => Set(f, x, v)[y] = f[y]
         /\ \A T : v \in T /\ f \in [DOMAIN f -> T] => Set(f, x, v) \in [DOMAIN f \cup {x} -> T]
BY ZenonT(60) DEF Set

LEMMA WithoutIs ==
  ASSUME NEW f, NEW S
  PROVE  /\ DOMAIN Without(f, S) = DOMAIN f \ S
         /\ \A y \in DOMAIN f \ S : Without(f, S)[y] = f[y]
         /\ \A T : f \in [DOMAIN f -> T] => Without(f, S) \in [DOMAIN f \ S -> T]
BY Zenon DEF Without

\* Sequences of T stay so.
LEMMA SeqIs ==
  ASSUME NEW T
  PROVE  /\ <<>> \in Seq(T)
         /\ \A q \in Seq(T), x \in T : Append(q, x) \in Seq(T)
         /\ \A q \in Seq(T) : q # <<>> => Head(q) \in T /\ Tail(q) \in Seq(T)
BY SMTT(30)

\* update_oplock_level enters and removes nothing, and changes no other handle.
LEMMA UpdateIs ==
  ASSUME NEW h, NEW l, UpdateLevel(h, l)
  PROVE  /\ DOMAIN oplocks' = DOMAIN oplocks
         /\ h \in DOMAIN oplocks => oplocks'[h] = l
         /\ \A g \in DOMAIN oplocks : g # h => oplocks'[g] = oplocks[g]
         /\ \A T : l \in T /\ oplocks \in [DOMAIN oplocks -> T] => oplocks' \in [DOMAIN oplocks -> T]
<1>1. CASE h \in DOMAIN oplocks
  <2>1. oplocks' = Set(oplocks, h, l) /\ DOMAIN oplocks \cup {h} = DOMAIN oplocks
    BY Zenon, <1>1 DEF UpdateLevel
  <2>2. DOMAIN oplocks' = DOMAIN oplocks
    BY Zenon, <2>1, SetIs
  <2>3. oplocks'[h] = l /\ \A g \in DOMAIN oplocks : g # h => oplocks'[g] = oplocks[g]
    BY Zenon, <2>1 DEF Set
  <2>4. \A T : l \in T /\ oplocks \in [DOMAIN oplocks -> T] => oplocks' \in [DOMAIN oplocks -> T]
    BY Zenon, <2>1, SetIs
  <2> QED BY Zenon, <2>2, <2>3, <2>4
<1>2. CASE h \notin DOMAIN oplocks
  BY Zenon, <1>2 DEF UpdateLevel
<1> QED BY Zenon, <1>1, <1>2

------------------------------------------------------------------------------
(* Types *)

\* The id of the next handle has not been given out.
LEMMA FreshIs ==
  ASSUME TypeOK
  PROVE  /\ Fresh \in Nat \ {0} /\ Fresh \notin Made
         /\ Made \subseteq Nat \ {0} /\ Made \cup {Fresh} = 1 .. Fresh
<1>1. PICK n \in Nat : owner \in [1 .. n -> Conns]
  BY Zenon DEF TypeOK
<1>2. Made = 1 .. n
  BY Zenon, <1>1 DEF Made
<1>3. Len(owner) = n
  BY SMTT(30), <1>1
<1>4. Fresh = n + 1
  BY Zenon, <1>3 DEF Fresh
<1> QED BY SMTT(30), <1>2, <1>4

\* The locals a request goes on with are locals, and have the fields that were set.
LEMMA RequestIs ==
  ASSUME NEW r \in Request
  PROVE  /\ \A l \in Labels :
              LET x == [r EXCEPT !.at = l]
              IN  x \in Request /\ x.at = l /\ x.level = r.level /\ x.todo = r.todo /\ x.handle = r.handle /\ x.id = r.id
         /\ \A t \in SUBSET Made :
              LET x == [r EXCEPT !.todo = t]
              IN  x \in Request /\ x.at = r.at /\ x.level = r.level /\ x.todo = t /\ x.handle = r.handle /\ x.id = r.id
         /\ \A l \in Labels, t \in SUBSET Made :
              LET x == [r EXCEPT !.at = l, !.todo = t]
              IN  x \in Request /\ x.at = l /\ x.level = r.level /\ x.todo = t /\ x.handle = r.handle /\ x.id = r.id
         /\ \A l \in Labels, i \in Made :
              LET x == [r EXCEPT !.at = l, !.id = i]
              IN  x \in Request /\ x.at = l /\ x.level = r.level /\ x.todo = r.todo /\ x.handle = r.handle /\ x.id = i
         /\ \A l \in Labels, v \in Levels :
              LET x == [r EXCEPT !.at = l, !.level = v]
              IN  x \in Request /\ x.at = l /\ x.level = v /\ x.todo = r.todo /\ x.handle = r.handle /\ x.id = r.id
BY ZenonT(60) DEF Request

\* The locals of a connection at rest and of an acknowledgement.
LEMMA IdleIs ==
  /\ Idle \in Request /\ Idle.at = "idle" /\ Idle.todo = {}
  /\ \A v \in Levels, h \in Made :
       LET x == [Idle EXCEPT !.at = "ack", !.handle = h, !.level = v]
       IN  x \in Request /\ x.at = "ack" /\ x.level = v /\ x.todo = {} /\ x.handle = h
BY ZenonT(60) DEF Idle, Request, Labels, Levels

\* What the two breaks do to one handle of their list.
LEMMA NowaitIs ==
  ASSUME NEW c \in Conns, Nowait(c)
  PROVE  /\ At(c, "nowait")
         /\ UNCHANGED <<pending, handles, owner, answer, session, up, mode, granted, asked, told>>
         /\ \E h \in op[c].todo :
              /\ op' = [op EXCEPT ![c] = [op[c] EXCEPT !.todo = op[c].todo \ {h}]]
              /\ \/ UNCHANGED <<channel, oplocks>>
                 \/ h \in DOMAIN oplocks /\ ~Closed(h) /\ Push(h) /\ UpdateLevel(h, LevelII)
BY Zenon DEF Nowait, Become

LEMMA SendBreakIs ==
  ASSUME NEW c \in Conns, SendBreak(c)
  PROVE  /\ At(c, "break")
         /\ UNCHANGED <<pending, handles, owner, answer, session, up, mode, granted, asked, told>>
         /\ \E h \in op[c].todo :
              \/ /\ h \notin DOMAIN oplocks \/ Closed(h)
                 /\ op' = [op EXCEPT ![c] = [op[c] EXCEPT !.at = "break", !.todo = op[c].todo \ {h}]]
                 /\ UNCHANGED <<channel, oplocks>>
              \/ /\ h \in DOMAIN oplocks /\ ~Closed(h) /\ Push(h) /\ oplocks[h] \in Exclusive
                 /\ op' = [op EXCEPT ![c] = [op[c] EXCEPT !.at = "pend", !.id = h]]
                 /\ UNCHANGED oplocks
              \/ /\ h \in DOMAIN oplocks /\ ~Closed(h) /\ Push(h) /\ oplocks[h] \notin Exclusive
                 /\ op' = [op EXCEPT ![c] = [op[c] EXCEPT !.at = "break", !.todo = op[c].todo \ {h}]]
                 /\ UpdateLevel(h, LevelII)
BY Zenon DEF SendBreak, Become, Done

\* Every step keeps the types.
LEMMA TypeStep ==
  ASSUME TypeOK, LocalsInv, [Next]_vars
  PROVE  TypeOK'
<1> USE DEF Become, Goto, Done, At, Ready
<1>a. UNCHANGED owner => Made' = Made /\ Event' = Event /\ Request' = Request
  BY Zenon DEF Made, Event, Request
<1>b. {None, LevelII, "batch"} \subseteq Levels
  BY Zenon DEF Levels, None, LevelII, Exclusive
<1>c. ASSUME NEW c \in Conns, UNCHANGED owner, NEW new \in Request, op' = [op EXCEPT ![c] = new]
      PROVE  op' \in [Conns -> Request]
  BY Zenon, <1>c DEF TypeOK
<1>d. ASSUME NEW h \in DOMAIN oplocks, Push(h)
      PROVE  channel' \in [Conns -> Seq(Event)]
  <2>1. [handle |-> h, ack_required |-> oplocks[h] \in Exclusive] \in Event
    BY SMTT(30) DEF TypeOK, Event
  <2>2. \A q \in Seq(Event) : Append(q, [handle |-> h, ack_required |-> oplocks[h] \in Exclusive]) \in Seq(Event)
    BY Zenon, <2>1, SeqIs
  <2> QED BY Zenon, <1>d, <2>2 DEF Push, TypeOK
<1>e. ASSUME NEW h, NEW l \in Levels, UpdateLevel(h, l)
      PROVE  DOMAIN oplocks' \subseteq Made /\ oplocks' \in [DOMAIN oplocks' -> Levels]
  <2>1. oplocks \in [DOMAIN oplocks -> Levels] /\ DOMAIN oplocks \subseteq Made
    BY Zenon DEF TypeOK
  <2>2. oplocks' \in [DOMAIN oplocks -> Levels] /\ DOMAIN oplocks' = DOMAIN oplocks
    BY Zenon, <1>e, <2>1, UpdateIs
  <2> QED BY Zenon, <2>1, <2>2
<1>f. ASSUME NEW c \in Conns
      PROVE  /\ op[c] \in Request /\ op[c].at \in Labels /\ op[c].level \in Levels /\ op[c].todo \in SUBSET Made
             /\ \A h : op[c].todo \ {h} \in SUBSET Made
  BY Zenon DEF TypeOK, Request
<1>1. CASE UNCHANGED vars
  BY Zenon, <1>1, <1>a DEF TypeOK, vars
<1>2. ASSUME NEW c \in Conns, NEW l \in mode.levels, Create(c, l) PROVE TypeOK'
  <2>1. PICK n \in Nat : owner \in [1 .. n -> Conns]
    BY Zenon DEF TypeOK
  <2>2. /\ owner' \in [Made \cup {Fresh} -> Conns] /\ Made' = Made \cup {Fresh}
        /\ granted' \in [Made \cup {Fresh} -> Levels]
    <3>1. owner \in [Made -> Conns] /\ granted \in [Made -> Levels] /\ DOMAIN owner = Made /\ DOMAIN granted = Made
      BY Zenon, <2>1 DEF Made, TypeOK
    <3>2. owner' = Set(owner, Fresh, c) /\ granted' = Set(granted, Fresh, None)
      BY Zenon, <1>2 DEF Create
    <3> QED BY Zenon, <3>1, <3>2, <1>b, SetIs DEF Made
  <2>3. owner' \in [1 .. Fresh -> Conns] /\ Fresh \in Nat
    BY Zenon, <2>2, FreshIs
  <2>4. Event \subseteq Event' /\ Request \subseteq Request'
    BY Zenon, <2>2 DEF Event, Request
  <2>5. channel' \in [Conns -> Seq(Event')]
    <3>1. \A d \in Conns : channel[d] \in Seq(Event')
      BY SMTT(30), <2>4 DEF TypeOK
    <3> QED BY Zenon, <1>2, <3>1 DEF Create, TypeOK
  <2>6. op' \in [Conns -> Request']
    <3> DEFINE new == [at |-> "nowait", level |-> l, handle |-> Fresh, id |-> 0,
                       todo |-> {g \in DOMAIN oplocks : owner[g] # c /\ oplocks[g] = "batch"}]
    <3>1. l \in Levels
      BY Zenon, OplockModes DEF TypeOK
    <3>2. new \in Request'
      BY Zenon, <2>2, <3>1 DEF Request, Labels, TypeOK
    <3>3. op' = [op EXCEPT ![c] = new]
      BY Zenon, <1>2 DEF Create
    <3> HIDE DEF new
    <3> QED BY Zenon, <2>4, <3>2, <3>3 DEF TypeOK
  <2>7. pending' \subseteq [handle : Made', waiter : Conns]
    BY Zenon, <1>2, <2>2 DEF Create, TypeOK
  <2>8. UNCHANGED <<oplocks, handles, answer, session, up, mode, asked, told>>
    BY Zenon, <1>2 DEF Create
  <2>9. DOMAIN oplocks' \subseteq Made' /\ DOMAIN handles' \subseteq Made' /\ asked' \subseteq Made' /\ told' \subseteq Made'
    BY Zenon, <2>2, <2>8 DEF TypeOK
  <2> QED BY Zenon, <2>2, <2>3, <2>5, <2>6, <2>7, <2>8, <2>9 DEF TypeOK
<1>3. ASSUME NEW c \in Conns, Nowait(c) PROVE TypeOK'
  <2>1. PICK h \in op[c].todo :
          /\ op' = [op EXCEPT ![c] = [op[c] EXCEPT !.todo = op[c].todo \ {h}]]
          /\ \/ UNCHANGED <<channel, oplocks>>
             \/ h \in DOMAIN oplocks /\ Push(h) /\ UpdateLevel(h, LevelII)
    BY Zenon, <1>3, NowaitIs
  <2>0. UNCHANGED <<pending, handles, owner, answer, session, up, mode, granted, asked, told>>
    BY Zenon, <1>3, NowaitIs
  <2>2. op' \in [Conns -> Request]
    BY ZenonT(60), <2>0, <2>1, <1>c, <1>f, RequestIs
  <2>3. CASE UNCHANGED <<channel, oplocks>>
    BY Zenon, <2>0, <2>2, <2>3, <1>a DEF TypeOK
  <2>4. CASE h \in DOMAIN oplocks /\ Push(h) /\ UpdateLevel(h, LevelII)
    BY Zenon, <2>0, <2>2, <2>4, <1>a, <1>b, <1>d, <1>e DEF TypeOK
  <2> QED BY Zenon, <2>1, <2>3, <2>4
<1>4. ASSUME NEW c \in Conns, Refuse(c) PROVE TypeOK'
  <2>1. op' \in [Conns -> Request]
    BY Zenon, <1>4, <1>c, IdleIs DEF Refuse
  <2> QED BY Zenon, <1>4, <2>1, <1>a DEF Refuse, TypeOK
<1>5. ASSUME NEW c \in Conns, Scan(c) PROVE TypeOK'
  <2>0. "store" \in Labels /\ "break" \in Labels /\ {h \in DOMAIN oplocks : oplocks[h] \in Exclusive} \in SUBSET Made
    BY Zenon DEF Labels, TypeOK
  <2>1. op' \in [Conns -> Request]
    BY ZenonT(60), <1>5, <2>0, <1>c, <1>f, RequestIs DEF Scan
  <2> QED BY Zenon, <1>5, <2>1, <1>a DEF Scan, TypeOK
<1>6. ASSUME NEW c \in Conns, SendBreak(c) PROVE TypeOK'
  <2>0. UNCHANGED <<pending, handles, owner, answer, session, up, mode, granted, asked, told>>
    BY Zenon, <1>6, SendBreakIs
  <2>1. PICK h \in op[c].todo :
          /\ \/ op' = [op EXCEPT ![c] = [op[c] EXCEPT !.at = "break", !.todo = op[c].todo \ {h}]]
             \/ op' = [op EXCEPT ![c] = [op[c] EXCEPT !.at = "pend", !.id = h]]
          /\ \/ UNCHANGED <<channel, oplocks>>
             \/ h \in DOMAIN oplocks /\ Push(h) /\ (UNCHANGED oplocks \/ UpdateLevel(h, LevelII))
    BY Zenon, <1>6, SendBreakIs
  <2>2. "break" \in Labels /\ "pend" \in Labels /\ h \in Made
    BY Zenon, <1>f DEF Labels
  <2>3. op' \in [Conns -> Request]
    BY Zenon, <2>0, <2>1, <2>2, <1>c, <1>f, RequestIs
  <2>4. CASE UNCHANGED <<channel, oplocks>>
    BY Zenon, <2>0, <2>3, <2>4, <1>a DEF TypeOK
  <2>5. CASE h \in DOMAIN oplocks /\ Push(h) /\ (UNCHANGED oplocks \/ UpdateLevel(h, LevelII))
    BY Zenon, <2>0, <2>3, <2>5, <1>a, <1>b, <1>d, <1>e DEF TypeOK
  <2> QED BY Zenon, <2>1, <2>4, <2>5
<1>7. ASSUME NEW c \in Conns, Pend(c) PROVE TypeOK'
  <2>1. op[c].id \in Made /\ "wait" \in Labels
    BY Zenon, <1>7, <1>f DEF Pend, LocalsInv, LocalsOK, Labels
  <2>2. op' \in [Conns -> Request]
    BY Zenon, <1>7, <2>1, <1>c, <1>f, RequestIs DEF Pend
  <2>3. pending' \subseteq [handle : Made, waiter : Conns]
    BY SMTT(30), <1>7, <2>1 DEF Pend, TypeOK
  <2> QED BY Zenon, <1>7, <2>2, <2>3, <1>a DEF Pend, TypeOK
<1>8. ASSUME NEW c \in Conns, Waited(c) PROVE TypeOK'
  <2>1. op' \in [Conns -> Request]
    <3>1. "break" \in Labels
      BY Zenon DEF Labels
    <3> QED BY ZenonT(60), <1>8, <3>1, <1>c, <1>f, RequestIs DEF Waited
  <2>2. pending' \subseteq [handle : Made, waiter : Conns]
    BY Zenon, <1>8 DEF Waited, TypeOK
  <2>3. answer' \in [Conns -> {"none", "acknowledged", "dropped"}]
    BY Zenon, <1>8 DEF Waited, TypeOK
  <2> QED BY Zenon, <1>8, <2>1, <2>2, <2>3, <1>a, <1>b, <1>e DEF Waited, TypeOK
<1>9. ASSUME NEW c \in Conns, Grant(c) PROVE TypeOK'
  <2>1. Reduced(op[c].level) \in Levels /\ "store" \in Labels
    BY Zenon, <1>b, <1>f DEF Reduced, Labels
  <2>2. op' \in [Conns -> Request]
    BY ZenonT(60), <1>9, <2>1, <1>c, <1>f, RequestIs DEF Grant
  <2> QED BY Zenon, <1>9, <2>2, <1>a DEF Grant, TypeOK
<1>10. ASSUME NEW c \in Conns, CreateHandle(c) \/ AckStore(c) PROVE TypeOK'
  <2>1. op[c].handle \in Made /\ "register" \in Labels /\ UNCHANGED owner
    BY Zenon, <1>10 DEF CreateHandle, AckStore, LocalsInv, LocalsOK, Labels, Creating
  <2>2. op' \in [Conns -> Request]
    <3>1. CASE CreateHandle(c)
      BY ZenonT(60), <3>1, <2>1, <1>c, <1>f, RequestIs DEF CreateHandle
    <3>2. CASE AckStore(c)
      BY Zenon, <3>2, <1>c, IdleIs DEF AckStore
    <3> QED BY Zenon, <1>10, <3>1, <3>2
  <2>3. handles' = Set(handles, op[c].handle, op[c].level)
    BY Zenon, <1>10 DEF CreateHandle, AckStore
  <2>4. DOMAIN handles' \subseteq Made /\ handles' \in [DOMAIN handles' -> Levels]
    <3>1. handles \in [DOMAIN handles -> Levels] /\ DOMAIN handles \subseteq Made /\ op[c].level \in Levels
      BY Zenon, <1>f DEF TypeOK
    <3>2. DOMAIN handles' = DOMAIN handles \cup {op[c].handle} /\ handles' \in [DOMAIN handles \cup {op[c].handle} -> Levels]
      BY Zenon, <2>3, <3>1 DEF Set
    <3> QED BY Zenon, <2>1, <3>1, <3>2
  <2> QED BY ZenonT(60), <1>10, <2>1, <2>2, <2>4, <1>a DEF CreateHandle, AckStore, TypeOK
<1>11. ASSUME NEW c \in Conns, Respond(c) PROVE TypeOK'
  <2>1. op[c].handle \in Made /\ UNCHANGED owner
    BY Zenon, <1>11 DEF Respond, LocalsInv, LocalsOK, Creating
  <2>2. op' \in [Conns -> Request]
    BY Zenon, <1>11, <2>1, <1>c, IdleIs DEF Respond
  <2>3. granted' \in [Made -> Levels]
    BY Zenon, <1>11, <1>f DEF Respond, TypeOK
  <2>4. CASE UNCHANGED oplocks
    BY Zenon, <1>11, <2>1, <2>2, <2>3, <2>4, <1>a DEF Respond, TypeOK
  <2>5. CASE oplocks' = Set(oplocks, op[c].handle, op[c].level)
    <3>1. DOMAIN oplocks' \subseteq Made /\ oplocks' \in [DOMAIN oplocks' -> Levels]
      <4>1. oplocks \in [DOMAIN oplocks -> Levels] /\ DOMAIN oplocks \subseteq Made /\ op[c].level \in Levels
        BY Zenon, <1>f DEF TypeOK
      <4>2. DOMAIN oplocks' = DOMAIN oplocks \cup {op[c].handle} /\ oplocks' \in [DOMAIN oplocks \cup {op[c].handle} -> Levels]
        BY Zenon, <2>5, <4>1 DEF Set
      <4> QED BY Zenon, <2>1, <4>1, <4>2
    <3> QED BY ZenonT(60), <1>11, <2>1, <2>2, <2>3, <3>1, <1>a DEF Respond, TypeOK
  <2> QED BY Zenon, <1>11, <2>4, <2>5 DEF Respond, Register
<1>12. ASSUME NEW c \in Conns, Notify(c) PROVE TypeOK'
  <2>1. Head(channel[c]) \in Event /\ Tail(channel[c]) \in Seq(Event)
    BY Zenon, <1>12, SeqIs DEF Notify, TypeOK
  <2>2. Head(channel[c]).handle \in Made
    BY Zenon, <2>1 DEF Event
  <2>3. channel' \in [Conns -> Seq(Event)]
    BY Zenon, <1>12, <2>1 DEF Notify, TypeOK
  <2>4. told' \subseteq Made /\ asked' \subseteq Made
    BY Zenon, <1>12, <2>2 DEF Notify, TypeOK
  <2> QED BY Zenon, <1>12, <2>3, <2>4, <1>a DEF Notify, TypeOK
<1>13. ASSUME NEW c \in Conns, NEW h \in DOMAIN handles, NEW l \in {None, LevelII, "batch"}, Ack(c, h, l)
       PROVE  TypeOK'
  <2>1. h \in Made /\ l \in Levels
    BY Zenon, <1>b DEF TypeOK
  <2>2. op' \in [Conns -> Request]
    BY Zenon, <1>13, <2>1, <1>c, IdleIs DEF Ack
  <2>3. told' \subseteq Made /\ asked' \subseteq Made
    BY Zenon, <1>13, <2>1 DEF Ack, TypeOK
  <2>4. pending' \subseteq pending /\ answer' \in [Conns -> {"none", "acknowledged", "dropped"}]
    <3>1. CASE \E p \in pending : /\ pending' = pending \ {p}
                                  /\ \E x \in {"acknowledged", "dropped"} : answer' = [answer EXCEPT ![p.waiter] = x]
      BY SMTT(30), <3>1 DEF TypeOK
    <3>2. CASE UNCHANGED <<pending, answer>>
      BY Zenon, <3>2 DEF TypeOK
    <3> QED BY Zenon, <1>13, <3>1, <3>2 DEF Ack
  <2> QED BY Zenon, <1>13, <2>2, <2>3, <2>4, <1>a DEF Ack, TypeOK
<1>14. ASSUME NEW c \in Conns, AckRegistry(c) PROVE TypeOK'
  <2>1. op' \in [Conns -> Request]
    <3>1. "ackstore" \in Labels
      BY Zenon DEF Labels
    <3> QED BY ZenonT(60), <1>14, <3>1, <1>c, <1>f, RequestIs DEF AckRegistry
  <2> QED BY Zenon, <1>14, <2>1, <1>a, <1>e, <1>f DEF AckRegistry, TypeOK
<1>15. ASSUME NEW c \in Conns, (\E h \in DOMAIN handles : Close(c, h)) \/ Logoff(c) \/ Disconnect(c)
       PROVE  TypeOK'
  <2>1. /\ oplocks' = oplocks \/ \E S : oplocks' = Without(oplocks, S)
        /\ handles' = handles \/ \E S : handles' = Without(handles, S)
        /\ channel' = channel \/ channel' = [channel EXCEPT ![c] = <<>>]
        /\ UNCHANGED <<pending, owner, op, answer, mode, granted, asked, told>>
        /\ session' \subseteq session /\ up' \subseteq up
    BY Zenon, <1>15 DEF Close, Logoff, Disconnect
  <2>2. DOMAIN oplocks' \subseteq Made /\ oplocks' \in [DOMAIN oplocks' -> Levels]
    <3>1. oplocks \in [DOMAIN oplocks -> Levels] /\ DOMAIN oplocks \subseteq Made
      BY Zenon DEF TypeOK
    <3>2. ASSUME NEW S, oplocks' = Without(oplocks, S)
          PROVE  DOMAIN oplocks' = DOMAIN oplocks \ S /\ oplocks' \in [DOMAIN oplocks \ S -> Levels]
      BY Zenon, <3>1, <3>2, WithoutIs
    <3> QED BY Zenon, <2>1, <3>1, <3>2
  <2>3. DOMAIN handles' \subseteq Made /\ handles' \in [DOMAIN handles' -> Levels]
    <3>1. handles \in [DOMAIN handles -> Levels] /\ DOMAIN handles \subseteq Made
      BY Zenon DEF TypeOK
    <3>2. ASSUME NEW S, handles' = Without(handles, S)
          PROVE  DOMAIN handles' = DOMAIN handles \ S /\ handles' \in [DOMAIN handles \ S -> Levels]
      BY Zenon, <3>1, <3>2, WithoutIs
    <3> QED BY Zenon, <2>1, <3>1, <3>2
  <2>4. channel' \in [Conns -> Seq(Event)]
    <3>1. <<>> \in Seq(Event)
      BY Zenon, SeqIs
    <3> QED BY ZenonT(60), <2>1, <3>1 DEF TypeOK
  <2> QED BY Zenon, <2>1, <2>2, <2>3, <2>4, <1>a DEF TypeOK
<1> QED
  BY Zenon, <1>1, <1>2, <1>3, <1>4, <1>5, <1>6, <1>7, <1>8, <1>9, <1>10, <1>11, <1>12, <1>13, <1>14, <1>15
     DEF Next, Step, Client

\* Every step keeps what requests rely on.
LEMMA LocalsStep ==
  ASSUME TypeOK, LocalsInv, [Next]_vars
  PROVE  LocalsInv'
<1> USE DEF Become, Goto, Done, At, Ready
<1>a. ASSUME NEW c \in Conns
      PROVE  op[c] \in Request /\ op[c].at \in Labels /\ op[c].level \in Levels /\ op[c].todo \in SUBSET Made
  BY Zenon DEF TypeOK, Request
<1>b. ASSUME NEW c \in Conns, NEW new, op' = [op EXCEPT ![c] = new]
      PROVE  op'[c] = new /\ \A d \in Conns : d # c => op'[d] = op[d]
  BY Zenon, <1>b DEF TypeOK
<1>c. ASSUME NEW c \in Conns, \A d \in Conns : d # c => op'[d] = op[d] /\ (d \in up => d \in up'),
             UNCHANGED owner, \A h \in DOMAIN oplocks' : h \in DOMAIN oplocks \/ owner[h] = c, LocalsOK(c)'
      PROVE  LocalsInv'
  <2> SUFFICES ASSUME NEW d \in Conns, d # c PROVE LocalsOK(d)'
    BY Zenon, <1>c DEF LocalsInv
  <2>1. LocalsOK(d) /\ op'[d] = op[d] /\ Made' = Made
    BY Zenon, <1>c DEF LocalsInv, Made
  <2> QED BY Zenon, <1>c, <2>1 DEF LocalsOK
<1>l. /\ "nowait" \in Labels /\ "break" \in Labels /\ "pend" \in Labels /\ "wait" \in Labels
      /\ "store" \in Labels /\ "register" \in Labels /\ "ack" \in Labels /\ "ackstore" \in Labels
  BY Zenon DEF Labels
<1>1. CASE UNCHANGED vars
  BY Zenon, <1>1 DEF LocalsInv, LocalsOK, Made, vars
<1>2. ASSUME NEW c \in Conns, NEW l \in mode.levels, Create(c, l) PROVE LocalsInv'
  <2> DEFINE new == [at |-> "nowait", level |-> l, handle |-> Fresh, id |-> 0,
                     todo |-> {g \in DOMAIN oplocks : owner[g] # c /\ oplocks[g] = "batch"}]
  <2>1. op' = [op EXCEPT ![c] = new] /\ c \in up /\ UNCHANGED <<oplocks, up>> /\ owner' = Set(owner, Fresh, c)
    BY Zenon, <1>2 DEF Create
  <2>2. op'[c] = new /\ \A d \in Conns : d # c => op'[d] = op[d]
    BY Zenon, <1>b, <2>1
  <2>3. /\ Made' = Made \cup {Fresh} /\ owner'[Fresh] = c
        /\ \A h \in Made : owner'[h] = owner[h]
    BY Zenon, <2>1, FreshIs DEF Made, Set
  <2>4. Fresh \notin DOMAIN oplocks
    BY Zenon, FreshIs DEF TypeOK
  <2>5. LocalsOK(c)'
    BY SMTT(30), <2>1, <2>2, <2>3, <2>4 DEF LocalsOK
  <2>6. ASSUME NEW d \in Conns, d # c PROVE LocalsOK(d)'
    BY SMTT(30), <2>1, <2>2, <2>3, <2>6 DEF LocalsOK, LocalsInv
  <2> QED BY Zenon, <2>5, <2>6 DEF LocalsInv
<1>3. ASSUME NEW c \in Conns, Nowait(c) PROVE LocalsInv'
  <2>1. PICK h \in op[c].todo :
          /\ op' = [op EXCEPT ![c] = [op[c] EXCEPT !.todo = op[c].todo \ {h}]]
          /\ DOMAIN oplocks' = DOMAIN oplocks
    BY Zenon, <1>3, NowaitIs, UpdateIs
  <2>2. op[c].at = "nowait" /\ UNCHANGED <<owner, up>>
    BY Zenon, <1>3, NowaitIs
  <2>4. op'[c].at = "nowait" /\ op'[c].handle = op[c].handle /\ \A d \in Conns : d # c => op'[d] = op[d]
    <3>1. op'[c] = [op[c] EXCEPT !.todo = op[c].todo \ {h}] /\ \A d \in Conns : d # c => op'[d] = op[d]
      BY Zenon, <2>1, <1>b
    <3> QED BY Zenon, <2>2, <3>1, <1>a DEF Request
  <2>5. LocalsOK(c)'
    BY Zenon, <2>1, <2>2, <2>4 DEF LocalsOK, LocalsInv, Creating, Made
  <2> QED BY Zenon, <1>c, <2>1, <2>2, <2>4, <2>5
<1>4. ASSUME NEW c \in Conns, Refuse(c) \/ AckStore(c) PROVE LocalsInv'
  <2>1. op' = [op EXCEPT ![c] = Idle] /\ UNCHANGED <<oplocks, owner, up>>
    BY Zenon, <1>4 DEF Refuse, AckStore
  <2>2. op'[c] = Idle /\ \A d \in Conns : d # c => op'[d] = op[d]
    BY Zenon, <2>1, <1>b
  <2>3. LocalsOK(c)'
    BY Zenon, <2>1, <2>2, IdleIs DEF LocalsOK, Creating
  <2> QED BY Zenon, <1>c, <2>1, <2>2, <2>3
<1>5. ASSUME NEW c \in Conns, Scan(c) PROVE LocalsInv'
  <2>1. op[c].at = "nowait" /\ UNCHANGED <<oplocks, owner, up>>
    BY Zenon, <1>5 DEF Scan
  <2>2. op'[c].at \in {"store", "break"} /\ op'[c].handle = op[c].handle /\ \A d \in Conns : d # c => op'[d] = op[d]
    <3>1. CASE op[c].level = None
      <4>1. op'[c] = [op[c] EXCEPT !.at = "store"] /\ \A d \in Conns : d # c => op'[d] = op[d]
        BY Zenon, <1>5, <3>1, <1>b DEF Scan
      <4> QED BY Zenon, <4>1, <1>a DEF Request
    <3>2. CASE op[c].level # None
      <4>1. PICK t : op'[c] = [op[c] EXCEPT !.at = "break", !.todo = t] /\ \A d \in Conns : d # c => op'[d] = op[d]
        BY ZenonT(60), <1>5, <3>2, <1>b DEF Scan
      <4> QED BY Zenon, <4>1, <1>a DEF Request
    <3> QED BY Zenon, <3>1, <3>2
  <2>3. LocalsOK(c)'
    BY Zenon, <2>1, <2>2 DEF LocalsOK, LocalsInv, Creating, Made
  <2> QED BY Zenon, <1>c, <2>1, <2>2, <2>3
<1>6. ASSUME NEW c \in Conns, SendBreak(c) PROVE LocalsInv'
  <2>1. PICK h \in op[c].todo :
          /\ \/ op' = [op EXCEPT ![c] = [op[c] EXCEPT !.at = "break", !.todo = op[c].todo \ {h}]]
             \/ op' = [op EXCEPT ![c] = [op[c] EXCEPT !.at = "pend", !.id = h]]
          /\ DOMAIN oplocks' = DOMAIN oplocks
    BY Zenon, <1>6, SendBreakIs, UpdateIs
  <2>2. op[c].at = "break" /\ UNCHANGED <<owner, up>>
    BY Zenon, <1>6, SendBreakIs
  <2>4. /\ op'[c].at = "break" \/ (op'[c].at = "pend" /\ op'[c].id \in op'[c].todo)
        /\ op'[c].handle = op[c].handle /\ \A d \in Conns : d # c => op'[d] = op[d]
    <3>1. \/ op'[c] = [op[c] EXCEPT !.at = "break", !.todo = op[c].todo \ {h}]
          \/ op'[c] = [op[c] EXCEPT !.at = "pend", !.id = h]
      BY Zenon, <2>1, <1>b
    <3>2. \A d \in Conns : d # c => op'[d] = op[d]
      BY Zenon, <2>1, <1>b
    <3> QED BY Zenon, <3>1, <3>2, <1>a DEF Request
  <2>5. LocalsOK(c)'
    BY Zenon, <2>1, <2>2, <2>4 DEF LocalsOK, LocalsInv, Creating, Made
  <2> QED BY Zenon, <1>c, <2>1, <2>2, <2>4, <2>5
<1>7. ASSUME NEW c \in Conns, Pend(c) \/ CreateHandle(c) \/ AckRegistry(c) PROVE LocalsInv'
  <2> DEFINE Follows(l) == \/ op[c].at = "pend" /\ l = "wait"
                           \/ op[c].at = "store" /\ l = "register"
                           \/ op[c].at = "ack" /\ l = "ackstore"
  <2>1. /\ UNCHANGED <<owner, up>> /\ DOMAIN oplocks' = DOMAIN oplocks
        /\ \E l \in Labels : /\ Follows(l)
                             /\ op' = [op EXCEPT ![c] = [op[c] EXCEPT !.at = l]]
    <3>1. CASE Pend(c)
      BY Zenon, <3>1, <1>l DEF Pend
    <3>2. CASE CreateHandle(c)
      BY Zenon, <3>2, <1>l DEF CreateHandle
    <3>3. CASE AckRegistry(c)
      BY Zenon, <3>3, <1>l, UpdateIs DEF AckRegistry
    <3> QED BY Zenon, <1>7, <3>1, <3>2, <3>3
  <2>2. PICK l \in Labels : /\ Follows(l)
                            /\ op'[c] = [op[c] EXCEPT !.at = l]
                            /\ \A d \in Conns : d # c => op'[d] = op[d]
    BY Zenon, <2>1, <1>b
  <2>3. op'[c].at = l /\ op'[c].handle = op[c].handle /\ op'[c].id = op[c].id /\ op'[c].todo = op[c].todo
    BY Zenon, <2>2, <1>a DEF Request
  <2>4. LocalsOK(c)'
    BY ZenonT(60), <2>1, <2>2, <2>3 DEF LocalsOK, LocalsInv, Creating, Made
  <2> QED BY Zenon, <1>c, <2>1, <2>2, <2>4
<1>8. ASSUME NEW c \in Conns, Waited(c) \/ Grant(c) PROVE LocalsInv'
  <2>1. /\ UNCHANGED <<owner, up>> /\ DOMAIN oplocks' = DOMAIN oplocks /\ op[c].at \in {"wait", "break"}
        /\ \/ op' = [op EXCEPT ![c] = [op[c] EXCEPT !.at = "break", !.todo = op[c].todo \ {op[c].id}]]
           \/ op' = [op EXCEPT ![c] = [op[c] EXCEPT !.at = "store", !.level = Reduced(op[c].level)]]
    BY Zenon, <1>8, UpdateIs DEF Waited, Grant
  <2>3. op'[c].at \in {"break", "store"} /\ op'[c].handle = op[c].handle /\ \A d \in Conns : d # c => op'[d] = op[d]
    <3>1. \/ op'[c] = [op[c] EXCEPT !.at = "break", !.todo = op[c].todo \ {op[c].id}]
          \/ op'[c] = [op[c] EXCEPT !.at = "store", !.level = Reduced(op[c].level)]
      BY Zenon, <2>1, <1>b
    <3>2. \A d \in Conns : d # c => op'[d] = op[d]
      BY Zenon, <2>1, <1>b
    <3> QED BY Zenon, <3>1, <3>2, <1>a DEF Request
  <2>4. LocalsOK(c)'
    BY Zenon, <2>1, <2>3 DEF LocalsOK, LocalsInv, Creating, Made
  <2> QED BY Zenon, <1>c, <2>1, <2>3, <2>4
<1>9. ASSUME NEW c \in Conns, Respond(c) PROVE LocalsInv'
  <2>1. op' = [op EXCEPT ![c] = Idle] /\ UNCHANGED <<owner, up>> /\ owner[op[c].handle] = c
    BY Zenon, <1>9 DEF Respond, LocalsOK, LocalsInv, Creating
  <2>2. op'[c] = Idle /\ \A d \in Conns : d # c => op'[d] = op[d]
    BY Zenon, <2>1, <1>b
  <2>3. DOMAIN oplocks' \subseteq DOMAIN oplocks \cup {op[c].handle}
    BY Zenon, <1>9 DEF Respond, Register, Set
  <2>4. LocalsOK(c)'
    BY Zenon, <2>1, <2>2, IdleIs DEF LocalsOK, Creating
  <2> QED BY Zenon, <1>c, <2>1, <2>2, <2>3, <2>4
<1>10. ASSUME NEW c \in Conns, Notify(c) PROVE LocalsInv'
  BY Zenon, <1>10 DEF Notify, LocalsInv, LocalsOK, Made
<1>11. ASSUME NEW c \in Conns, NEW h \in DOMAIN handles, NEW l \in {None, LevelII, "batch"}, Ack(c, h, l)
       PROVE  LocalsInv'
  <2>0. h \in Made /\ l \in Levels
    BY Zenon DEF TypeOK, Levels, Exclusive
  <2>1. /\ op' = [op EXCEPT ![c] = [Idle EXCEPT !.at = "ack", !.handle = h, !.level = l]]
        /\ UNCHANGED <<oplocks, owner, up>> /\ c \in up /\ owner[h] = c
    BY Zenon, <1>11 DEF Ack
  <2>2. op'[c].at = "ack" /\ op'[c].handle = h /\ \A d \in Conns : d # c => op'[d] = op[d]
    <3>1. op'[c] = [Idle EXCEPT !.at = "ack", !.handle = h, !.level = l] /\ \A d \in Conns : d # c => op'[d] = op[d]
      BY Zenon, <2>1, <1>b
    <3> QED BY Zenon, <3>1 DEF Idle
  <2>3. LocalsOK(c)'
    BY Zenon, <2>0, <2>1, <2>2 DEF LocalsOK, Creating, Made
  <2> QED BY Zenon, <1>c, <2>1, <2>2, <2>3
<1>12. ASSUME NEW c \in Conns, (\E h \in DOMAIN handles : Close(c, h)) \/ Logoff(c) \/ Disconnect(c)
       PROVE  LocalsInv'
  <2>1. /\ op[c] = Idle /\ UNCHANGED <<op, owner>> /\ \A d \in up : d = c \/ d \in up'
        /\ oplocks' = oplocks \/ \E S : oplocks' = Without(oplocks, S)
    BY Zenon, <1>12 DEF Close, Logoff, Disconnect
  <2>2. DOMAIN oplocks' \subseteq DOMAIN oplocks
    BY ZenonT(60), <2>1 DEF Without
  <2>3. LocalsOK(c)'
    BY Zenon, <2>1, IdleIs DEF LocalsOK, Creating
  <2> QED BY Zenon, <1>c, <2>1, <2>2, <2>3
<1> QED
  BY Zenon, <1>1, <1>2, <1>3, <1>4, <1>5, <1>6, <1>7, <1>8, <1>9, <1>10, <1>11, <1>12 DEF Next, Step, Client

------------------------------------------------------------------------------
(* What the steps do to the requests *)

\* The other connections stay where they are.
Others(c) == \A d \in Conns : d # c => op'[d] = op[d]
\* The request is the one it was, with its level.
Same(c) == op'[c].handle = op[c].handle /\ op'[c].level = op[c].level

\* A step of c changes the request of c only.
LEMMA OtherRequests ==
  ASSUME TypeOK, NEW c \in Conns, NEW new, op' = [op EXCEPT ![c] = new]
  PROVE  op'[c] = new /\ Others(c)
BY Zenon DEF TypeOK, Others

\* The steps that end a request, and those that only go on with it.
LEMMA EndIs ==
  ASSUME TypeOK, NEW c \in Conns, Refuse(c) \/ AckStore(c) \/ Respond(c)
  PROVE  Others(c) /\ op'[c].at = "idle"
<1>1. op' = [op EXCEPT ![c] = Idle]
  BY Zenon DEF Refuse, AckStore, Respond, Become
<1>2. op'[c] = Idle /\ Others(c)
  BY Zenon, <1>1, OtherRequests
<1> QED BY SMTT(30), <1>2 DEF Idle

LEMMA GoOnIs ==
  ASSUME TypeOK, NEW c \in Conns, NEW l, Goto(c, l)
  PROVE  Others(c) /\ Same(c) /\ op'[c].at = l /\ op'[c].id = op[c].id /\ op'[c].todo = op[c].todo
<1>1. op'[c] = [op[c] EXCEPT !.at = l] /\ Others(c) /\ op[c] \in Request
  BY Zenon, OtherRequests DEF Goto, Become, TypeOK
<1> QED BY Zenon, <1>1 DEF Same, Request

\* A break that is done with, or has to be waited for.
LEMMA DoneIs ==
  ASSUME TypeOK, NEW c \in Conns, NEW h
  PROVE  /\ op' = [op EXCEPT ![c] = [op[c] EXCEPT !.todo = op[c].todo \ {h}]] =>
              Others(c) /\ Same(c) /\ op'[c].at = op[c].at /\ op'[c].todo = op[c].todo \ {h}
         /\ op' = [op EXCEPT ![c] = [op[c] EXCEPT !.at = "break", !.todo = op[c].todo \ {h}]] =>
              Others(c) /\ Same(c) /\ op'[c].at = "break" /\ op'[c].todo = op[c].todo \ {h}
         /\ op' = [op EXCEPT ![c] = [op[c] EXCEPT !.at = "pend", !.id = h]] =>
              Others(c) /\ Same(c) /\ op'[c].at = "pend" /\ op'[c].todo = op[c].todo /\ op'[c].id = h
<1>1. op[c] \in Request
  BY Zenon DEF TypeOK
<1>2. ASSUME op' = [op EXCEPT ![c] = [op[c] EXCEPT !.todo = op[c].todo \ {h}]]
      PROVE  Others(c) /\ Same(c) /\ op'[c].at = op[c].at /\ op'[c].todo = op[c].todo \ {h}
  <2>1. op'[c] = [op[c] EXCEPT !.todo = op[c].todo \ {h}] /\ Others(c)
    BY Zenon, <1>2, OtherRequests
  <2> QED BY Zenon, <1>1, <2>1 DEF Same, Request
<1>3. ASSUME op' = [op EXCEPT ![c] = [op[c] EXCEPT !.at = "break", !.todo = op[c].todo \ {h}]]
      PROVE  Others(c) /\ Same(c) /\ op'[c].at = "break" /\ op'[c].todo = op[c].todo \ {h}
  <2>1. op'[c] = [op[c] EXCEPT !.at = "break", !.todo = op[c].todo \ {h}] /\ Others(c)
    BY Zenon, <1>3, OtherRequests
  <2> QED BY Zenon, <1>1, <2>1 DEF Same, Request
<1>4. ASSUME op' = [op EXCEPT ![c] = [op[c] EXCEPT !.at = "pend", !.id = h]]
      PROVE  Others(c) /\ Same(c) /\ op'[c].at = "pend" /\ op'[c].todo = op[c].todo /\ op'[c].id = h
  <2>1. op'[c] = [op[c] EXCEPT !.at = "pend", !.id = h] /\ Others(c)
    BY Zenon, <1>4, OtherRequests
  <2> QED BY Zenon, <1>1, <2>1 DEF Same, Request
<1> QED BY Zenon, <1>2, <1>3, <1>4

\* The steps that decide: what CREATE starts with, breaks and asks for.
LEMMA CreateIs ==
  ASSUME TypeOK, NEW c \in Conns, NEW l, Create(c, l)
  PROVE  /\ Others(c) /\ op'[c].at = "nowait" /\ op'[c].level = l /\ op'[c].handle = Fresh
         /\ op'[c].todo = {g \in DOMAIN oplocks : owner[g] # c /\ oplocks[g] = "batch"}
         /\ Made' = Made \cup {Fresh} /\ owner'[Fresh] = c /\ \A h \in Made : owner'[h] = owner[h] /\ granted'[h] = granted[h]
<1> DEFINE t == {g \in DOMAIN oplocks : owner[g] # c /\ oplocks[g] = "batch"}
           new == [at |-> "nowait", level |-> l, handle |-> Fresh, id |-> 0, todo |-> t]
<1>1. op' = [op EXCEPT ![c] = new] /\ owner' = Set(owner, Fresh, c) /\ granted' = Set(granted, Fresh, None)
  BY Zenon DEF Create, Become
<1>2. op'[c] = new /\ Others(c)
  BY Zenon, <1>1, OtherRequests
<1>3. DOMAIN granted = Made /\ DOMAIN owner = Made
  BY Zenon DEF TypeOK, Made
<1>4. Made' = Made \cup {Fresh} /\ owner'[Fresh] = c /\ \A h \in Made : owner'[h] = owner[h] /\ granted'[h] = granted[h]
  BY Zenon, <1>1, <1>3, FreshIs DEF Set, Made
<1>5. new.at = "nowait" /\ new.level = l /\ new.handle = Fresh /\ new.todo = t
  BY Zenon
<1> QED BY Zenon, <1>2, <1>4, <1>5

LEMMA ScanIs ==
  ASSUME TypeOK, NEW c \in Conns, Scan(c)
  PROVE  /\ Others(c) /\ Same(c) /\ At(c, "nowait")
         /\ op[c].level = None => op'[c].at = "store"
         /\ op[c].level # None => op'[c].at = "break" /\ op'[c].todo = {h \in DOMAIN oplocks : oplocks[h] \in Exclusive}
<1>1. op[c] \in Request
  BY Zenon DEF TypeOK
<1>2. CASE op[c].level = None
  <2>1. op'[c] = [op[c] EXCEPT !.at = "store"] /\ Others(c) /\ At(c, "nowait")
    BY Zenon, <1>2, OtherRequests DEF Scan, Become
  <2> QED BY Zenon, <1>1, <1>2, <2>1 DEF Same, Request
<1>3. CASE op[c].level # None
  <2> DEFINE t == {h \in DOMAIN oplocks : oplocks[h] \in Exclusive}
  <2>1. op'[c] = [op[c] EXCEPT !.at = "break", !.todo = t] /\ Others(c) /\ At(c, "nowait")
    BY Zenon, <1>3, OtherRequests DEF Scan, Become
  <2> HIDE DEF t
  <2>2. Same(c) /\ op'[c].at = "break" /\ op'[c].todo = t
    BY Zenon, <1>1, <2>1 DEF Same, Request
  <2> QED BY Zenon, <1>3, <2>1, <2>2 DEF t
<1> QED BY Zenon, <1>2, <1>3

LEMMA GrantIs ==
  ASSUME TypeOK, NEW c \in Conns, Grant(c)
  PROVE  /\ Others(c) /\ At(c, "break") /\ op[c].todo = {} /\ op'[c].at = "store"
         /\ op'[c].level = Reduced(op[c].level) /\ op'[c].handle = op[c].handle
<1>1. /\ op'[c] = [op[c] EXCEPT !.at = "store", !.level = Reduced(op[c].level)] /\ Others(c)
      /\ op[c] \in Request /\ At(c, "break") /\ op[c].todo = {}
  BY Zenon, OtherRequests DEF Grant, Become, TypeOK
<1> QED BY Zenon, <1>1 DEF Request

LEMMA WaitedIs ==
  ASSUME TypeOK, NEW c \in Conns, Waited(c)
  PROVE  Others(c) /\ Same(c) /\ At(c, "wait") /\ op'[c].at = "break" /\ op'[c].todo = op[c].todo \ {op[c].id}
<1>1. op' = [op EXCEPT ![c] = [op[c] EXCEPT !.at = "break", !.todo = op[c].todo \ {op[c].id}]] /\ At(c, "wait")
  BY Zenon DEF Waited, Become, Done
<1> QED BY Zenon, <1>1, DoneIs

LEMMA AckIs ==
  ASSUME TypeOK, NEW c \in Conns, NEW h, NEW l, Ack(c, h, l)
  PROVE  /\ Others(c) /\ At(c, "idle") /\ op'[c].at = "ack" /\ op'[c].handle = h /\ op'[c].level = l
         /\ told' = told \cup {h} /\ asked' = asked \ {h}
<1>1. op'[c] = [Idle EXCEPT !.at = "ack", !.handle = h, !.level = l] /\ Others(c) /\ op[c] = Idle
  BY Zenon, OtherRequests DEF Ack, Become, Ready
<1>2. op'[c].at = "ack" /\ op'[c].handle = h /\ op'[c].level = l /\ Idle.at = "idle"
  BY Zenon, <1>1 DEF Idle
<1> QED BY Zenon, <1>1, <1>2 DEF Ack, At

------------------------------------------------------------------------------
(* pending_oplock_breaks *)

\* Every step keeps the pending breaks and the connections that wait in step.
LEMMA PendingStep ==
  ASSUME TypeOK, LocalsInv, PendingInv, [Next]_vars
  PROVE  PendingInv'
<1>a. ASSUME NEW c \in Conns, Others(c), ~At(c, "wait"), op'[c].at # "wait", UNCHANGED <<pending, answer>>
      PROVE  PendingInv'
  <2>1. \A p \in pending : p.waiter \in Conns /\ p.waiter # c
    BY Zenon, <1>a DEF PendingInv, TypeOK
  <2> QED BY ZenonT(60), <1>a, <2>1 DEF PendingInv, Others, At
<1>b. ASSUME UNCHANGED <<op, pending, answer>> PROVE PendingInv'
  BY Zenon, <1>b DEF PendingInv, At
<1>1. CASE UNCHANGED vars
  BY Zenon, <1>1, <1>b DEF vars
<1>2. ASSUME NEW c \in Conns, NEW l \in mode.levels, Create(c, l) PROVE PendingInv'
  <2>1. ~At(c, "wait") /\ UNCHANGED <<pending, answer>>
    BY Zenon, <1>2, IdleIs DEF Create, Ready, At
  <2> QED BY Zenon, <1>2, <1>a, <2>1, CreateIs
<1>3. ASSUME NEW c \in Conns, Nowait(c) PROVE PendingInv'
  BY ZenonT(60), <1>3, <1>a, NowaitIs, DoneIs DEF At
<1>4. ASSUME NEW c \in Conns, Refuse(c) \/ AckStore(c) \/ Respond(c) PROVE PendingInv'
  <2>1. ~At(c, "wait") /\ UNCHANGED <<pending, answer>>
    BY Zenon, <1>4 DEF Refuse, AckStore, Respond, At
  <2> QED BY Zenon, <1>4, <1>a, <2>1, EndIs
<1>5. ASSUME NEW c \in Conns, Scan(c) PROVE PendingInv'
  <2>1. UNCHANGED <<pending, answer>>
    BY Zenon, <1>5 DEF Scan
  <2> QED BY Zenon, <1>5, <1>a, <2>1, ScanIs DEF At
<1>6. ASSUME NEW c \in Conns, SendBreak(c) PROVE PendingInv'
  BY ZenonT(60), <1>6, <1>a, SendBreakIs, DoneIs DEF At
<1>7. ASSUME NEW c \in Conns, Grant(c) PROVE PendingInv'
  <2>1. UNCHANGED <<pending, answer>>
    BY Zenon, <1>7 DEF Grant
  <2> QED BY Zenon, <1>7, <1>a, <2>1, GrantIs DEF At
<1>8. ASSUME NEW c \in Conns, CreateHandle(c) \/ AckRegistry(c) PROVE PendingInv'
  <2>1. ~At(c, "wait") /\ UNCHANGED <<pending, answer>> /\ (Goto(c, "register") \/ Goto(c, "ackstore"))
    BY Zenon, <1>8 DEF CreateHandle, AckRegistry, At
  <2>2. Others(c) /\ (op'[c].at = "register" \/ op'[c].at = "ackstore")
    BY Zenon, <2>1, GoOnIs
  <2> QED BY Zenon, <1>a, <2>1, <2>2
<1>9. ASSUME NEW c \in Conns, Pend(c) PROVE PendingInv'
  <2> DEFINE p == [handle |-> op[c].id, waiter |-> c]
  <2>1. /\ At(c, "pend") /\ pending' = pending \cup {p} /\ Goto(c, "wait") /\ UNCHANGED answer
        /\ p.handle = op[c].id /\ p.waiter = c
    BY Zenon, <1>9 DEF Pend
  <2>2. Others(c) /\ op'[c].at = "wait" /\ op'[c].id = op[c].id /\ answer[c] = "none"
    BY Zenon, <2>1, GoOnIs DEF PendingInv, At
  <2>3. \A q \in pending : q.waiter \in Conns /\ q.waiter # c
    BY Zenon, <2>1 DEF PendingInv, TypeOK, At
  <2>4. p = [handle |-> op'[c].id, waiter |-> c]
    BY Zenon, <2>2
  <2> HIDE DEF p
  <2>5. \A q \in pending' : At(q.waiter, "wait")' /\ op'[q.waiter].id = q.handle /\ answer'[q.waiter] = "none"
    BY SMTT(30), <2>1, <2>2, <2>3 DEF PendingInv, Others, At
  <2>6. \A d \in Conns : At(d, "wait")' /\ answer'[d] = "none" => [handle |-> op'[d].id, waiter |-> d] \in pending'
    BY ZenonT(60), <2>1, <2>2, <2>4 DEF PendingInv, Others, At
  <2>7. \A d \in Conns : answer'[d] # "none" => At(d, "wait")'
    BY Zenon, <2>1, <2>2 DEF PendingInv, Others, At
  <2> QED BY Zenon, <2>5, <2>6, <2>7 DEF PendingInv
<1>10. ASSUME NEW c \in Conns, Waited(c) PROVE PendingInv'
  <2>1. pending' = {p \in pending : p.waiter # c} /\ answer' = [answer EXCEPT ![c] = "none"]
    BY Zenon, <1>10 DEF Waited
  <2>2. Others(c) /\ op'[c].at = "break"
    BY Zenon, <1>10, WaitedIs
  <2>3. answer'[c] = "none" /\ \A d \in Conns : d # c => answer'[d] = answer[d]
    BY Zenon, <2>1 DEF TypeOK
  <2>4. \A q \in pending : q.waiter \in Conns
    BY Zenon DEF TypeOK
  <2>5. \A q \in pending' : At(q.waiter, "wait")' /\ op'[q.waiter].id = q.handle /\ answer'[q.waiter] = "none"
    BY SMTT(30), <2>1, <2>2, <2>3, <2>4 DEF PendingInv, Others, At
  <2>6. \A d \in Conns : At(d, "wait")' /\ answer'[d] = "none" => [handle |-> op'[d].id, waiter |-> d] \in pending'
    <3> SUFFICES ASSUME NEW d \in Conns, d # c, At(d, "wait"), answer[d] = "none"
                 PROVE  [handle |-> op[d].id, waiter |-> d] \in pending'
      BY Zenon, <2>2, <2>3 DEF Others, At
    <3>1. [handle |-> op[d].id, waiter |-> d] \in pending
      BY Zenon DEF PendingInv
    <3> QED BY Zenon, <2>1, <3>1
  <2>7. \A d \in Conns : answer'[d] # "none" => At(d, "wait")'
    BY SMTT(30), <2>2, <2>3 DEF PendingInv, Others, At
  <2> QED BY Zenon, <2>5, <2>6, <2>7 DEF PendingInv
<1>11. ASSUME NEW c \in Conns, NEW h \in DOMAIN handles, NEW l \in {None, LevelII, "batch"}, Ack(c, h, l)
       PROVE  PendingInv'
  <2>1. Others(c) /\ At(c, "idle") /\ op'[c].at = "ack"
    BY Zenon, <1>11, AckIs
  <2>2. CASE UNCHANGED <<pending, answer>>
    BY Zenon, <1>a, <2>1, <2>2 DEF At
  <2>3. ASSUME NEW p \in pending, pending' = pending \ {p}, NEW x \in {"acknowledged", "dropped"},
               answer' = [answer EXCEPT ![p.waiter] = x]
        PROVE  PendingInv'
    <3>1. /\ p.waiter \in Conns /\ p.waiter # c /\ At(p.waiter, "wait") /\ answer'[p.waiter] = x /\ x # "none"
          /\ \A d \in Conns : d # p.waiter => answer'[d] = answer[d]
      BY Zenon, <2>1, <2>3 DEF PendingInv, TypeOK, At
    <3>2. \A q \in pending : q.waiter \in Conns /\ q.waiter # c /\ (q.waiter = p.waiter => q = p)
      <4>1. \A q \in pending : q \in [handle : Made, waiter : Conns] /\ (q.waiter = p.waiter => q.handle = p.handle)
        BY Zenon DEF PendingInv, TypeOK
      <4>2. \A q \in pending : q.waiter # c
        BY Zenon, <2>1 DEF PendingInv, At
      <4>3. \A q \in pending : q.waiter = p.waiter => q = p
        BY SMTT(30), <4>1
      <4> QED BY Zenon, <4>1, <4>2, <4>3
    <3>3. \A q \in pending' : At(q.waiter, "wait")' /\ op'[q.waiter].id = q.handle /\ answer'[q.waiter] = "none"
      BY SMTT(30), <2>1, <2>3, <3>1, <3>2 DEF PendingInv, Others, At
    <3>4. \A d \in Conns : At(d, "wait")' /\ answer'[d] = "none" => [handle |-> op'[d].id, waiter |-> d] \in pending'
      <4> SUFFICES ASSUME NEW d \in Conns, d # c, d # p.waiter, At(d, "wait"), answer[d] = "none"
                   PROVE  [handle |-> op[d].id, waiter |-> d] \in pending'
        BY Zenon, <2>1, <3>1 DEF Others, At
      <4>1. [handle |-> op[d].id, waiter |-> d] \in pending
        BY Zenon DEF PendingInv
      <4>2. [handle |-> op[d].id, waiter |-> d] # p
        BY SMTT(30)
      <4> QED BY Zenon, <2>3, <4>1, <4>2
    <3>5. \A d \in Conns : answer'[d] # "none" => At(d, "wait")'
      BY ZenonT(60), <2>1, <3>1 DEF PendingInv, Others, At
    <3> QED BY Zenon, <3>3, <3>4, <3>5 DEF PendingInv
  <2> QED BY Zenon, <1>11, <2>2, <2>3 DEF Ack
<1>12. ASSUME NEW c \in Conns, Notify(c) \/ (\E h \in DOMAIN handles : Close(c, h)) \/ Logoff(c) \/ Disconnect(c)
       PROVE  PendingInv'
  BY Zenon, <1>12, <1>b DEF Notify, Close, Logoff, Disconnect
<1> QED
  BY Zenon, <1>1, <1>2, <1>3, <1>4, <1>5, <1>6, <1>7, <1>8, <1>9, <1>10, <1>11, <1>12 DEF Next, Step, Client

------------------------------------------------------------------------------
(* The channels of break events *)

\* An event is added at the end of the channel of the handle's connection.
LEMMA PushIs ==
  ASSUME TypeOK, NEW h \in DOMAIN oplocks, Push(h)
  PROVE  /\ h \in Made /\ owner[h] \in Conns /\ \A c \in Conns : c # owner[h] => channel'[c] = channel[c]
         /\ \E n \in Nat : /\ DOMAIN channel[owner[h]] = 1 .. n /\ DOMAIN channel'[owner[h]] = 1 .. (n + 1)
                           /\ \A i \in 1 .. n : channel'[owner[h]][i] = channel[owner[h]][i]
                           /\ channel'[owner[h]][n + 1].handle = h
                           /\ channel'[owner[h]][n + 1].ack_required = (oplocks[h] \in Exclusive)
<1> DEFINE q == channel[owner[h]]
           e == [handle |-> h, ack_required |-> oplocks[h] \in Exclusive]
<1>1. h \in Made /\ owner[h] \in Conns /\ q \in Seq(Event)
  BY Zenon DEF TypeOK, Made
<1>2. channel'[owner[h]] = Append(q, e) /\ \A c \in Conns : c # owner[h] => channel'[c] = channel[c]
  BY Zenon, <1>1 DEF Push, TypeOK
<1>3. e \in Event
  BY SMTT(30), <1>1 DEF Event
<1>5. e.handle = h
  BY Zenon
<1>6. e.ack_required = (oplocks[h] \in Exclusive)
  BY Zenon
<1> HIDE DEF q, e
<1>4. /\ Len(q) \in Nat /\ DOMAIN q = 1 .. Len(q) /\ DOMAIN Append(q, e) = 1 .. (Len(q) + 1)
      /\ \A i \in 1 .. Len(q) : Append(q, e)[i] = q[i]
      /\ Append(q, e)[Len(q) + 1] = e
  BY SMTT(30), <1>1, <1>3
<1>7. /\ channel'[owner[h]][Len(q) + 1].handle = h
      /\ channel'[owner[h]][Len(q) + 1].ack_required = (oplocks[h] \in Exclusive)
  BY Zenon, <1>2, <1>4, <1>5, <1>6
<1> QED BY Zenon, <1>1, <1>2, <1>4, <1>7 DEF q

\* The first event is taken and tells the client.
LEMMA NotifyIs ==
  ASSUME TypeOK, NEW c \in Conns, Notify(c)
  PROVE  /\ At(c, "idle") /\ c \in up /\ UNCHANGED <<oplocks, pending, handles, owner, op, answer, session, up, mode, granted>>
         /\ \A d \in Conns : d # c => channel'[d] = channel[d]
         /\ \E n \in Nat : /\ DOMAIN channel[c] = 1 .. (n + 1) /\ DOMAIN channel'[c] = 1 .. n
                           /\ \A i \in 1 .. n : channel'[c][i] = channel[c][i + 1]
         /\ channel[c][1] \in Event /\ told' = told \cup {channel[c][1].handle}
         /\ asked' = IF channel[c][1].ack_required THEN asked \cup {channel[c][1].handle} ELSE asked
<1> DEFINE q == channel[c]
<1>1. q \in Seq(Event) /\ q # <<>> /\ channel'[c] = Tail(q) /\ \A d \in Conns : d # c => channel'[d] = channel[d]
  BY Zenon DEF Notify, TypeOK
<1>2. At(c, "idle") /\ c \in up /\ UNCHANGED <<oplocks, pending, handles, owner, op, answer, session, up, mode, granted>>
  BY Zenon, IdleIs DEF Notify, Ready, At
<1>3. /\ told' = told \cup {Head(q).handle}
      /\ asked' = IF Head(q).ack_required THEN asked \cup {Head(q).handle} ELSE asked
  BY Zenon DEF Notify
<1> HIDE DEF q
<1>4. /\ Len(q) - 1 \in Nat /\ DOMAIN q = 1 .. ((Len(q) - 1) + 1) /\ DOMAIN Tail(q) = 1 .. (Len(q) - 1)
      /\ \A i \in 1 .. (Len(q) - 1) : Tail(q)[i] = q[i + 1]
      /\ Head(q) = q[1] /\ q[1] \in Event
  BY SMTT(30), <1>1
<1> QED BY ZenonT(60), <1>1, <1>2, <1>3, <1>4 DEF q

\* What the other steps do to the channels and to the handles that were made.
LEMMA ChannelIs ==
  ASSUME TypeOK, [Next]_vars
  PROVE  /\ Made \subseteq Made' /\ \A h \in Made : owner'[h] = owner[h]
         /\ told \subseteq told' /\ up' \subseteq up
         /\ \/ UNCHANGED channel
            \/ \E h \in DOMAIN oplocks : Push(h) /\ ~Closed(h) /\ UNCHANGED <<owner, up>>
            \/ \E c \in Conns : Notify(c)
            \/ \E c \in Conns : Disconnect(c)
<1>1. ASSUME NEW c \in Conns, NEW l, Create(c, l)
      PROVE  UNCHANGED <<channel, told, up>> /\ Made \subseteq Made' /\ \A h \in Made : owner'[h] = owner[h]
  BY Zenon, <1>1, CreateIs DEF Create
<1>2. UNCHANGED owner => Made' = Made /\ \A h \in Made : owner'[h] = owner[h]
  BY Zenon DEF Made
<1>3. ASSUME NEW c \in Conns, Nowait(c)
      PROVE  UNCHANGED <<owner, told, up>> /\ (UNCHANGED channel \/ \E h \in DOMAIN oplocks : Push(h) /\ ~Closed(h))
  BY Zenon, <1>3, NowaitIs
<1>4. ASSUME NEW c \in Conns, SendBreak(c)
      PROVE  UNCHANGED <<owner, told, up>> /\ (UNCHANGED channel \/ \E h \in DOMAIN oplocks : Push(h) /\ ~Closed(h))
  BY Zenon, <1>4, SendBreakIs
<1>5. ASSUME NEW c \in Conns, NEW h, Close(c, h)
      PROVE  UNCHANGED <<owner, channel, told, up>>
  BY Zenon, <1>5 DEF Close
<1>6. ASSUME NEW c \in Conns, NEW h, NEW l, Ack(c, h, l)
      PROVE  UNCHANGED <<owner, channel, up>> /\ told \subseteq told'
  BY Zenon, <1>6 DEF Ack
<1>7. ASSUME NEW c \in Conns,
             \/ Refuse(c) \/ Scan(c) \/ Pend(c) \/ Waited(c) \/ Grant(c) \/ CreateHandle(c) \/ Respond(c)
             \/ AckRegistry(c) \/ AckStore(c) \/ Logoff(c)
      PROVE  UNCHANGED <<owner, channel, told, up>>
  BY Zenon, <1>7 DEF Refuse, Scan, Pend, Waited, Grant, CreateHandle, Respond, AckRegistry, AckStore, Logoff
<1>8. ASSUME NEW c \in Conns, Notify(c) PROVE UNCHANGED <<owner, up>> /\ told \subseteq told'
  BY Zenon, <1>8 DEF Notify
<1>9. ASSUME NEW c \in Conns, Disconnect(c) PROVE UNCHANGED <<owner, told>> /\ up' \subseteq up
  BY Zenon, <1>9 DEF Disconnect
<1>10. UNCHANGED vars => UNCHANGED <<owner, channel, told, up>>
  BY Zenon DEF vars
<1> QED BY Zenon, <1>1, <1>2, <1>3, <1>4, <1>5, <1>6, <1>7, <1>8, <1>9, <1>10 DEF Next, Step, Client

\* Events are about handles that were made.
LEMMA EventsMade ==
  ASSUME TypeOK
  PROVE  \A c \in Conns : \A i \in DOMAIN channel[c] : channel[c][i] \in Event /\ channel[c][i].handle \in Made
<1>1. \A c \in Conns : channel[c] \in Seq(Event)
  BY Zenon DEF TypeOK
<1>2. \A q \in Seq(Event) : \A i \in DOMAIN q : q[i] \in Event
  BY SMTT(30)
<1>3. \A e \in Event : e.handle \in Made
  BY Zenon DEF Event
<1> QED BY Zenon, <1>1, <1>2, <1>3

\* No event gets into another connection's channel.
LEMMA RoutedStep ==
  ASSUME TypeOK, Routed, [Next]_vars
  PROVE  Routed'
<1>1. /\ Made \subseteq Made' /\ \A h \in Made : owner'[h] = owner[h]
      /\ \/ UNCHANGED channel
         \/ \E h \in DOMAIN oplocks : Push(h) /\ ~Closed(h) /\ UNCHANGED <<owner, up>>
         \/ \E c \in Conns : Notify(c)
         \/ \E c \in Conns : Disconnect(c)
  BY Zenon, ChannelIs
<1>2. \A c \in Conns : \A i \in DOMAIN channel[c] : channel[c][i].handle \in Made
  BY Zenon, EventsMade
<1>3. CASE UNCHANGED channel
  BY Zenon, <1>1, <1>2, <1>3 DEF Routed
<1>4. ASSUME NEW h \in DOMAIN oplocks, Push(h) PROVE Routed'
  <2>1. PICK n \in Nat : /\ DOMAIN channel[owner[h]] = 1 .. n /\ DOMAIN channel'[owner[h]] = 1 .. (n + 1)
                         /\ \A i \in 1 .. n : channel'[owner[h]][i] = channel[owner[h]][i]
                         /\ channel'[owner[h]][n + 1].handle = h
    BY Zenon, <1>4, PushIs
  <2>2. h \in Made /\ \A c \in Conns : c # owner[h] => channel'[c] = channel[c]
    BY Zenon, <1>4, PushIs
  <2>3. \A i \in DOMAIN channel'[owner[h]] : i \in DOMAIN channel[owner[h]] \/ i = n + 1
    BY SMTT(30), <2>1
  <2>4. ASSUME NEW d \in Conns, NEW i \in DOMAIN channel'[d] PROVE owner'[channel'[d][i].handle] = d
    <3>1. CASE d = owner[h] /\ i = n + 1
      BY Zenon, <1>1, <2>1, <2>2, <3>1
    <3>2. CASE ~(d = owner[h] /\ i = n + 1)
      <4>1. i \in DOMAIN channel[d] /\ channel'[d][i] = channel[d][i]
        BY Zenon, <2>1, <2>2, <2>3, <2>4, <3>2
      <4> QED BY Zenon, <1>1, <1>2, <4>1 DEF Routed
    <3> QED BY Zenon, <3>1, <3>2
  <2> QED BY Zenon, <2>4 DEF Routed
<1>5. ASSUME NEW c \in Conns, Notify(c) PROVE Routed'
  <2>1. PICK n \in Nat : /\ DOMAIN channel[c] = 1 .. (n + 1) /\ DOMAIN channel'[c] = 1 .. n
                         /\ \A i \in 1 .. n : channel'[c][i] = channel[c][i + 1]
    BY Zenon, <1>5, NotifyIs
  <2>2. \A i \in 1 .. n : i + 1 \in 1 .. (n + 1)
    BY SMTT(30)
  <2>3. \A d \in Conns : d # c => channel'[d] = channel[d]
    BY Zenon, <1>5, NotifyIs
  <2>4. ASSUME NEW d \in Conns, NEW i \in DOMAIN channel'[d] PROVE owner'[channel'[d][i].handle] = d
    <3>1. CASE d = c
      <4>1. i + 1 \in DOMAIN channel[c] /\ channel'[d][i] = channel[c][i + 1]
        BY Zenon, <2>1, <2>2, <2>4, <3>1
      <4> QED BY ZenonT(60), <1>1, <1>2, <3>1, <4>1 DEF Routed
    <3>2. CASE d # c
      <4>1. i \in DOMAIN channel[d] /\ channel'[d][i] = channel[d][i]
        BY Zenon, <2>3, <2>4, <3>2
      <4> QED BY Zenon, <1>1, <1>2, <4>1 DEF Routed
    <3> QED BY Zenon, <3>1, <3>2
  <2> QED BY Zenon, <2>4 DEF Routed
<1>6. ASSUME NEW c \in Conns, Disconnect(c) PROVE Routed'
  <2>1. channel'[c] = <<>> /\ \A d \in Conns : d # c => channel'[d] = channel[d]
    BY Zenon, <1>6 DEF Disconnect, TypeOK
  <2>2. DOMAIN channel'[c] = {}
    BY SMTT(30), <2>1
  <2>4. ASSUME NEW d \in Conns, NEW i \in DOMAIN channel'[d] PROVE owner'[channel'[d][i].handle] = d
    BY ZenonT(60), <1>1, <1>2, <2>1, <2>2, <2>4 DEF Routed
  <2> QED BY Zenon, <2>4 DEF Routed
<1> QED BY Zenon, <1>1, <1>3, <1>4, <1>5, <1>6

------------------------------------------------------------------------------
(* No level is lowered behind the client's back *)

\* A client that is informed stays so: an event is only lost with its connection.
LEMMA InformedStays ==
  ASSUME TypeOK, [Next]_vars
  PROVE  \A h \in Made : Informed(h) => Informed(h)'
<1>1. /\ \A h \in Made : owner'[h] = owner[h] /\ owner[h] \in Conns
      /\ told \subseteq told' /\ up' \subseteq up
      /\ \/ UNCHANGED channel
         \/ \E h \in DOMAIN oplocks : Push(h) /\ ~Closed(h) /\ UNCHANGED <<owner, up>>
         \/ \E c \in Conns : Notify(c)
         \/ \E c \in Conns : Disconnect(c)
  BY Zenon, ChannelIs DEF TypeOK, Made
<1> SUFFICES ASSUME NEW h \in Made, Informed(h) PROVE Informed(h)'
  BY Zenon
<1>2. CASE h \in told \/ Closed(h)
  BY Zenon, <1>1, <1>2 DEF Informed, Closed
<1>3. CASE \E i \in DOMAIN channel[owner[h]] : channel[owner[h]][i].handle = h
  <2>1. PICK i \in DOMAIN channel[owner[h]] : channel[owner[h]][i].handle = h
    BY Zenon, <1>3
  <2>2. CASE UNCHANGED channel
    BY Zenon, <1>1, <2>1, <2>2 DEF Informed
  <2>3. ASSUME NEW g \in DOMAIN oplocks, Push(g) PROVE Informed(h)'
    <3>1. PICK n \in Nat : /\ DOMAIN channel[owner[g]] = 1 .. n /\ DOMAIN channel'[owner[g]] = 1 .. (n + 1)
                           /\ \A j \in 1 .. n : channel'[owner[g]][j] = channel[owner[g]][j]
      BY ZenonT(60), <2>3, PushIs
    <3>2. \A j \in 1 .. n : j \in 1 .. (n + 1)
      BY SMTT(30)
    <3>3. \A c \in Conns : c # owner[g] => channel'[c] = channel[c]
      BY Zenon, <2>3, PushIs
    <3>4. i \in DOMAIN channel'[owner[h]] /\ channel'[owner[h]][i] = channel[owner[h]][i]
      BY Zenon, <1>1, <3>1, <3>2, <3>3
    <3> QED BY Zenon, <1>1, <2>1, <3>4 DEF Informed
  <2>4. ASSUME NEW c \in Conns, Notify(c) PROVE Informed(h)'
    <3>1. PICK n \in Nat : /\ DOMAIN channel[c] = 1 .. (n + 1) /\ DOMAIN channel'[c] = 1 .. n
                           /\ \A j \in 1 .. n : channel'[c][j] = channel[c][j + 1]
      BY Zenon, <2>4, NotifyIs
    <3>2. told' = told \cup {channel[c][1].handle} /\ \A d \in Conns : d # c => channel'[d] = channel[d]
      BY Zenon, <2>4, NotifyIs
    <3>3. CASE owner[h] # c
      <4>1. channel'[owner[h]] = channel[owner[h]] /\ owner'[h] = owner[h]
        BY Zenon, <1>1, <3>2, <3>3
      <4> QED BY Zenon, <2>1, <4>1 DEF Informed
    <3>4. CASE owner[h] = c /\ i = 1
      BY Zenon, <2>1, <3>2, <3>4 DEF Informed
    <3>5. CASE owner[h] = c /\ i # 1
      <4>1. i - 1 \in 1 .. n /\ (i - 1) + 1 = i
        BY SMTT(30), <3>1, <3>5
      <4>2. i - 1 \in DOMAIN channel'[c] /\ channel'[c][i - 1] = channel[c][i]
        BY Zenon, <3>1, <4>1
      <4> QED BY Zenon, <1>1, <2>1, <3>5, <4>2 DEF Informed
    <3> QED BY Zenon, <3>3, <3>4, <3>5
  <2>5. ASSUME NEW c \in Conns, Disconnect(c) PROVE Informed(h)'
    <3>1. up' = up \ {c} /\ \A d \in Conns : d # c => channel'[d] = channel[d]
      BY Zenon, <2>5 DEF Disconnect, TypeOK
    <3> QED BY ZenonT(60), <1>1, <2>1, <3>1 DEF Informed, Closed
  <2> QED BY Zenon, <1>1, <2>2, <2>3, <2>4, <2>5
<1> QED BY Zenon, <1>2, <1>3 DEF Informed

\* Every step keeps the clients informed of what was lowered.
LEMMA InformedStep ==
  ASSUME TypeOK, LocalsInv, InformedInv, [Next]_vars
  PROVE  InformedInv'
<1>0. DOMAIN oplocks \subseteq Made /\ \A c \in Conns : op[c].at \in {"pend", "wait"} => op[c].id \in Made
  <2>1. \A c \in Conns : op[c].todo \subseteq Made
    BY Zenon DEF TypeOK, Request
  <2> QED BY ZenonT(60), <2>1 DEF TypeOK, LocalsInv, LocalsOK
<1>a. \A h \in Made : Informed(h) => Informed(h)'
  BY Zenon, InformedStays
<1>b. told \subseteq told'
  BY Zenon, ChannelIs
<1> DEFINE Held == \A h \in DOMAIN oplocks' : h \in DOMAIN oplocks /\ granted'[h] = granted[h] /\ (oplocks'[h] = oplocks[h] \/ Informed(h)')
           Told(d) == (op[d].at \in {"pend", "wait"} => Informed(op[d].id)) /\ (op[d].at = "ack" => op[d].handle \in told)
<1>c. ASSUME NEW d \in Conns, op'[d] = op[d] PROVE Told(d)'
  <2>1. \A h \in Made : op[d].id = h /\ Informed(h)' => Informed(op[d].id)'
    BY Zenon, <1>c
  <2> QED BY Zenon, <1>0, <1>a, <1>b, <1>c, <2>1 DEF InformedInv
<1>d. ASSUME NEW c \in Conns, Others(c), Told(c)', Held PROVE InformedInv'
  BY Zenon, <1>0, <1>a, <1>c, <1>d DEF InformedInv, Others
<1>e. ASSUME NEW c \in Conns, Others(c), op'[c].at \notin {"pend", "wait", "ack"}, UNCHANGED <<oplocks, granted>> PROVE InformedInv'
  BY Zenon, <1>d, <1>e
<1>f. ASSUME NEW h \in DOMAIN oplocks, Push(h), UNCHANGED owner PROVE Informed(h)'
  <2>1. PICK n \in Nat : DOMAIN channel'[owner[h]] = 1 .. (n + 1) /\ channel'[owner[h]][n + 1].handle = h
    BY Zenon, <1>f, PushIs
  <2>2. n + 1 \in 1 .. (n + 1)
    BY SMTT(30)
  <2> QED BY Zenon, <1>f, <2>1, <2>2 DEF Informed
<1>1. CASE UNCHANGED vars
  BY ZenonT(60), <1>1 DEF vars, InformedInv, Informed, Closed, Made
<1>2. ASSUME NEW c \in Conns, NEW l \in mode.levels, Create(c, l) PROVE InformedInv'
  <2>1. Held
    BY Zenon, <1>0, <1>2, CreateIs DEF Create
  <2> QED BY Zenon, <1>2, <1>d, <2>1, CreateIs
<1>3. ASSUME NEW c \in Conns, Nowait(c) PROVE InformedInv'
  <2>1. PICK h \in op[c].todo :
          /\ op' = [op EXCEPT ![c] = [op[c] EXCEPT !.todo = op[c].todo \ {h}]]
          /\ \/ UNCHANGED <<channel, oplocks>>
             \/ h \in DOMAIN oplocks /\ ~Closed(h) /\ Push(h) /\ UpdateLevel(h, LevelII)
    BY Zenon, <1>3, NowaitIs
  <2>2. Others(c) /\ op'[c].at = "nowait" /\ UNCHANGED <<owner, granted>>
    BY Zenon, <1>3, <2>1, DoneIs, NowaitIs DEF At
  <2>3. CASE UNCHANGED oplocks
    BY Zenon, <1>e, <2>2, <2>3
  <2>4. CASE h \in DOMAIN oplocks /\ Push(h) /\ UpdateLevel(h, LevelII)
    BY Zenon, <1>d, <1>f, <2>2, <2>4, UpdateIs
  <2> QED BY Zenon, <2>1, <2>3, <2>4
<1>4. ASSUME NEW c \in Conns, Refuse(c) \/ AckStore(c) PROVE InformedInv'
  <2>1. UNCHANGED <<oplocks, granted>>
    BY Zenon, <1>4 DEF Refuse, AckStore
  <2> QED BY Zenon, <1>4, <1>e, <2>1, EndIs
<1>5. ASSUME NEW c \in Conns, Scan(c) PROVE InformedInv'
  <2>1. UNCHANGED <<oplocks, granted>>
    BY Zenon, <1>5 DEF Scan
  <2> QED BY Zenon, <1>5, <1>e, <2>1, ScanIs
<1>6. ASSUME NEW c \in Conns, SendBreak(c) PROVE InformedInv'
  <2>1. PICK h \in op[c].todo :
          \/ /\ op' = [op EXCEPT ![c] = [op[c] EXCEPT !.at = "break", !.todo = op[c].todo \ {h}]]
             /\ UNCHANGED <<channel, oplocks>>
          \/ /\ h \in DOMAIN oplocks /\ Push(h)
             /\ op' = [op EXCEPT ![c] = [op[c] EXCEPT !.at = "pend", !.id = h]]
             /\ UNCHANGED oplocks
          \/ /\ h \in DOMAIN oplocks /\ Push(h)
             /\ op' = [op EXCEPT ![c] = [op[c] EXCEPT !.at = "break", !.todo = op[c].todo \ {h}]]
             /\ UpdateLevel(h, LevelII)
    BY Zenon, <1>6, SendBreakIs
  <2>2. UNCHANGED <<owner, granted>>
    BY Zenon, <1>6, SendBreakIs
  <2>3. CASE /\ op' = [op EXCEPT ![c] = [op[c] EXCEPT !.at = "break", !.todo = op[c].todo \ {h}]]
             /\ UNCHANGED <<channel, oplocks>>
    BY Zenon, <1>e, <2>2, <2>3, DoneIs
  <2>4. CASE /\ h \in DOMAIN oplocks /\ Push(h)
             /\ op' = [op EXCEPT ![c] = [op[c] EXCEPT !.at = "pend", !.id = h]]
             /\ UNCHANGED oplocks
    <3>1. Others(c) /\ op'[c].at = "pend" /\ op'[c].id = h /\ Informed(h)'
      BY Zenon, <1>f, <2>2, <2>4, DoneIs
    <3>2. Told(c)'
      BY Zenon, <3>1
    <3> QED BY Zenon, <1>d, <2>2, <2>4, <3>1, <3>2
  <2>5. CASE /\ h \in DOMAIN oplocks /\ Push(h)
             /\ op' = [op EXCEPT ![c] = [op[c] EXCEPT !.at = "break", !.todo = op[c].todo \ {h}]]
             /\ UpdateLevel(h, LevelII)
    <3>1. Others(c) /\ op'[c].at = "break" /\ Informed(h)'
      BY Zenon, <1>f, <2>2, <2>5, DoneIs
    <3> QED BY Zenon, <1>d, <2>2, <2>5, <3>1, UpdateIs
  <2> QED BY Zenon, <2>1, <2>3, <2>4, <2>5
<1>7. ASSUME NEW c \in Conns, Grant(c) PROVE InformedInv'
  <2>1. UNCHANGED <<oplocks, granted>>
    BY Zenon, <1>7 DEF Grant
  <2> QED BY Zenon, <1>7, <1>e, <2>1, GrantIs
<1>8. ASSUME NEW c \in Conns, CreateHandle(c) \/ Pend(c) PROVE InformedInv'
  <2>1. UNCHANGED <<oplocks, granted>> /\ (Goto(c, "register") \/ (At(c, "pend") /\ Goto(c, "wait")))
    BY Zenon, <1>8 DEF CreateHandle, Pend
  <2>2. Others(c) /\ op'[c].id = op[c].id /\ (op'[c].at = "register" \/ (At(c, "pend") /\ op'[c].at = "wait"))
    BY Zenon, <2>1, GoOnIs
  <2>3. Told(c)'
    <3>1. \A h \in Made : op[c].id = h /\ Informed(h)' => Informed(op[c].id)'
      BY Zenon, <2>2
    <3> QED BY Zenon, <1>0, <1>a, <2>2, <3>1 DEF InformedInv, At
  <2> QED BY Zenon, <1>d, <2>1, <2>2, <2>3
<1>9. ASSUME NEW c \in Conns, AckRegistry(c) PROVE InformedInv'
  <2>1. UNCHANGED granted /\ op[c].at = "ack" /\ UpdateLevel(op[c].handle, op[c].level) /\ Goto(c, "ackstore")
    BY Zenon, <1>9 DEF AckRegistry, At
  <2>2. Others(c) /\ op'[c].at = "ackstore"
    BY Zenon, <2>1, GoOnIs
  <2>3. PICK h : h = op[c].handle
    BY Zenon
  <2>4. Informed(h)' /\ UpdateLevel(h, op[c].level)
    BY Zenon, <1>b, <2>1, <2>3 DEF InformedInv, Informed
  <2>5. Held
    BY ZenonT(60), <2>1, <2>4, UpdateIs
  <2> QED BY Zenon, <1>d, <2>2, <2>5
<1>10. ASSUME NEW c \in Conns, Waited(c) PROVE InformedInv'
  <2>1. UNCHANGED granted /\ op[c].at = "wait" /\ UpdateLevel(op[c].id, LevelII)
    BY Zenon, <1>10 DEF Waited, At
  <2>2. Others(c) /\ op'[c].at = "break"
    BY Zenon, <1>10, WaitedIs
  <2>3. PICK h : h = op[c].id
    BY Zenon
  <2>4. Informed(h)' /\ UpdateLevel(h, LevelII)
    BY Zenon, <1>0, <1>a, <2>1, <2>3 DEF InformedInv
  <2>5. Held
    BY Zenon, <2>1, <2>4, UpdateIs
  <2> QED BY Zenon, <1>d, <2>2, <2>5
<1>11. ASSUME NEW c \in Conns, Respond(c) PROVE InformedInv'
  <2> DEFINE h == op[c].handle
             l == op[c].level
  <2>1. /\ op[c].at = "register" /\ oplocks' = IF l = None THEN oplocks ELSE Set(oplocks, h, l)
        /\ granted' = [granted EXCEPT ![h] = l]
    BY Zenon, <1>11 DEF Respond, Register, At
  <2>2. h \in Made /\ h \notin DOMAIN oplocks
    BY Zenon, <2>1 DEF LocalsInv, LocalsOK, Creating
  <2>3. granted'[h] = l /\ \A g \in Made : g # h => granted'[g] = granted[g]
    BY Zenon, <2>1, <2>2 DEF TypeOK
  <2> HIDE DEF h, l
  <2>4. \A g \in DOMAIN oplocks' : (g \in DOMAIN oplocks /\ g # h /\ oplocks'[g] = oplocks[g]) \/ (g = h /\ oplocks'[g] = l)
    BY Zenon, <2>1, <2>2 DEF Set
  <2>5. \A g \in DOMAIN oplocks' : oplocks'[g] # granted'[g] => g \in DOMAIN oplocks /\ oplocks[g] # granted[g]
    BY Zenon, <1>0, <2>3, <2>4
  <2>6. \A d \in Conns : Told(d)'
    BY Zenon, <1>11, <1>c, EndIs DEF Others
  <2> QED BY Zenon, <1>0, <1>a, <2>5, <2>6 DEF InformedInv
<1>12. ASSUME NEW c \in Conns, Notify(c) \/ (\E h \in DOMAIN handles : Close(c, h)) \/ Logoff(c) \/ Disconnect(c)
       PROVE  InformedInv'
  <2>1. UNCHANGED <<op, granted>> /\ (oplocks' = oplocks \/ \E S : oplocks' = Without(oplocks, S))
    BY Zenon, <1>12 DEF Notify, Close, Logoff, Disconnect
  <2>2. Held
    BY ZenonT(60), <2>1 DEF Without
  <2> QED BY Zenon, <1>c, <1>d, <2>1, <2>2 DEF Others
<1>13. ASSUME NEW c \in Conns, NEW h \in DOMAIN handles, NEW l \in {None, LevelII, "batch"}, Ack(c, h, l)
       PROVE  InformedInv'
  <2>1. UNCHANGED <<oplocks, granted>> /\ h \in told'
    BY Zenon, <1>13 DEF Ack
  <2>2. Others(c) /\ op'[c].at = "ack" /\ op'[c].handle = h
    BY Zenon, <1>13, AckIs
  <2> QED BY Zenon, <1>d, <2>1, <2>2
<1> QED
  BY Zenon, <1>1, <1>2, <1>3, <1>4, <1>5, <1>6, <1>7, <1>8, <1>9, <1>10, <1>11, <1>12, <1>13 DEF Next, Step, Client

------------------------------------------------------------------------------
(* A client is asked once *)

\* A step that sends no question and takes none, lowers levels and answers nothing.
LEMMA AskedFrame ==
  ASSUME TypeOK, AskedOnce, UNCHANGED owner, asked' \subseteq asked,
         \A h \in Made : \A i \in Nat : Asks(h, i)' => Asks(h, i),
         \A h \in Made : Acking(h)' => Acking(h),
         DOMAIN oplocks' \subseteq Made,
         \A h \in DOMAIN oplocks' : Quiet(h)' \/ (h \in DOMAIN oplocks /\ (oplocks'[h] = oplocks[h] \/ oplocks'[h] = LevelII)),
         \A h \in DOMAIN oplocks' : oplocks'[h] \in Exclusive /\ Awaited(h) => Awaited(h)',
         \A c \in Conns : op'[c].at \in Creating => op[c].at \in Creating /\ op'[c].handle = op[c].handle /\ op[c].handle \in Made
  PROVE  AskedOnce'
<1>1. Made' = Made
  BY Zenon DEF Made
<1>2. \A h \in Made : Quiet(h) => Quiet(h)'
  BY Zenon DEF Quiet
<1>3. \A h \in Made : /\ \A i, j \in Nat : Asks(h, i)' /\ Asks(h, j)' => i = j
                      /\ (\E i \in Nat : Asks(h, i)') => h \notin asked' /\ ~Acking(h)'
                      /\ h \in asked' => ~Acking(h)'
  BY Zenon DEF AskedOnce
<1>4. LevelII # None /\ LevelII \notin Exclusive
  BY Zenon DEF LevelII, None, Exclusive
<1>5. \A h \in DOMAIN oplocks' : oplocks'[h] = None => Quiet(h)'
  BY Zenon, <1>2, <1>4 DEF AskedOnce
<1>6. \A h \in DOMAIN oplocks' : oplocks'[h] \in Exclusive /\ ~Awaited(h)' => Quiet(h)'
  BY Zenon, <1>2, <1>4 DEF AskedOnce
<1>7. \A c \in Conns : op'[c].at \in Creating => \A h \in Made : h = op'[c].handle => Quiet(h)'
  BY Zenon, <1>2 DEF AskedOnce
<1>8. \A c \in Conns : op'[c].at \in Creating => Quiet(op[c].handle)'
  BY Zenon, <1>7
<1> QED BY Zenon, <1>1, <1>3, <1>5, <1>6, <1>8 DEF AskedOnce

\* What may be asked of a client: a question that is sent is the only new one.
LEMMA AsksPush ==
  ASSUME TypeOK, NEW h \in DOMAIN oplocks, Push(h), UNCHANGED owner
  PROVE  \E n \in Nat : \A g \in Made : \A i \in Nat :
           Asks(g, i)' => Asks(g, i) \/ (g = h /\ i = n /\ oplocks[h] \in Exclusive)
<1>1. PICK n \in Nat : /\ DOMAIN channel[owner[h]] = 1 .. n /\ DOMAIN channel'[owner[h]] = 1 .. (n + 1)
                       /\ \A i \in 1 .. n : channel'[owner[h]][i] = channel[owner[h]][i]
                       /\ channel'[owner[h]][n + 1].handle = h
                       /\ channel'[owner[h]][n + 1].ack_required = (oplocks[h] \in Exclusive)
  BY Zenon, PushIs
<1>2. \A c \in Conns : c # owner[h] => channel'[c] = channel[c]
  BY Zenon, PushIs
<1>3. n + 1 \in Nat /\ \A i \in 1 .. (n + 1) : i \in 1 .. n \/ i = n + 1
  BY SMTT(30)
<1>4. \A g \in Made : owner[g] \in Conns
  BY Zenon DEF TypeOK, Made
<1>5. ASSUME NEW g \in Made, NEW i \in Nat, Asks(g, i)'
      PROVE  Asks(g, i) \/ (g = h /\ i = n + 1 /\ oplocks[h] \in Exclusive)
  <2>1. i \in DOMAIN channel'[owner[g]] /\ channel'[owner[g]][i].handle = g /\ channel'[owner[g]][i].ack_required
    BY Zenon, <1>5 DEF Asks
  <2>2. CASE owner[g] # owner[h]
    BY Zenon, <1>2, <1>4, <2>1, <2>2 DEF Asks
  <2>3. CASE owner[g] = owner[h] /\ i \in 1 .. n
    BY ZenonT(60), <1>1, <2>1, <2>3 DEF Asks
  <2>4. CASE owner[g] = owner[h] /\ i = n + 1
    BY Zenon, <1>1, <2>1, <2>4
  <2> QED BY Zenon, <1>1, <1>3, <2>1, <2>2, <2>3, <2>4
<1> QED BY Zenon, <1>3, <1>5

\* A notification takes the first question of its connection, and the others move up.
LEMMA AsksNotify ==
  ASSUME TypeOK, Routed, NEW c \in Conns, Notify(c)
  PROVE  /\ \A g \in Made : \A i \in Nat : Asks(g, i)' => IF owner[g] = c THEN i # 0 /\ Asks(g, i + 1) ELSE Asks(g, i)
         /\ \/ asked' = asked
            \/ \E h \in Made : asked' = asked \cup {h} /\ Asks(h, 1) /\ owner[h] = c
<1>1. PICK n \in Nat : /\ DOMAIN channel[c] = 1 .. (n + 1) /\ DOMAIN channel'[c] = 1 .. n
                       /\ \A i \in 1 .. n : channel'[c][i] = channel[c][i + 1]
  BY Zenon, NotifyIs
<1>2. /\ UNCHANGED owner /\ \A d \in Conns : d # c => channel'[d] = channel[d]
      /\ asked' = IF channel[c][1].ack_required THEN asked \cup {channel[c][1].handle} ELSE asked
  BY Zenon, NotifyIs
<1>3. 1 \in 1 .. (n + 1) /\ \A i \in 1 .. n : i # 0 /\ i + 1 \in 1 .. (n + 1)
  BY SMTT(30)
<1>4. \A g \in Made : owner[g] \in Conns
  BY Zenon DEF TypeOK, Made
<1>5. channel[c][1].handle \in Made /\ owner[channel[c][1].handle] = c
  BY Zenon, <1>1, <1>3, EventsMade DEF Routed
<1>6. ASSUME NEW g \in Made, NEW i \in Nat, Asks(g, i)'
      PROVE  IF owner[g] = c THEN i # 0 /\ Asks(g, i + 1) ELSE Asks(g, i)
  <2>1. i \in DOMAIN channel'[owner[g]] /\ channel'[owner[g]][i].handle = g /\ channel'[owner[g]][i].ack_required
    BY Zenon, <1>2, <1>6 DEF Asks
  <2>2. CASE owner[g] # c
    BY Zenon, <1>2, <1>4, <2>1, <2>2 DEF Asks
  <2>3. CASE owner[g] = c
    BY Zenon, <1>1, <1>3, <2>1, <2>3 DEF Asks
  <2> QED BY Zenon, <2>2, <2>3
<1>7. CASE channel[c][1].ack_required
  <2>1. Asks(channel[c][1].handle, 1)
    BY Zenon, <1>1, <1>3, <1>5, <1>7 DEF Asks
  <2> QED BY Zenon, <1>2, <1>5, <1>6, <1>7, <2>1
<1>8. CASE ~channel[c][1].ack_required
  BY Zenon, <1>2, <1>6, <1>8
<1> QED BY Zenon, <1>7, <1>8

\* A question is sent to a client of whom nothing is asked.
LEMMA AskedPush ==
  ASSUME TypeOK, AskedOnce, NEW h \in DOMAIN oplocks, Push(h), UNCHANGED <<owner, asked>>,
         oplocks[h] \in Exclusive => Quiet(h),
         \A g \in Made : Acking(g)' => Acking(g),
         DOMAIN oplocks' = DOMAIN oplocks,
         \A g \in DOMAIN oplocks : g # h => oplocks'[g] = oplocks[g] /\ (Awaited(g) => Awaited(g)'),
         oplocks'[h] = LevelII \/ (oplocks'[h] = oplocks[h] /\ oplocks[h] \in Exclusive /\ Awaited(h)'),
         \A c \in Conns : op'[c].at \in Creating => /\ op[c].at \in Creating /\ op'[c].handle = op[c].handle
                                                    /\ op[c].handle \in Made \ DOMAIN oplocks
  PROVE  AskedOnce'
<1>1. PICK n \in Nat : \A g \in Made : \A i \in Nat :
         Asks(g, i)' => Asks(g, i) \/ (g = h /\ i = n /\ oplocks[h] \in Exclusive)
  BY Zenon, AsksPush
<1>2. DOMAIN oplocks \subseteq Made
  BY Zenon DEF TypeOK
<1>3. LevelII # None /\ LevelII \notin Exclusive /\ None \notin Exclusive
  BY Zenon DEF LevelII, None, Exclusive
<1>4. CASE oplocks[h] \notin Exclusive
  <2>1. \A g \in Made : \A i \in Nat : Asks(g, i)' => Asks(g, i)
    BY Zenon, <1>1, <1>4
  <2>2. /\ asked' \subseteq asked /\ DOMAIN oplocks' \subseteq Made
        /\ \A g \in DOMAIN oplocks' : g \in DOMAIN oplocks /\ (oplocks'[g] = oplocks[g] \/ oplocks'[g] = LevelII)
        /\ \A g \in DOMAIN oplocks' : oplocks'[g] \in Exclusive /\ Awaited(g) => Awaited(g)'
    BY Zenon, <1>2, <1>3, <1>4
  <2> QED BY Zenon, <2>1, <2>2, AskedFrame
<1>5. CASE oplocks[h] \in Exclusive
  <2>1. Quiet(h) /\ (\A i \in Nat : ~Asks(h, i)) /\ h \notin asked /\ ~Acking(h) /\ h \in Made
    BY Zenon, <1>2, <1>5 DEF Quiet
  <2>2. \A g \in Made : g # h => \A i \in Nat : Asks(g, i)' => Asks(g, i)
    BY Zenon, <1>1
  <2>3. \A i \in Nat : Asks(h, i)' => i = n
    BY Zenon, <1>1, <2>1
  <2>4. \A g \in Made : g # h /\ Quiet(g) => Quiet(g)'
    BY Zenon, <2>2 DEF Quiet
  <2>5. Made' = Made
    BY Zenon DEF Made
  <2>6. \A g \in Made : /\ \A i, j \in Nat : Asks(g, i)' /\ Asks(g, j)' => i = j
                        /\ (\E i \in Nat : Asks(g, i)') => g \notin asked' /\ ~Acking(g)'
                        /\ g \in asked' => ~Acking(g)'
    BY ZenonT(60), <2>1, <2>2, <2>3 DEF AskedOnce
  <2>7. oplocks'[h] # None /\ (oplocks'[h] \in Exclusive => Awaited(h)')
    BY Zenon, <1>3
  <2>8. \A g \in DOMAIN oplocks' : oplocks'[g] = None => Quiet(g)'
    BY Zenon, <1>2, <2>4, <2>7 DEF AskedOnce
  <2>9. \A g \in DOMAIN oplocks' : oplocks'[g] \in Exclusive /\ ~Awaited(g)' => Quiet(g)'
    BY Zenon, <1>2, <2>4, <2>7 DEF AskedOnce
  <2>10. \A c \in Conns : op'[c].at \in Creating => \A g \in Made : g = op'[c].handle => Quiet(g)'
    BY Zenon, <2>4 DEF AskedOnce
  <2>11. \A c \in Conns : op'[c].at \in Creating => Quiet(op[c].handle)'
    BY Zenon, <2>10
  <2> QED BY Zenon, <2>5, <2>6, <2>8, <2>9, <2>11 DEF AskedOnce
<1> QED BY Zenon, <1>4, <1>5

\* The client is notified of a question.
LEMMA AskedNotify ==
  ASSUME TypeOK, LocalsInv, Routed, AskedOnce, NEW c \in Conns, Notify(c)
  PROVE  AskedOnce'
<1>1. /\ \A g \in Made : \A i \in Nat : Asks(g, i)' => IF owner[g] = c THEN i # 0 /\ Asks(g, i + 1) ELSE Asks(g, i)
      /\ \/ asked' = asked
         \/ \E h \in Made : asked' = asked \cup {h} /\ Asks(h, 1) /\ owner[h] = c
  BY Zenon, AsksNotify
<1>2. UNCHANGED <<oplocks, owner, op>>
  BY Zenon, NotifyIs
<1>3. /\ Made' = Made /\ DOMAIN oplocks \subseteq Made
      /\ \A d \in Conns : op[d].at \in Creating => op[d].handle \in Made
      /\ \A g \in Made : (Acking(g)' <=> Acking(g)) /\ (Awaited(g)' <=> Awaited(g))
  BY Zenon, <1>2 DEF Made, TypeOK, LocalsInv, LocalsOK, Acking, Awaited, At
<1>4. \A g \in Made : \A i, j \in Nat : Asks(g, i)' /\ Asks(g, j)' => i = j
  <2>1. \A i, j \in Nat : i + 1 \in Nat /\ j + 1 \in Nat /\ (i + 1 = j + 1 => i = j)
    BY SMTT(30)
  <2> SUFFICES ASSUME NEW g \in Made, NEW i \in Nat, NEW j \in Nat, Asks(g, i)', Asks(g, j)' PROVE i = j
    BY Zenon
  <2>2. CASE owner[g] = c
    <3>1. Asks(g, i + 1) /\ Asks(g, j + 1)
      BY Zenon, <1>1, <2>2
    <3> QED BY Zenon, <2>1, <3>1 DEF AskedOnce
  <2>3. CASE owner[g] # c
    BY Zenon, <1>1, <2>3 DEF AskedOnce
  <2> QED BY Zenon, <2>2, <2>3
<1>5. \A g \in Made : (\E i \in Nat : Asks(g, i)') => \E i \in Nat : Asks(g, i)
  <2>1. \A i \in Nat : i + 1 \in Nat
    BY SMTT(30)
  <2> QED BY Zenon, <1>1, <2>1
<1>6. \A g \in Made : (\E i \in Nat : Asks(g, i)') => g \notin asked' /\ ~Acking(g)'
  <2> SUFFICES ASSUME NEW g \in Made, NEW i \in Nat, Asks(g, i)' PROVE g \notin asked' /\ ~Acking(g)'
    BY Zenon
  <2>1. g \notin asked /\ ~Acking(g)'
    BY Zenon, <1>3, <1>5 DEF AskedOnce
  <2>2. ASSUME Asks(g, 1), owner[g] = c PROVE FALSE
    <3>1. i # 0 /\ Asks(g, i + 1)
      BY Zenon, <1>1, <2>2
    <3>2. i + 1 \in Nat /\ 1 \in Nat /\ i + 1 # 1
      BY SMTT(30), <3>1
    <3> QED BY Zenon, <2>2, <3>1, <3>2 DEF AskedOnce
  <2> QED BY Zenon, <1>1, <2>1, <2>2
<1>7. \A g \in Made : g \in asked' => g \in asked \/ \E i \in Nat : Asks(g, i)
  <2>1. 1 \in Nat
    BY Zenon
  <2> QED BY Zenon, <1>1, <2>1
<1>8. \A g \in Made : g \in asked' => ~Acking(g)'
  BY Zenon, <1>3, <1>7 DEF AskedOnce
<1>9. \A g \in Made : Quiet(g) => Quiet(g)'
  BY Zenon, <1>3, <1>5, <1>7 DEF Quiet
<1>10. \A d \in Conns : op[d].at \in Creating => Quiet(op[d].handle)'
  <2>1. \A d \in Conns : op[d].at \in Creating => \A g \in Made : g = op[d].handle => Quiet(g)'
    BY Zenon, <1>9 DEF AskedOnce
  <2> QED BY Zenon, <1>2, <1>3, <2>1
<1> QED BY Zenon, <1>2, <1>3, <1>4, <1>6, <1>8, <1>9, <1>10 DEF AskedOnce

\* The client answers what it was asked.
LEMMA AskedAck ==
  ASSUME TypeOK, LocalsInv, AskedOnce, mode \in Modes, mode.acks # "any",
         NEW c \in Conns, NEW h \in DOMAIN handles, NEW l, Ack(c, h, l)
  PROVE  AskedOnce'
<1>1. /\ mode.acks \in {"exact", "valid", "any"} /\ UNCHANGED <<oplocks, owner, channel>> /\ asked' = asked \ {h}
      /\ mode.acks = "exact" => h \in asked
      /\ mode.acks = "valid" => h \in asked
  BY Zenon, OplockModes DEF Ack
<1>2. h \in asked /\ h \in Made
  BY Zenon, <1>1 DEF TypeOK
<1>3. Others(c) /\ At(c, "idle") /\ op'[c].at = "ack" /\ op'[c].handle = h
  BY Zenon, AckIs
<1>4. /\ Made' = Made /\ DOMAIN oplocks \subseteq Made
      /\ \A g \in Made, i \in Nat : Asks(g, i)' <=> Asks(g, i)
      /\ \A d \in Conns : op[d].at \in Creating => op[d].handle \in Made
  BY Zenon, <1>1 DEF Made, TypeOK, LocalsInv, LocalsOK, Asks
<1>5. \A g \in Made : /\ g # h => (Acking(g)' => Acking(g))
                      /\ Awaited(g)' <=> Awaited(g)
  BY Zenon, <1>3 DEF Acking, Awaited, At, Others
<1>6. ~(\E i \in Nat : Asks(h, i)) /\ ~Quiet(h)
  BY Zenon, <1>2 DEF AskedOnce, Quiet
<1>7. \A g \in Made : g # h /\ Quiet(g) => Quiet(g)'
  BY Zenon, <1>1, <1>4, <1>5 DEF Quiet
<1>8. \A g \in Made : /\ \A i, j \in Nat : Asks(g, i)' /\ Asks(g, j)' => i = j
                      /\ (\E i \in Nat : Asks(g, i)') => g \notin asked' /\ ~Acking(g)'
                      /\ g \in asked' => ~Acking(g)'
  BY Zenon, <1>1, <1>4, <1>5, <1>6 DEF AskedOnce
<1>9. \A g \in DOMAIN oplocks : oplocks[g] = None => Quiet(g)'
  BY Zenon, <1>4, <1>6, <1>7 DEF AskedOnce
<1>10. \A g \in DOMAIN oplocks : oplocks[g] \in Exclusive /\ ~Awaited(g)' => Quiet(g)'
  BY Zenon, <1>4, <1>5, <1>6, <1>7 DEF AskedOnce
<1>11. \A d \in Conns : op'[d].at \in Creating => Quiet(op[d].handle)'
  <2>1. \A d \in Conns : op'[d].at \in Creating => op'[d] = op[d]
    BY Zenon, <1>3 DEF Creating, Others
  <2>2. \A d \in Conns : op'[d].at \in Creating => \A g \in Made : g = op'[d].handle => Quiet(g)'
    BY Zenon, <1>6, <1>7, <2>1 DEF AskedOnce
  <2> QED BY Zenon, <1>4, <2>1, <2>2
<1> QED BY Zenon, <1>1, <1>4, <1>8, <1>9, <1>10, <1>11 DEF AskedOnce

\* Nothing has been asked about a handle that is new.
LEMMA AskedCreate ==
  ASSUME TypeOK, LocalsInv, AskedOnce, NEW c \in Conns, NEW l, Create(c, l)
  PROVE  AskedOnce'
<1>1. /\ Others(c) /\ op'[c].at = "nowait" /\ op'[c].handle = Fresh
      /\ Made' = Made \cup {Fresh} /\ owner'[Fresh] = c /\ \A g \in Made : owner'[g] = owner[g]
  BY Zenon, CreateIs
<1>2. UNCHANGED <<oplocks, channel, asked>> /\ At(c, "idle")
  BY Zenon, IdleIs DEF Create, Ready, At
<1>3. PICK h : h = Fresh
  BY Zenon
<1>4. h \notin Made /\ asked \subseteq Made /\ DOMAIN oplocks \subseteq Made
  BY Zenon, <1>3, FreshIs DEF TypeOK
<1>5. \A d \in Conns : /\ op[d].at \in Creating => op[d].handle \in Made
                       /\ op[d].at = "ack" => op[d].handle \in Made
  BY Zenon DEF LocalsInv, LocalsOK
<1>6. /\ \A g \in Made, i \in Nat : Asks(g, i)' <=> Asks(g, i)
      /\ \A i \in Nat : ~Asks(h, i)'
  BY ZenonT(60), <1>1, <1>2, <1>3, <1>4, EventsMade DEF Asks
<1>7. /\ \A g \in Made : (Acking(g)' <=> Acking(g)) /\ (Awaited(g)' <=> Awaited(g))
      /\ ~Acking(h)'
  BY ZenonT(60), <1>1, <1>2, <1>4, <1>5 DEF Acking, Awaited, At, Others
<1>8. (\A g \in Made : Quiet(g)' <=> Quiet(g)) /\ Quiet(h)'
  BY Zenon, <1>2, <1>4, <1>6, <1>7 DEF Quiet
<1>9. \A d \in Conns : op'[d].at \in Creating => Quiet(op[d].handle)'
  <2>1. \A d \in Conns : op'[d].at \in Creating => \A g \in Made \cup {h} : g = op'[d].handle => Quiet(g)'
    <3> SUFFICES ASSUME NEW d \in Conns, op'[d].at \in Creating, NEW g \in Made \cup {h}, g = op'[d].handle
                 PROVE  Quiet(g)'
      BY Zenon
    <3>1. CASE d = c
      BY Zenon, <1>1, <1>3, <1>8, <3>1
    <3>2. CASE d # c
      <4>1. op[d].at \in Creating /\ g = op[d].handle /\ Quiet(op[d].handle)
        BY Zenon, <1>1, <3>2 DEF AskedOnce, Others
      <4> QED BY Zenon, <1>5, <1>8, <4>1
    <3> QED BY Zenon, <3>1, <3>2
  <2>2. \A d \in Conns : op'[d].at \in Creating => op'[d].handle \in Made \cup {h}
    BY Zenon, <1>1, <1>3, <1>5 DEF Others
  <2> QED BY Zenon, <2>1, <2>2
<1>10. \A g \in Made' : /\ \A i, j \in Nat : Asks(g, i)' /\ Asks(g, j)' => i = j
                        /\ (\E i \in Nat : Asks(g, i)') => g \notin asked' /\ ~Acking(g)'
                        /\ g \in asked' => ~Acking(g)'
  BY ZenonT(60), <1>1, <1>2, <1>3, <1>4, <1>6, <1>7 DEF AskedOnce
<1> QED BY Zenon, <1>2, <1>4, <1>7, <1>8, <1>9, <1>10 DEF AskedOnce

\* Every step of orderly clients keeps what is known of the questions.
LEMMA AskedStep ==
  ASSUME TypeOK, LocalsInv, Routed, AskedOnce, AloneInv, Orderly, [Next]_vars
  PROVE  AskedOnce'
<1>0. /\ DOMAIN oplocks \subseteq Made /\ mode \in Modes /\ mode.acks # "any"
      /\ \A d \in Conns : op[d].at \in Creating => op[d].handle \in Made \ DOMAIN oplocks
      /\ \A d \in Conns : At(d, "ack") => op[d].handle \in Made /\ owner[op[d].handle] = d
  BY Zenon DEF TypeOK, LocalsInv, LocalsOK, Orderly, At
<1>1. LevelII \notin Exclusive
  BY Zenon DEF LevelII, Exclusive
<1>a. UNCHANGED <<channel, owner>> => \A h \in Made, i \in Nat : Asks(h, i)' <=> Asks(h, i)
  BY Zenon DEF Asks
<1>b. ASSUME NEW c \in Conns, Others(c), ~At(c, "ack") \/ op'[c].handle = op[c].handle, op'[c].at # "ack" \/ At(c, "ack")
      PROVE  \A h \in Made : Acking(h)' => Acking(h)
  <2> SUFFICES ASSUME NEW h \in Made, NEW d \in Conns, op'[d].at = "ack", op'[d].handle = h PROVE Acking(h)
    BY Zenon DEF Acking, At
  <2> QED BY Zenon, <1>b DEF Acking, At, Others
<1>c. ASSUME NEW c \in Conns, Others(c), op'[c].at \in Creating => op[c].at \in Creating /\ op'[c].handle = op[c].handle
      PROVE  \A d \in Conns : op'[d].at \in Creating =>
                /\ op[d].at \in Creating /\ op'[d].handle = op[d].handle /\ op[d].handle \in Made \ DOMAIN oplocks
  BY Zenon, <1>0, <1>c DEF Others
<1>d. ASSUME NEW c \in Conns, op[c].at \in Creating \ {"pend", "wait"} PROVE \A h \in Made : ~Awaited(h)
  <2>1. "pend" \in Creating /\ "wait" \in Creating
    BY Zenon DEF Creating
  <2> QED BY Zenon, <1>d, <2>1 DEF AloneInv, Awaited
<1>e. ASSUME NEW c \in Conns, Others(c), ~At(c, "ack") \/ op'[c].handle = op[c].handle, op'[c].at # "ack" \/ At(c, "ack"),
             op'[c].at \in Creating => op[c].at \in Creating /\ op'[c].handle = op[c].handle,
             op[c].at \notin {"pend", "wait"} \/ (op'[c].at \in {"pend", "wait"} /\ op'[c].id = op[c].id),
             UNCHANGED <<owner, channel, asked>>,
             DOMAIN oplocks' \subseteq DOMAIN oplocks, \A h \in DOMAIN oplocks' : oplocks'[h] = oplocks[h]
      PROVE  AskedOnce'
  <2>1. \A h \in Made : Awaited(h) => Awaited(h)'
    BY Zenon, <1>e DEF Awaited, Others
  <2>2. /\ UNCHANGED owner /\ asked' \subseteq asked /\ DOMAIN oplocks' \subseteq Made
        /\ \A h \in Made : \A i \in Nat : Asks(h, i)' => Asks(h, i)
        /\ \A h \in DOMAIN oplocks' : h \in DOMAIN oplocks /\ oplocks'[h] = oplocks[h]
        /\ \A h \in DOMAIN oplocks' : Awaited(h) => Awaited(h)'
    BY Zenon, <1>0, <1>a, <1>e, <2>1
  <2>3. \A h \in Made : Acking(h)' => Acking(h)
    BY Zenon, <1>b, <1>e
  <2>4. \A d \in Conns : op'[d].at \in Creating => op[d].at \in Creating /\ op'[d].handle = op[d].handle /\ op[d].handle \in Made
    BY Zenon, <1>c, <1>e
  <2> QED BY Zenon, <2>2, <2>3, <2>4, AskedFrame
<1>2. CASE UNCHANGED vars
  BY ZenonT(60), <1>2 DEF vars, AskedOnce, Quiet, Asks, Acking, Awaited, At, Made
<1>3. ASSUME NEW c \in Conns, NEW l \in mode.levels, Create(c, l) PROVE AskedOnce'
  BY Zenon, <1>3, AskedCreate
<1>4. ASSUME NEW c \in Conns, Nowait(c) PROVE AskedOnce'
  <2>1. PICK h \in op[c].todo :
          /\ op' = [op EXCEPT ![c] = [op[c] EXCEPT !.todo = op[c].todo \ {h}]]
          /\ \/ UNCHANGED <<channel, oplocks>>
             \/ h \in DOMAIN oplocks /\ Push(h) /\ UpdateLevel(h, LevelII)
    BY Zenon, <1>4, NowaitIs
  <2>2. /\ Others(c) /\ op[c].at = "nowait" /\ op'[c].at = "nowait" /\ op'[c].handle = op[c].handle
        /\ UNCHANGED <<owner, asked>>
    BY ZenonT(60), <1>4, <2>1, DoneIs, NowaitIs DEF At, Same
  <2>3. CASE UNCHANGED <<channel, oplocks>>
    BY Zenon, <1>e, <2>2, <2>3 DEF At
  <2>4. CASE h \in DOMAIN oplocks /\ Push(h) /\ UpdateLevel(h, LevelII)
    <3>0. DOMAIN oplocks' = DOMAIN oplocks /\ oplocks'[h] = LevelII /\ \A g \in DOMAIN oplocks : g # h => oplocks'[g] = oplocks[g]
      BY Zenon, <2>4, UpdateIs
    <3>1. \A g \in Made : ~Awaited(g)
      BY Zenon, <1>d, <2>2 DEF Creating
    <3>2. oplocks[h] \in Exclusive => Quiet(h)
      BY Zenon, <1>0, <2>4, <3>1 DEF AskedOnce
    <3>3. /\ \A g \in Made : Acking(g)' => Acking(g)
          /\ \A d \in Conns : op'[d].at \in Creating =>
               /\ op[d].at \in Creating /\ op'[d].handle = op[d].handle /\ op[d].handle \in Made \ DOMAIN oplocks
      BY Zenon, <1>b, <1>c, <2>2 DEF At
    <3>4. /\ DOMAIN oplocks' = DOMAIN oplocks /\ oplocks'[h] = LevelII
          /\ \A g \in DOMAIN oplocks : g # h => oplocks'[g] = oplocks[g] /\ (Awaited(g) => Awaited(g)')
      BY Zenon, <1>0, <3>0, <3>1
    <3> QED BY Zenon, <2>2, <2>4, <3>2, <3>3, <3>4, AskedPush
  <2> QED BY Zenon, <2>1, <2>3, <2>4
<1>5. ASSUME NEW c \in Conns, Refuse(c) \/ AckStore(c) PROVE AskedOnce'
  <2>1. /\ UNCHANGED <<oplocks, owner, channel, asked>> /\ op[c].at \in {"nowait", "ackstore"}
        /\ Others(c) /\ op'[c].at = "idle"
    BY Zenon, <1>5, EndIs DEF Refuse, AckStore, At
  <2> QED BY Zenon, <1>e, <2>1 DEF At, Creating
<1>6. ASSUME NEW c \in Conns, Scan(c) PROVE AskedOnce'
  <2>1. UNCHANGED <<oplocks, owner, channel, asked>>
    BY Zenon, <1>6 DEF Scan
  <2>2. Others(c) /\ op'[c].at \in {"store", "break"} /\ op[c].at = "nowait" /\ op'[c].handle = op[c].handle
    BY Zenon, <1>6, ScanIs DEF At, Same
  <2> QED BY Zenon, <1>e, <2>1, <2>2 DEF At, Creating
<1>7. ASSUME NEW c \in Conns, SendBreak(c) PROVE AskedOnce'
  <2>1. PICK h \in op[c].todo :
          \/ /\ op' = [op EXCEPT ![c] = [op[c] EXCEPT !.at = "break", !.todo = op[c].todo \ {h}]]
             /\ UNCHANGED <<channel, oplocks>>
          \/ /\ h \in DOMAIN oplocks /\ Push(h) /\ oplocks[h] \in Exclusive
             /\ op' = [op EXCEPT ![c] = [op[c] EXCEPT !.at = "pend", !.id = h]]
             /\ UNCHANGED oplocks
          \/ /\ h \in DOMAIN oplocks /\ Push(h) /\ oplocks[h] \notin Exclusive
             /\ op' = [op EXCEPT ![c] = [op[c] EXCEPT !.at = "break", !.todo = op[c].todo \ {h}]]
             /\ UpdateLevel(h, LevelII)
    BY Zenon, <1>7, SendBreakIs
  <2>2. op[c].at = "break" /\ UNCHANGED <<owner, asked>>
    BY Zenon, <1>7, SendBreakIs DEF At
  <2>3. \A g \in Made : ~Awaited(g)
    BY Zenon, <1>d, <2>2 DEF Creating
  <2>4. CASE /\ op' = [op EXCEPT ![c] = [op[c] EXCEPT !.at = "break", !.todo = op[c].todo \ {h}]]
             /\ UNCHANGED <<channel, oplocks>>
    <3>1. Others(c) /\ op'[c].at = "break" /\ op'[c].handle = op[c].handle
      BY Zenon, <2>4, DoneIs DEF Same
    <3> QED BY Zenon, <1>e, <2>2, <2>4, <3>1 DEF At, Creating
  <2>5. CASE /\ h \in DOMAIN oplocks /\ Push(h) /\ oplocks[h] \in Exclusive
             /\ op' = [op EXCEPT ![c] = [op[c] EXCEPT !.at = "pend", !.id = h]]
             /\ UNCHANGED oplocks
    <3>1. Others(c) /\ op'[c].at = "pend" /\ op'[c].id = h /\ op'[c].handle = op[c].handle
      BY ZenonT(60), <2>5, DoneIs DEF Same
    <3>2. Quiet(h)
      BY Zenon, <1>0, <2>3, <2>5 DEF AskedOnce
    <3>3. /\ \A g \in Made : Acking(g)' => Acking(g)
          /\ \A d \in Conns : op'[d].at \in Creating =>
               /\ op[d].at \in Creating /\ op'[d].handle = op[d].handle /\ op[d].handle \in Made \ DOMAIN oplocks
      BY Zenon, <1>b, <1>c, <2>2, <3>1 DEF At, Creating
    <3>4. /\ DOMAIN oplocks' = DOMAIN oplocks /\ oplocks'[h] = oplocks[h] /\ Awaited(h)'
          /\ \A g \in DOMAIN oplocks : g # h => oplocks'[g] = oplocks[g] /\ (Awaited(g) => Awaited(g)')
      BY Zenon, <1>0, <2>3, <2>5, <3>1 DEF Awaited
    <3> QED BY Zenon, <2>2, <2>5, <3>2, <3>3, <3>4, AskedPush
  <2>6. CASE /\ h \in DOMAIN oplocks /\ Push(h) /\ oplocks[h] \notin Exclusive
             /\ op' = [op EXCEPT ![c] = [op[c] EXCEPT !.at = "break", !.todo = op[c].todo \ {h}]]
             /\ UpdateLevel(h, LevelII)
    <3>0. DOMAIN oplocks' = DOMAIN oplocks /\ oplocks'[h] = LevelII /\ \A g \in DOMAIN oplocks : g # h => oplocks'[g] = oplocks[g]
      BY Zenon, <2>6, UpdateIs
    <3>1. Others(c) /\ op'[c].at = "break" /\ op'[c].handle = op[c].handle
      BY Zenon, <2>6, DoneIs DEF Same
    <3>2. /\ \A g \in Made : Acking(g)' => Acking(g)
          /\ \A d \in Conns : op'[d].at \in Creating =>
               /\ op[d].at \in Creating /\ op'[d].handle = op[d].handle /\ op[d].handle \in Made \ DOMAIN oplocks
      BY Zenon, <1>b, <1>c, <2>2, <3>1 DEF At
    <3>3. /\ DOMAIN oplocks' = DOMAIN oplocks /\ oplocks'[h] = LevelII
          /\ \A g \in DOMAIN oplocks : g # h => oplocks'[g] = oplocks[g] /\ (Awaited(g) => Awaited(g)')
      BY Zenon, <1>0, <2>3, <3>0
    <3> QED BY Zenon, <2>2, <2>6, <3>2, <3>3, AskedPush
  <2> QED BY Zenon, <2>1, <2>4, <2>5, <2>6
<1>8. ASSUME NEW c \in Conns, Grant(c) PROVE AskedOnce'
  <2>1. UNCHANGED <<oplocks, owner, channel, asked>>
    BY Zenon, <1>8 DEF Grant
  <2>2. Others(c) /\ op'[c].at = "store" /\ op[c].at = "break" /\ op'[c].handle = op[c].handle
    BY Zenon, <1>8, GrantIs DEF At
  <2> QED BY Zenon, <1>e, <2>1, <2>2 DEF At, Creating
<1>9. ASSUME NEW c \in Conns, CreateHandle(c) PROVE AskedOnce'
  <2>1. UNCHANGED <<oplocks, owner, channel, asked>> /\ op[c].at = "store" /\ Goto(c, "register")
    BY Zenon, <1>9 DEF CreateHandle, At
  <2>2. Others(c) /\ op'[c].at = "register" /\ op'[c].handle = op[c].handle
    BY Zenon, <2>1, GoOnIs DEF Same
  <2> QED BY Zenon, <1>e, <2>1, <2>2 DEF At, Creating
<1>10. ASSUME NEW c \in Conns, Pend(c) PROVE AskedOnce'
  <2>1. UNCHANGED <<oplocks, owner, channel, asked>> /\ op[c].at = "pend" /\ Goto(c, "wait")
    BY Zenon, <1>10 DEF Pend, At
  <2>2. Others(c) /\ op'[c].at = "wait" /\ op'[c].handle = op[c].handle /\ op'[c].id = op[c].id
    BY Zenon, <2>1, GoOnIs DEF Same
  <2> QED BY Zenon, <1>e, <2>1, <2>2 DEF At, Creating
<1>11. ASSUME NEW c \in Conns, Waited(c) PROVE AskedOnce'
  <2>1. UNCHANGED <<owner, channel, asked>> /\ op[c].at = "wait"
    BY Zenon, <1>11 DEF Waited, At
  <2>2. Others(c) /\ op'[c].at = "break" /\ op'[c].handle = op[c].handle
    BY Zenon, <1>11, WaitedIs DEF Same
  <2>3. PICK h : h = op[c].id /\ UpdateLevel(h, LevelII)
    BY Zenon, <1>11 DEF Waited
  <2>4. \A g \in Made : g # h => ~Awaited(g)
    BY Zenon, <2>1, <2>3 DEF AloneInv, Awaited, Creating
  <2>5. /\ asked' \subseteq asked /\ DOMAIN oplocks' \subseteq Made
        /\ \A g \in Made : \A i \in Nat : Asks(g, i)' => Asks(g, i)
        /\ \A g \in DOMAIN oplocks' : g \in DOMAIN oplocks /\ (oplocks'[g] = oplocks[g] \/ oplocks'[g] = LevelII)
        /\ \A g \in DOMAIN oplocks' : oplocks'[g] \in Exclusive /\ Awaited(g) => Awaited(g)'
    <3>1. /\ DOMAIN oplocks' = DOMAIN oplocks /\ (h \in DOMAIN oplocks => oplocks'[h] = LevelII)
          /\ \A g \in DOMAIN oplocks : g # h => oplocks'[g] = oplocks[g]
      BY ZenonT(60), <2>3, UpdateIs
    <3> QED BY ZenonT(60), <1>0, <1>1, <1>a, <2>1, <2>4, <3>1
  <2>6. /\ \A g \in Made : Acking(g)' => Acking(g)
        /\ \A d \in Conns : op'[d].at \in Creating =>
             /\ op[d].at \in Creating /\ op'[d].handle = op[d].handle /\ op[d].handle \in Made \ DOMAIN oplocks
    BY Zenon, <1>b, <1>c, <2>1, <2>2 DEF At, Creating
  <2> QED BY Zenon, <2>1, <2>5, <2>6, AskedFrame
<1>12. ASSUME NEW c \in Conns, Respond(c) PROVE AskedOnce'
  <2> DEFINE l == op[c].level
  <2>1. UNCHANGED <<owner, channel, asked>> /\ op[c].at = "register"
    BY Zenon, <1>12 DEF Respond, At
  <2>2. Others(c) /\ op'[c].at = "idle"
    BY Zenon, <1>12, EndIs
  <2>3. PICK h : h = op[c].handle
    BY Zenon
  <2>4. oplocks' = IF l = None THEN oplocks ELSE Set(oplocks, h, l)
    BY Zenon, <1>12, <2>3 DEF Respond, Register
  <2>5. h \in Made /\ Quiet(h)
    BY Zenon, <1>0, <2>1, <2>3 DEF AskedOnce, Creating
  <2> HIDE DEF l
  <2>6. \A g \in DOMAIN oplocks' : (g \in DOMAIN oplocks /\ oplocks'[g] = oplocks[g]) \/ g = h
    BY Zenon, <2>4 DEF Set
  <2>7. \A g \in Made : /\ Acking(g)' => Acking(g)
                        /\ \A i \in Nat : Asks(g, i)' => Asks(g, i)
                        /\ ~Awaited(g)
    BY Zenon, <1>a, <1>b, <1>d, <2>1, <2>2 DEF At, Creating
  <2>8. Quiet(h)' /\ asked' \subseteq asked /\ DOMAIN oplocks' \subseteq Made
    BY Zenon, <1>0, <2>1, <2>5, <2>6, <2>7 DEF Quiet
  <2>9. \A d \in Conns : op'[d].at \in Creating => op[d].at \in Creating /\ op'[d].handle = op[d].handle /\ op[d].handle \in Made
    BY Zenon, <1>c, <2>2 DEF Creating
  <2>10. /\ \A g \in DOMAIN oplocks' : Quiet(g)' \/ (g \in DOMAIN oplocks /\ (oplocks'[g] = oplocks[g] \/ oplocks'[g] = LevelII))
         /\ \A g \in DOMAIN oplocks' : oplocks'[g] \in Exclusive /\ Awaited(g) => Awaited(g)'
    BY Zenon, <2>6, <2>7, <2>8
  <2> QED BY Zenon, <2>1, <2>7, <2>8, <2>9, <2>10, AskedFrame
<1>13. ASSUME NEW c \in Conns, Notify(c) PROVE AskedOnce'
  BY Zenon, <1>13, AskedNotify
<1>14. ASSUME NEW c \in Conns, NEW h \in DOMAIN handles, NEW l \in {None, LevelII, "batch"}, Ack(c, h, l)
       PROVE  AskedOnce'
  BY Zenon, <1>0, <1>14, AskedAck
<1>15. ASSUME NEW c \in Conns, AckRegistry(c) PROVE AskedOnce'
  <2>1. UNCHANGED <<owner, channel, asked>> /\ op[c].at = "ack" /\ Goto(c, "ackstore")
    BY Zenon, <1>15 DEF AckRegistry, At
  <2>2. Others(c) /\ op'[c].at = "ackstore"
    BY Zenon, <2>1, GoOnIs
  <2>3. PICK h : h = op[c].handle
    BY Zenon
  <2>4. PICK l : l = op[c].level /\ UpdateLevel(h, l)
    BY Zenon, <1>15, <2>3 DEF AckRegistry
  <2>5. h \in Made /\ Acking(h)
    BY Zenon, <1>0, <2>1, <2>3 DEF Acking, At
  <2>6. ~Acking(h)'
    <3> SUFFICES ASSUME NEW d \in Conns, op'[d].at = "ack", op'[d].handle = h PROVE FALSE
      BY Zenon DEF Acking, At
    <3>1. d # c
      BY Zenon, <2>2
    <3>2. op[d].at = "ack" /\ op[d].handle = h
      BY Zenon, <2>2, <3>1 DEF Others
    <3> QED BY ZenonT(60), <1>0, <2>1, <2>3, <3>1, <3>2 DEF At
  <2>7. \A g \in Made : /\ \A i \in Nat : Asks(g, i)' => Asks(g, i)
                        /\ Awaited(g) => Awaited(g)'
                        /\ Acking(g)' => Acking(g)
    <3>1. \A g \in Made : Awaited(g) => Awaited(g)'
      BY Zenon, <2>1, <2>2 DEF Awaited, Others
    <3>2. \A g \in Made : Acking(g)' => Acking(g)
      BY Zenon, <1>b, <2>1, <2>2, GoOnIs DEF At, Same
    <3> QED BY Zenon, <1>a, <2>1, <3>1, <3>2
  <2>8. Quiet(h)'
    BY Zenon, <2>1, <2>5, <2>6, <2>7 DEF Quiet, AskedOnce
  <2>9. /\ asked' \subseteq asked /\ DOMAIN oplocks' \subseteq Made
        /\ \A g \in DOMAIN oplocks' : Quiet(g)' \/ (g \in DOMAIN oplocks /\ oplocks'[g] = oplocks[g])
        /\ \A g \in DOMAIN oplocks' : Awaited(g) => Awaited(g)'
    <3>1. DOMAIN oplocks' = DOMAIN oplocks /\ \A g \in DOMAIN oplocks : g # h => oplocks'[g] = oplocks[g]
      BY Zenon, <2>4, UpdateIs
    <3> QED BY Zenon, <1>0, <2>1, <2>7, <2>8, <3>1
  <2>10. \A d \in Conns : op'[d].at \in Creating => op[d].at \in Creating /\ op'[d].handle = op[d].handle /\ op[d].handle \in Made
    BY Zenon, <1>c, <2>2 DEF Creating
  <2> QED BY Zenon, <2>1, <2>7, <2>9, <2>10, AskedFrame
<1>16. ASSUME NEW c \in Conns, (\E h \in DOMAIN handles : Close(c, h)) \/ Logoff(c) \/ Disconnect(c)
       PROVE  AskedOnce'
  <2>1. /\ UNCHANGED <<op, owner, asked>> /\ (oplocks' = oplocks \/ \E S : oplocks' = Without(oplocks, S))
        /\ UNCHANGED channel \/ channel' = [channel EXCEPT ![c] = <<>>]
    BY Zenon, <1>16 DEF Close, Logoff, Disconnect
  <2>2. \A h \in DOMAIN oplocks' : h \in DOMAIN oplocks /\ oplocks'[h] = oplocks[h]
    BY ZenonT(60), <2>1 DEF Without
  <2>3. \A h \in Made : (Acking(h)' <=> Acking(h)) /\ (Awaited(h)' <=> Awaited(h))
    BY Zenon, <2>1 DEF Acking, Awaited, At
  <2>4. \A h \in Made : \A i \in Nat : Asks(h, i)' => Asks(h, i)
    <3>1. CASE channel' = [channel EXCEPT ![c] = <<>>]
      <4>1. channel'[c] = <<>> /\ \A d \in Conns : d # c => channel'[d] = channel[d]
        BY Zenon, <3>1 DEF TypeOK
      <4>2. DOMAIN channel'[c] = {}
        BY SMTT(30), <4>1
      <4>3. \A h \in Made : owner[h] \in Conns
        BY Zenon DEF TypeOK, Made
      <4> QED BY Zenon, <2>1, <4>1, <4>2, <4>3 DEF Asks
    <3> QED BY Zenon, <1>a, <2>1, <3>1
  <2>5. /\ asked' \subseteq asked /\ DOMAIN oplocks' \subseteq Made
        /\ \A h \in DOMAIN oplocks' : Awaited(h) => Awaited(h)'
        /\ \A d \in Conns : op'[d].at \in Creating => op[d].at \in Creating /\ op'[d].handle = op[d].handle /\ op[d].handle \in Made
    BY Zenon, <1>0, <2>1, <2>2, <2>3
  <2> QED BY Zenon, <2>1, <2>2, <2>3, <2>4, <2>5, AskedFrame
<1> QED
  BY Zenon, <1>2, <1>3, <1>4, <1>5, <1>6, <1>7, <1>8, <1>9, <1>10, <1>11, <1>12, <1>13, <1>14, <1>15, <1>16
     DEF Next, Step, Client

------------------------------------------------------------------------------
(* Batch and Exclusive oplocks *)

\* A step that only lowers or removes oplocks.
Lowered ==
  \A h \in DOMAIN oplocks' : /\ h \in DOMAIN oplocks /\ (oplocks'[h] = oplocks[h] \/ oplocks'[h] \notin Exclusive)
                             /\ oplocks[h] = None => oplocks'[h] = None

\* A step of another request: it lowers levels, which no CREATE minds.
LEMMA AloneFrame ==
  ASSUME AloneInv, OnlyExclusive, Lowered, UNCHANGED session,
         NEW c \in Conns, Others(c), op[c].at \notin Creating, op'[c].at \notin Creating,
         op'[c].at = "ack" => op'[c].level \in {LevelII, None},
         \A h \in DOMAIN oplocks' : owner'[h] \in up'
  PROVE  AloneInv' /\ OnlyExclusive'
<1>1. \A d \in Conns : Alone(d)'
  <2> SUFFICES ASSUME NEW d \in Conns PROVE Alone(d)'
    BY Zenon
  <2>1. CASE d = c
    BY Zenon, <2>1 DEF Alone, Creating
  <2>2. CASE d # c
    <3>1. op'[d] = op[d] /\ Alone(d)
      BY Zenon, <2>2 DEF Others, AloneInv
    <3>2. \A S : NoneExclusive(DOMAIN oplocks \ S) => NoneExclusive(DOMAIN oplocks \ S)'
      BY Zenon DEF Lowered, NoneExclusive
    <3>3. NoneExclusive(DOMAIN oplocks) => NoneExclusive(DOMAIN oplocks)'
      BY Zenon DEF Lowered, NoneExclusive
    <3>4. (\A h \in DOMAIN oplocks : oplocks[h] = None) => \A h \in DOMAIN oplocks' : oplocks'[h] = None
      BY Zenon DEF Lowered
    <3>5. NoneExclusive(DOMAIN oplocks \ op[d].todo) => NoneExclusive(DOMAIN oplocks \ op[d].todo)'
      BY Zenon, <3>1 DEF Lowered, NoneExclusive
    <3> QED BY Zenon, <3>1, <3>2, <3>3, <3>4, <3>5 DEF Alone
  <2> QED BY Zenon, <2>1, <2>2
<1>2. OnlyExclusive'
  BY Zenon DEF OnlyExclusive, Lowered
<1>3. \A d, e \in Conns : op'[d].at \in Creating /\ op'[e].at \in Creating => d = e
  BY Zenon DEF AloneInv, Others
<1>4. \A d \in Conns : At(d, "ack")' => op'[d].level \in {LevelII, None}
  BY Zenon DEF AloneInv, Others, At
<1> QED BY Zenon, <1>1, <1>2, <1>3, <1>4 DEF AloneInv

\* A step of the only CREATE there is.
LEMMA AloneCreating ==
  ASSUME AloneInv, UNCHANGED <<session, owner, up>>, DOMAIN oplocks' \subseteq DOMAIN oplocks,
         NEW c \in Conns, Others(c), op[c].at \in Creating, op'[c].at \in Creating \cup {"idle"},
         Alone(c)'
  PROVE  AloneInv'
<1>0. "ack" \notin Creating \cup {"idle"} /\ "idle" \notin Creating
  BY Zenon DEF Creating
<1>1. \A d \in Conns : d # c => op'[d] = op[d] /\ op[d].at \notin Creating
  BY Zenon DEF AloneInv, Others
<1>2. \A d \in Conns : Alone(d)'
  BY ZenonT(60), <1>1 DEF Alone, Creating
<1>3. \A d, e \in Conns : op'[d].at \in Creating /\ op'[e].at \in Creating => d = e
  BY Zenon, <1>1
<1>4. \A d \in Conns : At(d, "ack")' => op'[d].level \in {LevelII, None}
  BY Zenon, <1>0 DEF AloneInv, Others, At
<1> QED BY Zenon, <1>2, <1>3, <1>4 DEF AloneInv

\* A break of the only exclusive oplock leaves none.
LEMMA AloneBreak ==
  ASSUME NEW h, UpdateLevel(h, LevelII), NoneExclusive(DOMAIN oplocks \ {h})
  PROVE  /\ NoneExclusive(DOMAIN oplocks)' /\ OnlyExclusive' /\ DOMAIN oplocks' = DOMAIN oplocks
         /\ \A S : NoneExclusive(DOMAIN oplocks \ S)'
<1>1. LevelII \notin Exclusive
  BY Zenon DEF LevelII, Exclusive
<1>2. /\ DOMAIN oplocks' = DOMAIN oplocks /\ (h \in DOMAIN oplocks => oplocks'[h] = LevelII)
      /\ \A g \in DOMAIN oplocks : g # h => oplocks'[g] = oplocks[g]
  BY Zenon, UpdateIs
<1> QED BY Zenon, <1>1, <1>2 DEF NoneExclusive, OnlyExclusive

\* Every step of orderly clients leaves an exclusive oplock alone.
LEMMA AloneStep ==
  ASSUME TypeOK, LocalsInv, AskedOnce, AloneInv, OnlyExclusive, Orderly, [Next]_vars
  PROVE  AloneInv' /\ OnlyExclusive'
<1>0. /\ mode \in Modes /\ mode.serial /\ mode.acks # "any" /\ ~mode.logoff
      /\ session = Conns /\ (\A h \in DOMAIN oplocks : owner[h] \in up) /\ \A d \in Conns : Alone(d)
  BY Zenon DEF TypeOK, Orderly, AloneInv
<1>1. LevelII \notin Exclusive /\ None \notin Exclusive /\ "batch" \in Exclusive /\ LevelII # None
  BY Zenon DEF LevelII, None, Exclusive
<1>a. ASSUME NEW c \in Conns, UNCHANGED <<session, owner, up, oplocks>>, Others(c), op[c].at \in Creating,
             op'[c].at \in Creating \cup {"idle"}, Alone(c)'
      PROVE  AloneInv' /\ OnlyExclusive'
  BY Zenon, <1>a, AloneCreating DEF OnlyExclusive
<1>b. ASSUME NEW c \in Conns, NEW h \in op[c].todo, op[c].at \in {"nowait", "break", "pend", "wait"},
             UpdateLevel(h, LevelII), UNCHANGED <<session, owner, up>>, Others(c), op'[c].at \in {"nowait", "break"}
      PROVE  AloneInv' /\ OnlyExclusive'
  <2>1. NoneExclusive(DOMAIN oplocks \ {h})
    BY Zenon, <1>0, <1>b DEF Alone
  <2>2. /\ OnlyExclusive' /\ DOMAIN oplocks' = DOMAIN oplocks /\ \A g \in DOMAIN oplocks' : oplocks'[g] \notin Exclusive
    BY Zenon, <1>b, <2>1, AloneBreak DEF NoneExclusive
  <2>3. Alone(c)'
    BY Zenon, <1>b, <2>2 DEF Alone, NoneExclusive
  <2>4. op[c].at \in Creating /\ op'[c].at \in Creating
    BY Zenon, <1>b DEF Creating
  <2> QED BY Zenon, <1>b, <2>2, <2>3, <2>4, AloneCreating
<1>2. CASE UNCHANGED vars
  <2>1. AloneInv'
    BY Zenon, <1>2 DEF vars, AloneInv, Alone, NoneExclusive, At
  <2> QED BY Zenon, <1>2, <2>1 DEF vars, OnlyExclusive
<1>3. ASSUME NEW c \in Conns, NEW l \in mode.levels, Create(c, l) PROVE AloneInv' /\ OnlyExclusive'
  <2>1. /\ Others(c) /\ op'[c].at = "nowait"
        /\ op'[c].todo = {g \in DOMAIN oplocks : owner[g] # c /\ oplocks[g] = "batch"}
        /\ \A h \in Made : owner'[h] = owner[h]
    BY Zenon, <1>3, CreateIs
  <2>2. UNCHANGED <<oplocks, session, up>> /\ \A d \in Conns : op[d] = Idle
    BY Zenon, <1>0, <1>3 DEF Create
  <2>3. \A d \in Conns : d # c => op'[d].at = "idle"
    <3>1. Idle.at = "idle"
      BY Zenon, IdleIs
    <3> QED BY Zenon, <2>1, <2>2, <3>1 DEF Others
  <2>4. Alone(c)'
    <3>1. \A g \in op'[c].todo : NoneExclusive(DOMAIN oplocks \ {g})
      BY Zenon, <1>1, <2>1 DEF OnlyExclusive, NoneExclusive
    <3>2. \A g \in op'[c].todo : NoneExclusive(DOMAIN oplocks \ {g})'
      BY Zenon, <2>2, <3>1 DEF NoneExclusive
    <3> QED BY Zenon, <2>1, <3>2 DEF Alone
  <2>5. \A d \in Conns : Alone(d)'
    BY Zenon, <2>3, <2>4 DEF Alone
  <2>6. \A d, e \in Conns : op'[d].at \in Creating /\ op'[e].at \in Creating => d = e
    BY Zenon, <2>3 DEF Creating
  <2>7. \A d \in Conns : ~At(d, "ack")'
    BY Zenon, <2>1, <2>3 DEF At
  <2>8. DOMAIN oplocks \subseteq Made
    BY Zenon DEF TypeOK
  <2> QED BY ZenonT(60), <1>0, <2>1, <2>2, <2>5, <2>6, <2>7, <2>8 DEF AloneInv, OnlyExclusive
<1>4. ASSUME NEW c \in Conns, Nowait(c) PROVE AloneInv' /\ OnlyExclusive'
  <2>1. PICK h \in op[c].todo :
          /\ op' = [op EXCEPT ![c] = [op[c] EXCEPT !.todo = op[c].todo \ {h}]]
          /\ \/ UNCHANGED <<channel, oplocks>>
             \/ h \in DOMAIN oplocks /\ Push(h) /\ UpdateLevel(h, LevelII)
    BY Zenon, <1>4, NowaitIs
  <2>2. /\ Others(c) /\ op[c].at = "nowait" /\ op'[c].at = "nowait" /\ op'[c].todo = op[c].todo \ {h}
        /\ UNCHANGED <<session, owner, up>>
    BY Zenon, <1>4, <2>1, DoneIs, NowaitIs DEF At
  <2>3. CASE UNCHANGED oplocks
    <3>1. Alone(c)'
      BY Zenon, <1>0, <2>2, <2>3 DEF Alone, NoneExclusive
    <3>2. op[c].at \in Creating /\ op'[c].at \in Creating
      BY Zenon, <2>2 DEF Creating
    <3> QED BY Zenon, <1>a, <2>2, <2>3, <3>1, <3>2
  <2>4. CASE UpdateLevel(h, LevelII)
    BY Zenon, <1>b, <2>2, <2>4
  <2> QED BY Zenon, <2>1, <2>3, <2>4
<1>5. ASSUME NEW c \in Conns, Refuse(c) PROVE AloneInv' /\ OnlyExclusive'
  <2>1. UNCHANGED <<oplocks, session, owner, up>> /\ op[c].at \in Creating /\ Others(c) /\ op'[c].at = "idle"
    BY Zenon, <1>5, EndIs DEF Refuse, At, Creating
  <2>2. Alone(c)'
    BY Zenon, <2>1 DEF Alone
  <2> QED BY Zenon, <1>a, <2>1, <2>2
<1>6. ASSUME NEW c \in Conns, Scan(c) PROVE AloneInv' /\ OnlyExclusive'
  <2>1. UNCHANGED <<oplocks, session, owner, up>>
    BY Zenon, <1>6 DEF Scan
  <2>2. /\ Others(c) /\ op[c].at = "nowait" /\ op'[c].level = op[c].level
        /\ op[c].level = None => op'[c].at = "store"
        /\ op[c].level # None => op'[c].at = "break" /\ op'[c].todo = {h \in DOMAIN oplocks : oplocks[h] \in Exclusive}
    BY Zenon, <1>6, ScanIs DEF At, Same
  <2>3. op[c].at \in Creating /\ op'[c].at \in Creating
    BY Zenon, <2>2 DEF Creating
  <2>4. CASE op[c].level = None
    <3>1. Alone(c)'
      BY Zenon, <1>1, <2>2, <2>4 DEF Alone
    <3> QED BY Zenon, <1>a, <2>1, <2>2, <2>3, <3>1
  <2>5. CASE op[c].level # None
    <3>1. \A g \in op'[c].todo : NoneExclusive(DOMAIN oplocks \ {g})'
      BY Zenon, <1>1, <2>1, <2>2, <2>5 DEF OnlyExclusive, NoneExclusive
    <3>2. NoneExclusive(DOMAIN oplocks \ op[c].todo)'
      BY Zenon, <2>1, <2>2, <2>5 DEF NoneExclusive
    <3>3. Alone(c)'
      BY Zenon, <2>2, <2>5, <3>1, <3>2 DEF Alone
    <3> QED BY Zenon, <1>a, <2>1, <2>2, <2>3, <3>3
  <2> QED BY Zenon, <2>4, <2>5
<1>7. ASSUME NEW c \in Conns, SendBreak(c) PROVE AloneInv' /\ OnlyExclusive'
  <2>1. PICK h \in op[c].todo :
          \/ /\ h \notin DOMAIN oplocks \/ Closed(h)
             /\ op' = [op EXCEPT ![c] = [op[c] EXCEPT !.at = "break", !.todo = op[c].todo \ {h}]]
             /\ UNCHANGED <<channel, oplocks>>
          \/ /\ op' = [op EXCEPT ![c] = [op[c] EXCEPT !.at = "pend", !.id = h]]
             /\ UNCHANGED oplocks
          \/ /\ op' = [op EXCEPT ![c] = [op[c] EXCEPT !.at = "break", !.todo = op[c].todo \ {h}]]
             /\ UpdateLevel(h, LevelII)
    BY Zenon, <1>7, SendBreakIs
  <2>2. op[c].at = "break" /\ UNCHANGED <<session, owner, up>>
    BY Zenon, <1>7, SendBreakIs DEF At
  <2>3. op[c].at \in Creating /\ {"break", "pend"} \subseteq Creating
    BY Zenon, <2>2 DEF Creating
  <2>4. CASE /\ h \notin DOMAIN oplocks \/ Closed(h)
             /\ op' = [op EXCEPT ![c] = [op[c] EXCEPT !.at = "break", !.todo = op[c].todo \ {h}]]
             /\ UNCHANGED <<channel, oplocks>>
    <3>1. Others(c) /\ op'[c].at = "break" /\ op'[c].todo = op[c].todo \ {h} /\ h \notin DOMAIN oplocks
      BY Zenon, <1>0, <2>4, DoneIs DEF Closed
    <3>2. Alone(c)'
      BY Zenon, <1>0, <2>2, <2>4, <3>1 DEF Alone, NoneExclusive
    <3> QED BY Zenon, <1>a, <2>2, <2>3, <2>4, <3>1, <3>2
  <2>5. CASE op' = [op EXCEPT ![c] = [op[c] EXCEPT !.at = "pend", !.id = h]] /\ UNCHANGED oplocks
    <3>1. Others(c) /\ op'[c].at = "pend" /\ op'[c].todo = op[c].todo
      BY Zenon, <2>5, DoneIs
    <3>2. Alone(c)'
      BY Zenon, <1>0, <2>2, <2>5, <3>1 DEF Alone, NoneExclusive
    <3> QED BY Zenon, <1>a, <2>2, <2>3, <2>5, <3>1, <3>2
  <2>6. CASE /\ op' = [op EXCEPT ![c] = [op[c] EXCEPT !.at = "break", !.todo = op[c].todo \ {h}]]
             /\ UpdateLevel(h, LevelII)
    <3>1. Others(c) /\ op'[c].at = "break"
      BY Zenon, <2>6, DoneIs
    <3> QED BY Zenon, <1>b, <2>2, <2>6, <3>1
  <2> QED BY Zenon, <2>1, <2>4, <2>5, <2>6
<1>8. ASSUME NEW c \in Conns, Grant(c) PROVE AloneInv' /\ OnlyExclusive'
  <2>1. UNCHANGED <<oplocks, session, owner, up>>
    BY Zenon, <1>8 DEF Grant
  <2>2. Others(c) /\ op[c].at = "break" /\ op[c].todo = {} /\ op'[c].at = "store" /\ op'[c].level = Reduced(op[c].level)
    BY Zenon, <1>8, GrantIs DEF At
  <2>3. op[c].at \in Creating /\ op'[c].at \in Creating
    BY Zenon, <2>2 DEF Creating
  <2>4. NoneExclusive(DOMAIN oplocks)'
    BY Zenon, <1>0, <2>1, <2>2 DEF Alone, NoneExclusive
  <2>5. op'[c].level \in Exclusive => \A h \in DOMAIN oplocks : oplocks[h] = None
    BY Zenon, <1>1, <2>2 DEF Reduced
  <2>6. Alone(c)'
    BY Zenon, <2>1, <2>2, <2>4, <2>5 DEF Alone
  <2> QED BY Zenon, <1>a, <2>1, <2>2, <2>3, <2>6
<1>9. ASSUME NEW c \in Conns, CreateHandle(c) \/ Pend(c) PROVE AloneInv' /\ OnlyExclusive'
  <2>1. /\ UNCHANGED <<oplocks, session, owner, up>>
        /\ \/ op[c].at = "store" /\ Goto(c, "register")
           \/ op[c].at = "pend" /\ Goto(c, "wait")
    BY Zenon, <1>9 DEF CreateHandle, Pend, At
  <2>2. /\ Others(c) /\ op'[c].level = op[c].level /\ op'[c].todo = op[c].todo
        /\ \/ op[c].at = "store" /\ op'[c].at = "register"
           \/ op[c].at = "pend" /\ op'[c].at = "wait"
    BY Zenon, <2>1, GoOnIs DEF Same
  <2>3. op[c].at \in Creating /\ op'[c].at \in Creating
    BY Zenon, <2>2 DEF Creating
  <2>4. Alone(c)'
    BY Zenon, <1>0, <2>1, <2>2 DEF Alone, NoneExclusive
  <2> QED BY Zenon, <1>a, <2>1, <2>2, <2>3, <2>4
<1>10. ASSUME NEW c \in Conns, Waited(c) PROVE AloneInv' /\ OnlyExclusive'
  <2>1. UNCHANGED <<session, owner, up>> /\ op[c].at = "wait" /\ UpdateLevel(op[c].id, LevelII)
    BY Zenon, <1>10 DEF Waited, At
  <2>2. Others(c) /\ op'[c].at = "break"
    BY Zenon, <1>10, WaitedIs
  <2>3. op[c].id \in op[c].todo
    BY Zenon, <2>1 DEF LocalsInv, LocalsOK
  <2> QED BY Zenon, <1>b, <2>1, <2>2, <2>3
<1>11. ASSUME NEW c \in Conns, Respond(c) PROVE AloneInv' /\ OnlyExclusive'
  <2> DEFINE h == op[c].handle
             l == op[c].level
  <2>1. /\ UNCHANGED <<session, owner, up>> /\ op[c].at = "register"
        /\ oplocks' = IF l = None THEN oplocks ELSE Set(oplocks, h, l)
    BY Zenon, <1>11 DEF Respond, Register, At
  <2>2. Others(c) /\ op'[c].at = "idle"
    BY Zenon, <1>11, EndIs
  <2>3. h \notin DOMAIN oplocks /\ owner[h] \in up /\ op[c].at \in Creating
    BY Zenon, <2>1 DEF LocalsInv, LocalsOK, Creating, At
  <2>4. /\ l # None => NoneExclusive(DOMAIN oplocks)
        /\ l \in Exclusive => \A g \in DOMAIN oplocks : oplocks[g] = None
    BY Zenon, <1>0, <2>1 DEF Alone
  <2> HIDE DEF h, l
  <2>5. \A g \in DOMAIN oplocks' : (g \in DOMAIN oplocks /\ g # h /\ oplocks'[g] = oplocks[g]) \/ (g = h /\ oplocks'[g] = l /\ l # None)
    BY Zenon, <2>1, <2>3 DEF Set
  <2>6. OnlyExclusive'
    <3> SUFFICES ASSUME NEW g \in DOMAIN oplocks', NEW k \in DOMAIN oplocks', oplocks'[g] \in Exclusive, k # g
                 PROVE  oplocks'[k] = None
      BY Zenon DEF OnlyExclusive
    <3>1. CASE g = h
      BY Zenon, <2>4, <2>5, <3>1
    <3>2. CASE k = h
      BY Zenon, <2>4, <2>5, <3>2 DEF NoneExclusive
    <3>3. CASE g # h /\ k # h
      BY Zenon, <2>5, <3>3 DEF OnlyExclusive
    <3> QED BY Zenon, <3>1, <3>2, <3>3
  <2>7. \A d \in Conns : op'[d].at \notin Creating
    <3>1. "idle" \notin Creating
      BY Zenon DEF Creating
    <3> QED BY Zenon, <2>2, <2>3, <3>1 DEF AloneInv, Others
  <2>8. \A d \in Conns : Alone(d)'
    BY Zenon, <2>7 DEF Alone, Creating
  <2>9. \A d \in Conns : At(d, "ack")' => op'[d].level \in {LevelII, None}
    BY Zenon, <2>2 DEF AloneInv, Others, At
  <2>10. \A g \in DOMAIN oplocks' : owner'[g] \in up'
    BY Zenon, <1>0, <2>1, <2>3, <2>5
  <2> QED BY Zenon, <1>0, <2>1, <2>6, <2>7, <2>8, <2>9, <2>10 DEF AloneInv
<1>12. ASSUME NEW c \in Conns, AckRegistry(c) PROVE AloneInv' /\ OnlyExclusive'
  <2>1. UNCHANGED <<session, owner, up>> /\ op[c].at = "ack" /\ Goto(c, "ackstore") /\ UpdateLevel(op[c].handle, op[c].level)
    BY Zenon, <1>12 DEF AckRegistry, At
  <2>2. Others(c) /\ op'[c].at = "ackstore"
    BY Zenon, <2>1, GoOnIs
  <2>3. op[c].level \in {LevelII, None} /\ Acking(op[c].handle)
    BY Zenon, <2>1 DEF AloneInv, Acking, At
  <2>4. op[c].handle \in DOMAIN oplocks => oplocks[op[c].handle] # None
    BY Zenon, <2>3 DEF AskedOnce, Quiet
  <2>5. /\ DOMAIN oplocks' = DOMAIN oplocks
        /\ op[c].handle \in DOMAIN oplocks => oplocks'[op[c].handle] = op[c].level
        /\ \A g \in DOMAIN oplocks : g # op[c].handle => oplocks'[g] = oplocks[g]
    BY Zenon, <2>1, UpdateIs
  <2>6. Lowered
    BY Zenon, <1>1, <2>3, <2>4, <2>5 DEF Lowered
  <2>7. \A g \in DOMAIN oplocks' : owner'[g] \in up'
    BY Zenon, <1>0, <2>1, <2>5
  <2> QED BY Zenon, <2>1, <2>2, <2>6, <2>7, AloneFrame DEF Creating
<1>13. ASSUME NEW c \in Conns, AckStore(c) PROVE AloneInv' /\ OnlyExclusive'
  <2>1. UNCHANGED <<oplocks, session, owner, up>> /\ op[c].at = "ackstore" /\ Others(c) /\ op'[c].at = "idle"
    BY Zenon, <1>13, EndIs DEF AckStore, At
  <2>2. Lowered
    BY Zenon, <2>1 DEF Lowered
  <2> QED BY Zenon, <1>0, <2>1, <2>2, AloneFrame DEF Creating
<1>14. ASSUME NEW c \in Conns, NEW h \in DOMAIN handles, NEW l \in {None, LevelII, "batch"}, Ack(c, h, l)
       PROVE  AloneInv' /\ OnlyExclusive'
  <2>0. Others(c) /\ At(c, "idle") /\ op'[c].at = "ack" /\ op'[c].level = l
    BY Zenon, <1>14, AckIs
  <2>1. Others(c) /\ op[c].at = "idle" /\ op'[c].at = "ack" /\ op'[c].level = l
    BY Zenon, <2>0 DEF At
  <2>2. UNCHANGED <<oplocks, session, owner, up>> /\ l \in {LevelII, None}
    BY Zenon, <1>0, <1>14, OplockModes DEF Ack
  <2>3. Lowered
    BY Zenon, <2>2 DEF Lowered
  <2> QED BY Zenon, <1>0, <2>1, <2>2, <2>3, AloneFrame DEF Creating
<1>15. ASSUME NEW c \in Conns, Notify(c) PROVE AloneInv' /\ OnlyExclusive'
  <2>1. UNCHANGED <<oplocks, op, session, owner, up>> /\ op[c].at = "idle"
    BY Zenon, <1>15, NotifyIs DEF At
  <2>2. Lowered /\ Others(c)
    BY Zenon, <2>1 DEF Lowered, Others
  <2> QED BY Zenon, <1>0, <2>1, <2>2, AloneFrame DEF Creating
<1>16. ASSUME NEW c \in Conns, (\E h \in DOMAIN handles : Close(c, h)) \/ Logoff(c) \/ Disconnect(c)
       PROVE  AloneInv' /\ OnlyExclusive'
  <2>1. /\ UNCHANGED <<op, owner, session>> /\ op[c].at = "idle"
        /\ \/ UNCHANGED up /\ (oplocks' = oplocks \/ \E S : oplocks' = Without(oplocks, S))
           \/ up' = up \ {c} /\ oplocks' = Without(oplocks, Owned(c))
    BY Zenon, <1>0, <1>16, IdleIs DEF Close, Logoff, Disconnect, Ready
  <2>2. Others(c)
    BY Zenon, <2>1 DEF Others
  <2>3. \A h \in DOMAIN oplocks' : h \in DOMAIN oplocks /\ oplocks'[h] = oplocks[h]
    BY ZenonT(60), <2>1 DEF Without
  <2>4. Lowered
    BY Zenon, <2>3 DEF Lowered
  <2>5. ASSUME up' = up \ {c}, oplocks' = Without(oplocks, Owned(c)), NEW h \in DOMAIN oplocks' PROVE owner[h] # c
    <3>1. h \notin Owned(c) /\ h \in Made
      BY Zenon, <2>5 DEF Without, TypeOK
    <3> QED BY Zenon, <3>1 DEF Owned, Made
  <2>6. \A h \in DOMAIN oplocks' : owner'[h] \in up'
    BY Zenon, <1>0, <2>1, <2>3, <2>5
  <2> QED BY Zenon, <2>1, <2>2, <2>4, <2>6, AloneFrame DEF Creating
<1> QED
  BY Zenon, <1>2, <1>3, <1>4, <1>5, <1>6, <1>7, <1>8, <1>9, <1>10, <1>11, <1>12, <1>13, <1>14, <1>15, <1>16
     DEF Next, Step, Client

------------------------------------------------------------------------------
(* The theorems *)

\* Init, and what every step keeps.
Inv == TypeOK /\ LocalsInv /\ PendingInv /\ Routed /\ InformedInv /\ OrderlyInv

\* In the beginning there is nothing.
LEMMA InitInv ==
  ASSUME Init
  PROVE  Inv
<1>1. /\ mode \in Modes /\ op = [c \in Conns |-> Idle] /\ answer = [c \in Conns |-> "none"]
      /\ channel = [c \in Conns |-> <<>>] /\ session = Conns /\ up = Conns
      /\ pending = {} /\ asked = {} /\ told = {}
      /\ oplocks = <<>> /\ handles = <<>> /\ owner = <<>> /\ granted = <<>>
  BY Zenon DEF Init
<1>2. /\ DOMAIN oplocks = {} /\ DOMAIN handles = {} /\ DOMAIN owner = {} /\ DOMAIN granted = {}
      /\ \A T : oplocks \in [{} -> T] /\ handles \in [{} -> T] /\ granted \in [{} -> T] /\ owner \in [1 .. 0 -> T]
  <2>1. DOMAIN (<<>>) = {} /\ \A T : <<>> \in [{} -> T] /\ 1 .. 0 = {}
    BY SMTT(30)
  <2> QED BY Zenon, <1>1, <2>1
<1>3. <<>> \in Seq(Event) /\ DOMAIN (<<>>) = {} /\ 0 \in Nat
  BY SMTT(30)
<1>4. \A c \in Conns : op[c] = Idle /\ At(c, "idle") /\ answer[c] = "none" /\ DOMAIN channel[c] = {}
  BY Zenon, <1>1, <1>3, IdleIs DEF At
<1>5. TypeOK
  BY Zenon, <1>1, <1>2, <1>3, IdleIs DEF TypeOK, Made
<1>6. LocalsInv
  BY Zenon, <1>4 DEF LocalsInv, LocalsOK, At, Creating
<1>7. PendingInv
  BY Zenon, <1>1, <1>4 DEF PendingInv, At
<1>8. Routed
  BY Zenon, <1>4 DEF Routed
<1>9. InformedInv
  BY Zenon, <1>2, <1>4 DEF InformedInv, At
<1>10. AskedOnce
  BY Zenon, <1>2, <1>4 DEF AskedOnce, Made, At, Creating
<1>11. AloneInv
  <2>1. \A c \in Conns : Alone(c)
    BY Zenon, <1>4 DEF Alone, At
  <2>2. \A c \in Conns : op[c].at \notin Creating /\ ~At(c, "ack")
    BY Zenon, <1>4 DEF At, Creating
  <2> QED BY Zenon, <1>1, <1>2, <2>1, <2>2 DEF AloneInv
<1>12. ExclusiveAlone
  BY Zenon, <1>2 DEF ExclusiveAlone, OnlyExclusive
<1> QED BY Zenon, <1>5, <1>6, <1>7, <1>8, <1>9, <1>10, <1>11, <1>12 DEF Inv, OrderlyInv

\* The mode is fixed.
LEMMA ModeStays ==
  ASSUME [Next]_vars
  PROVE  UNCHANGED mode
<1>1. ASSUME NEW c \in Conns, Step(c) PROVE UNCHANGED mode
  <2>1. CASE Nowait(c)
    BY Zenon, <2>1, NowaitIs
  <2>2. CASE SendBreak(c)
    BY Zenon, <2>2, SendBreakIs
  <2>3. CASE Refuse(c) \/ Scan(c) \/ Pend(c) \/ Waited(c) \/ Grant(c) \/ CreateHandle(c) \/ Respond(c) \/ AckRegistry(c) \/ AckStore(c)
    BY Zenon, <2>3 DEF Refuse, Scan, Pend, Waited, Grant, CreateHandle, Respond, AckRegistry, AckStore
  <2> QED BY Zenon, <1>1, <2>1, <2>2, <2>3 DEF Step
<1>2. ASSUME NEW c \in Conns, Notify(c) \/ Client(c) PROVE UNCHANGED mode
  BY Zenon, <1>2 DEF Client, Notify, Create, Close, Ack, Logoff, Disconnect
<1>3. UNCHANGED vars => UNCHANGED mode
  BY Zenon DEF vars
<1> QED BY Zenon, <1>1, <1>2, <1>3 DEF Next

\* Every step keeps the inductive invariant.
LEMMA StepInv ==
  ASSUME Inv, [Next]_vars
  PROVE  Inv'
<1>1. TypeOK /\ LocalsInv /\ PendingInv /\ Routed /\ InformedInv /\ OrderlyInv
  BY Zenon DEF Inv
<1>2. TypeOK' /\ LocalsInv' /\ PendingInv' /\ Routed' /\ InformedInv'
  BY Zenon, <1>1, TypeStep, LocalsStep, PendingStep, RoutedStep, InformedStep
<1>3. OrderlyInv'
  <2>1. Orderly' <=> Orderly
    BY Zenon, ModeStays DEF Orderly
  <2>2. ASSUME Orderly PROVE AskedOnce' /\ AloneInv' /\ ExclusiveAlone'
    <3>1. AskedOnce /\ AloneInv /\ OnlyExclusive
      BY Zenon, <1>1, <2>2 DEF OrderlyInv, ExclusiveAlone, OnlyExclusive
    <3>2. AskedOnce' /\ AloneInv' /\ OnlyExclusive'
      BY Zenon, <1>1, <2>2, <3>1, AskedStep, AloneStep
    <3> QED BY Zenon, <3>2 DEF ExclusiveAlone, OnlyExclusive
  <2> QED BY Zenon, <2>1, <2>2 DEF OrderlyInv
<1> QED BY Zenon, <1>2, <1>3 DEF Inv

\* The inductive invariant holds in every behaviour.
THEOREM OplocksInv == Spec => []Inv
<1>1. Init => Inv
  BY Zenon, InitInv
<1>2. Inv /\ [Next]_vars => Inv'
  BY Zenon, StepInv
<1> QED BY <1>1, <1>2, PTL DEF Spec

\* pending_oplock_breaks and the connections that wait for an acknowledgement match one to
\* one, however acknowledgements, timeouts, closes and disconnects are interleaved.
THEOREM PendingBreaksMatch == Spec => []PendingMatches
<1>1. Inv => PendingMatches
  <2> SUFFICES ASSUME Inv PROVE PendingMatches
    BY Zenon
  <2>1. PendingInv /\ TypeOK
    BY Zenon DEF Inv
  <2>2. ASSUME NEW c \in Conns, At(c, "wait"), answer[c] = "none"
        PROVE  \E p \in pending : {q \in pending : q.waiter = c} = {p}
    <3> DEFINE e == [handle |-> op[c].id, waiter |-> c]
    <3>1. e \in pending /\ pending \subseteq [handle : Made, waiter : Conns]
      BY Zenon, <2>1, <2>2 DEF PendingInv, TypeOK
    <3>2. \A p \in pending : p.waiter = c => p.handle = op[c].id
      BY Zenon, <2>1 DEF PendingInv
    <3>3. \A p \in pending : p.waiter = c => p = e
      BY SMTT(30), <3>1, <3>2
    <3>4. {p \in pending : p.waiter = c} = {e}
      BY SMTT(30), <3>1, <3>3
    <3> QED BY Zenon, <3>1, <3>4
  <2> QED BY Zenon, <2>1, <2>2 DEF PendingMatches, PendingInv
<1> QED BY <1>1, OplocksInv, PTL

\* The registered level of a handle is the one its client was given, unless the client has been
\* told of a break, has its event still to come, has acknowledged, or is gone.
THEOREM LevelsAreTold == Spec => []LoweredIsTold
<1>1. Inv => LoweredIsTold
  BY Zenon DEF Inv, InformedInv, Informed, LoweredIsTold
<1> QED BY <1>1, OplocksInv, PTL

\* With one CREATE at a time, clients that acknowledge what they are asked to and none that logs
\* off, a Batch or Exclusive oplock is alone on the file.
THEOREM ExclusiveIsAlone == Spec => []ExclusiveAlone
<1>1. Inv => ExclusiveAlone
  BY Zenon DEF Inv, OrderlyInv, ExclusiveAlone
<1> QED BY <1>1, OplocksInv, PTL
==============================================================================
