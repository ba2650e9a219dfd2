------------------------- MODULE CoordinationProofs -------------------------
(***************************************************************************)
(* Proofs about Coordination for every set of servers, every channel       *)
(* capacity and every bound on epochs and coordinator restarts.            *)
(***************************************************************************)
EXTENDS Coordination, TLAPS

\* Sequences of T stay so.
LEMMA SeqIs ==
  ASSUME NEW T
  PROVE  /\ <<>> \in Seq(T)
         /\ \A q \in Seq(T), x \in T : Append(q, x) \in Seq(T)
         /\ \A q \in Seq(T) : q # <<>> => Head(q) \in T /\ Tail(q) \in Seq(T)
OBVIOUS

\* A channel of epochs after an epoch was sent or taken.
LEMMA Channels ==
  ASSUME NEW q \in Seq(Epoch), NEW e \in Epoch
  PROVE  /\ Append(q, e) \in Seq(Epoch)
         /\ <<>> \in Seq(Epoch)
         /\ q # <<>> => /\ Head(q) \in Epoch /\ Tail(q) \in Seq(Epoch)
                        /\ Append(Tail(q), e) \in Seq(Epoch)
<1>1. <<>> \in Seq(Epoch) /\ Append(q, e) \in Seq(Epoch)
  BY Zenon, SeqIs
<1>2. ASSUME q # <<>> PROVE Head(q) \in Epoch /\ Tail(q) \in Seq(Epoch)
  BY Zenon, <1>2, SeqIs
<1>3. ASSUME q # <<>> PROVE Append(Tail(q), e) \in Seq(Epoch)
  BY Zenon, <1>2, <1>3, SeqIs
<1>4. QED
  BY Zenon, <1>1, <1>2, <1>3

\* A broadcast of the coordinator keeps the subscriptions well-typed.
LEMMA BroadcastType ==
  ASSUME TypeOK, NEW e \in Epoch, Broadcast(e)
  PROVE  /\ stream' \in [Servers -> Seq(Epoch)]
         /\ subscribed' \in [Servers -> {"no", "yes", "ended"}]
<1>1. \A s \in Servers : Append(stream[s], e) \in Seq(Epoch) /\ <<>> \in Seq(Epoch)
  BY Zenon, Channels DEF TypeOK
<1>2. QED
  BY Zenon, <1>1 DEF Broadcast, TypeOK

\* So does a notification the listener's channel.
LEMMA NotifyType ==
  ASSUME TypeOK, NEW s \in Servers, NEW e \in Epoch, Notify(s, e)
  PROVE  epoch_rx' \in [Servers -> Seq(Epoch)]
<1> DEFINE q == epoch_rx[s]
           r == IF s \notin listening THEN q
                ELSE IF Len(q) < ListenerCap THEN Append(q, e) ELSE Append(Tail(q), e)
<1>1. q \in Seq(Epoch)
  BY Zenon DEF TypeOK
<1>2. q = <<>> => Len(q) < ListenerCap
  BY ConstantsAssumption, SeqIs
<1>3. r \in Seq(Epoch)
  BY Zenon, <1>1, <1>2, Channels
<1>4. epoch_rx' = [epoch_rx EXCEPT ![s] = r]
  BY Zenon DEF Notify
<1> HIDE DEF r
<1>5. QED
  BY Zenon, <1>3, <1>4 DEF TypeOK

\* The epochs the tasks are about to send on are positive.
SendInv ==
  \A s \in Servers : heartbeat[s].at # "idle" => heartbeat[s].epoch \in Epoch

\* Every step keeps the types.
LEMMA TypeStep ==
  ASSUME TypeOK, SendInv, [Next]_vars
  PROVE  TypeOK' /\ SendInv'
<1> USE DEF Epoch, coordVars, streamVars, clientVars, cacheVars
<1>1. CASE UNCHANGED vars
  BY Zenon, <1>1 DEF TypeOK, SendInv, vars
<1>2. CASE Coordinator
  <2>1. UNCHANGED <<up, clientVars, cacheVars>>
    BY Zenon, <1>2 DEF Coordinator, HeartbeatExpires, MonitorRemove, MonitorRead, MonitorBroadcast,
                IncrementEpoch, HandlerBroadcast, CoordinatorRestart
  <2>2. SendInv'
    BY Zenon, <2>1 DEF SendInv
  <2>3. ASSUME NEW s \in Servers, HeartbeatExpires(s) \/ MonitorRemove(s)
        PROVE  TypeOK' /\ SendInv'
    <3>1. /\ cache_epoch' \in Epoch /\ servers' \subseteq Servers /\ recent' \subseteq servers'
          /\ stale_servers' \subseteq Servers /\ monitor_epoch' \in Nat
          /\ UNCHANGED <<unsent, restarts, stream, subscribed>>
      BY SMTT(30), <2>3 DEF HeartbeatExpires, MonitorRemove, Unregister, TypeOK
    <3>2. QED
      BY Zenon, <2>1, <2>2, <3>1 DEF TypeOK
  <2>4. CASE MonitorRead \/ IncrementEpoch
    <3>1. CASE MonitorRead
      <4>1. stale_servers' \subseteq Servers
        BY Zenon, <3>1 DEF MonitorRead, TypeOK
      <4>2. QED
        BY Zenon, <2>1, <2>2, <3>1, <4>1 DEF MonitorRead, TypeOK
    <3>2. CASE IncrementEpoch
      <4>1. cache_epoch' \in Epoch
        BY <3>2 DEF IncrementEpoch, TypeOK
      <4>2. unsent' \subseteq Epoch
        BY Zenon, <3>2, <4>1 DEF IncrementEpoch, TypeOK
      <4>3. QED
        BY Zenon, <2>1, <2>2, <3>2, <4>1, <4>2 DEF IncrementEpoch, TypeOK
    <3>3. QED
      BY Zenon, <2>4, <3>1, <3>2
  <2>5. CASE MonitorBroadcast
    <3>1. monitor_epoch \in Epoch
      BY Zenon, <2>5 DEF MonitorBroadcast, TypeOK
    <3>2. QED
      BY Zenon, <2>1, <2>2, <2>5, <3>1, BroadcastType DEF MonitorBroadcast, TypeOK
  <2>6. ASSUME NEW e \in unsent, HandlerBroadcast(e) PROVE TypeOK' /\ SendInv'
    <3>1. e \in Epoch
      BY Zenon DEF TypeOK
    <3>2. QED
      BY Zenon, <2>1, <2>2, <2>6, <3>1, BroadcastType DEF HandlerBroadcast, TypeOK
  <2>7. CASE CoordinatorRestart
    <3>1. stream' \in [Servers -> Seq(Nat \ {0})]
      BY Zenon, <2>7, SeqIs DEF CoordinatorRestart
    <3>2. QED
      BY <2>1, <2>2, <2>7, <3>1 DEF CoordinatorRestart, TypeOK
  <2>8. QED
    BY Zenon, <1>2, <2>3, <2>4, <2>5, <2>6, <2>7 DEF Coordinator
<1>3. ASSUME NEW s \in Servers, Server(s)
      PROVE  TypeOK' /\ SendInv'
  <2>1. CASE Register(s)
    BY Zenon, <2>1 DEF Register, TypeOK, SendInv
  <2>2. ASSUME Gone(s), cache_epoch' \in Epoch, unsent' \subseteq Epoch,
               servers' \subseteq Servers, recent' \subseteq servers',
               UNCHANGED <<stale_servers, monitor_epoch, restarts>>
        PROVE  TypeOK' /\ SendInv'
    <3>1. stream' \in [Servers -> Seq(Epoch)] /\ epoch_rx' \in [Servers -> Seq(Epoch)]
      BY Zenon, <2>2, SeqIs DEF Gone, TypeOK
    <3>2. heartbeat' \in [Servers -> Heartbeat] /\ entry' \in [Servers -> Entry]
      BY Zenon, <2>2 DEF Gone, TypeOK, NoHeartbeat, Heartbeat, NoEntry, Entry
    <3>3. SendInv'
      BY Zenon, <2>2 DEF Gone, TypeOK, SendInv, NoHeartbeat
    <3>4. /\ subscribed' \in [Servers -> {"no", "yes", "ended"}]
          /\ cached_epoch' \in [Servers -> Nat] /\ forwarding' \in [Servers -> Nat]
      BY Zenon, <2>2 DEF Gone, TypeOK
    <3>5. /\ setting' \in [Servers -> Nat] /\ handled' \in [Servers -> Nat]
          /\ current_epoch' \in [Servers -> Epoch]
      BY SMTT(30), <2>2 DEF Gone, TypeOK
    <3>6. up' \subseteq Servers /\ listening' \subseteq up'
      BY Zenon, <2>2 DEF Gone, TypeOK
    <3>7. stale_servers' \subseteq Servers /\ monitor_epoch' \in Nat /\ restarts' \in Nat
      BY Zenon, <2>2 DEF TypeOK
    <3>8. QED
      BY Zenon, <2>2, <3>1, <3>2, <3>3, <3>4, <3>5, <3>6, <3>7, Zenon DEF TypeOK
  <2>3. CASE Crash(s)
    BY Zenon, <2>2, <2>3 DEF Crash, TypeOK
  <2>4. CASE LeaveCluster(s)
    <3>1. cache_epoch' \in Epoch
      BY <2>4 DEF LeaveCluster, Unregister, TypeOK
    <3>2. unsent' \subseteq Epoch
      BY Zenon, <2>4, <3>1 DEF LeaveCluster, TypeOK
    <3>3. servers' \subseteq Servers /\ recent' \subseteq servers'
      BY Zenon, <2>4 DEF LeaveCluster, Unregister, TypeOK
    <3>4. QED
      BY Zenon, <2>2, <2>4, <3>1, <3>2, <3>3 DEF LeaveCluster
  <2>5. CASE HeartbeatRequest(s)
    <3>1. heartbeat' \in [Servers -> Heartbeat] /\ SendInv'
      BY Zenon, <2>5 DEF HeartbeatRequest, TypeOK, SendInv, Heartbeat
    <3>2. recent' \subseteq servers
      BY Zenon, <2>5 DEF HeartbeatRequest, TypeOK
    <3>3. QED
      BY Zenon, <2>5, <3>1, <3>2 DEF HeartbeatRequest, TypeOK
  <2>6. CASE HeartbeatStore(s)
    <3> DEFINE h == [heartbeat[s] EXCEPT !.at = "send"]
    <3>1. h \in Heartbeat /\ h.epoch = heartbeat[s].epoch /\ NoHeartbeat \in Heartbeat
      BY ZenonT(60) DEF TypeOK, Heartbeat, NoHeartbeat
    <3>2. \/ heartbeat' = [heartbeat EXCEPT ![s] = NoHeartbeat]
          \/ heartbeat' = [heartbeat EXCEPT ![s] = h]
      BY Zenon, <2>6 DEF HeartbeatStore, TypeOK
    <3> HIDE DEF h
    <3>3. heartbeat' \in [Servers -> Heartbeat]
      BY ZenonT(60), <3>1, <3>2 DEF TypeOK
    <3>4. SendInv'
      <4>1. heartbeat[s].epoch \in Epoch
        BY Zenon, <2>6 DEF HeartbeatStore, SendInv
      <4>2. NoHeartbeat.at = "idle"
        BY Zenon DEF NoHeartbeat
      <4>3. \A t \in Servers \ {s} : heartbeat'[t] = heartbeat[t]
        BY Zenon, <3>2 DEF TypeOK
      <4>4. heartbeat'[s].at # "idle" => heartbeat'[s].epoch \in Epoch
        BY Zenon, <3>1, <3>2, <4>1, <4>2 DEF TypeOK
      <4>5. QED
        BY Zenon, <4>3, <4>4 DEF SendInv
    <3>5. cached_epoch' \in [Servers -> Nat]
      BY Zenon, <2>6 DEF HeartbeatStore, TypeOK, Heartbeat
    <3>6. QED
      BY Zenon, <2>6, <3>3, <3>4, <3>5 DEF HeartbeatStore, TypeOK
  <2>7. CASE HeartbeatSend(s)
    <3>1. heartbeat[s].epoch \in Epoch
      BY Zenon, <2>7 DEF HeartbeatSend, SendInv
    <3>2. epoch_rx' \in [Servers -> Seq(Epoch)]
      BY Zenon, <2>7, <3>1, NotifyType DEF HeartbeatSend
    <3>3. QED
      BY Zenon, <2>7, <3>2 DEF HeartbeatSend, TypeOK, SendInv, Heartbeat, NoHeartbeat
  <2>8. CASE HeartbeatLost(s)
    BY Zenon, <2>8 DEF HeartbeatLost, TypeOK, SendInv, Heartbeat, NoHeartbeat
  <2>9. CASE Subscribe(s)
    BY Zenon, <2>9 DEF Subscribe, TypeOK, SendInv
  <2>10. CASE StreamStore(s)
    <3>1. Head(stream[s]) \in Epoch /\ Tail(stream[s]) \in Seq(Epoch)
      BY Zenon, <2>10, SeqIs DEF StreamStore, TypeOK
    <3>2. QED
      BY Zenon, <2>10, <3>1 DEF StreamStore, TypeOK, SendInv
  <2>11. CASE StreamSend(s)
    <3>1. forwarding[s] \in Epoch
      BY Zenon, <2>11 DEF StreamSend, TypeOK
    <3>2. epoch_rx' \in [Servers -> Seq(Epoch)]
      BY Zenon, <2>11, <3>1, NotifyType DEF StreamSend
    <3>3. QED
      BY Zenon, <2>11, <3>2 DEF StreamSend, TypeOK, SendInv
  <2>12. CASE StreamError(s)
    BY Zenon, <2>12, SeqIs DEF StreamError, TypeOK, SendInv
  <2>13. CASE Listen(s)
    BY Zenon, <2>13 DEF Listen, TypeOK, SendInv
  <2>14. CASE SetEpoch(s)
    <3>1. Head(epoch_rx[s]) \in Epoch /\ Tail(epoch_rx[s]) \in Seq(Epoch)
      BY Zenon, <2>14, SeqIs DEF SetEpoch, TypeOK
    <3>2. QED
      BY Zenon, <2>14, <3>1 DEF SetEpoch, TypeOK, SendInv
  <2>15. CASE InvalidateAll(s)
    <3>1. current_epoch' \in [Servers -> Epoch]
      BY SMTT(30), <2>15 DEF InvalidateAll, TypeOK
    <3>2. setting' \in [Servers -> Nat]
      BY <2>15 DEF InvalidateAll, TypeOK
    <3>3. handled' \in [Servers -> Nat]
      BY SMTT(30), <2>15 DEF InvalidateAll, TypeOK
    <3>4. QED
      BY Zenon, <2>15, <3>1, <3>2, <3>3 DEF InvalidateAll, TypeOK, SendInv
  <2>16. CASE Put(s) \/ Drop(s)
    <3> DEFINE r == [epoch |-> current_epoch[s], since |-> handled[s]]
    <3>1. entry' \in [Servers -> Entry]
      <4>1. r \in Entry /\ NoEntry \in Entry
        BY Zenon DEF TypeOK, Entry, NoEntry
      <4>2. entry' = [entry EXCEPT ![s] = r] \/ entry' = [entry EXCEPT ![s] = NoEntry]
        BY Zenon, <2>16 DEF Put, Drop
      <4> HIDE DEF r
      <4>3. QED
        BY ZenonT(60), <4>1, <4>2 DEF TypeOK
    <3>2. UNCHANGED <<coordVars, up, streamVars, clientVars, setting, current_epoch, handled>>
      BY Zenon, <2>16 DEF Put, Drop
    <3>3. QED
      BY Zenon, <3>1, <3>2 DEF TypeOK, SendInv
  <2>17. QED
    BY Zenon, <1>3, <2>1, <2>3, <2>4, <2>5, <2>6, <2>7, <2>8, <2>9, <2>10, <2>11, <2>12, <2>13,
       <2>14, <2>15, <2>16 DEF Server
<1>4. QED
  BY Zenon, <1>1, <1>2, <1>3 DEF Next

\* Init satisfies the invariants.
LEMMA InitOK == Init => TypeOK /\ SendInv /\ TagInv
<1>1. ASSUME Init PROVE TypeOK
  <2>1. stream \in [Servers -> Seq(Epoch)] /\ epoch_rx \in [Servers -> Seq(Epoch)]
    BY Zenon, <1>1, SeqIs DEF Init
  <2>2. heartbeat \in [Servers -> Heartbeat] /\ entry \in [Servers -> Entry]
    BY Zenon, <1>1 DEF Init, NoHeartbeat, Heartbeat, NoEntry, Entry
  <2>3. QED
    BY <1>1, <2>1, <2>2 DEF Init, TypeOK, Epoch
<1>2. ASSUME Init PROVE SendInv
  BY Zenon, <1>2 DEF Init, SendInv, NoHeartbeat
<1>3. ASSUME Init PROVE TagInv
  <2>1. \A s \in Servers : /\ setting[s] = 0 /\ current_epoch[s] = 1 /\ handled[s] = 0
                          /\ entry[s].epoch = 0
    BY Zenon, <1>3 DEF Init, NoEntry
  <2>2. SUFFICES ASSUME NEW s \in Servers
                 PROVE  /\ setting[s] = 0 => current_epoch[s] <= handled[s] + 1
                        /\ setting[s] # 0 => current_epoch[s] = setting[s]
                        /\ entry[s].epoch <= handled[s] + 1 \/ entry[s].epoch <= setting[s]
    BY Zenon DEF TagInv
  <2>3. QED
    BY <2>1
<1>4. QED
  BY Zenon, <1>1, <1>2, <1>3

\* The part of TagInv that is about one server.
Tags(s) ==
  /\ setting[s] = 0 => current_epoch[s] <= handled[s] + 1
  /\ setting[s] # 0 => current_epoch[s] = setting[s]
  /\ entry[s].epoch <= handled[s] + 1 \/ entry[s].epoch <= setting[s]

\* No step tags an entry beyond the next epoch, and the step in which the listener
\* has handled a new epoch leaves no entry valid.
LEMMA TagStep ==
  ASSUME TypeOK, TagInv, [Next]_vars
  PROVE  TagInv' /\ \A s \in Servers : handled'[s] > handled[s] => ~IsValid(s)'
<1> SUFFICES ASSUME NEW s \in Servers
             PROVE  Tags(s)' /\ (handled'[s] > handled[s] => ~IsValid(s)')
  BY Zenon DEF TagInv, Tags
<1> USE DEF coordVars, streamVars, clientVars, cacheVars
<1>1. /\ Tags(s) /\ setting[s] \in Nat /\ current_epoch[s] \in Nat /\ handled[s] \in Nat
      /\ entry[s].epoch \in Nat
  BY Zenon DEF TagInv, Tags, TypeOK, Entry, Epoch
<1>2. ASSUME /\ setting'[s] = setting[s] /\ current_epoch'[s] = current_epoch[s]
             /\ entry'[s] = entry[s] /\ handled'[s] = handled[s]
      PROVE  Tags(s)' /\ (handled'[s] > handled[s] => ~IsValid(s)')
  BY <1>1, <1>2 DEF Tags
<1>3. CASE UNCHANGED vars \/ Coordinator
  <2>1. UNCHANGED cacheVars
    BY Zenon, <1>3 DEF vars, Coordinator, HeartbeatExpires, MonitorRemove, MonitorRead,
                MonitorBroadcast, IncrementEpoch, HandlerBroadcast, CoordinatorRestart
  <2>2. QED
    BY Zenon, <1>2, <2>1
<1>4. ASSUME NEW t \in Servers, Server(t)
      PROVE  Tags(s)' /\ (handled'[s] > handled[s] => ~IsValid(s)')
  <2>1. CASE Register(t) \/ HeartbeatRequest(t) \/ HeartbeatStore(t) \/ HeartbeatSend(t)
             \/ HeartbeatLost(t) \/ Subscribe(t) \/ StreamStore(t) \/ StreamSend(t)
             \/ StreamError(t) \/ Listen(t)
    <3>1. UNCHANGED cacheVars
      BY Zenon, <2>1 DEF Register, HeartbeatRequest, HeartbeatStore, HeartbeatSend, HeartbeatLost,
                  Subscribe, StreamStore, StreamSend, StreamError, Listen
    <3>2. QED
      BY Zenon, <1>2, <3>1
  <2>2. CASE t # s
    <3>1. /\ setting'[s] = setting[s] /\ current_epoch'[s] = current_epoch[s]
          /\ entry'[s] = entry[s] /\ handled'[s] = handled[s]
      BY ZenonT(60), <1>4, <2>2 DEF Server, Register, HeartbeatRequest, HeartbeatStore, HeartbeatSend,
           HeartbeatLost, Subscribe, StreamStore, StreamSend, StreamError, Listen, SetEpoch,
           InvalidateAll, Put, Drop, Crash, LeaveCluster, Gone, TypeOK
    <3>2. QED
      BY Zenon, <1>2, <3>1
  <2>3. CASE t = s /\ Gone(s)
    <3>1. /\ setting'[s] = 0 /\ current_epoch'[s] = 1 /\ handled'[s] = 0
          /\ entry'[s].epoch = 0
      BY Zenon, <2>3 DEF Gone, TypeOK, NoEntry
    <3>2. QED
      BY <1>1, <3>1 DEF Tags
  <2>4. CASE t = s /\ SetEpoch(s)
    <3>1. /\ setting[s] = 0 /\ current_epoch'[s] = setting'[s]
          /\ entry'[s] = entry[s] /\ handled'[s] = handled[s]
      BY Zenon, <2>4 DEF SetEpoch, TypeOK
    <3>2. setting'[s] \in Epoch
      BY Zenon, <2>4, SeqIs DEF SetEpoch, TypeOK
    <3>3. QED
      BY <1>1, <3>1, <3>2 DEF Tags, Epoch
  <2>5. CASE t = s /\ InvalidateAll(s)
    <3>1. /\ setting[s] # 0 /\ setting'[s] = 0 /\ current_epoch'[s] = current_epoch[s] + 1
          /\ entry'[s] = entry[s]
          /\ handled'[s] = IF setting[s] > handled[s] THEN setting[s] ELSE handled[s]
      BY Zenon, <2>5 DEF InvalidateAll, TypeOK
    <3>2. Tags(s)'
      BY <1>1, <3>1 DEF Tags
    <3>3. handled'[s] > handled[s] => entry'[s].epoch # current_epoch'[s]
      BY <1>1, <3>1 DEF Tags
    <3>4. QED
      BY Zenon, <3>2, <3>3 DEF IsValid
  <2>6. CASE t = s /\ (Put(s) \/ Drop(s))
    <3>1. /\ setting'[s] = setting[s] /\ current_epoch'[s] = current_epoch[s]
          /\ handled'[s] = handled[s]
      BY Zenon, <2>6 DEF Put, Drop
    <3>2. entry'[s].epoch \in {current_epoch[s], 0}
      BY <2>6 DEF Put, Drop, TypeOK, NoEntry
    <3>3. QED
      BY <1>1, <3>1, <3>2 DEF Tags
  <2>7. QED
    BY Zenon, <1>4, <2>1, <2>2, <2>3, <2>4, <2>5, <2>6 DEF Server, Crash, LeaveCluster
<1>5. QED
  BY Zenon, <1>3, <1>4 DEF Next

\* TypeOK is an invariant: coordinator, clients and caches stay well-formed, and a
\* server that has gone leaves no listener behind.
THEOREM CoordinationTypeCorrect == Spec => []TypeOK
<1>1. TypeOK /\ SendInv /\ [Next]_vars => (TypeOK /\ SendInv)'
  BY Zenon, TypeStep
<1>2. QED
  BY <1>1, InitOK, PTL DEF Spec

\* TagInv is an invariant: whatever order epochs arrive in, no cache entry is tagged
\* beyond the epoch after the largest one handled.
THEOREM TagsBounded == Spec => []TagInv
<1>1. TypeOK /\ TagInv /\ [Next]_vars => TagInv'
  BY Zenon, TagStep
<1>2. QED
  BY <1>1, InitOK, CoordinationTypeCorrect, PTL DEF Spec

\* set_epoch followed by invalidate_all, for an epoch beyond all those handled before,
\* leaves nothing in the cache valid, for every interleaving of heartbeat task,
\* subscription task, listener and cache users.
THEOREM NewEpochsInvalidate == Spec => NewEpochInvalidates
<1>1. TypeOK /\ TagInv /\ [Next]_vars
        => [\A s \in Servers : handled'[s] > handled[s] => ~IsValid(s)']_vars
  BY Zenon, TagStep
<1>2. QED
  BY <1>1, CoordinationTypeCorrect, TagsBounded, PTL DEF Spec, NewEpochInvalidates

------------------------------------------------------------------------------
\* Every epoch in channel q is at most b.
Below(q, b) == \A i \in 1..Len(q) : q[i] <= b

\* Taking epochs from such a channel, or sending an epoch that is at most b, keeps it
\* so, and b may grow.
LEMMA BelowChannels ==
  ASSUME NEW q \in Seq(Epoch), NEW e \in Epoch, NEW b \in Nat, Below(q, b)
  PROVE  /\ Below(<<>>, b)
         /\ e <= b => Below(Append(q, e), b)
         /\ q # <<>> => Head(q) <= b /\ Below(Tail(q), b)
         /\ q # <<>> /\ e <= b => Below(Append(Tail(q), e), b)
<1>1. \A p \in Seq(Epoch) : Below(p, b) /\ e <= b => Below(Append(p, e), b)
  BY DEF Below, Epoch
<1>2. ASSUME q # <<>> PROVE Tail(q) \in Seq(Epoch) /\ Head(q) <= b /\ Below(Tail(q), b)
  BY <1>2 DEF Below, Epoch
<1>3. QED
  BY <1>1, <1>2 DEF Below

\* A larger bound.
LEMMA BelowLarger ==
  ASSUME NEW q \in Seq(Epoch), NEW b \in Nat, NEW c \in Nat, b <= c, Below(q, b)
  PROVE  Below(q, c)
BY DEF Below, Epoch

\* The two halves of NeverAhead: what the coordinator has still to send, and what has
\* reached server s or is on its way to it.
SendsBelow(b) == monitor_epoch <= b /\ \A e \in unsent : e <= b

ServerBelow(s, b) ==
  /\ cached_epoch[s] <= b /\ heartbeat[s].epoch <= b
  /\ forwarding[s] <= b /\ setting[s] <= b /\ handled[s] <= b
  /\ Below(stream[s], b) /\ Below(epoch_rx[s], b)

\* NeverAhead is the two together.
LEMMA NeverAheadIs ==
  NeverAhead <=> (restarts = 0 => /\ SendsBelow(cache_epoch)
                                  /\ \A s \in Servers : ServerBelow(s, cache_epoch))
BY Zenon DEF NeverAhead, SendsBelow, ServerBelow, Below

\* What a server has stays below a bound that grows, if it does not change.
LEMMA ServerKept ==
  ASSUME TypeOK, NEW s \in Servers, ServerBelow(s, cache_epoch), cache_epoch' \in Nat,
         cache_epoch <= cache_epoch',
         Below(stream'[s], cache_epoch'), cached_epoch'[s] = cached_epoch[s],
         heartbeat'[s] = heartbeat[s], forwarding'[s] = forwarding[s],
         setting'[s] = setting[s], handled'[s] = handled[s], epoch_rx'[s] = epoch_rx[s]
  PROVE  ServerBelow(s, cache_epoch)'
<1>1. Below(epoch_rx'[s], cache_epoch')
  BY Zenon, BelowLarger DEF TypeOK, ServerBelow, Epoch
<1>2. /\ cached_epoch'[s] <= cache_epoch' /\ heartbeat'[s].epoch <= cache_epoch'
      /\ forwarding'[s] <= cache_epoch' /\ setting'[s] <= cache_epoch'
      /\ handled'[s] <= cache_epoch'
  BY SMTT(30) DEF TypeOK, ServerBelow, Epoch, Heartbeat
<1>3. QED
  BY Zenon, <1>1, <1>2, Zenon DEF ServerBelow

\* A broadcast of an epoch the coordinator has reached.
LEMMA BroadcastBelow ==
  ASSUME TypeOK, NEW s \in Servers, NEW e \in Epoch, e <= cache_epoch,
         Below(stream[s], cache_epoch), Broadcast(e)
  PROVE  Below(stream'[s], cache_epoch)
<1>1. stream[s] \in Seq(Epoch) /\ cache_epoch \in Nat
  BY Zenon DEF TypeOK, Epoch
<1>2. Below(<<>>, cache_epoch) /\ Below(Append(stream[s], e), cache_epoch)
  BY Zenon, <1>1, BelowChannels
<1>3. stream'[s] \in {stream[s], Append(stream[s], e), <<>>}
  BY Zenon DEF Broadcast
<1>4. QED
  BY Zenon, <1>2, <1>3

\* A notification of the listener with such an epoch.
LEMMA NotifyBelow ==
  ASSUME TypeOK, NEW s \in Servers, NEW e \in Epoch, e <= cache_epoch,
         Below(epoch_rx[s], cache_epoch), Notify(s, e)
  PROVE  Below(epoch_rx'[s], cache_epoch)
<1> DEFINE q == epoch_rx[s]
<1>1. q \in Seq(Epoch) /\ cache_epoch \in Nat
  BY Zenon DEF TypeOK, Epoch
<1>2. q = <<>> => Len(q) < ListenerCap
  BY ConstantsAssumption, SeqIs
<1>3. /\ Below(Append(q, e), cache_epoch)
      /\ q # <<>> => Below(Append(Tail(q), e), cache_epoch)
  BY Zenon, <1>1, BelowChannels
<1>4. epoch_rx'[s] = IF s \notin listening THEN q
                     ELSE IF Len(q) < ListenerCap THEN Append(q, e) ELSE Append(Tail(q), e)
  BY Zenon DEF Notify, TypeOK
<1>5. QED
  BY Zenon, <1>2, <1>3, <1>4

\* No step of a server other than s touches what s has.
LEMMA OtherServer ==
  ASSUME TypeOK, NEW s \in Servers, NEW t \in Servers, t # s, Server(t)
  PROVE  /\ stream'[s] = stream[s] /\ cached_epoch'[s] = cached_epoch[s]
         /\ heartbeat'[s] = heartbeat[s] /\ forwarding'[s] = forwarding[s]
         /\ setting'[s] = setting[s] /\ handled'[s] = handled[s] /\ epoch_rx'[s] = epoch_rx[s]
<1> USE DEF coordVars, streamVars, clientVars, cacheVars
<1>1. CASE Crash(t) \/ LeaveCluster(t)
  BY ZenonT(60), <1>1 DEF Crash, LeaveCluster, Gone, TypeOK
<1>2. CASE Register(t) \/ Put(t) \/ Drop(t) \/ Subscribe(t) \/ Listen(t) \/ HeartbeatRequest(t)
           \/ HeartbeatLost(t) \/ HeartbeatStore(t)
  BY ZenonT(60), <1>2 DEF Register, Put, Drop, Subscribe, Listen, HeartbeatRequest, HeartbeatLost,
              HeartbeatStore, TypeOK
<1>3. CASE HeartbeatSend(t) \/ StreamSend(t)
  BY Zenon, <1>3 DEF HeartbeatSend, StreamSend, Notify, TypeOK
<1>4. CASE StreamStore(t) \/ StreamError(t) \/ SetEpoch(t) \/ InvalidateAll(t)
  BY ZenonT(60), <1>4 DEF StreamStore, StreamError, SetEpoch, InvalidateAll, TypeOK
<1>5. QED
  BY Zenon, <1>1, <1>2, <1>3, <1>4 DEF Server

\* A server's own steps: every epoch it takes comes from the coordinator, from one of
\* its channels or from one of its tasks.
LEMMA OwnStep ==
  ASSUME TypeOK, SendInv, NEW s \in Servers, Server(s), ServerBelow(s, cache_epoch),
         cache_epoch' \in Nat, cache_epoch <= cache_epoch'
  PROVE  ServerBelow(s, cache_epoch)'
<1> USE DEF coordVars, streamVars, clientVars, cacheVars
<1>1. /\ stream[s] \in Seq(Epoch) /\ epoch_rx[s] \in Seq(Epoch) /\ cache_epoch \in Epoch
      /\ Below(stream[s], cache_epoch) /\ Below(epoch_rx[s], cache_epoch)
      /\ heartbeat[s] \in Heartbeat
  BY Zenon DEF TypeOK, ServerBelow
<1>2. Below(<<>>, cache_epoch) /\ Below(<<>>, cache_epoch')
  BY SeqIs DEF Below
<1>3. Below(stream[s], cache_epoch')
  BY Zenon, <1>1, BelowLarger DEF Epoch
<1>4. CASE Crash(s) \/ LeaveCluster(s)
  <2>1. /\ stream'[s] = <<>> /\ epoch_rx'[s] = <<>> /\ cached_epoch'[s] = 0
        /\ heartbeat'[s].epoch = 0 /\ forwarding'[s] = 0 /\ setting'[s] = 0 /\ handled'[s] = 0
    BY SMTT(30), <1>4 DEF Crash, LeaveCluster, Gone, TypeOK, NoHeartbeat
  <2>2. QED
    BY <1>2, <2>1 DEF ServerBelow
<1>5. CASE Put(s) \/ Drop(s) \/ Subscribe(s) \/ Listen(s)
  <2>1. UNCHANGED <<stream, cached_epoch, heartbeat, forwarding, setting, handled, epoch_rx>>
    BY Zenon, <1>5 DEF Put, Drop, Subscribe, Listen
  <2>2. QED
    BY Zenon, <1>3, <2>1, ServerKept
<1>6. CASE Register(s) \/ HeartbeatRequest(s)
  <2>1. /\ cached_epoch'[s] \in {cached_epoch[s], cache_epoch}
        /\ heartbeat'[s].epoch \in {heartbeat[s].epoch, cache_epoch}
        /\ cache_epoch' = cache_epoch
        /\ UNCHANGED <<stream, forwarding, setting, handled, epoch_rx>>
    BY SMTT(30), <1>6 DEF Register, HeartbeatRequest, TypeOK
  <2>2. QED
    BY Zenon, <1>1, <2>1 DEF ServerBelow, Epoch
<1>7. CASE HeartbeatStore(s) \/ HeartbeatLost(s)
  <2>1. /\ cached_epoch'[s] \in {cached_epoch[s], heartbeat[s].epoch}
        /\ heartbeat'[s].epoch \in {heartbeat[s].epoch, 0}
        /\ cache_epoch' = cache_epoch
        /\ UNCHANGED <<stream, forwarding, setting, handled, epoch_rx>>
    BY SMTT(30), <1>1, <1>7 DEF HeartbeatStore, HeartbeatLost, NoHeartbeat, Heartbeat, TypeOK
  <2>2. QED
    BY <1>1, <2>1, SMTT(30) DEF ServerBelow, Epoch
<1>8. CASE HeartbeatSend(s) \/ StreamSend(s)
  <2>1. Below(epoch_rx'[s], cache_epoch)
    <3>1. CASE HeartbeatSend(s)
      <4>1. heartbeat[s].epoch \in Epoch /\ heartbeat[s].epoch <= cache_epoch
        BY Zenon, <3>1 DEF HeartbeatSend, SendInv, ServerBelow
      <4>2. QED
        BY Zenon, <1>1, <3>1, <4>1, NotifyBelow DEF HeartbeatSend
    <3>2. CASE StreamSend(s)
      <4>1. forwarding[s] \in Epoch /\ forwarding[s] <= cache_epoch
        BY Zenon, <3>2 DEF StreamSend, TypeOK, ServerBelow, Epoch
      <4>2. QED
        BY Zenon, <1>1, <3>2, <4>1, NotifyBelow DEF StreamSend
    <3>3. QED
      BY Zenon, <1>8, <3>1, <3>2
  <2>2. /\ heartbeat'[s].epoch \in {heartbeat[s].epoch, 0} /\ forwarding'[s] \in {forwarding[s], 0}
        /\ cache_epoch' = cache_epoch /\ UNCHANGED <<stream, cached_epoch, setting, handled>>
    BY SMTT(30), <1>8 DEF HeartbeatSend, StreamSend, NoHeartbeat, TypeOK
  <2>3. QED
    BY SMTT(30), <1>1, <2>1, <2>2 DEF ServerBelow, Epoch
<1>9. CASE StreamStore(s)
  <2>1. Head(stream[s]) <= cache_epoch /\ Below(Tail(stream[s]), cache_epoch)
    BY Zenon, <1>1, <1>9, BelowChannels DEF StreamStore, Epoch
  <2>2. /\ stream'[s] = Tail(stream[s]) /\ cached_epoch'[s] = Head(stream[s])
        /\ forwarding'[s] = Head(stream[s]) /\ cache_epoch' = cache_epoch
        /\ UNCHANGED <<heartbeat, epoch_rx, setting, handled>>
    BY Zenon, <1>9 DEF StreamStore, TypeOK
  <2>3. QED
    BY Zenon, <2>1, <2>2 DEF ServerBelow
<1>10. CASE StreamError(s)
  <2>1. stream'[s] = <<>>
        /\ UNCHANGED <<cached_epoch, heartbeat, forwarding, setting, handled, epoch_rx>>
    BY Zenon, <1>10 DEF StreamError, TypeOK
  <2>2. QED
    BY Zenon, <1>2, <2>1, ServerKept
<1>11. CASE SetEpoch(s)
  <2>1. Head(epoch_rx[s]) <= cache_epoch /\ Below(Tail(epoch_rx[s]), cache_epoch)
    BY Zenon, <1>1, <1>11, BelowChannels DEF SetEpoch, Epoch
  <2>2. /\ epoch_rx'[s] = Tail(epoch_rx[s]) /\ setting'[s] = Head(epoch_rx[s])
        /\ cache_epoch' = cache_epoch
        /\ UNCHANGED <<stream, cached_epoch, heartbeat, forwarding, handled>>
    BY Zenon, <1>11 DEF SetEpoch, TypeOK
  <2>3. QED
    BY Zenon, <2>1, <2>2 DEF ServerBelow
<1>12. CASE InvalidateAll(s)
  <2>1. /\ setting'[s] = 0 /\ handled'[s] \in {setting[s], handled[s]}
        /\ cache_epoch' = cache_epoch
        /\ UNCHANGED <<stream, cached_epoch, heartbeat, forwarding, epoch_rx>>
    BY Zenon, <1>12 DEF InvalidateAll, TypeOK
  <2>2. setting'[s] <= cache_epoch' /\ handled'[s] <= cache_epoch'
    BY <1>1, <2>1, SMTT(30) DEF ServerBelow, Epoch
  <2>3. QED
    BY Zenon, <2>1, <2>2, Zenon DEF ServerBelow
<1>13. QED
  BY Zenon, <1>4, <1>5, <1>6, <1>7, <1>8, <1>9, <1>10, <1>11, <1>12 DEF Server

\* No step puts a server ahead of a coordinator that keeps running.
LEMMA AheadStep ==
  ASSUME TypeOK, SendInv, TypeOK', NeverAhead, [Next]_vars
  PROVE  NeverAhead'
<1> USE DEF coordVars, streamVars, clientVars, cacheVars
<1>1. SUFFICES ASSUME restarts' = 0
               PROVE  SendsBelow(cache_epoch)' /\ \A s \in Servers : ServerBelow(s, cache_epoch)'
  BY Zenon, NeverAheadIs DEF NeverAhead, SendsBelow, ServerBelow, Below
<1>2. cache_epoch \in Epoch /\ cache_epoch' \in Epoch /\ cache_epoch' \in Nat /\ cache_epoch \in Nat
  BY Zenon DEF TypeOK, Epoch
<1>3. ASSUME SendsBelow(cache_epoch), cache_epoch <= cache_epoch',
             UNCHANGED <<monitor_epoch, unsent>>
      PROVE  SendsBelow(cache_epoch)'
  BY SMTT(30), <1>2, <1>3 DEF SendsBelow, TypeOK, Epoch
<1>4. CASE UNCHANGED vars
  BY Zenon, <1>1, <1>4, NeverAheadIs DEF vars, SendsBelow, ServerBelow
<1>5. CASE Coordinator
  <2>1. ~CoordinatorRestart
    BY <1>1 DEF CoordinatorRestart, TypeOK
  <2>2. restarts = 0
    BY Zenon, <1>1, <1>5, <2>1 DEF Coordinator, HeartbeatExpires, MonitorRemove, Unregister, MonitorRead,
                            MonitorBroadcast, IncrementEpoch, HandlerBroadcast
  <2>3. SendsBelow(cache_epoch) /\ \A s \in Servers : ServerBelow(s, cache_epoch)
    BY Zenon, <2>2, NeverAheadIs
  <2>4. UNCHANGED <<clientVars, cacheVars>>
    BY Zenon, <1>5 DEF Coordinator, HeartbeatExpires, MonitorRemove, MonitorRead,
                MonitorBroadcast, IncrementEpoch, HandlerBroadcast, CoordinatorRestart
  <2>5. ASSUME cache_epoch <= cache_epoch', UNCHANGED stream
        PROVE  \A s \in Servers : ServerBelow(s, cache_epoch)'
    <3>1. \A s \in Servers : Below(stream'[s], cache_epoch')
      BY Zenon, <1>2, <2>3, <2>5, BelowLarger DEF ServerBelow, TypeOK
    <3>2. QED
      BY Zenon, <1>2, <2>3, <2>4, <2>5, <3>1, ServerKept
  <2>6. ASSUME NEW e \in Epoch, e <= cache_epoch, Broadcast(e), cache_epoch' = cache_epoch
        PROVE  \A s \in Servers : ServerBelow(s, cache_epoch)'
    <3>1. \A s \in Servers : Below(stream'[s], cache_epoch')
      BY Zenon, <2>3, <2>6, BroadcastBelow DEF ServerBelow
    <3>2. cache_epoch <= cache_epoch'
      BY <1>2, <2>6
    <3>3. QED
      BY Zenon, <1>2, <2>3, <2>4, <3>1, <3>2, ServerKept
  <2>7. CASE MonitorRead \/ \E s \in Servers : HeartbeatExpires(s)
    <3>1. UNCHANGED <<cache_epoch, monitor_epoch, unsent, stream>>
      BY Zenon, <2>7 DEF MonitorRead, HeartbeatExpires
    <3>2. QED
      BY <1>2, <1>3, <2>3, <2>5, <3>1
  <2>8. ASSUME NEW s \in Servers, MonitorRemove(s)
        PROVE  SendsBelow(cache_epoch)' /\ \A t \in Servers : ServerBelow(t, cache_epoch)'
    <3>1. /\ cache_epoch' = cache_epoch + 1 /\ monitor_epoch' = cache_epoch'
          /\ UNCHANGED <<unsent, stream>>
      BY Zenon, <2>8 DEF MonitorRemove, Unregister
    <3>2. SendsBelow(cache_epoch)'
      BY SMTT(30), <1>2, <2>3, <3>1 DEF SendsBelow, TypeOK, Epoch
    <3>3. QED
      BY <1>2, <2>5, <3>1, <3>2
  <2>9. CASE IncrementEpoch
    <3>1. cache_epoch' = cache_epoch + 1 /\ UNCHANGED <<monitor_epoch, stream>>
      BY Zenon, <2>9 DEF IncrementEpoch
    <3>2. SendsBelow(cache_epoch)'
      BY SMTT(30), <1>2, <2>3, <2>9, <3>1 DEF IncrementEpoch, SendsBelow, TypeOK, Epoch
    <3>3. QED
      BY <1>2, <2>5, <3>1, <3>2
  <2>10. CASE MonitorBroadcast
    <3>1. monitor_epoch \in Epoch /\ monitor_epoch <= cache_epoch
      BY Zenon, <2>3, <2>10 DEF MonitorBroadcast, SendsBelow, TypeOK, Epoch
    <3>2. SendsBelow(cache_epoch)'
      BY <1>2, <2>3, <2>10 DEF MonitorBroadcast, SendsBelow
    <3>3. QED
      BY Zenon, <2>6, <2>10, <3>1, <3>2 DEF MonitorBroadcast
  <2>11. ASSUME NEW e \in unsent, HandlerBroadcast(e)
         PROVE  SendsBelow(cache_epoch)' /\ \A s \in Servers : ServerBelow(s, cache_epoch)'
    <3>1. e \in Epoch /\ e <= cache_epoch
      BY Zenon, <2>3, <2>11 DEF SendsBelow, TypeOK
    <3>2. SendsBelow(cache_epoch)'
      BY Zenon, <2>3, <2>11 DEF HandlerBroadcast, SendsBelow
    <3>3. QED
      BY Zenon, <2>6, <2>11, <3>1, <3>2 DEF HandlerBroadcast
  <2>12. QED
    BY Zenon, <1>5, <2>1, <2>7, <2>8, <2>9, <2>10, <2>11 DEF Coordinator
<1>6. ASSUME NEW t \in Servers, Server(t)
      PROVE  SendsBelow(cache_epoch)' /\ \A s \in Servers : ServerBelow(s, cache_epoch)'
  <2>1. restarts' = restarts /\ monitor_epoch' = monitor_epoch
    BY Zenon, <1>6 DEF Server, Register, Crash, LeaveCluster, HeartbeatRequest, HeartbeatStore,
                HeartbeatSend, HeartbeatLost, Subscribe, StreamStore, StreamSend, StreamError,
                Listen, SetEpoch, InvalidateAll, Put, Drop
  <2>2. SendsBelow(cache_epoch) /\ \A s \in Servers : ServerBelow(s, cache_epoch)
    BY Zenon, <1>1, <2>1, NeverAheadIs
  <2>3. \/ cache_epoch' = cache_epoch + 1 /\ unsent' = unsent \cup {cache_epoch'}
        \/ cache_epoch' = cache_epoch /\ unsent' = unsent
    BY Zenon, <1>6 DEF Server, Register, Crash, LeaveCluster, Unregister, HeartbeatRequest, HeartbeatStore,
                HeartbeatSend, HeartbeatLost, Subscribe, StreamStore, StreamSend, StreamError,
                Listen, SetEpoch, InvalidateAll, Put, Drop
  <2>4. cache_epoch <= cache_epoch'
    BY <1>2, <2>3
  <2>5. SendsBelow(cache_epoch)'
    <3>1. monitor_epoch' <= cache_epoch'
      BY SMTT(30), <1>2, <2>1, <2>2, <2>4 DEF SendsBelow, TypeOK
    <3>2. \A e \in unsent : e <= cache_epoch'
      BY SMTT(30), <1>2, <2>2, <2>4 DEF SendsBelow, TypeOK, Epoch
    <3>3. \A e \in unsent' : e <= cache_epoch'
      BY <1>2, <2>3, <3>2
    <3>4. QED
      BY Zenon, <3>1, <3>3 DEF SendsBelow
  <2>6. ASSUME NEW s \in Servers PROVE ServerBelow(s, cache_epoch)'
    <3>1. CASE s = t
      BY Zenon, <1>2, <1>6, <2>2, <2>4, <3>1, OwnStep
    <3>2. CASE s # t
      <4>1. Below(stream[s], cache_epoch')
        BY Zenon, <1>2, <2>2, <2>4, BelowLarger DEF ServerBelow, TypeOK
      <4>2. QED
        BY Zenon, <1>2, <1>6, <2>2, <2>4, <3>2, <4>1, OtherServer, ServerKept
    <3>3. QED
      BY Zenon, <3>1, <3>2
  <2>7. QED
    BY Zenon, <2>5, <2>6
<1>7. QED
  BY Zenon, <1>4, <1>5, <1>6 DEF Next

\* While the coordinator keeps running, no epoch in a channel, a response, a task or a
\* cache is beyond the coordinator's: servers only ever learn epochs that were reached.
THEOREM ServersNeverAhead == Spec => []NeverAhead
<1>1. Init => NeverAhead
  <2>1. ASSUME Init
        PROVE  SendsBelow(cache_epoch) /\ \A s \in Servers : ServerBelow(s, cache_epoch)
    <3>1. SendsBelow(cache_epoch)
      BY <2>1 DEF Init, SendsBelow
    <3>2. ASSUME NEW s \in Servers PROVE ServerBelow(s, cache_epoch)
      <4>1. /\ cached_epoch[s] = 0 /\ heartbeat[s].epoch = 0 /\ forwarding[s] = 0
            /\ setting[s] = 0 /\ handled[s] = 0 /\ stream[s] = <<>> /\ epoch_rx[s] = <<>>
            /\ cache_epoch = 1
        BY Zenon, <2>1 DEF Init, NoHeartbeat
      <4>2. Below(<<>>, 1)
        BY DEF Below
      <4>3. QED
        BY <4>1, <4>2 DEF ServerBelow
    <3>3. QED
      BY Zenon, <3>1, <3>2
  <2>2. QED
    BY Zenon, <2>1, NeverAheadIs
<1>2. TypeOK /\ SendInv /\ NeverAhead /\ [Next]_vars => (TypeOK /\ SendInv /\ NeverAhead)'
  BY Zenon, TypeStep, AheadStep
<1>3. QED
  BY <1>1, <1>2, InitOK, PTL DEF Spec
==============================================================================
