------------------------- MODULE CachedStoreProofs --------------------------
(***************************************************************************)
(* For any number of servers, tasks, records and calls: an invalidation    *)
(* forgets what was cached, whatever overlaps it; and in a serial          *)
(* behaviour the cached store implements the store (StateStore).           *)
(***************************************************************************)
EXTENDS CachedStore, TLAPS

Kinds == {"session", "tree", "handle"}
Labels == {"idle", "lookup", "bulk", "tag", "insert", "evict", "done"}
Caching == {"tag", "insert", "evict"}

\* The shapes of the variables.
Shapes ==
  /\ mode \in Modes
  /\ DOMAIN bulk = Keys /\ home \in [Keys -> Servers]
  /\ DOMAIN cache = Servers /\ DOMAIN since = Servers
  /\ \A s \in Servers : DOMAIN cache[s] = Keys /\ DOMAIN since[s] = Keys
  /\ current_epoch \in [Servers -> Nat \ {0}]
  /\ call \in [Clients -> Calls \cup {Idle}]
  /\ at \in [Clients -> Labels]
  /\ tag \in [Clients -> Nat]
  /\ DOMAIN ret = Clients /\ DOMAIN held = Clients

\* Where a call is says what it is and what it has done.
Places ==
  \A c \in Clients :
    /\ at[c] = "idle" <=> call[c] = Idle
    /\ at[c] = "lookup" => call[c].fn \in GetCalls
    /\ at[c] \in Caching => Here(c) \in mode.caching /\ call[c].kind \in Kinds
    /\ ret[c] = Pending <=> at[c] \in {"idle", "lookup", "bulk"}

\* An entry is of a record of the cached kinds, on a server with a cache, and its epoch
\* is not beyond the server's.
Entries ==
  \A s \in Servers, k \in Keys :
    cache[s][k] # NoEntry =>
      /\ s \in mode.caching /\ k[1] \in Kinds
      /\ cache[s][k].epoch \in Nat /\ cache[s][k].epoch <= current_epoch[s]

\* What a server has in its cache, or is about to put there, is not older than its
\* last invalidation.
Recent ==
  /\ \A s \in Servers, k \in Keys :
       /\ bulk[k] \in since[s][k]
       /\ IsValid(s, k) => cache[s][k].val \in since[s][k]
  /\ \A c \in Clients :
       /\ at[c] = "tag" => held[c] \in since[Here(c)][Key(c)]
       /\ at[c] = "insert" => /\ tag[c] <= current_epoch[Here(c)]
                              /\ tag[c] = current_epoch[Here(c)] => held[c] \in since[Here(c)][Key(c)]

\* In a serial behaviour a record has one server and one call at a time; what the call
\* will put is what the bulk store holds, and so is what the server has in its cache,
\* but for a call between the bulk store and the cache.
Serial ==
  mode.serial =>
    /\ \A c, d \in Clients : call[c] # Idle /\ call[d] # Idle /\ Key(c) = Key(d) => c = d
    /\ \A c \in Clients : call[c] # Idle => home[Key(c)] = Here(c)
    /\ \A c \in Clients : at[c] \in {"tag", "insert"} => held[c] = bulk[Key(c)]
    /\ \A s \in Servers, k \in Keys :
         home[k] = s /\ IsValid(s, k) /\ (\A c \in Clients : at[c] \in Caching => Key(c) # k)
           => cache[s][k].val = bulk[k]

CacheInv == Shapes /\ Places /\ Entries /\ Recent /\ Serial

(* What a call does to the bulk store concerns its record alone; reads answer it, *)
(* writes store it, and every call gets an answer (the in-memory state store).    *)
LEMMA EffectOnRecord ==
  ASSUME NEW o \in Calls, DOMAIN bulk = Keys
  PROVE  LET e == Store!Effect(bulk, o) IN
         /\ DOMAIN e.table = Keys
         /\ \A k \in Keys : k # o.key => e.table[k] = bulk[k]
         /\ e.ret # Pending
         /\ o.fn \in GetCalls => e.table = bulk /\ e.ret = Value(bulk[o.key])
         /\ o.fn \in PutCalls => e.table[o.key] = o.rec
         /\ o.fn \notin GetCalls \cup PutCalls \cup RemoveCalls /\ o.kind \in Kinds => e.table = bulk
<1> DEFINE e == Store!Effect(bulk, o)
<1>0. o.key \in Keys /\ <<o.kind, o.fn>> \in Methods
  BY Zenon, ConstantsAssumption
<1>1. CASE o.kind = "session"
  BY ZenonT(60), <1>0, <1>1 DEF Methods, GetCalls, PutCalls, RemoveCalls, Kinds, Pending, Value, Store!Effect, Store!SessionCall,
     Store!Outcome, Store!Write, Store!Look, Store!Remove, Store!List, Store!Ok, Store!Value
<1>2. CASE o.kind = "tree"
  BY ZenonT(60), <1>0, <1>2 DEF Methods, GetCalls, PutCalls, RemoveCalls, Kinds, Pending, Value, Store!Effect, Store!TreeCall,
     Store!Outcome, Store!Write, Store!Look, Store!Remove, Store!List, Store!Ok, Store!Value
<1>3. CASE o.kind = "handle"
  BY ZenonT(60), <1>0, <1>3 DEF Methods, GetCalls, PutCalls, RemoveCalls, Kinds, Pending, Value, Store!Effect, Store!HandleCall,
     Store!Outcome, Store!Write, Store!Look, Store!Remove, Store!List, Store!Ok, Store!Value
<1>4. CASE o.kind = "lock"
  BY Zenon, <1>0, <1>4 DEF Methods, GetCalls, PutCalls, RemoveCalls, Kinds, Pending, Value, Store!Effect, Store!LockCall,
     Store!Outcome, Store!Write, Store!Look, Store!Remove, Store!List, Store!Ok, Store!Value
<1>5. CASE o.kind = "distlock"
  BY ZenonT(60), <1>0, <1>5 DEF Methods, GetCalls, PutCalls, RemoveCalls, Kinds, Pending, Value, Store!Effect,
     Store!DistributedLockCall, Store!Outcome, Store!Ok, Store!Value
<1>6. CASE o.kind = "counter"
  BY Zenon, <1>0, <1>6 DEF Methods, GetCalls, PutCalls, RemoveCalls, Kinds, Pending, Value, Store!Effect,
     Store!CounterCall, Store!Outcome, Store!Ok, Store!Value
<1> QED BY Zenon, <1>0, <1>1, <1>2, <1>3, <1>4, <1>5, <1>6 DEF Methods

(* A call in progress is one of the calls, and is not Idle.                      *)
LEMMA CallInProgress ==
  ASSUME Shapes, NEW c \in Clients, call[c] # Idle
  PROVE  call[c] \in Calls /\ Key(c) \in Keys /\ Here(c) \in Servers
BY Zenon, ConstantsAssumption DEF Shapes, Key, Here

(* What the bulk store does for a call, as the invariant sees it.                *)
LEMMA BulkStep ==
  ASSUME CacheInv, NEW c \in Clients, at[c] = "bulk",
         bulk' = Store!Effect(bulk, call[c]).table,
         since' = [s \in Servers |-> [k \in Keys |-> since[s][k] \cup {bulk'[k]}]]
  PROVE  /\ call[c] \in Calls /\ Key(c) \in Keys /\ Here(c) \in Servers /\ call[c].kind = Key(c)[1]
         /\ DOMAIN bulk' = Keys
         /\ \A k \in Keys : k # Key(c) => bulk'[k] = bulk[k]
         /\ DOMAIN since' = Servers
         /\ \A s \in Servers : DOMAIN since'[s] = Keys
         /\ \A s \in Servers, k \in Keys :
              /\ bulk'[k] \in since'[s][k]
              /\ \A v : v \in since[s][k] => v \in since'[s][k]
         /\ Store!Effect(bulk, call[c]).ret # Pending
         /\ call[c].fn \in GetCalls => bulk' = bulk
         /\ call[c].fn \in PutCalls => bulk'[Key(c)] = call[c].rec
         /\ call[c].fn \notin GetCalls \cup PutCalls \cup RemoveCalls /\ call[c].kind \in Kinds => bulk' = bulk
<1>1. call[c] # Idle
  BY Zenon DEF CacheInv, Places
<1>2. call[c] \in Calls /\ Key(c) \in Keys /\ Here(c) \in Servers /\ call[c].kind = Key(c)[1]
  BY Zenon, <1>1, CallInProgress, ConstantsAssumption DEF CacheInv, Key
<1>3. DOMAIN bulk = Keys
  BY Zenon DEF CacheInv, Shapes
<1>4. \A s \in Servers, k \in Keys : since'[s][k] = since[s][k] \cup {bulk'[k]}
  OBVIOUS
<1> HIDE DEF CacheInv
<1> QED BY Zenon, <1>2, <1>3, <1>4, EffectOnRecord DEF Key

(* After the bulk store has done a call, with the cache still to come or not.     *)
LEMMA BulkKeepsInv ==
  ASSUME CacheInv, NEW c \in Clients, at[c] = "bulk",
         bulk' = Store!Effect(bulk, call[c]).table,
         since' = [s \in Servers |-> [k \in Keys |-> since[s][k] \cup {bulk'[k]}]],
         UNCHANGED <<cache, current_epoch, home, call, tag, mode>>,
         DOMAIN ret' = Clients, DOMAIN held' = Clients, at' \in [Clients -> Labels],
         ret'[c] # Pending, at'[c] \in {"tag", "evict", "done"},
         \A d \in Clients : d # c => at'[d] = at[d] /\ ret'[d] = ret[d] /\ held'[d] = held[d],
         at'[c] = "tag" => held'[c] = bulk'[Key(c)],
         at'[c] # "done" => Here(c) \in mode.caching /\ call[c].kind \in Kinds,
         mode.serial /\ at'[c] = "done" /\ Here(c) \in mode.caching /\ call[c].kind \in Kinds => bulk' = bulk
  PROVE  CacheInv'
<1>a. Shapes /\ Places /\ Entries /\ Recent /\ Serial
  BY Zenon DEF CacheInv
<1>b. /\ call[c] \in Calls /\ Key(c) \in Keys /\ Here(c) \in Servers /\ call[c].kind = Key(c)[1]
      /\ DOMAIN bulk' = Keys
      /\ \A k \in Keys : k # Key(c) => bulk'[k] = bulk[k]
      /\ DOMAIN since' = Servers
      /\ \A s \in Servers : DOMAIN since'[s] = Keys
      /\ \A s \in Servers, k \in Keys :
           /\ bulk'[k] \in since'[s][k]
           /\ \A v : v \in since[s][k] => v \in since'[s][k]
  BY Zenon, BulkStep
<1>c. call[c] # Idle
  BY Zenon, <1>a DEF Places
<1>d. at'[c] \notin {"idle", "lookup", "bulk", "insert"}
  OBVIOUS
<1>1. Shapes'
  BY Zenon, <1>a, <1>b DEF Shapes
<1>2. Places'
  <2> SUFFICES ASSUME NEW d \in Clients PROVE
        /\ at'[d] = "idle" <=> call[d] = Idle
        /\ at'[d] = "lookup" => call[d].fn \in GetCalls
        /\ at'[d] \in Caching => Here(d) \in mode.caching /\ call[d].kind \in Kinds
        /\ ret'[d] = Pending <=> at'[d] \in {"idle", "lookup", "bulk"}
    BY Zenon DEF Places, Here
  <2>1. CASE d = c
    BY Zenon, <2>1, <1>c, <1>d DEF Caching
  <2>2. CASE d # c
    BY ZenonT(60), <2>2, <1>a DEF Places
  <2> QED BY Zenon, <2>1, <2>2
<1>3. Entries'
  BY Zenon, <1>a DEF Entries
<1>4. Recent'
  <2>1. ASSUME NEW s \in Servers, NEW k \in Keys
        PROVE  bulk'[k] \in since'[s][k] /\ (IsValid(s, k)' => cache'[s][k].val \in since'[s][k])
    BY Zenon, <1>a, <1>b DEF Recent, IsValid
  <2>2. ASSUME NEW d \in Clients
        PROVE  /\ at'[d] = "tag" => held'[d] \in since'[Here(d)][Key(d)]
               /\ at'[d] = "insert" =>
                    /\ tag'[d] <= current_epoch'[Here(d)]
                    /\ tag'[d] = current_epoch'[Here(d)] => held'[d] \in since'[Here(d)][Key(d)]
    <3>1. CASE d = c
      BY Zenon, <3>1, <1>b, <1>d
    <3>2. CASE d # c
      <4>1. CASE at[d] \in {"tag", "insert"}
        <5>1. Key(d) \in Keys /\ Here(d) \in Servers
          BY Zenon, <4>1, <1>a, CallInProgress DEF Places
        <5>2. at'[d] = at[d] /\ held'[d] = held[d] /\ tag' = tag /\ current_epoch' = current_epoch
          BY Zenon, <3>2
        <5>3. /\ at[d] = "tag" => held[d] \in since[Here(d)][Key(d)]
              /\ at[d] = "insert" =>
                   /\ tag[d] <= current_epoch[Here(d)]
                   /\ tag[d] = current_epoch[Here(d)] => held[d] \in since[Here(d)][Key(d)]
          BY Zenon, <1>a DEF Recent
        <5> QED BY ZenonT(60), <5>1, <5>2, <5>3, <1>b
      <4>2. CASE at[d] \notin {"tag", "insert"}
        BY Zenon, <4>2, <3>2
      <4> QED BY Zenon, <4>1, <4>2
    <3> QED BY Zenon, <3>1, <3>2
  <2> QED BY Zenon, <2>1, <2>2 DEF Recent, Key, Here
<1>5. Serial'
  <2> SUFFICES ASSUME mode.serial PROVE
        /\ \A d \in Clients : at'[d] \in {"tag", "insert"} => held'[d] = bulk'[Key(d)]
        /\ \A s \in Servers, k \in Keys :
             home[k] = s /\ IsValid(s, k) /\ (\A d \in Clients : at'[d] \in Caching => Key(d) # k)
               => cache[s][k].val = bulk'[k]
    BY SMTT(30), <1>a DEF Serial, IsValid, Here, Key
  <2>1. ASSUME NEW d \in Clients, at'[d] \in {"tag", "insert"} PROVE held'[d] = bulk'[Key(d)]
    <3>1. CASE d = c
      BY Zenon, <2>1, <3>1, <1>d
    <3>2. CASE d # c
      <4>1. at[d] \in {"tag", "insert"} /\ call[d] # Idle
        BY Zenon, <2>1, <3>2, <1>a DEF Places
      <4>2. Key(d) # Key(c) /\ Key(d) \in Keys
        BY Zenon, <4>1, <3>2, <1>a, <1>c, CallInProgress DEF Serial
      <4>3. held[d] = bulk[Key(d)] /\ held'[d] = held[d]
        BY Zenon, <4>1, <3>2, <1>a DEF Serial
      <4> QED BY Zenon, <4>2, <4>3, <1>b
    <3> QED BY Zenon, <3>1, <3>2
  <2>2. ASSUME NEW s \in Servers, NEW k \in Keys, home[k] = s, IsValid(s, k),
               \A d \in Clients : at'[d] \in Caching => Key(d) # k
        PROVE  cache[s][k].val = bulk'[k]
    <3>1. at[c] \notin Caching
      BY Zenon DEF Caching
    <3>2. cache[s][k].val = bulk[k]
      BY ZenonT(60), <2>2, <3>1, <1>a DEF Serial
    <3>3. CASE k # Key(c)
      BY Zenon, <3>2, <3>3, <1>b
    <3>4. CASE k = Key(c)
      <4>1. at'[c] = "done"
        BY Zenon, <2>2, <3>4 DEF Caching
      <4>2. s = Here(c) /\ s \in mode.caching /\ call[c].kind \in Kinds
        BY ZenonT(60), <2>2, <3>4, <1>a, <1>b, <1>c DEF Serial, Entries, IsValid
      <4> QED BY Zenon, <4>1, <4>2, <3>2
    <3> QED BY Zenon, <3>3, <3>4
  <2> QED BY ZenonT(60), <2>1, <2>2
<1> QED BY Zenon, <1>1, <1>2, <1>3, <1>4, <1>5 DEF CacheInv

(* The invariant holds when the servers start with empty caches.                 *)
LEMMA CacheInvInit == Init => CacheInv
<1> SUFFICES ASSUME Init PROVE CacheInv
  OBVIOUS
<1> USE DEF Init
<1>1. DOMAIN bulk = Keys
  BY Zenon DEF Store!Empty
<1>2. Shapes
  BY <1>1, ConstantsAssumption DEF Shapes, Labels
<1>3. Places
  BY Zenon DEF Places, Caching
<1>4. Entries
  BY Zenon DEF Entries
<1>5. Recent
  BY Zenon DEF Recent, IsValid
<1>6. Serial
  BY Zenon DEF Serial, IsValid, Caching
<1> QED BY Zenon, <1>2, <1>3, <1>4, <1>5, <1>6 DEF CacheInv

(* Every step of a task or a server keeps the invariant.                         *)
LEMMA CacheInvStep == CacheInv /\ [Next]_vars => CacheInv'
<1> SUFFICES ASSUME CacheInv, [Next]_vars PROVE CacheInv'
  OBVIOUS
<1>a. Shapes /\ Places /\ Entries /\ Recent /\ Serial
  BY Zenon DEF CacheInv
<1> USE <1>a
<1>1. ASSUME NEW c \in Clients, Start(c) PROVE CacheInv'
  <2>0. PICK o \in mode.calls :
          /\ mode.serial => /\ home[o.key] = Here(c)
                            /\ \A d \in Clients : call[d] # Idle => Key(d) # o.key
          /\ call' = [call EXCEPT ![c] = o]
          /\ at' = [at EXCEPT ![c] = StartAt(o)]
    BY Zenon, <1>1 DEF Start
  <2>a. o \in Calls /\ o.key \in Keys /\ o # Idle /\ <<o.kind, o.fn>> \in Methods
    <3>1. o \in Calls
      BY Zenon, ConstantsAssumption DEF Shapes
    <3>2. o.fn # "idle" /\ Idle.fn = "idle"
      BY Zenon, <3>1, ConstantsAssumption DEF Methods, Idle
    <3> QED BY Zenon, <3>1, <3>2, ConstantsAssumption
  <2>b. /\ StartAt(o) \in {"lookup", "bulk"}
        /\ StartAt(o) = "lookup" => o.fn \in GetCalls
    BY Zenon DEF StartAt, SessionStart, TreeStart, HandleStart, DirectStart, GetCalls
  <2>c. call[c] = Idle /\ at[c] = "idle" /\ ret[c] = Pending
    BY Zenon, <1>1 DEF Start, Places
  <2>d. /\ call'[c] = o /\ at'[c] = StartAt(o)
        /\ \A d \in Clients : d # c => call'[d] = call[d] /\ at'[d] = at[d]
        /\ UNCHANGED <<bulk, cache, current_epoch, home, ret, held, tag, mode, since>>
    BY Zenon, <1>1, <2>0 DEF Start, Shapes
  <2>1. Shapes'
    BY Zenon, <2>0, <2>a, <2>b, <2>d DEF Shapes, Labels
  <2>2. Places'
    BY ZenonT(60), <2>a, <2>b, <2>c, <2>d DEF Places, Caching, Here
  <2>3. Entries'
    BY Zenon, <2>d DEF Entries
  <2>4. Recent'
    BY ZenonT(60), <2>a, <2>b, <2>c, <2>d DEF Recent, IsValid, Key, Here
  <2>5. Serial'
    <3> SUFFICES ASSUME mode.serial PROVE
          /\ \A e, d \in Clients : call'[e] # Idle /\ call'[d] # Idle /\ Key(e)' = Key(d)' => e = d
          /\ \A e \in Clients : call'[e] # Idle => home[Key(e)'] = Here(e)
          /\ \A e \in Clients : at'[e] \in {"tag", "insert"} => held[e] = bulk[Key(e)']
          /\ \A s \in Servers, k \in Keys :
               home[k] = s /\ IsValid(s, k) /\ (\A e \in Clients : at'[e] \in Caching => Key(e)' # k)
                 => cache[s][k].val = bulk[k]
      BY ZenonT(60), <2>d DEF Serial, IsValid, Here
    <3>1. Key(c)' = o.key /\ \A d \in Clients : d # c => Key(d)' = Key(d)
      BY Zenon, <2>d DEF Key
    <3>2. at[c] \notin Caching /\ at'[c] \notin Caching /\ at'[c] \notin {"tag", "insert"}
      BY Zenon, <2>b, <2>c, <2>d DEF Caching
    <3>3. \A e, d \in Clients : call'[e] # Idle /\ call'[d] # Idle /\ Key(e)' = Key(d)' => e = d
      <4> SUFFICES ASSUME NEW e \in Clients, NEW d \in Clients, call'[e] # Idle, call'[d] # Idle,
                          Key(e)' = Key(d)', e # d
                   PROVE  FALSE
        OBVIOUS
      <4>1. CASE e # c /\ d # c
        BY SMTT(30), <4>1, <2>d, <3>1 DEF Serial
      <4>2. CASE e = c
        BY SMTT(30), <4>2, <2>0, <2>d, <3>1
      <4>3. CASE d = c
        BY SMTT(30), <4>3, <2>0, <2>d, <3>1
      <4> QED BY Zenon, <4>1, <4>2, <4>3
    <3>4. \A e \in Clients : call'[e] # Idle => home[Key(e)'] = Here(e)
      BY ZenonT(60), <2>0, <2>d, <3>1 DEF Serial
    <3>5. \A e \in Clients : at'[e] \in {"tag", "insert"} => held[e] = bulk[Key(e)']
      BY ZenonT(60), <2>d, <3>1, <3>2 DEF Serial
    <3>6. \A s \in Servers, k \in Keys :
            home[k] = s /\ IsValid(s, k) /\ (\A e \in Clients : at'[e] \in Caching => Key(e)' # k)
              => cache[s][k].val = bulk[k]
      BY SMTT(30), <2>d, <3>1, <3>2 DEF Serial
    <3> QED BY Zenon, <3>3, <3>4, <3>5, <3>6
  <2> QED BY Zenon, <2>1, <2>2, <2>3, <2>4, <2>5 DEF CacheInv
<1>2. ASSUME NEW c \in Clients, Return(c) PROVE CacheInv'
  <2>0. call[c] \in Calls /\ Key(c) \in Keys /\ Here(c) \in Servers /\ call[c].kind = Key(c)[1]
    BY Zenon, <1>2, CallInProgress, ConstantsAssumption DEF Return, Places, Key
  <2>1. Shapes'
    BY Zenon, <1>2, <2>0 DEF Return, Shapes, Labels
  <2>2. Places'
    BY Zenon, <1>2, <2>0 DEF Return, Places, Shapes, Labels, Caching, Here
  <2>3. Entries'
    BY Zenon, <1>2, <2>0 DEF Return, Entries, Shapes, Places, Caching, Here, Key
  <2>4. Recent'
    BY ZenonT(60), <1>2, <2>0 DEF Return, Recent, Shapes, Places, Entries, IsValid, Here, Key
  <2>5. Serial'
    BY SMTT(30), <1>2, <2>0 DEF Return, Serial, Shapes, Places, Entries, IsValid, Caching, Here, Key
  <2> QED BY Zenon, <2>1, <2>2, <2>3, <2>4, <2>5 DEF CacheInv
<1>3. ASSUME NEW c \in Clients, Hit(c) PROVE CacheInv'
  <2>0. call[c] \in Calls /\ Key(c) \in Keys /\ Here(c) \in Servers /\ call[c].kind = Key(c)[1]
    BY Zenon, <1>3, CallInProgress, ConstantsAssumption DEF Hit, Places, Key
  <2>1. Shapes'
    BY Zenon, <1>3, <2>0 DEF Hit, Shapes, Labels
  <2>2. Places'
    BY Zenon, <1>3, <2>0 DEF Hit, Places, Shapes, Labels, Caching, Here, Value, Pending
  <2>3. Entries'
    BY Zenon, <1>3, <2>0 DEF Hit, Entries, Shapes, Places, Caching, Here, Key
  <2>4. Recent'
    BY ZenonT(60), <1>3, <2>0 DEF Hit, Recent, Shapes, Places, Entries, IsValid, Here, Key
  <2>5. Serial'
    BY SMTT(30), <1>3, <2>0 DEF Hit, Serial, Shapes, Places, Entries, IsValid, Caching, Here, Key
  <2> QED BY Zenon, <2>1, <2>2, <2>3, <2>4, <2>5 DEF CacheInv
<1>4. ASSUME NEW c \in Clients, Miss(c) PROVE CacheInv'
  <2>0. call[c] \in Calls /\ Key(c) \in Keys /\ Here(c) \in Servers /\ call[c].kind = Key(c)[1]
    BY Zenon, <1>4, CallInProgress, ConstantsAssumption DEF Miss, Places, Key
  <2>1. Shapes'
    BY Zenon, <1>4, <2>0 DEF Miss, Shapes, Labels
  <2>2. Places'
    BY Zenon, <1>4, <2>0 DEF Miss, Places, Shapes, Labels, Caching, Here
  <2>3. Entries'
    BY ZenonT(60), <1>4, <2>0 DEF Miss, Entries, Shapes, Places, Caching, Here, Key
  <2>4. Recent'
    <3>1. \A s \in Servers, k \in Keys : cache'[s][k] = cache[s][k] \/ cache'[s][k] = NoEntry
      BY <1>4, <2>0 DEF Miss, Shapes
    <3>2. \A s \in Servers, k \in Keys : IsValid(s, k)' => IsValid(s, k) /\ cache'[s][k] = cache[s][k]
      BY Zenon, <1>4, <3>1 DEF Miss, IsValid
    <3>3. \A d \in Clients : at'[d] \in {"tag", "insert"} => at'[d] = at[d]
      BY Zenon, <1>4 DEF Miss, Shapes
    <3>4. UNCHANGED <<bulk, since, held, tag, current_epoch, call>>
      BY Zenon, <1>4 DEF Miss
    <3> QED BY ZenonT(60), <3>2, <3>3, <3>4 DEF Recent, Here, Key
  <2>5. Serial'
    BY SMTT(30), <1>4, <2>0 DEF Miss, Serial, Shapes, Places, Entries, IsValid, Caching, Here, Key
  <2> QED BY Zenon, <2>1, <2>2, <2>3, <2>4, <2>5 DEF CacheInv
<1>5. ASSUME NEW c \in Clients, PutTag(c) PROVE CacheInv'
  <2>0. call[c] \in Calls /\ Key(c) \in Keys /\ Here(c) \in Servers /\ call[c].kind = Key(c)[1]
    BY Zenon, <1>5, CallInProgress, ConstantsAssumption DEF PutTag, Places, Key
  <2>1. Shapes'
    BY Zenon, <1>5, <2>0 DEF PutTag, Shapes, Labels
  <2>2. Places'
    BY Zenon, <1>5, <2>0 DEF PutTag, Places, Shapes, Labels, Caching, Here
  <2>3. Entries'
    BY Zenon, <1>5, <2>0 DEF PutTag, Entries, Shapes, Places, Caching, Here, Key
  <2>4. Recent'
    BY SMTT(30), <1>5, <2>0 DEF PutTag, Recent, Shapes, Places, Entries, IsValid, Here, Key
  <2>5. Serial'
    BY SMTT(30), <1>5, <2>0 DEF PutTag, Serial, Shapes, Places, Entries, IsValid, Caching, Here, Key
  <2> QED BY Zenon, <2>1, <2>2, <2>3, <2>4, <2>5 DEF CacheInv
<1>6. ASSUME NEW c \in Clients, PutInsert(c) PROVE CacheInv'
  <2>0. call[c] \in Calls /\ Key(c) \in Keys /\ Here(c) \in Servers /\ call[c].kind = Key(c)[1]
    BY Zenon, <1>6, CallInProgress, ConstantsAssumption DEF PutInsert, Places, Key
  <2>1. Shapes'
    BY Zenon, <1>6, <2>0 DEF PutInsert, Shapes, Labels
  <2>2. Places'
    BY Zenon, <1>6, <2>0 DEF PutInsert, Places, Shapes, Labels, Caching, Here
  <2>3. Entries'
    BY SMTT(30), <1>6, <2>0, <2>1 DEF PutInsert, Entries, Shapes, Places, Caching, Here, Key, Recent
  <2>4. Recent'
    BY SMTT(30), <1>6, <2>0 DEF PutInsert, Recent, Shapes, Places, Entries, IsValid, Here, Key
  <2>5. Serial'
    BY SMTT(30), <1>6, <2>0 DEF PutInsert, Serial, Shapes, Places, Entries, IsValid, Caching, Here, Key
  <2> QED BY Zenon, <2>1, <2>2, <2>3, <2>4, <2>5 DEF CacheInv
<1>7. ASSUME NEW c \in Clients, Evict(c) PROVE CacheInv'
  <2>0. call[c] \in Calls /\ Key(c) \in Keys /\ Here(c) \in Servers /\ call[c].kind = Key(c)[1]
    BY Zenon, <1>7, CallInProgress, ConstantsAssumption DEF Evict, Places, Key
  <2>1. Shapes'
    BY Zenon, <1>7, <2>0 DEF Evict, Shapes, Labels
  <2>2. Places'
    BY Zenon, <1>7, <2>0 DEF Evict, Places, Shapes, Labels, Caching, Here
  <2>3. Entries'
    BY Zenon, <1>7, <2>0 DEF Evict, Entries, Shapes, Places, Caching, Here, Key
  <2>4. Recent'
    BY SMTT(30), <1>7, <2>0 DEF Evict, Recent, Shapes, Places, Entries, IsValid, Here, Key
  <2>5. Serial'
    BY SMTT(30), <1>7, <2>0 DEF Evict, Serial, Shapes, Labels, Places, IsValid, Caching, Here, Key
  <2> QED BY Zenon, <2>1, <2>2, <2>3, <2>4, <2>5 DEF CacheInv
<1>8. ASSUME NEW c \in Clients, BulkGet(c) PROVE CacheInv'
  <2>1. /\ at[c] = "bulk" /\ call[c] \in Calls
        /\ bulk' = Store!Effect(bulk, call[c]).table
        /\ since' = [s \in Servers |-> [k \in Keys |-> since[s][k] \cup {bulk'[k]}]]
        /\ UNCHANGED <<cache, current_epoch, home, call, tag, mode>>
    BY Zenon, <1>8, CallInProgress DEF BulkGet, Bulk, Places
  <2>2. /\ Store!Effect(bulk, call[c]).ret # Pending
        /\ bulk' = bulk
    BY Zenon, <1>8, <2>1, BulkStep DEF BulkGet
  <2>3. /\ DOMAIN ret' = Clients /\ DOMAIN held' = Clients /\ at' \in [Clients -> Labels]
        /\ ret'[c] # Pending /\ at'[c] \in {"tag", "evict", "done"}
        /\ \A d \in Clients : d # c => at'[d] = at[d] /\ ret'[d] = ret[d] /\ held'[d] = held[d]
    BY Zenon, <1>8, <2>2 DEF BulkGet, Bulk, Shapes, Labels, Error, Pending
  <2>4. /\ at'[c] = "tag" => held'[c] = bulk'[Key(c)]
        /\ at'[c] # "done" => Here(c) \in mode.caching /\ call[c].kind \in Kinds
        /\ at'[c] = "done" /\ Here(c) \in mode.caching /\ call[c].kind \in Kinds => bulk' = bulk
    <3>1. call[c].kind \in Kinds
      BY Zenon, <1>8, <2>1, ConstantsAssumption DEF BulkGet, GetCalls, Methods, Kinds
    <3> QED BY Zenon, <1>8, <2>1, <2>2, <3>1 DEF BulkGet, Shapes
  <2> QED BY Zenon, <2>1, <2>2, <2>3, <2>4, BulkKeepsInv
<1>9. ASSUME NEW c \in Clients, BulkPut(c) PROVE CacheInv'
  <2>1. /\ at[c] = "bulk" /\ call[c] \in Calls
        /\ bulk' = Store!Effect(bulk, call[c]).table
        /\ since' = [s \in Servers |-> [k \in Keys |-> since[s][k] \cup {bulk'[k]}]]
        /\ UNCHANGED <<cache, current_epoch, home, call, tag, mode>>
    BY Zenon, <1>9, CallInProgress DEF BulkPut, Bulk, Places
  <2>2. /\ Store!Effect(bulk, call[c]).ret # Pending
        /\ bulk'[Key(c)] = call[c].rec
    BY Zenon, <1>9, <2>1, BulkStep DEF BulkPut
  <2>3. /\ DOMAIN ret' = Clients /\ DOMAIN held' = Clients /\ at' \in [Clients -> Labels]
        /\ ret'[c] # Pending /\ at'[c] \in {"tag", "evict", "done"}
        /\ \A d \in Clients : d # c => at'[d] = at[d] /\ ret'[d] = ret[d] /\ held'[d] = held[d]
    BY Zenon, <1>9, <2>2 DEF BulkPut, Bulk, Shapes, Labels, Error, Pending
  <2>4. /\ at'[c] = "tag" => held'[c] = bulk'[Key(c)]
        /\ at'[c] # "done" => Here(c) \in mode.caching /\ call[c].kind \in Kinds
        /\ at'[c] = "done" /\ Here(c) \in mode.caching /\ call[c].kind \in Kinds => bulk' = bulk
    <3>1. call[c].kind \in Kinds
      BY Zenon, <1>9, <2>1, ConstantsAssumption DEF BulkPut, PutCalls, Methods, Kinds
    <3> QED BY Zenon, <1>9, <2>1, <2>2, <3>1 DEF BulkPut, Shapes
  <2> QED BY Zenon, <2>1, <2>2, <2>3, <2>4, BulkKeepsInv
<1>10. ASSUME NEW c \in Clients, BulkRemove(c) PROVE CacheInv'
  <2>1. /\ at[c] = "bulk" /\ call[c] \in Calls
        /\ bulk' = Store!Effect(bulk, call[c]).table
        /\ since' = [s \in Servers |-> [k \in Keys |-> since[s][k] \cup {bulk'[k]}]]
        /\ UNCHANGED <<cache, current_epoch, home, call, tag, mode>>
    BY Zenon, <1>10, CallInProgress DEF BulkRemove, Bulk, Places
  <2>2. /\ Store!Effect(bulk, call[c]).ret # Pending
    BY Zenon, <1>10, <2>1, BulkStep DEF BulkRemove
  <2>3. /\ DOMAIN ret' = Clients /\ DOMAIN held' = Clients /\ at' \in [Clients -> Labels]
        /\ ret'[c] # Pending /\ at'[c] \in {"tag", "evict", "done"}
        /\ \A d \in Clients : d # c => at'[d] = at[d] /\ ret'[d] = ret[d] /\ held'[d] = held[d]
    BY Zenon, <1>10, <2>2 DEF BulkRemove, Bulk, Shapes, Labels, Error, Pending
  <2>4. /\ at'[c] = "tag" => held'[c] = bulk'[Key(c)]
        /\ at'[c] # "done" => Here(c) \in mode.caching /\ call[c].kind \in Kinds
        /\ at'[c] = "done" /\ Here(c) \in mode.caching /\ call[c].kind \in Kinds => bulk' = bulk
    <3>1. call[c].kind \in Kinds
      BY Zenon, <1>10, <2>1, ConstantsAssumption DEF BulkRemove, RemoveCalls, Methods, Kinds
    <3> QED BY Zenon, <1>10, <2>1, <2>2, <3>1 DEF BulkRemove, Shapes
  <2> QED BY Zenon, <2>1, <2>2, <2>3, <2>4, BulkKeepsInv
<1>11. ASSUME NEW c \in Clients, BulkDirect(c) PROVE CacheInv'
  <2>1. /\ at[c] = "bulk" /\ call[c] \in Calls
        /\ bulk' = Store!Effect(bulk, call[c]).table
        /\ since' = [s \in Servers |-> [k \in Keys |-> since[s][k] \cup {bulk'[k]}]]
        /\ UNCHANGED <<cache, current_epoch, home, call, tag, mode>>
    BY Zenon, <1>11, CallInProgress DEF BulkDirect, Bulk, Places
  <2>2. /\ Store!Effect(bulk, call[c]).ret # Pending
        /\ call[c].kind \in Kinds => bulk' = bulk
    BY Zenon, <1>11, <2>1, BulkStep DEF BulkDirect
  <2>3. /\ DOMAIN ret' = Clients /\ DOMAIN held' = Clients /\ at' \in [Clients -> Labels]
        /\ ret'[c] # Pending /\ at'[c] \in {"tag", "evict", "done"}
        /\ \A d \in Clients : d # c => at'[d] = at[d] /\ ret'[d] = ret[d] /\ held'[d] = held[d]
    BY Zenon, <1>11, <2>2 DEF BulkDirect, Bulk, Shapes, Labels, Error, Pending
  <2>4. /\ at'[c] = "tag" => held'[c] = bulk'[Key(c)]
        /\ at'[c] # "done" => Here(c) \in mode.caching /\ call[c].kind \in Kinds
        /\ at'[c] = "done" /\ Here(c) \in mode.caching /\ call[c].kind \in Kinds => bulk' = bulk
    BY Zenon, <1>11, <2>2 DEF BulkDirect, Shapes
  <2> QED BY Zenon, <2>1, <2>2, <2>3, <2>4, BulkKeepsInv
<1>12. ASSUME NEW c \in Clients, BulkFails(c) PROVE CacheInv'
  <2>0. call[c] \in Calls /\ Key(c) \in Keys /\ Here(c) \in Servers /\ call[c].kind = Key(c)[1]
    BY Zenon, <1>12, CallInProgress, ConstantsAssumption DEF BulkFails, Places, Key
  <2>1. Shapes'
    BY Zenon, <1>12, <2>0 DEF BulkFails, Shapes, Labels
  <2>2. Places'
    BY Zenon, <1>12, <2>0 DEF BulkFails, Places, Shapes, Labels, Caching, Here, Error, Pending
  <2>3. Entries'
    BY Zenon, <1>12, <2>0 DEF BulkFails, Entries, Shapes, Places, Caching, Here, Key
  <2>4. Recent'
    BY Zenon, <1>12, <2>0 DEF BulkFails, Recent, Shapes, Places, Entries, IsValid, Here, Key
  <2>5. Serial'
    BY SMTT(30), <1>12, <2>0 DEF BulkFails, Serial, Shapes, Places, Entries, IsValid, Caching, Here, Key
  <2> QED BY Zenon, <2>1, <2>2, <2>3, <2>4, <2>5 DEF CacheInv
<1>13. ASSUME NEW c \in Clients, BulkFailsLate(c) PROVE CacheInv'
  <2>1. /\ at[c] = "bulk" /\ call[c] \in Calls
        /\ bulk' = Store!Effect(bulk, call[c]).table
        /\ since' = [s \in Servers |-> [k \in Keys |-> since[s][k] \cup {bulk'[k]}]]
        /\ UNCHANGED <<cache, current_epoch, home, call, tag, mode>>
    BY Zenon, <1>13, CallInProgress DEF BulkFailsLate, Places
  <2>2. /\ Store!Effect(bulk, call[c]).ret # Pending
    BY Zenon, <1>13, <2>1, BulkStep DEF BulkFailsLate
  <2>3. /\ DOMAIN ret' = Clients /\ DOMAIN held' = Clients /\ at' \in [Clients -> Labels]
        /\ ret'[c] # Pending /\ at'[c] \in {"tag", "evict", "done"}
        /\ \A d \in Clients : d # c => at'[d] = at[d] /\ ret'[d] = ret[d] /\ held'[d] = held[d]
    BY Zenon, <1>13, <2>2 DEF BulkFailsLate, Shapes, Labels, Error, Pending
  <2>4. /\ at'[c] = "tag" => held'[c] = bulk'[Key(c)]
        /\ at'[c] # "done" => Here(c) \in mode.caching /\ call[c].kind \in Kinds
        /\ mode.serial /\ at'[c] = "done" /\ Here(c) \in mode.caching /\ call[c].kind \in Kinds => bulk' = bulk
    BY Zenon, <1>13 DEF BulkFailsLate, Shapes
  <2> QED BY Zenon, <2>1, <2>2, <2>3, <2>4, BulkKeepsInv
<1>14. ASSUME NEW s \in Servers, InvalidateAll(s) PROVE CacheInv'
  <2>1. Shapes'
    BY SMTT(30), <1>14 DEF InvalidateAll, Shapes, Labels
  <2>2. Places'
    BY Zenon, <1>14 DEF InvalidateAll, Places, Shapes, Labels, Caching, Here
  <2>3. Entries'
    BY SMTT(30), <1>14 DEF InvalidateAll, Entries, Shapes, Places, Caching, Here, Key
  <2>4. Recent'
    <3>1. ASSUME NEW r \in Servers, NEW k \in Keys
          PROVE  bulk'[k] \in since'[r][k] /\ (IsValid(r, k)' => cache'[r][k].val \in since'[r][k])
      BY SMTT(30), <1>14 DEF InvalidateAll, Recent, Shapes, Entries, IsValid
    <3>2. ASSUME NEW d \in Clients, at[d] \in {"tag", "insert"}
          PROVE  Key(d) \in Keys /\ Here(d) \in Servers
      BY Zenon, <3>2, CallInProgress DEF Places
    <3>3. ASSUME NEW d \in Clients, at[d] = "tag" PROVE held[d] \in since'[Here(d)][Key(d)]
      BY Zenon, <1>14, <3>2, <3>3 DEF InvalidateAll, Recent, Shapes
    <3>4. ASSUME NEW d \in Clients, at[d] = "insert"
          PROVE  /\ tag[d] <= current_epoch'[Here(d)]
                 /\ tag[d] = current_epoch'[Here(d)] => held[d] \in since'[Here(d)][Key(d)]
      BY <1>14, <3>2, <3>4 DEF InvalidateAll, Recent, Shapes
    <3>5. UNCHANGED <<at, tag, held, call>>
      BY Zenon, <1>14 DEF InvalidateAll
    <3> QED BY Zenon, <3>1, <3>3, <3>4, <3>5 DEF Recent, Key, Here
  <2>5. Serial'
    <3>1. ASSUME NEW r \in Servers, NEW k \in Keys, IsValid(r, k)' PROVE IsValid(r, k)
      <4>1. UNCHANGED cache /\ DOMAIN current_epoch = Servers /\ current_epoch[s] \in Nat
        BY Zenon, <1>14 DEF InvalidateAll, Shapes
      <4>2. cache[r][k] # NoEntry /\ cache[r][k].epoch = current_epoch'[r]
        BY Zenon, <3>1, <4>1 DEF IsValid
      <4>3. CASE r = s
        <5>1. cache[s][k].epoch \in Nat /\ cache[s][k].epoch <= current_epoch[s]
          BY Zenon, <4>2, <4>3 DEF Entries
        <5>2. cache[s][k].epoch > current_epoch[s]
          BY SMTT(30), <1>14, <4>1, <4>2, <4>3 DEF InvalidateAll
        <5> QED BY <4>1, <5>1, <5>2
      <4>4. CASE r # s
        <5>1. current_epoch'[r] = current_epoch[r]
          BY Zenon, <1>14, <4>1, <4>4 DEF InvalidateAll
        <5> QED BY Zenon, <4>2, <5>1 DEF IsValid
      <4> QED BY Zenon, <4>3, <4>4
    <3>2. UNCHANGED <<bulk, cache, home, call, at, held, mode>>
      BY Zenon, <1>14 DEF InvalidateAll
    <3> QED BY ZenonT(60), <3>1, <3>2 DEF Serial, Key, Here
  <2> QED BY Zenon, <2>1, <2>2, <2>3, <2>4, <2>5 DEF CacheInv
<1>15. ASSUME NEW s \in Servers, NEW k \in Keys, Drop(s, k) PROVE CacheInv'
  <2>1. Shapes'
    BY Zenon, <1>15 DEF Drop, Shapes, Labels
  <2>2. Places'
    BY Zenon, <1>15 DEF Drop, Places, Shapes, Labels, Caching, Here
  <2>3. Entries'
    BY Zenon, <1>15 DEF Drop, Entries, Shapes, Places, Caching, Here, Key
  <2>4. Recent'
    BY SMTT(30), <1>15 DEF Drop, Recent, Shapes, Places, Entries, IsValid, Here, Key
  <2>5. Serial'
    BY SMTT(30), <1>15 DEF Drop, Serial, Shapes, Places, Entries, IsValid, Caching, Here, Key
  <2> QED BY Zenon, <2>1, <2>2, <2>3, <2>4, <2>5 DEF CacheInv
<1>16. ASSUME NEW s \in Servers, NEW k \in Keys, Move(k, s) PROVE CacheInv'
  <2>1. Shapes'
    BY Zenon, <1>16 DEF Move, Shapes, Labels
  <2>2. Places'
    BY Zenon, <1>16 DEF Move, Places, Shapes, Labels, Caching, Here
  <2>3. Entries'
    BY Zenon, <1>16 DEF Move, Entries, Shapes, Places, Caching, Here, Key
  <2>4. Recent'
    BY Zenon, <1>16 DEF Move, Recent, Shapes, Places, Entries, IsValid, Here, Key
  <2>5. Serial'
    BY SMTT(30), <1>16 DEF Move, Serial, Shapes, Places, Entries, IsValid, Caching, Here, Key
  <2> QED BY Zenon, <2>1, <2>2, <2>3, <2>4, <2>5 DEF CacheInv
<1>17. CASE UNCHANGED vars
  <2>1. Shapes'
    BY Zenon, <1>17 DEF vars, Shapes
  <2>2. Places'
    BY Zenon, <1>17 DEF vars, Places, Here
  <2>3. Entries'
    BY Zenon, <1>17 DEF vars, Entries
  <2>4. Recent'
    BY Zenon, <1>17 DEF vars, Recent, IsValid, Here, Key
  <2>5. Serial'
    BY ZenonT(60), <1>17 DEF vars, Serial, IsValid, Here, Key
  <2> QED BY Zenon, <2>1, <2>2, <2>3, <2>4, <2>5 DEF CacheInv
<1> QED BY Zenon, <1>1, <1>2, <1>3, <1>4, <1>5, <1>6, <1>7, <1>8, <1>9, <1>10, <1>11, <1>12, <1>13, <1>14, <1>15,
   <1>16, <1>17 DEF Next

(* The invariant holds in every behaviour.                                       *)
THEOREM CacheInvariance == Spec => []CacheInv
<1>1. Init => CacheInv
  BY Zenon, CacheInvInit
<1>2. CacheInv /\ [Next]_vars => CacheInv'
  BY CacheInvStep
<1> QED BY <1>1, <1>2, PTL DEF Spec

(* An invalidation forgets, whatever overlaps it: what a server has in its cache  *)
(* the bulk store has held since, or a task of it had read and not yet tagged     *)
(* (LocalCache::invalidate_all, put_session, put_tree, put_handle).               *)
THEOREM InvalidationHolds == Spec => []InvalidationForgets
<1>1. CacheInv => InvalidationForgets
  BY Zenon DEF CacheInv, Recent, InvalidationForgets
<1> QED BY <1>1, CacheInvariance, PTL

(* Between calls, the cache of the server that uses a record is the bulk store.   *)
THEOREM CacheCoherence == Spec => []Coherent
<1>1. CacheInv => Coherent
  <2> SUFFICES ASSUME CacheInv, mode.serial, NEW k \in Keys, IsValid(home[k], k),
                      \A c \in Clients : call[c] # Idle => Key(c) # k
               PROVE  cache[home[k]][k].val = bulk[k]
    BY Zenon DEF Coherent
  <2>1. \A c \in Clients : at[c] \in Caching => call[c] # Idle
    BY Zenon DEF CacheInv, Places, Caching
  <2>2. CASE home[k] \in Servers
    BY ZenonT(60), <2>1, <2>2 DEF CacheInv, Serial
  <2>3. home[k] \in Servers
    BY Zenon DEF CacheInv, Shapes
  <2> QED BY <2>2, <2>3
<1> QED BY <1>1, CacheInvariance, PTL

(* A call of a cached store in a serial behaviour is a call of the store: a hit   *)
(* answers what the bulk store would, everything else the cache does is silent.   *)
LEMMA CachedStep == CacheInv /\ [Next]_vars => [Abstract!Next]_(Abstract!storeVars)
<1> SUFFICES ASSUME CacheInv, [Next]_vars PROVE [Abstract!Next]_(Abstract!storeVars)
  OBVIOUS
<1>a. Shapes /\ Places /\ Entries /\ Recent /\ Serial
  BY Zenon DEF CacheInv
<1> USE <1>a
<1>1. mode' = mode
  BY ZenonT(60) DEF Next, vars, Start, Return, Hit, Miss, PutTag, PutInsert, Evict, BulkGet, BulkPut, BulkRemove, BulkDirect,
     Bulk, BulkFails, BulkFailsLate, InvalidateAll, Drop, Move
<1>2. CASE ~mode.serial
  BY Zenon, <1>1, <1>2 DEF Abstract!storeVars
<1>3. CASE mode.serial
  <2>e. ASSUME NEW t, NEW o PROVE Abstract!Effect(t, o) = Store!Effect(t, o)
    <3>1. Abstract!SessionCall(t, o) = Store!SessionCall(t, o)
      BY Zenon DEF Abstract!SessionCall, Store!SessionCall, Abstract!Write, Store!Write, Abstract!Look,
         Store!Look, Abstract!Remove, Store!Remove, Abstract!List, Store!List, Abstract!Outcome, Store!Outcome,
         Abstract!Ok, Store!Ok, Abstract!Value, Store!Value
    <3>2. Abstract!TreeCall(t, o) = Store!TreeCall(t, o)
      BY Zenon DEF Abstract!TreeCall, Store!TreeCall, Abstract!Write, Store!Write, Abstract!Look, Store!Look,
         Abstract!Remove, Store!Remove, Abstract!List, Store!List, Abstract!Outcome, Store!Outcome, Abstract!Ok,
         Store!Ok, Abstract!Value, Store!Value
    <3>3. Abstract!HandleCall(t, o) = Store!HandleCall(t, o)
      BY Zenon DEF Abstract!HandleCall, Store!HandleCall, Abstract!Write, Store!Write, Abstract!Look,
         Store!Look, Abstract!Remove, Store!Remove, Abstract!List, Store!List, Abstract!Outcome, Store!Outcome,
         Abstract!Ok, Store!Ok, Abstract!Value, Store!Value
    <3>4. Abstract!LockCall(t, o) = Store!LockCall(t, o)
      BY Zenon DEF Abstract!LockCall, Store!LockCall, Abstract!Write, Store!Write, Abstract!Look, Store!Look,
         Abstract!Remove, Store!Remove, Abstract!List, Store!List, Abstract!Outcome, Store!Outcome, Abstract!Ok,
         Store!Ok, Abstract!Value, Store!Value
    <3>5. Abstract!DistributedLockCall(t, o) = Store!DistributedLockCall(t, o)
      BY Zenon DEF Abstract!DistributedLockCall, Store!DistributedLockCall, Abstract!Outcome, Store!Outcome,
         Abstract!Ok, Store!Ok, Abstract!Value, Store!Value
    <3>6. Abstract!CounterCall(t, o) = Store!CounterCall(t, o)
      BY Zenon DEF Abstract!CounterCall, Store!CounterCall, Abstract!Outcome, Store!Outcome, Abstract!Value, Store!Value
    <3> QED BY Zenon, <3>1, <3>2, <3>3, <3>4, <3>5, <3>6 DEF Abstract!Effect, Store!Effect
  <2>s. Abstract!storeVars = <<bulk, call, ret>> /\ Abstract!storeVars' = <<bulk', call', ret'>>
    BY Zenon, <1>1, <1>3 DEF Abstract!storeVars
  <2>0. ASSUME NEW c \in Clients,
               call[c] # Idle /\ ret[c] = Pending,
               bulk' = Store!Effect(bulk, call[c]).table,
               ret' = [ret EXCEPT ![c] = Store!Effect(bulk, call[c]).ret],
               UNCHANGED call
        PROVE  Abstract!Perform(c)
    BY Zenon, <1>1, <1>3, <2>0, <2>e DEF Abstract!Perform, Abstract!Idle, Abstract!Pending, Idle, Pending
  <2> DEFINE Known(c) == call[c] \in Calls /\ call[c] # Idle /\ Key(c) \in Keys /\ Here(c) \in Servers
  <2>k. \A c \in Clients : at[c] # "idle" => Known(c)
    BY Zenon, CallInProgress DEF Places
  <2>1. ASSUME NEW c \in Clients, Start(c) PROVE Abstract!Start(c)
    <3>1. PICK o \in mode.calls : call' = [call EXCEPT ![c] = o]
      BY Zenon, <2>1 DEF Start
    <3>2. o \in Calls
      BY Zenon, <3>1, ConstantsAssumption DEF Shapes
    <3>3. DOMAIN call = Clients
      BY Zenon DEF Shapes
    <3>4. call[c] = Idle /\ UNCHANGED <<bulk, ret>>
      BY Zenon, <2>1 DEF Start
    <3>5. call'[c] = o
      BY Zenon, <3>1, <3>3
    <3> QED BY Zenon, <1>1, <1>3, <3>1, <3>2, <3>4, <3>5 DEF Abstract!Start, Abstract!Idle, Idle
  <2>2. ASSUME NEW c \in Clients, Return(c) PROVE Abstract!Return(c)
    BY Zenon, <1>1, <1>3, <2>2 DEF Return, Places, Abstract!Return, Abstract!Idle, Abstract!Pending, Idle, Pending
  <2>3. ASSUME NEW c \in Clients, Hit(c) PROVE Abstract!Perform(c)
    <3>1. call[c] # Idle /\ ret[c] = Pending /\ call[c].fn \in GetCalls /\ at[c] = "lookup"
      BY Zenon, <2>3 DEF Hit, Places
    <3>2. \A d \in Clients : at[d] \in Caching => Key(d) # Key(c)
      BY Zenon, <1>3, <3>1 DEF Serial, Places, Caching
    <3>3. cache[Here(c)][Key(c)].val = bulk[Key(c)]
      BY Zenon, <1>3, <2>3, <2>k, <3>1, <3>2 DEF Hit, Serial
    <3>4. DOMAIN bulk = Keys
      BY Zenon DEF Shapes
    <3>5. /\ Store!Effect(bulk, call[c]).table = bulk
          /\ Store!Effect(bulk, call[c]).ret = Value(bulk[Key(c)])
      BY Zenon, <2>k, <3>1, <3>4, EffectOnRecord DEF Key
    <3> QED BY Zenon, <2>0, <2>3, <3>1, <3>3, <3>5 DEF Hit
  <2>4. ASSUME NEW c \in Clients, Bulk(c) PROVE Abstract!Perform(c)
    BY Zenon, <2>0, <2>4 DEF Bulk, Places
  <2>5. ASSUME NEW c \in Clients, BulkFails(c) PROVE Abstract!Fail(c)
    BY Zenon, <1>1, <1>3, <2>5 DEF BulkFails, Places, Abstract!Fail, Abstract!Idle, Abstract!Error, Idle, Error
  <2>6. ASSUME NEW c \in Clients, BulkFailsLate(c) PROVE FALSE
    BY Zenon, <1>3, <2>6 DEF BulkFailsLate
  <2>7. ASSUME NEW c \in Clients, Miss(c) \/ PutTag(c) \/ PutInsert(c) \/ Evict(c) PROVE UNCHANGED <<bulk, call, ret>>
    BY Zenon, <2>7 DEF Miss, PutTag, PutInsert, Evict
  <2>8. ASSUME NEW s \in Servers, InvalidateAll(s) \/ \E k \in Keys : Drop(s, k) \/ Move(k, s)
        PROVE  UNCHANGED <<bulk, call, ret>>
    BY Zenon, <2>8 DEF InvalidateAll, Drop, Move
  <2>9. CASE UNCHANGED vars
    BY Zenon, <2>s, <2>9 DEF vars
  <2>10. ASSUME NEW c \in Clients, BulkGet(c) \/ BulkPut(c) \/ BulkRemove(c) \/ BulkDirect(c) PROVE Bulk(c)
    BY Zenon, <2>10 DEF BulkGet, BulkPut, BulkRemove, BulkDirect
  <2> QED
    BY Zenon, <2>s, <2>1, <2>2, <2>3, <2>4, <2>5, <2>6, <2>7, <2>8, <2>9, <2>10 DEF Next, Abstract!Next
<1> QED BY Zenon, <1>2, <1>3

(* In a serial behaviour the cached store implements the store: every call takes  *)
(* effect on, and answers from, the bulk store at one instant, for any number of  *)
(* servers, caches, invalidations, evictions and failed calls.                    *)
THEOREM CachedStoreImplementsStore == Spec => ImplementsStateStore
<1>1. Init => Abstract!Init
  BY Zenon DEF Init, Abstract!Init, Abstract!Empty, Store!Empty, Abstract!Idle, Abstract!Pending, Idle, Pending
<1>2. CacheInv /\ [Next]_vars => [Abstract!Next]_(Abstract!storeVars)
  BY CachedStep
<1> QED BY <1>1, <1>2, CacheInvariance, PTL DEF Spec, ImplementsStateStore, Abstract!Spec
=============================================================================
