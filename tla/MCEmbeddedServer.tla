------------------------- MODULE MCEmbeddedServer -------------------------
(* Families: the connections of one server; its coordination with timers that  *)
(* may be late and a store that may fail; two servers of which one crashes;    *)
(* requests to the state machine.                                              *)
EXTENDS EmbeddedServer

CONSTANTS s1, s2, c1, c2, c3

Lock(handle, offset, length, exclusive) ==
  [lock_id |-> 0, file_path |-> "f", handle_id |-> handle, session_id |-> handle, server_id |-> IF handle = 1 THEN s1 ELSE s2,
   offset |-> offset, length |-> length, exclusive |-> exclusive]
Lease(key, state) == [lease_key |-> key, file_path |-> "f", lease_state |-> state, server_id |-> IF key = "k" THEN s1 ELSE s2]
Ask(op, V) == {[op |-> op, val |-> v] : v \in V}
LockRequests ==
  Ask("AcquireLock", {Lock(h, o, n, x) : h \in {1, 2}, o \in {0, 1}, n \in {0, 1, 2}, x \in BOOLEAN}) \cup
  Ask("ReleaseLock", {1}) \cup Ask("ReleaseLocksForSession", {1}) \cup Ask("ReleaseLocksForHandle", {2}) \cup
  Ask("ReleaseLocksForServer", {s1})
LeaseRequests ==
  Ask("CreateLease", {Lease(k, st) : k \in {"k", "l"}, st \in SUBSET {"R", "W"}}) \cup
  Ask("UpdateLease", {Lease("k", {"R", "H"})}) \cup Ask("DeleteLease", {"k"}) \cup Ask("ReleaseLeasesForServer", {s2}) \cup
  Ask("IncrementEpoch", {0})

Quiet == [servers |-> {s1}, conns |-> {}, coordinated |-> TRUE, tls |-> FALSE, late |-> FALSE, panics |-> FALSE,
          faults |-> FALSE, crashes |-> FALSE, delay |-> 0, end |-> 3, requests |-> {}]
Serving == {[Quiet EXCEPT !.conns = {c1, c2, c3}, !.coordinated = FALSE, !.end = 1, !.tls = t, !.panics = p] : t, p \in BOOLEAN}
Prompt == {[Quiet EXCEPT !.delay = 1, !.end = 4], [Quiet EXCEPT !.crashes = TRUE]}
Late == {[Quiet EXCEPT !.conns = {c1}, !.late = TRUE, !.faults = TRUE]}
Pair == {[Quiet EXCEPT !.servers = {s1, s2}, !.conns = {c1}, !.end = 2, !.crashes = TRUE]}
Machine == {[Quiet EXCEPT !.servers = {}, !.end = 0, !.requests = r] : r \in {LockRequests, LeaseRequests}}
MCServers == {s1, s2}
MCConns == {c1, c2, c3}
MCModes == Serving \cup Prompt \cup Late \cup Machine
==============================================================================
