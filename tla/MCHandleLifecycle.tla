-------------------------- MODULE MCHandleLifecycle --------------------------
(* Instances of HandleLifecycle for TLC: opens of one file. *)
EXTENDS HandleLifecycle

CONSTANTS c1, c2

OpenOf(access, share, durable, persistent) ==
  [path |-> "f", access |-> access, share |-> share, durable |-> durable,
   persistent |-> persistent]

\* A durable open that shares nothing, a plain reader that shares reading.
Exclusive == OpenOf({"read"}, {}, TRUE, FALSE)
Reader == OpenOf({"read"}, {"read"}, FALSE, FALSE)
\* A durable writer that shares both, and a reader that is persistent though not
\* durable.
SharingWriter == OpenOf({"read", "write"}, {"read", "write"}, TRUE, FALSE)
PersistentReader == OpenOf({"read"}, {"read"}, FALSE, TRUE)

TwoOpens == {Exclusive, Reader}
FourOpens == {Exclusive, Reader, SharingWriter, PersistentReader}
DurableOpens == {Exclusive}
==============================================================================
