--------------------------- MODULE MCCoordination ---------------------------
(***************************************************************************)
(* Instances of Coordination.                                              *)
(***************************************************************************)
EXTENDS Coordination

CONSTANTS s1, s2

TwoServers == {s1, s2}
OneServer == {s1}

\* s2 is a plain member: it registers, fails, leaves and comes back, and s1 watches.
OnlyOneWatches ==
  subscribed[s2] = "no" /\ s2 \notin listening /\ entry[s2] = NoEntry
==============================================================================
