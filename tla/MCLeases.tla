------------------------------ MODULE MCLeases ------------------------------
(* Instances of Leases for TLC: one file, one lease key per connection. *)
EXTENDS Leases, TLC

CONSTANTS c1, c2, c3, k1, k2, k3, f, s1, s2, s3

Key == c1 :> k1 @@ c2 :> k2 @@ c3 :> k3

OwnKey == [k \in Keys |-> CHOOSE c \in Conns : Key[c] = k]
OneFile == [k \in Keys |-> f]
OneShard == [k \in Keys |-> s1]
OwnShard == [k \in Keys |-> IF k = k1 THEN s1 ELSE IF k = k2 THEN s2 ELSE s3]

\* R, RH, RW and RWH as clients send them.
WireStates == [k \in Keys |-> {{1}, {1, 2}, {1, 4}, {1, 2, 4}}]

\* R and RH.
ReadOrHandle == [k \in Keys |-> {{1}, {1, 2}}]

\* One client's RWH is broken by another's RW and a third's R at once, to different
\* states.
TwoBreakers == k1 :> {{1, 2, 4}} @@ k2 :> {{1, 4}} @@ k3 :> {{1}}
==============================================================================
