----------------------------- MODULE MCOplocks -----------------------------
(* Two connections; families by what clients ask and answer.                   *)
EXTENDS Oplocks

CONSTANTS c1, c2

MCConns == {c1, c2}
Mode(L, m, n, s, a, l) == [levels : {L}, max : {m}, size : {n}, serial : {s}, acks : {a}, logoff : {l}]
Polite == Mode({"none", "II", "exclusive", "batch", "lease"}, 3, 2, TRUE, "valid", FALSE)
Racing == Mode({"exclusive", "batch"}, 2, 2, FALSE, "exact", FALSE)
Narrow == Mode({"batch"}, 4, 1, TRUE, "exact", FALSE)
Odd == Mode({"II", "batch"}, 2, 2, FALSE, "any", TRUE)
MCModes == Polite \cup Racing \cup Narrow \cup Odd
Valid == Mode({"batch"}, 2, 2, TRUE, "valid", FALSE)
Lone == Mode({"none", "batch"}, 2, 2, TRUE, "exact", FALSE)
Leaving == Mode({"II", "batch"}, 2, 2, TRUE, "exact", TRUE)
==============================================================================
