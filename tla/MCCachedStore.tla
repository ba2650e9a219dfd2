--------------------------- MODULE MCCachedStore ----------------------------
(* Two servers, the first with two tasks; a record of each kind. *)
EXTENDS CachedStore, TLC

CONSTANTS c1, c2, c3, s1, s2

MCClients == {c1, c2, c3}
MCServers == {s1, s2}
MCServerOf == (c1 :> s1 @@ c2 :> s1 @@ c3 :> s2)

O(fn, key) == [fn |-> fn, kind |-> key[1], key |-> key]
W(fn, key, rec) == [fn |-> fn, kind |-> key[1], key |-> key, rec |-> rec]

session == <<"session", 1>>
tree == <<"tree", 1>>
handle == <<"handle", 1>>
counter == <<"counter", "n">>
Rec(live) == [session |-> 1, live |-> live]
MCKeys == {session, tree, handle, counter}
Sessions ==
  {W("create_session", session, Rec(TRUE)), W("update_session", session, Rec(FALSE)), O("get_session", session),
   O("delete_session", session), O("refresh_session", session)}
Trees == {W("create_tree", tree, Rec(TRUE)), O("get_tree", tree), O("delete_tree", tree)}
Handles ==
  {W("create_handle", handle, Rec(TRUE)), W("update_handle", handle, Rec(FALSE)), O("get_handle", handle),
   O("delete_handle", handle)}
Counters == {O("next_session_id", counter)}
MCCalls == Sessions \cup Trees \cup Handles \cup Counters

Symmetry == Permutations({c1, c2})
Mode(C, S) == [serial : BOOLEAN, calls : {C}, caching : {S}]
MCModes ==
  Mode(Sessions, MCServers) \cup Mode(Trees, {s1}) \cup Mode(Handles, {s2}) \cup Mode(Counters, {s1})
==============================================================================
