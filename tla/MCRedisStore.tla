---------------------------- MODULE MCRedisStore ----------------------------
(* The families of calls that TLC runs: two records of a kind, two owners. *)
EXTENDS RedisStore

CONSTANTS c1, c2

MCClients == {c1, c2}

S(u, live) == [user |-> u, live |-> live]
s1 == <<"session", 1>>
s2 == <<"session", 2>>
sessions ==
  {create_session(s1, S("u", TRUE)), create_session(s2, S("u", FALSE)), update_session(s1, S("u", FALSE)),
   get_session(s1), delete_session(s1), list_sessions("u"), list_sessions(NoRecord)}
refreshes ==
  {create_session(s1, S("u", TRUE)), create_session(s2, S("u", TRUE)), refresh_session(s1),
   delete_session(s1), list_sessions("u")}

t1 == <<"tree", 1>>
t2 == <<"tree", 2>>
T == [session |-> 1]
trees ==
  {create_tree(t1, T), create_tree(t2, T), get_tree(t1), get_trees_by_session(1), delete_tree(t1, T)}

h1 == <<"handle", 1>>
h2 == <<"handle", 2>>
H(s) == [session |-> s, path |-> "p"]
handles ==
  {create_handle(h1, H(1)), create_handle(h2, H(1)), update_handle(h1, H(2)), get_handle(h1),
   get_handles_by_session(1), get_handles_by_session(2), get_handles_for_file("p"), delete_handle(h1)}

l1 == <<"lock", 1>>
L == [handle |-> 1]
locks == {create_lock(l1, L), create_lock(<<"lock", 2>>, L), get_locks(1), delete_lock(l1)}

d == <<"distlock", "k">>
Token(c) == [token |-> c]
distlocks ==
  UNION {{acquire_distributed_lock(d, Token(c)), release_distributed_lock(d, Token(c)),
          extend_distributed_lock(d, Token(c))} : c \in MCClients}

n == <<"counter", "n">>
counters == {next_session_id(n), next_tree_id(n), next_handle_id(n), next_file_lock_id(n)}

Lease(srv, state) == [file |-> "f", server |-> srv, state |-> state]
a == <<"lease", "a">>
b == <<"lease", "b">>
leases ==
  {check_and_create_lease(a, Lease("x", {"R", "W"})), check_and_create_lease(b, Lease("y", {"R", "W"})),
   check_and_create_lease(b, Lease("y", {"R"})), update_lease(a, Lease("x", {"R"})),
   delete_lease(a), delete_leases_for_server("y")}
readers ==
  {create_lease(a, Lease("x", {"R"})), create_lease(b, Lease("x", {"R"})), get_lease(a),
   get_leases_for_file("f"), delete_lease(a)}

FL(s, x, o) ==
  [file |-> "f", session |-> s, handle |-> s, server |-> "x", exclusive |-> x, offset |-> o, length |-> 2]
f1 == <<"filelock", 1>>
f2 == <<"filelock", 2>>
f3 == <<"filelock", 3>>
filelocks ==
  {acquire_file_lock(f1, FL(1, TRUE, 0)), acquire_file_lock(f2, FL(2, FALSE, 1)),
   acquire_file_lock(f3, FL(2, FALSE, 2)), release_file_lock(f1), get_file_locks("f"),
   release_file_locks_for_session(2), release_file_locks_for_handle(1), release_file_locks_for_server("x")}

Family(F, atomic) == [calls |-> F, atomic |-> atomic]
MCFamilies ==
  [sessions |-> Family(sessions, TRUE), trees |-> Family(trees, TRUE), handles |-> Family(handles, TRUE),
   locks |-> Family(locks, TRUE), distlocks |-> Family(distlocks, TRUE), counters |-> Family(counters, TRUE),
   refreshes |-> Family(refreshes, FALSE), leases |-> Family(leases, FALSE),
   readers |-> Family(readers, FALSE), filelocks |-> Family(filelocks, FALSE)]
LockFamily == [filelocks |-> Family(filelocks, FALSE)]
HandleFamily == [handles |-> Family(handles, TRUE)]

MCKeys == {s1, s2, t1, t2, h1, h2, l1, <<"lock", 2>>, d, n, a, b, f1, f2, f3}
MCIndexKeys ==
  {<<"session", "user", "u">>, <<"tree", "session", 1>>, <<"handle", "session", 1>>,
   <<"handle", "session", 2>>, <<"lock", "handle", 1>>,
   <<"lease", "file", "f">>, <<"lease", "server", "x">>, <<"lease", "server", "y">>,
   <<"filelock", "file", "f">>, <<"filelock", "session", 1>>, <<"filelock", "session", 2>>,
   <<"filelock", "handle", 1>>, <<"filelock", "handle", 2>>, <<"filelock", "server", "x">>}
==============================================================================
