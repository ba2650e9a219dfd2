----------------------------- MODULE MCFileLocks -----------------------------
(* Instances of FileLocks for TLC: two connections on one file. *)
EXTENDS FileLocks, TLC

CONSTANTS c1, c2, h1, h2, f

Lock(excl, fail, off, len) ==
  [op |-> "lock", exclusive |-> excl, fail_immediately |-> fail, offset |-> off, length |-> len]

Unlock(off, len) ==
  [op |-> "unlock", exclusive |-> FALSE, fail_immediately |-> FALSE, offset |-> off, length |-> len]

BadFlags ==
  [op |-> "badflags", exclusive |-> FALSE, fail_immediately |-> TRUE, offset |-> 0, length |-> 1]

\* No element; single locks with and without FAIL_IMMEDIATELY; a lock to the end of
\* the file; two elements that a conflict, bad flags or a bad range may interrupt.
AllRequests ==
  { <<>>,
    <<Lock(TRUE, FALSE, 0, 1)>>,
    <<Lock(FALSE, TRUE, 0, 1)>>,
    <<Lock(TRUE, TRUE, 1, 0)>>,
    <<Lock(TRUE, TRUE, 0, 1), Lock(FALSE, TRUE, 1, 2)>>,
    <<Lock(TRUE, TRUE, 1, 1), BadFlags>>,
    <<Lock(FALSE, TRUE, 0, 1), Lock(TRUE, TRUE, 2, 3)>>,
    <<Lock(TRUE, FALSE, 0, 1), Lock(FALSE, TRUE, 1, 1)>>,
    <<Unlock(0, 1)>>,
    <<Unlock(1, 2), Unlock(0, 1)>> }

OneFile == {f}
OneFileOf == [h \in {h1, h2} |-> f]
\* One connection per session.
OwnChannel == (h1 :> {c1}) @@ (h2 :> {c2})

\* Sessions bound to both connections.
BothChannels == [h \in {h1, h2} |-> {c1, c2}]

\* Requests of one exclusive lock.
ExclusiveOnly == { <<Lock(TRUE, TRUE, 0, 1)>> }

\* Requests of one or two exclusive locks.
UpToTwo == { <<Lock(TRUE, TRUE, 0, 1)>>, <<Lock(TRUE, TRUE, 1, 1), Lock(TRUE, TRUE, 0, 1)>> }
==============================================================================
