--------------------------- MODULE FileLocksProofs ---------------------------
(***************************************************************************)
(* Proofs about FileLocks for every set of connections, handles and files, *)
(* every LOCK request and either backend.                                  *)
(***************************************************************************)
EXTENDS FileLocks, TLAPS

\* Sequences of T stay so.
LEMMA SeqIs ==
  ASSUME NEW T
  PROVE  /\ <<>> \in Seq(T)
         /\ \A q \in Seq(T), x \in T : Append(q, x) \in Seq(T)
         /\ \A q \in Seq(T) : q # <<>> => Head(q) \in T /\ Tail(q) \in Seq(T)
OBVIOUS

\* What Fresh builds are the locals of a handler (handle_lock, handle_close).
LEMMA FreshType ==
  ASSUME NEW h \in Handles, NEW elems \in Seq(Element), NEW st \in Statuses
  PROVE  Fresh(h, elems, st) \in Locals
BY Zenon DEF Fresh, Locals

\* A lock built from an element is a DistributedLock, its range a FileLock.
LEMMA LockForType ==
  ASSUME NEW h \in Handles, NEW e \in Element, NEW id \in Nat
  PROVE  /\ LockFor(h, e, id) \in DistributedLock
         /\ FileLockFor(e) \in FileLock
BY ConstantsAssumption DEF LockFor, FileLockFor, DistributedLock, FileLock, Element

\* The element a handler works on is one of the request's, and what is left is
\* again a list of elements.
LEMMA CurrentType ==
  ASSUME TypeOK, NEW c \in Conns, req[c].todo # <<>>
  PROVE  Current(c) \in Element /\ Tail(req[c].todo) \in Seq(Element)
<1>1. req[c].todo \in Seq(Element)
  BY Zenon DEF TypeOK, Locals
<1>2. QED
  BY <1>1, SeqIs, Zenon DEF Current

\* GrantedBy yields locks.
LEMMA GrantedByType ==
  ASSUME NEW h \in Handles, NEW elems \in Seq(Element)
  PROVE  GrantedBy(h, elems) \subseteq DistributedLock
<1>1. \A i \in DOMAIN elems : elems[i] \in Element
  OBVIOUS
<1>2. \A i \in DOMAIN elems : LockFor(h, elems[i], 0) \in DistributedLock
  BY Zenon, <1>1, LockForType
<1>3. QED
  BY Zenon, <1>2 DEF GrantedBy

\* Every step of the handlers keeps the type invariant.
LEMMA TypeOKStep ==
  TypeOK /\ [Next]_vars => TypeOK'
<1> SUFFICES ASSUME TypeOK, [Next]_vars PROVE TypeOK'
  OBVIOUS
<1> USE ConstantsAssumption
<1>1. CASE UNCHANGED vars
  BY Zenon, <1>1 DEF TypeOK, vars
<1>2. ASSUME NEW c \in Conns, NEW h \in Handles, NEW elems \in Requests, HandleLock(c, h, elems)
      PROVE  TypeOK'
  <2>1. elems \in Seq(Element) /\ <<>> \in Seq(Element)
    BY Zenon, SeqIs
  <2>2. \A st \in Statuses : Fresh(h, elems, st) \in Locals /\ Fresh(h, <<>>, st) \in Locals
    BY Zenon, <2>1, FreshType
  <2>3. req' \in [Conns -> Locals]
    BY Zenon, <1>2, <2>2 DEF HandleLock, TypeOK, Statuses
  <2>4. pc' \in [Conns -> Labels] /\ granted' \subseteq DistributedLock
    BY Zenon, <1>2 DEF HandleLock, TypeOK, Goto, Labels, GivenUp
  <2>5. \A d \in Conns : pc'[d] \in {"lock", "acquire", "release", "unlock"} => req'[d].todo # <<>>
    <3> TAKE d \in Conns
    <3>1. CASE d = c
      BY Zenon, <3>1, <1>2 DEF HandleLock, TypeOK, Goto
    <3>2. CASE d # c
      BY Zenon, <3>2, <1>2 DEF HandleLock, TypeOK, Goto
    <3>3. QED
      BY Zenon, <3>1, <3>2
  <2>6. QED
    BY Zenon, <1>2, <2>3, <2>4, <2>5 DEF HandleLock, TypeOK
<1>3. ASSUME NEW c \in Conns, NEW st \in Statuses, Answer(c, st)
      PROVE  /\ pc' \in [Conns -> Labels] /\ req' \in [Conns -> Locals]
             /\ \A d \in Conns : pc'[d] \in {"lock", "acquire", "release", "unlock"} => req'[d].todo # <<>>
  <2>1. Fresh(req[c].handle, <<>>, st) \in Locals
    BY Zenon, FreshType, SeqIs DEF TypeOK, Locals
  <2>2. QED
    BY Zenon, <1>3, <2>1 DEF Answer, Goto, TypeOK, Labels
<1>4. ASSUME NEW c \in Conns, AnswerLock(c) PROVE TypeOK'
  <2>1. GrantedBy(req[c].handle, req[c].elems) \subseteq DistributedLock
    BY Zenon, GrantedByType DEF TypeOK, Locals
  <2>2. QED
    BY Zenon, <1>3, <1>4, <2>1 DEF AnswerLock, TypeOK, Statuses
<1>5. ASSUME NEW c \in Conns, RejectElement(c) PROVE TypeOK'
  BY Zenon, <1>3, <1>5 DEF RejectElement, TypeOK, Statuses
<1>6. ASSUME NEW c \in Conns, FindLock(c) PROVE TypeOK'
  <2>1. \A l \in file_locks : l.lock_id \in Nat
    BY Zenon DEF TypeOK, DistributedLock
  <2>2. PICK id \in Nat : req' = [req EXCEPT ![c].found = id]
    BY Zenon, <1>6, <2>1 DEF FindLock
  <2>3. req' \in [Conns -> Locals]
    BY ZenonT(60), <2>2 DEF TypeOK, Locals
  <2>4. QED
    BY ZenonT(60), <1>6, <2>2, <2>3 DEF FindLock, Valid, Goto, TypeOK, Labels, Locals
<1>7. ASSUME NEW c \in Conns, ReleaseFound(c) PROVE TypeOK'
  BY Zenon, <1>7 DEF ReleaseFound, Goto, TypeOK, Labels
<1>8. ASSUME NEW c \in Conns, pc[c] \in {"lock", "acquire", "release", "unlock"}
      PROVE  File(c) \in Files /\ Current(c) \in Element /\ Tail(req[c].todo) \in Seq(Element)
  BY Zenon, <1>8, CurrentType DEF File, TypeOK, Locals
<1>9. ASSUME NEW c \in Conns, BackendUnlock(c) PROVE TypeOK'
  <2>1. node_locks' \in [Files -> SUBSET FileLock]
    BY Zenon, <1>8, <1>9 DEF BackendUnlock, BackendUnlocked, TypeOK
  <2>2. req' \in [Conns -> Locals]
    BY <1>8, <1>9, ZenonT(60) DEF BackendUnlock, TypeOK, Locals
  <2>3. QED
    BY Zenon, <1>9, <2>1, <2>2 DEF BackendUnlock, Goto, TypeOK, Labels
<1>10. ASSUME NEW c \in Conns, Conflict(c)
       PROVE  /\ pc' \in [Conns -> Labels] /\ req' \in [Conns -> Locals]
              /\ \A d \in Conns : pc'[d] \in {"lock", "acquire", "release", "unlock"} => req'[d].todo # <<>>
  <2> DEFINE st == IF Current(c).fail_immediately THEN "LockNotGranted" ELSE "FileLockConflict"
             r == [req[c] EXCEPT !.undo = req[c].acquired, !.status = st]
  <2>1. r \in Locals /\ r.todo = req[c].todo
    BY ZenonT(60) DEF TypeOK, Locals, Statuses
  <2>2. req' = [req EXCEPT ![c] = r]
    BY Zenon, <1>10 DEF Conflict, TypeOK
  <2>3. QED
    BY <1>10, <2>1, <2>2 DEF Conflict, Goto, TypeOK, Labels
<1>11. ASSUME NEW c \in Conns, CheckConflicts(c) PROVE TypeOK'
  BY Zenon, <1>10, <1>11 DEF CheckConflicts, Valid, Goto, TypeOK, Labels
<1>12. ASSUME NEW c \in Conns, BackendLock(c) PROVE TypeOK'
  <2>1. node_locks' \in [Files -> SUBSET FileLock]
    <3>1. FileLockFor(Current(c)) \in FileLock
      BY Zenon, <1>8, <1>12, LockForType DEF BackendLock
    <3>2. QED
      BY <1>8, <1>12, <3>1 DEF BackendLock, BackendLocked, TypeOK
  <2>2. QED
    BY Zenon, <1>10, <1>12, <2>1 DEF BackendLock, Goto, TypeOK, Labels
<1>13. ASSUME NEW c \in Conns, AcquireFileLock(c) PROVE TypeOK'
  <2>1. LockFor(req[c].handle, Current(c), next_file_lock_id) \in DistributedLock
    BY Zenon, <1>8, <1>13, LockForType DEF AcquireFileLock, TypeOK, Locals
  <2>2. req' \in [Conns -> Locals]
    <3> DEFINE r == [req[c] EXCEPT !.acquired = @ \cup {next_file_lock_id}, !.todo = Tail(@)]
    <3>1. r \in Locals
      BY ZenonT(60), <1>8, <1>13 DEF AcquireFileLock, TypeOK, Locals
    <3>2. req' = [req EXCEPT ![c] = r]
      BY Zenon, <1>13 DEF AcquireFileLock, TypeOK
    <3>3. QED
      BY Zenon, <3>1, <3>2 DEF TypeOK
  <2>3. QED
    BY SMTT(30), <1>13, <2>1, <2>2 DEF AcquireFileLock, Goto, TypeOK, Labels
<1>14. ASSUME NEW c \in Conns, Rollback(c) PROVE TypeOK'
  <2>1. req' \in [Conns -> Locals]
    <3>1. ASSUME NEW id \in req[c].undo
          PROVE  [req[c] EXCEPT !.undo = @ \ {id}] \in Locals
      BY ZenonT(60) DEF TypeOK, Locals
    <3>2. [req[c] EXCEPT !.elems = <<>>, !.todo = <<>>, !.found = 0] \in Locals
      BY ZenonT(60), SeqIs DEF TypeOK, Locals
    <3>3. \/ req' = [req EXCEPT ![c] = [req[c] EXCEPT !.elems = <<>>, !.todo = <<>>, !.found = 0]]
          \/ \E id \in req[c].undo : req' = [req EXCEPT ![c] = [req[c] EXCEPT !.undo = @ \ {id}]]
      BY Zenon, <1>14 DEF Rollback, TypeOK
    <3>4. QED
      BY ZenonT(60), <3>1, <3>2, <3>3 DEF TypeOK
  <2>2. QED
    BY ZenonT(60), <1>14, <2>1 DEF Rollback, Goto, TypeOK, Labels
<1>15. ASSUME NEW c \in Conns, NEW h \in Handles, HandleClose(c, h) PROVE TypeOK'
  <2>1. \A st \in Statuses : Fresh(h, <<>>, st) \in Locals
    BY Zenon, FreshType, SeqIs
  <2>2. QED
    BY Zenon, <1>15, <2>1 DEF HandleClose, Goto, TypeOK, Labels, Statuses
<1>16. ASSUME NEW c \in Conns, CloseRelease(c) PROVE TypeOK'
  BY Zenon, <1>16 DEF CloseRelease, Goto, TypeOK, Labels
<1>17. ASSUME NEW c \in Conns, CloseDelete(c) PROVE TypeOK'
  BY Zenon, <1>3, <1>17 DEF CloseDelete, TypeOK, Statuses
<1>18. QED
  BY Zenon, <1>1, <1>2, <1>4, <1>5, <1>6, <1>7, <1>9, <1>11, <1>12, <1>13, <1>14, <1>15, <1>16, <1>17
  DEF Next, Step

\* The variables always have the types the code gives them: FileLocks!TypeOK.
THEOREM TypeCorrect == Spec => []TypeOK
<1>1. Init => TypeOK
  <2>1. Fresh(CHOOSE h \in Handles : TRUE, <<>>, "none") \in Locals
    <3>1. (CHOOSE h \in Handles : TRUE) \in Handles /\ "none" \in Statuses /\ <<>> \in Seq(Element)
      BY Zenon, ConstantsAssumption, SeqIs DEF Statuses
    <3>2. QED
      BY Zenon, <3>1, FreshType
  <2>2. QED
    BY SMTT(30), <2>1 DEF Init, TypeOK, Labels
<1>2. QED
  BY <1>1, TypeOKStep, PTL DEF Spec

------------------------------------------------------------------------------

\* The table of locks only shrinks, except where acquire_file_lock inserts.
LEMMA StoreChange ==
  ASSUME [Next]_vars
  PROVE  \/ file_locks' \subseteq file_locks /\ next_file_lock_id' = next_file_lock_id
         \/ \E c \in Conns : AcquireFileLock(c)
<1>1. CASE UNCHANGED vars
  BY Zenon, <1>1 DEF vars
<1>2. ASSUME NEW c \in Conns, Step(c)
      PROVE  \/ file_locks' \subseteq file_locks /\ next_file_lock_id' = next_file_lock_id
             \/ AcquireFileLock(c)
  <2>1. CASE \E h \in Handles, elems \in Requests : HandleLock(c, h, elems)
    BY Zenon, <2>1 DEF HandleLock
  <2>2. CASE \E h \in Handles : HandleClose(c, h)
    BY Zenon, <2>2 DEF HandleClose
  <2>3. CASE AnswerLock(c) \/ RejectElement(c) \/ FindLock(c) \/ BackendUnlock(c)
    BY Zenon, <2>3 DEF AnswerLock, RejectElement, FindLock, BackendUnlock
  <2>4. CASE CheckConflicts(c) \/ BackendLock(c) \/ CloseDelete(c)
    BY Zenon, <2>4 DEF CheckConflicts, BackendLock, CloseDelete
  <2>5. CASE ReleaseFound(c) \/ CloseRelease(c)
    BY Zenon, <2>5 DEF ReleaseFound, CloseRelease
  <2>6. CASE Rollback(c)
    BY Zenon, <2>6 DEF Rollback
  <2>7. QED
    BY Zenon, <1>2, <2>1, <2>2, <2>3, <2>4, <2>5, <2>6 DEF Step
<1>3. QED
  BY Zenon, <1>1, <1>2 DEF Next

\* conflicts_with is symmetric, and false of two locks of one handle.
LEMMA ConflictSymmetric ==
  ASSUME NEW a, NEW b
  PROVE  /\ ConflictsWith(a, b) => ConflictsWith(b, a)
         /\ a.handle = b.handle => ~ConflictsWith(a, b)
BY Zenon DEF ConflictsWith

\* The StateStore never holds two conflicting locks: FileLocks!NoConflictingLocks.
\* Only the atomic check of acquire_file_lock is needed for it; the handlers' own
\* check plays no part.
THEOREM StoreLocksNeverConflict == Spec => []NoConflictingLocks
<1>1. Init => NoConflictingLocks
  BY Zenon DEF Init, NoConflictingLocks
<1>2. NoConflictingLocks /\ [Next]_vars => NoConflictingLocks'
  <2> SUFFICES ASSUME NoConflictingLocks, [Next]_vars,
                      NEW a \in file_locks', NEW b \in file_locks'
               PROVE  ~ConflictsWith(a, b)
    BY Zenon DEF NoConflictingLocks
  <2>1. CASE file_locks' \subseteq file_locks
    BY Zenon, <2>1 DEF NoConflictingLocks
  <2>2. ASSUME NEW c \in Conns, AcquireFileLock(c)
        PROVE  ~ConflictsWith(a, b)
    <3> DEFINE lock == LockFor(req[c].handle, Current(c), next_file_lock_id)
    <3> HIDE DEF lock
    <3>1. \/ file_locks' = file_locks
          \/ file_locks' = file_locks \cup {lock} /\ \A l \in file_locks : ~ConflictsWith(lock, l)
      BY Zenon, <2>2 DEF AcquireFileLock, lock
    <3>2. QED
      BY Zenon, <3>1, ConflictSymmetric DEF NoConflictingLocks
  <2>3. QED
    BY Zenon, <2>1, <2>2, StoreChange
<1>3. QED
  BY <1>1, <1>2, PTL DEF Spec

------------------------------------------------------------------------------
(* The ids a handler remembers *)

\* A handler that goes to its rollback has every acquired id on its list.
LEMMA ConflictLocals ==
  ASSUME TypeOK, NEW c \in Conns, Conflict(c)
  PROVE  /\ \A d \in Conns \ {c} : req'[d] = req[d] /\ pc'[d] = pc[d]
         /\ pc'[c] = "rollback"
         /\ req'[c].handle = req[c].handle
         /\ req'[c].acquired = req[c].acquired
         /\ req'[c].undo = req[c].acquired
         /\ req'[c].found = req[c].found
<1> DEFINE st == IF Current(c).fail_immediately THEN "LockNotGranted" ELSE "FileLockConflict"
           r == [req[c] EXCEPT !.undo = req[c].acquired, !.status = st]
<1>1. req' = [req EXCEPT ![c] = r]
  BY Zenon DEF Conflict, TypeOK
<1>2. /\ r.handle = req[c].handle /\ r.acquired = req[c].acquired
      /\ r.undo = req[c].acquired /\ r.found = req[c].found
  BY Zenon DEF TypeOK, Locals
<1> HIDE DEF r
<1>3. QED
  BY Zenon, <1>1, <1>2 DEF Conflict, Goto, TypeOK

\* LockInv is inductive (given the types).
LEMMA LockInvStep ==
  TypeOK /\ LockInv /\ [Next]_vars => LockInv'
<1> SUFFICES ASSUME TypeOK, LockInv, [Next]_vars PROVE LockInv'
  OBVIOUS
<1> USE DEF LockInv, LockIdsUnique, RememberedIdsOwn, RollbackComplete
<1>1. CASE UNCHANGED vars
  BY ZenonT(60), <1>1 DEF vars
<1>2. ASSUME NEW c \in Conns, NEW h \in Handles, NEW elems \in Requests, HandleLock(c, h, elems)
      PROVE  LockInv'
  BY <1>2, SMTT(30) DEF HandleLock, Fresh, Goto, TypeOK
<1>3. ASSUME NEW c \in Conns, AnswerLock(c) \/ RejectElement(c) PROVE LockInv'
  BY SMTT(30), <1>3 DEF AnswerLock, RejectElement, Answer, Fresh, Goto, TypeOK
<1>4. ASSUME NEW c \in Conns, FindLock(c) PROVE LockInv'
  <2>1. PICK id : /\ req' = [req EXCEPT ![c].found = id]
                  /\ id = 0 \/ \E l \in file_locks : l.handle = req[c].handle /\ l.lock_id = id
    BY Zenon, <1>4 DEF FindLock
  <2>2. /\ req'[c].handle = req[c].handle /\ req'[c].acquired = req[c].acquired
        /\ req'[c].undo = req[c].undo /\ req'[c].found = id
        /\ \A d \in Conns \ {c} : req'[d] = req[d]
    BY <2>1 DEF TypeOK, Locals
  <2>3. /\ id < next_file_lock_id
        /\ \A l \in file_locks : l.lock_id = id => l.handle = req[c].handle
    BY <2>1 DEF TypeOK, DistributedLock
  <2>4. /\ pc'[c] = "release" /\ \A d \in Conns \ {c} : pc'[d] = pc[d]
        /\ UNCHANGED <<file_locks, next_file_lock_id>>
    BY Zenon, <1>4 DEF FindLock, Goto, TypeOK
  <2>5. QED
    BY SMTT(30), <2>2, <2>3, <2>4
<1>5. ASSUME NEW c \in Conns, ReleaseFound(c) PROVE LockInv'
  BY ZenonT(60), <1>5 DEF ReleaseFound, Goto, TypeOK
<1>6. ASSUME NEW c \in Conns, BackendUnlock(c) PROVE LockInv'
  BY SMTT(30), <1>6 DEF BackendUnlock, Goto, TypeOK, Locals
<1>7. ASSUME NEW c \in Conns, CheckConflicts(c) PROVE LockInv'
  <2>1. CASE Conflict(c)
    BY SMTT(30), <1>7, <2>1, ConflictLocals DEF CheckConflicts
  <2>2. CASE ~Conflict(c)
    BY SMTT(30), <1>7, <2>2 DEF CheckConflicts, Goto, TypeOK
  <2>3. QED
    BY Zenon, <2>1, <2>2
<1>8. ASSUME NEW c \in Conns, BackendLock(c) PROVE LockInv'
  <2>1. CASE Conflict(c)
    BY SMTT(30), <1>8, <2>1, ConflictLocals DEF BackendLock
  <2>2. CASE ~Conflict(c)
    BY SMTT(30), <1>8, <2>2 DEF BackendLock, Goto, TypeOK
  <2>3. QED
    BY Zenon, <2>1, <2>2
<1>9. ASSUME NEW c \in Conns, AcquireFileLock(c) PROVE LockInv'
  <2> DEFINE lock == LockFor(req[c].handle, Current(c), next_file_lock_id)
             r == [req[c] EXCEPT !.acquired = @ \cup {next_file_lock_id}, !.todo = Tail(@)]
  <2>1. /\ req' = [req EXCEPT ![c] = r]
        /\ pc' = [pc EXCEPT ![c] = "element"]
        /\ next_file_lock_id' = next_file_lock_id + 1
        /\ file_locks' \in {file_locks, file_locks \cup {lock}}
    BY Zenon, <1>9 DEF AcquireFileLock, Goto, TypeOK
  <2>2. /\ r.handle = req[c].handle /\ r.acquired = req[c].acquired \cup {next_file_lock_id}
        /\ r.undo = req[c].undo /\ r.found = req[c].found
    BY DEF TypeOK, Locals
  <2>3. lock.lock_id = next_file_lock_id /\ lock.handle = req[c].handle
    BY Zenon DEF LockFor
  <2> HIDE DEF lock, r
  <2>4. next_file_lock_id \in Nat \ {0} /\ \A l \in file_locks : l.lock_id \in Nat
    BY Zenon DEF TypeOK, DistributedLock
  <2>5. \A d \in Conns : req[d].acquired \subseteq Nat /\ req[d].found \in Nat
    BY Zenon DEF TypeOK, Locals
  <2>6. \A d \in Conns \ {c} : req'[d] = req[d] /\ pc'[d] = pc[d]
    BY Zenon, <2>1 DEF TypeOK
  <2>7. req'[c] = r /\ pc'[c] = "element"
    BY Zenon, <2>1 DEF TypeOK
  <2>8. LockIdsUnique'
    BY <2>1, <2>3, <2>4
  <2>9. RememberedIdsOwn'
    <3> SUFFICES ASSUME NEW d \in Conns
                 PROVE  /\ req'[d].undo \subseteq req'[d].acquired
                        /\ \A id \in req'[d].acquired \cup {req'[d].found} : id < next_file_lock_id'
                        /\ \A l \in file_locks' :
                              l.lock_id \in req'[d].acquired \/ (pc'[d] = "release" /\ l.lock_id = req'[d].found) =>
                                l.handle = req'[d].handle
      OBVIOUS
    <3>1. CASE d = c
      BY SMTT(30), <3>1, <2>1, <2>2, <2>3, <2>4, <2>5, <2>7
    <3>2. CASE d # c
      BY SMTT(30), <3>2, <2>1, <2>3, <2>4, <2>5, <2>6
    <3>3. QED
      BY Zenon, <3>1, <3>2
  <2>10. RollbackComplete'
    <3> SUFFICES ASSUME NEW d \in Conns
                 PROVE  /\ \/ pc'[d] = "rollback"
                           \/ pc'[d] = "idle" /\ req'[d].status \in {"LockNotGranted", "FileLockConflict"}
                           => \A l \in file_locks' : l.lock_id \in req'[d].acquired => l.lock_id \in req'[d].undo
                        /\ pc'[d] = "idle" => req'[d].undo = {}
      OBVIOUS
    <3>1. CASE d = c
      BY Zenon, <3>1, <2>7
    <3>2. CASE d # c
      BY <3>2, <2>1, <2>3, <2>4, <2>5, <2>6
    <3>3. QED
      BY Zenon, <3>1, <3>2
  <2>11. QED
    BY Zenon, <2>8, <2>9, <2>10
<1>10. ASSUME NEW c \in Conns, Rollback(c) PROVE LockInv'
  <2>1. CASE req[c].undo = {}
    <3> DEFINE r == [req[c] EXCEPT !.elems = <<>>, !.todo = <<>>, !.found = 0]
    <3>1. req' = [req EXCEPT ![c] = r] /\ pc' = [pc EXCEPT ![c] = "idle"]
      BY Zenon, <1>10, <2>1 DEF Rollback, Goto, TypeOK
    <3>2. /\ r.handle = req[c].handle /\ r.acquired = req[c].acquired
          /\ r.undo = req[c].undo /\ r.found = 0 /\ r.status = req[c].status
      BY DEF TypeOK, Locals
    <3> HIDE DEF r
    <3>3. UNCHANGED <<file_locks, next_file_lock_id>> /\ pc[c] = "rollback" /\ 0 < next_file_lock_id
      BY <1>10, <2>1 DEF Rollback, TypeOK
    <3>4. QED
      BY ZenonT(60), <2>1, <3>1, <3>2, <3>3 DEF TypeOK
  <2>2. CASE req[c].undo # {}
    <3>1. PICK id \in req[c].undo : /\ file_locks' = {l \in file_locks : l.lock_id # id}
                                    /\ req' = [req EXCEPT ![c].undo = @ \ {id}]
      BY Zenon, <1>10, <2>2 DEF Rollback
    <3>2. /\ req'[c].handle = req[c].handle /\ req'[c].acquired = req[c].acquired
          /\ req'[c].undo = req[c].undo \ {id} /\ req'[c].found = req[c].found
          /\ req'[c].status = req[c].status
          /\ \A d \in Conns \ {c} : req'[d] = req[d]
      BY <3>1 DEF TypeOK, Locals
    <3>3. UNCHANGED <<pc, next_file_lock_id>> /\ pc[c] = "rollback"
      BY Zenon, <1>10, <2>2 DEF Rollback
    <3>4. QED
      BY <3>1, <3>2, <3>3
  <2>3. QED
    BY Zenon, <2>1, <2>2
<1>11. ASSUME NEW c \in Conns, NEW h \in Handles, HandleClose(c, h) PROVE LockInv'
  BY <1>11 DEF HandleClose, Fresh, Goto, TypeOK
<1>12. ASSUME NEW c \in Conns, CloseRelease(c) PROVE LockInv'
  BY ZenonT(60), <1>12 DEF CloseRelease, Goto, TypeOK
<1>13. ASSUME NEW c \in Conns, CloseDelete(c) PROVE LockInv'
  BY <1>13 DEF CloseDelete, Answer, Fresh, Goto, TypeOK
<1>14. QED
  BY Zenon, <1>1, <1>2, <1>3, <1>4, <1>5, <1>6, <1>7, <1>8, <1>9, <1>10, <1>11, <1>12, <1>13
  DEF Next, Step

\* FileLocks!LockInv always holds: the ids a handler keeps across its awaits stay
\* its own.
THEOREM RememberedIdsStayOwn == Spec => []LockInv
<1>1. Init => LockInv
  BY DEF Init, Fresh, LockInv, LockIdsUnique, RememberedIdsOwn, RollbackComplete
<1>2. QED
  BY <1>1, LockInvStep, TypeCorrect, PTL DEF Spec

\* A LOCK refused for a conflict leaves none of its locks in the store, for any
\* number of elements and of competing connections: FileLocks!ConflictRollsBack.
THEOREM RefusedLocksRolledBack == Spec => []ConflictRollsBack
<1>1. LockInv => ConflictRollsBack
  BY Zenon DEF LockInv, RollbackComplete, ConflictRollsBack
<1>2. QED
  BY <1>1, RememberedIdsStayOwn, PTL

\* No request releases a lock of another handle: FileLocks!ReleasesOnlyOwn.
THEOREM RequestsReleaseOwnLocks == Spec => ReleasesOnlyOwn
<1> DEFINE Own(l, c) == /\ pc[c] \in {"release", "rollback", "close"}
                        /\ req[c].handle = l.handle
                        /\ pc'[c] # pc[c] \/ req'[c] # req[c]
           A == \A l \in file_locks \ file_locks' : \E c \in Conns : Own(l, c)
<1>1. TypeOK /\ LockInv /\ [Next]_vars => [A]_vars
  <2> SUFFICES ASSUME TypeOK, LockInv, NEW c \in Conns, Step(c),
                      NEW l \in file_locks \ file_locks'
               PROVE  Own(l, c)
    BY Zenon DEF Next, vars
  <2> USE DEF LockInv, LockIdsUnique, RememberedIdsOwn
  <2>1. CASE ReleaseFound(c)
    BY Zenon, <2>1 DEF ReleaseFound, Goto, TypeOK
  <2>2. CASE CloseRelease(c)
    BY Zenon, <2>2 DEF CloseRelease, Goto, TypeOK
  <2>3. CASE Rollback(c)
    <3>1. PICK id \in req[c].undo : /\ file_locks' = {k \in file_locks : k.lock_id # id}
                                    /\ req' = [req EXCEPT ![c].undo = @ \ {id}]
      BY Zenon, <2>3 DEF Rollback
    <3>2. req'[c].undo = req[c].undo \ {id}
      BY ZenonT(60), <3>1 DEF TypeOK, Locals
    <3>3. pc[c] = "rollback" /\ l.lock_id = id
      BY Zenon, <2>3, <3>1 DEF Rollback
    <3>4. QED
      BY Zenon, <3>2, <3>3
  <2>4. CASE AcquireFileLock(c)
    BY Zenon, <2>4 DEF AcquireFileLock
  <2>5. CASE \E h \in Handles, elems \in Requests : HandleLock(c, h, elems)
    BY Zenon, <2>5 DEF HandleLock
  <2>6. CASE \E h \in Handles : HandleClose(c, h)
    BY Zenon, <2>6 DEF HandleClose
  <2>7. CASE AnswerLock(c) \/ RejectElement(c) \/ FindLock(c) \/ BackendUnlock(c)
    BY Zenon, <2>7 DEF AnswerLock, RejectElement, FindLock, BackendUnlock
  <2>8. CASE CheckConflicts(c) \/ BackendLock(c) \/ CloseDelete(c)
    BY Zenon, <2>8 DEF CheckConflicts, BackendLock, CloseDelete
  <2>9. QED
    BY Zenon, <2>1, <2>2, <2>3, <2>4, <2>5, <2>6, <2>7, <2>8 DEF Step
<1>2. [][A]_vars => ReleasesOnlyOwn
  BY Zenon DEF ReleasesOnlyOwn
<1>3. QED
  BY <1>1, <1>2, TypeCorrect, RememberedIdsStayOwn, PTL DEF Spec

------------------------------------------------------------------------------
(* Locks and the life of their handle *)

\* With one channel per session a handler that runs owns its handle: the handle is
\* open, nobody else works on it, and after the release step of CLOSE it has no lock.
HandlersOwn ==
  \A c \in Conns : pc[c] # "idle" =>
    /\ req[c].handle \in handles
    /\ c \in ChannelsOf[req[c].handle]
    /\ pc[c] = "delete" => \A l \in file_locks : l.handle # req[c].handle

\* NoOrphanLocks is inductive together with HandlersOwn.
LEMMA OrphanStep ==
  ASSUME SingleChannel, TypeOK, NoOrphanLocks, HandlersOwn, [Next]_vars
  PROVE  NoOrphanLocks' /\ HandlersOwn'
<1> USE DEF NoOrphanLocks, HandlersOwn
<1>0. ASSUME NEW c \in Conns, NEW d \in Conns, c # d, pc[c] # "idle", pc[d] # "idle"
      PROVE  req[c].handle # req[d].handle
  <2>1. SUFFICES ASSUME req[c].handle = req[d].handle PROVE FALSE
    OBVIOUS
  <2>2. req[c].handle \in Handles
    BY Zenon DEF TypeOK, Locals
  <2>3. c \in ChannelsOf[req[c].handle] /\ d \in ChannelsOf[req[d].handle]
    BY Zenon, <1>0
  <2>4. QED
    BY <1>0, <2>1, <2>2, <2>3, Zenon DEF SingleChannel
<1>1. CASE UNCHANGED vars
  BY Zenon, <1>1 DEF vars
<1>2. ASSUME NEW c \in Conns, NEW h \in Handles, NEW elems \in Requests, HandleLock(c, h, elems)
      PROVE  NoOrphanLocks' /\ HandlersOwn'
  BY <1>2, SMTT(30) DEF HandleLock, Fresh, Goto, TypeOK
<1>3. ASSUME NEW c \in Conns, AnswerLock(c) \/ RejectElement(c)
      PROVE  NoOrphanLocks' /\ HandlersOwn'
  BY ZenonT(60), <1>3 DEF AnswerLock, RejectElement, Answer, Fresh, Goto, TypeOK
<1>4. ASSUME NEW c \in Conns, pc[c] # "idle", pc[c] # "delete",
             \A d \in Conns \ {c} : req'[d] = req[d] /\ pc'[d] = pc[d],
             req'[c].handle = req[c].handle, pc'[c] # "delete",
             UNCHANGED handles,
             \A l \in file_locks' : l \in file_locks \/ l.handle = req[c].handle
      PROVE  NoOrphanLocks' /\ HandlersOwn'
  <2>1. NoOrphanLocks'
    BY Zenon, <1>4
  <2>2. ASSUME NEW d \in Conns, pc'[d] = "delete"
        PROVE  \A l \in file_locks' : l.handle # req'[d].handle
    <3>1. d # c /\ req'[d] = req[d] /\ pc[d] = "delete"
      BY Zenon, <1>4, <2>2
    <3>2. req[d].handle # req[c].handle
      BY Zenon, <1>0, <1>4, <3>1
    <3>3. QED
      BY Zenon, <1>4, <3>1, <3>2
  <2>3. QED
    BY Zenon, <1>4, <2>1, <2>2
<1>5. ASSUME NEW c \in Conns, FindLock(c) \/ ReleaseFound(c) \/ BackendUnlock(c)
      PROVE  NoOrphanLocks' /\ HandlersOwn'
  <2>1. pc[c] \in {"element", "release", "unlock"} /\ pc'[c] # "delete"
    BY Zenon, <1>5 DEF FindLock, Valid, ReleaseFound, BackendUnlock, Goto, TypeOK
  <2>2. /\ \A d \in Conns \ {c} : req'[d] = req[d] /\ pc'[d] = pc[d]
        /\ req'[c].handle = req[c].handle
    BY <1>5 DEF FindLock, ReleaseFound, BackendUnlock, Goto, TypeOK, Locals
  <2>3. UNCHANGED handles /\ file_locks' \subseteq file_locks
    BY Zenon, <1>5 DEF FindLock, ReleaseFound, BackendUnlock
  <2>4. QED
    BY Zenon, <1>4, <2>1, <2>2, <2>3
<1>6. ASSUME NEW c \in Conns, CheckConflicts(c) \/ BackendLock(c)
      PROVE  NoOrphanLocks' /\ HandlersOwn'
  <2>1. pc[c] \in {"element", "lock"} /\ UNCHANGED <<handles, file_locks>>
    BY Zenon, <1>6 DEF CheckConflicts, Valid, BackendLock
  <2>2. CASE Conflict(c)
    BY Zenon, <1>4, <2>1, <2>2, ConflictLocals
  <2>3. CASE ~Conflict(c)
    BY Zenon, <1>4, <1>6, <2>1, <2>3 DEF CheckConflicts, BackendLock, Goto, TypeOK
  <2>4. QED
    BY Zenon, <2>2, <2>3
<1>7. ASSUME NEW c \in Conns, AcquireFileLock(c)
      PROVE  NoOrphanLocks' /\ HandlersOwn'
  <2> DEFINE r == [req[c] EXCEPT !.acquired = @ \cup {next_file_lock_id}, !.todo = Tail(@)]
  <2>1. req' = [req EXCEPT ![c] = r]
    BY Zenon, <1>7 DEF AcquireFileLock, TypeOK
  <2>2. r.handle = req[c].handle
    BY Zenon DEF TypeOK, Locals
  <2> HIDE DEF r
  <2>3. /\ pc[c] = "acquire" /\ pc' = [pc EXCEPT ![c] = "element"] /\ UNCHANGED handles
        /\ \A l \in file_locks' : l \in file_locks \/ l.handle = req[c].handle
    BY <1>7 DEF AcquireFileLock, LockFor, Goto
  <2>4. QED
    BY Zenon, <1>4, <2>1, <2>2, <2>3 DEF TypeOK
<1>8. ASSUME NEW c \in Conns, Rollback(c)
      PROVE  NoOrphanLocks' /\ HandlersOwn'
  <2>1. /\ \A d \in Conns \ {c} : req'[d] = req[d] /\ pc'[d] = pc[d]
        /\ req'[c].handle = req[c].handle
    <3>1. CASE req[c].undo = {}
      <4> DEFINE r == [req[c] EXCEPT !.elems = <<>>, !.todo = <<>>, !.found = 0]
      <4>1. req' = [req EXCEPT ![c] = r] /\ pc' = [pc EXCEPT ![c] = "idle"]
        BY Zenon, <1>8, <3>1 DEF Rollback, Goto, TypeOK
      <4>2. r.handle = req[c].handle
        BY Zenon DEF TypeOK, Locals
      <4> HIDE DEF r
      <4>3. QED
        BY Zenon, <4>1, <4>2 DEF TypeOK
    <3>2. CASE req[c].undo # {}
      BY <1>8, <3>2 DEF Rollback, TypeOK, Locals
    <3>3. QED
      BY Zenon, <3>1, <3>2
  <2>2. pc[c] = "rollback" /\ pc'[c] # "delete" /\ UNCHANGED handles /\ file_locks' \subseteq file_locks
    BY Zenon, <1>8 DEF Rollback, Goto, TypeOK
  <2>3. QED
    BY Zenon, <1>4, <2>1, <2>2
<1>9. ASSUME NEW c \in Conns, NEW h \in Handles, HandleClose(c, h)
      PROVE  NoOrphanLocks' /\ HandlersOwn'
  BY Zenon, <1>9 DEF HandleClose, Fresh, Goto, TypeOK
<1>10. ASSUME NEW c \in Conns, CloseRelease(c)
       PROVE  NoOrphanLocks' /\ HandlersOwn'
  BY Zenon, <1>10 DEF CloseRelease, Goto, TypeOK
<1>11. ASSUME NEW c \in Conns, CloseDelete(c)
       PROVE  NoOrphanLocks' /\ HandlersOwn'
  <2>1. /\ pc[c] = "delete" /\ pc' = [pc EXCEPT ![c] = "idle"]
        /\ handles' = handles \ {req[c].handle} /\ UNCHANGED file_locks
        /\ \A d \in Conns \ {c} : req'[d] = req[d]
    BY Zenon, <1>11 DEF CloseDelete, Answer, Goto, TypeOK
  <2>2. \A d \in Conns \ {c} : pc[d] # "idle" => req[d].handle # req[c].handle
    BY Zenon, <1>0, <2>1
  <2>3. QED
    BY Zenon, <2>1, <2>2 DEF TypeOK
<1>12. QED
  BY Zenon, <1>1, <1>2, <1>3, <1>5, <1>6, <1>7, <1>8, <1>9, <1>10, <1>11 DEF Next, Step

\* When every session has one connection, no lock outlives its handle:
\* FileLocks!NoOrphanLocks.
THEOREM LocksDieWithTheirHandle ==
  ASSUME SingleChannel
  PROVE  Spec => []NoOrphanLocks
<1>1. Init => NoOrphanLocks /\ HandlersOwn
  BY Zenon DEF Init, NoOrphanLocks, HandlersOwn
<1>2. TypeOK /\ (NoOrphanLocks /\ HandlersOwn) /\ [Next]_vars => (NoOrphanLocks /\ HandlersOwn)'
  BY Zenon, OrphanStep
<1>3. QED
  BY <1>1, <1>2, TypeCorrect, PTL DEF Spec
==============================================================================
