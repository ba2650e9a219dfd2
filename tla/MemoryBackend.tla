--------------------------- MODULE MemoryBackend ----------------------------
(***************************************************************************)
(* The in-memory StorageBackend: a tree under one lock, and a table of     *)
(* open files, keyed by inode number, under another.  A call that needs    *)
(* both takes them one after the other, and other calls run in between:    *)
(* open changes the tree and then the table; read, write and fstat find    *)
(* the file's path in the table and then the file in the tree.             *)
(*                                                                         *)
(* Byte-range locks are in FileLocks.                                      *)
(***************************************************************************)
EXTENDS MemoryTree

CONSTANTS
  Clients,
  MaxIno,    \* inode numbers that may be given out
  Modes,     \* [calls, max, tree, stable]: the calls made and how many, the tree
             \* found, and whether the names of open files are left alone
  NoFile

Inos == 1..MaxIno

VARIABLES
  root, inode_counter,  \* the tree
  open_files,           \* [path, ref_count] of the inode numbers in it
  call, ret, pc,        \* the call of each client, its answer, its next step
  node, path,           \* locals of a call
  held,                 \* history: how many handles there are for each inode number
  mode, calls

vars == <<root, inode_counter, open_files, call, ret, pc, node, path, held, mode, calls>>
tree == <<root, inode_counter>>
local == <<node, path>>

Idle == [fn |-> "idle"]
Pending == [is |-> "pending"]

------------------------------------------------------------------------------
(* Calls that take the tree's lock once: the new tree and the answer. *)

OneLock(t, o, ino) ==
  LET p == NormalizeMemory(o.path) IN
  CASE o.fn = "stat" -> Stat(t, p)
    [] o.fn \in {"chmod", "chown", "utimes"} -> SetAttr(t, p, o.fn, o.val)
    [] o.fn = "truncate" -> Truncate(t, p, o.size)
    [] o.fn = "mkdir" -> Mkdir(t, p, ino)
    [] o.fn = "rmdir" -> Rmdir(t, p)
    [] o.fn = "readdir" -> Readdir(t, p)
    [] o.fn = "unlink" -> Unlink(t, p)
    [] o.fn = "rename" -> Rename(t, p, NormalizeMemory(o.new))
    [] o.fn = "link" -> Link(t)
    [] o.fn = "symlink" -> MakeSymlink(t, p, o.val, ino)
    [] o.fn = "readlink" -> Readlink(t, p)
    [] o.fn = "getxattr" -> Getxattr(t, p, o.name)
    [] o.fn = "setxattr" -> Setxattr(t, p, o.name, o.val)
    [] o.fn = "removexattr" -> Removexattr(t, p, o.name)

------------------------------------------------------------------------------
(* The calls *)

OpenPath(c) == NormalizeMemory(call[c].path)

\* Handles for an inode number, with those about to be.
Opening(c) == pc[c] \in {"index", "insert"}
Open(n) == held[n] + Cardinality({c \in Clients : Opening(c) /\ node[c] = n})

ByHandle == {"read", "write", "fstat", "fsync", "close"}

Using(c, n) == pc[c] \notin {"idle", "done"} /\ call[c].fn \in ByHandle /\ call[c].ino = n
Closing(c, n) == Using(c, n) /\ call[c].fn = "close"

\* Handles are used while they are open, and closed once; in a stable behaviour the
\* last one is not closed while it is used.
Start(c) ==
  /\ call[c] = Idle /\ calls < mode.max
  /\ \E o \in mode.calls :
       /\ o.fn \in ByHandle =>
            LET left == held[o.ino] - Cardinality({d \in Clients : Closing(d, o.ino)})
                used == \E d \in Clients : Using(d, o.ino) /\ ~Closing(d, o.ino)
            IN left > (IF o.fn = "close" /\ used /\ mode.stable THEN 1 ELSE 0)
       /\ call' = [call EXCEPT ![c] = o]
  /\ pc' = [pc EXCEPT ![c] = "start"]
  /\ calls' = calls + 1
  /\ UNCHANGED <<tree, open_files, ret, local, held, mode>>

\* The call ends with an answer; its locals are gone.
Answer(c, a) ==
  /\ ret' = [ret EXCEPT ![c] = a]
  /\ pc' = [pc EXCEPT ![c] = "done"]
  /\ node' = [node EXCEPT ![c] = 0]
  /\ path' = [path EXCEPT ![c] = <<>>]

Return(c) ==
  /\ pc[c] = "done"
  /\ call' = [call EXCEPT ![c] = Idle]
  /\ ret' = [ret EXCEPT ![c] = Pending]
  /\ pc' = [pc EXCEPT ![c] = "idle"]
  /\ UNCHANGED <<tree, open_files, local, held, mode, calls>>

\* In a stable behaviour a name stays while its file is open or about to be.
InUse(p) ==
  \/ Open(root[p].ino) > 0
  \/ \E c \in Clients : pc[c] = "look" /\ OpenPath(c) = p
NamesKept == \A p \in DOMAIN root : InUse(p) => p \in DOMAIN root' /\ root'[p].ino = root[p].ino

NameCall(c) ==
  /\ pc[c] = "start" /\ call[c].fn \notin ByHandle \cup {"open"}
  /\ LET done == OneLock(root, call[c], inode_counter) IN
       /\ inode_counter <= MaxIno
       /\ root' = done.tree
       /\ inode_counter' = inode_counter + (IF inode_counter \in InosOf(done.tree) THEN 1 ELSE 0)
       /\ Answer(c, done.ret)
  /\ mode.stable => NamesKept
  /\ UNCHANGED <<open_files, call, held, mode, calls>>

------------------------------------------------------------------------------
(* open *)

\* The node is known; its entry in the table is next.
Found(c, n, next) ==
  /\ node' = [node EXCEPT ![c] = n]
  /\ path' = [path EXCEPT ![c] = OpenPath(c)]
  /\ pc' = [pc EXCEPT ![c] = next]
  /\ UNCHANGED ret

\* A directory: get_node.
OpenDirectory(c) ==
  /\ pc[c] = "start" /\ call[c].fn = "open" /\ call[c].directory
  /\ LET p == OpenPath(c) IN
       \/ /\ Walk(root, p) = "found" /\ IsDir(root, p)
          /\ ~(call[c].create /\ call[c].excl)
          /\ Found(c, root[p].ino, "index")
       \/ /\ Walk(root, p) = "NotFound" /\ call[c].create
          /\ pc' = [pc EXCEPT ![c] = "mkdir"]
          /\ UNCHANGED <<ret, local>>
       \/ /\ ~(Walk(root, p) = "NotFound" /\ call[c].create)
          /\ Walk(root, p) = "found" /\ IsDir(root, p) => call[c].create /\ call[c].excl
          /\ Answer(c, Error(CASE Walk(root, p) # "found" -> Walk(root, p)
                               [] IsDir(root, p) -> "AlreadyExists"
                               [] OTHER -> "NotADirectory"))
  /\ UNCHANGED <<tree, open_files, call, held, mode, calls>>

\* ... mkdir ...
OpenMkdir(c) ==
  /\ pc[c] = "mkdir" /\ inode_counter <= MaxIno
  /\ LET done == Mkdir(root, OpenPath(c), inode_counter) IN
       /\ root' = done.tree
       /\ inode_counter' = inode_counter + (IF done.ret = Ok THEN 1 ELSE 0)
       /\ IF done.ret = Ok THEN pc' = [pc EXCEPT ![c] = "look"] /\ UNCHANGED <<ret, local>>
          ELSE Answer(c, done.ret)
  /\ UNCHANGED <<open_files, call, held, mode, calls>>

\* ... get_node again, which may find another node or none ...
OpenLook(c) ==
  /\ pc[c] = "look"
  /\ LET p == OpenPath(c) IN
       IF Walk(root, p) = "found" THEN Found(c, root[p].ino, "insert")
       ELSE Answer(c, Error(Walk(root, p)))
  /\ UNCHANGED <<tree, open_files, call, held, mode, calls>>

Entry(c) == [path |-> path[c], ref_count |-> 1]
Opened(c) == held' = [held EXCEPT ![node[c]] = @ + 1] /\ Answer(c, Value(node[c]))

\* ... and insert, whether or not there is an entry.
OpenInsert(c) ==
  /\ pc[c] = "insert"
  /\ open_files' = (node[c] :> Entry(c)) @@ open_files
  /\ Opened(c)
  /\ UNCHANGED <<tree, call, mode, calls>>

\* A file: the tree.
OpenFile(c) ==
  /\ pc[c] = "start" /\ call[c].fn = "open" /\ ~call[c].directory
  /\ LET p == OpenPath(c)
         error == CASE p = <<>> -> "InvalidPath"
                    [] p # <<>> /\ WalkParent(root, p) # "found" -> WalkParent(root, p)
                    [] OTHER -> CASE p \in DOMAIN root /\ call[c].create /\ call[c].excl -> "AlreadyExists"
                                  [] IsDir(root, p) -> "IsADirectory"
                                  [] p \notin DOMAIN root /\ ~call[c].create -> "NotFound"
                                  [] OTHER -> "none"
     IN \/ /\ error # "none"
           /\ Answer(c, Error(error))
           /\ UNCHANGED tree
        \/ /\ error = "none" /\ p \in DOMAIN root
           /\ root' = IF call[c].trunc /\ root[p].type = File THEN [root EXCEPT ![p].data = <<>>] ELSE root
           /\ Found(c, root[p].ino, "index")
           /\ UNCHANGED inode_counter
        \/ /\ error = "none" /\ p \notin DOMAIN root /\ inode_counter <= MaxIno
           /\ root' = With(root, p, NewNode(File, inode_counter, <<>>))
           /\ inode_counter' = inode_counter + 1
           /\ Found(c, inode_counter, "index")
  /\ UNCHANGED <<open_files, call, held, mode, calls>>

\* The table.
OpenIndex(c) ==
  /\ pc[c] = "index"
  /\ open_files' = IF node[c] \in DOMAIN open_files THEN [open_files EXCEPT ![node[c]].ref_count = @ + 1]
                   ELSE (node[c] :> Entry(c)) @@ open_files
  /\ Opened(c)
  /\ UNCHANGED <<tree, call, mode, calls>>

------------------------------------------------------------------------------
(* Calls through a handle *)

\* read, write, fstat: the path in the table ...
FindPath(c) ==
  /\ pc[c] = "start" /\ call[c].fn \in {"read", "write", "fstat"}
  /\ IF call[c].ino \in DOMAIN open_files
     THEN /\ path' = [path EXCEPT ![c] = open_files[call[c].ino].path]
          /\ pc' = [pc EXCEPT ![c] = call[c].fn]
          /\ UNCHANGED <<ret, node>>
     ELSE Answer(c, Error("InvalidHandle"))
  /\ UNCHANGED <<tree, open_files, call, held, mode, calls>>

\* ... and the file in the tree.
Read(c) ==
  /\ pc[c] = "read"
  /\ LET p == path[c] IN
       Answer(c, CASE Walk(root, p) # "found" -> Error(Walk(root, p))
                   [] IsDir(root, p) -> Error("IsADirectory")
                   [] p \in DOMAIN root /\ root[p].type = Symlink -> Error("InvalidHandle")
                   [] OTHER -> Value(BytesAt(root[p].data, call[c].offset, call[c].length)))
  /\ UNCHANGED <<tree, open_files, call, held, mode, calls>>

\* Mutant: the file is not filled up to the offset.
MutantWrite(c) ==
  /\ pc[c] = "write"
  /\ LET p == path[c] IN
       IF p \in DOMAIN root /\ root[p].type = File
       THEN /\ root' = [root EXCEPT ![p].data = Overwritten(@, Min({call[c].offset, Len(@)}), call[c].data)]
            /\ Answer(c, Value(Len(call[c].data)))
       ELSE UNCHANGED root /\ Answer(c, Error("NotFound"))
  /\ UNCHANGED <<inode_counter, open_files, call, held, mode, calls>>

Write(c) ==
  /\ pc[c] = "write"
  /\ LET p == path[c] IN
       IF p \in DOMAIN root /\ root[p].type = File
       THEN /\ root' = [root EXCEPT ![p].data = Overwritten(@, call[c].offset, call[c].data)]
            /\ Answer(c, Value(Len(call[c].data)))
       ELSE /\ UNCHANGED root
            /\ Answer(c, Error(CASE Walk(root, p) # "found" -> Walk(root, p)
                                 [] IsDir(root, p) -> "IsADirectory"
                                 [] OTHER -> "InvalidHandle"))
  /\ UNCHANGED <<inode_counter, open_files, call, held, mode, calls>>

Fstat(c) ==
  /\ pc[c] = "fstat"
  /\ Answer(c, Stat(root, path[c]).ret)
  /\ UNCHANGED <<tree, open_files, call, held, mode, calls>>

Fsync(c) ==
  /\ pc[c] = "start" /\ call[c].fn = "fsync"
  /\ Answer(c, IF call[c].ino \in DOMAIN open_files THEN Ok ELSE Error("InvalidHandle"))
  /\ UNCHANGED <<tree, open_files, call, held, mode, calls>>

Close(c) ==
  /\ pc[c] = "start" /\ call[c].fn = "close"
  /\ LET n == call[c].ino IN
       /\ open_files' = CASE n \notin DOMAIN open_files -> open_files
                          [] n \in DOMAIN open_files /\ open_files[n].ref_count = 1 ->
                               [m \in DOMAIN open_files \ {n} |-> open_files[m]]
                          [] OTHER -> [open_files EXCEPT ![n].ref_count = @ - 1]
       /\ held' = [held EXCEPT ![n] = @ - 1]
  /\ Answer(c, Ok)
  /\ UNCHANGED <<tree, call, mode, calls>>

------------------------------------------------------------------------------
Next ==
  \E c \in Clients :
    \/ Start(c) \/ Return(c) \/ NameCall(c)
    \/ OpenDirectory(c) \/ OpenMkdir(c) \/ OpenLook(c) \/ OpenInsert(c) \/ OpenFile(c) \/ OpenIndex(c)
    \/ FindPath(c) \/ Read(c) \/ Write(c) \/ Fstat(c) \/ Fsync(c) \/ Close(c)

\* The tree that earlier calls have left; nothing is open.
Init ==
  /\ mode \in Modes
  /\ root = mode.tree
  /\ inode_counter = Max(InosOf(root)) + 1
  /\ open_files = <<>>
  /\ call = [c \in Clients |-> Idle]
  /\ ret = [c \in Clients |-> Pending]
  /\ pc = [c \in Clients |-> "idle"]
  /\ node = [c \in Clients |-> 0]
  /\ path = [c \in Clients |-> <<>>]
  /\ held = [n \in Inos |-> 0]
  /\ calls = 0

Spec == Init /\ [][Next]_vars

------------------------------------------------------------------------------
(* Properties *)

IsFile(n) == \E p \in DOMAIN root : root[p].type = File /\ root[p].ino = n
RefCount(n) == IF n \in DOMAIN open_files THEN open_files[n].ref_count ELSE 0

(* The tree stays a tree: every node is in a directory, and no inode number is *)
(* in two places, whatever rename moves where and however opens that create    *)
(* race with each other.                                                       *)
TreeInv == WellFormed(root)

(* The table of open files never counts more handles than there are, and has no *)
(* entry without one, so no entry outlives its handles; and for a file whose     *)
(* name stays it counts them exactly, although open looks at the tree and at the *)
(* table under different locks.                                                  *)
FilesCounted ==
  /\ \A n \in DOMAIN open_files : open_files[n].ref_count \in 1..held[n]
  /\ mode.stable => \A n \in Inos : IsFile(n) => RefCount(n) = held[n]

(* As long as the names of open files stay, the backend is a FileStore on which *)
(* reads and writes through a handle do not fail: the detour through the path   *)
(* in the table cannot be noticed.  An open takes effect when it has the tree,  *)
(* before it is in the table.                                                   *)
Abstract == INSTANCE FileStore WITH
  Reliable <- {"read", "write"},
  content <- [n \in Inos |-> IF mode.stable /\ IsFile(n) THEN root[PathOf(root, n)].data ELSE NoFile],
  opens <- [n \in Inos |-> IF mode.stable THEN Open(n) ELSE 0],
  call <- [c \in Clients |-> IF mode.stable THEN call[c] ELSE Idle],
  ret <- [c \in Clients |-> CASE ~mode.stable -> Pending
                              [] mode.stable /\ Opening(c) -> Value(node[c])
                              [] OTHER -> ret[c]]
ImplementsFileStore == Abstract!Spec

(* What the ref_count comment says: every handle, of a directory too, is counted. *)
HandlesCounted == \A n \in Inos : RefCount(n) = held[n]

(* What the capability atomic_rename says: a rename that fails leaves the tree as *)
(* it was.                                                                        *)
RenameAtomic ==
  [][\A c \in Clients : call[c].fn = "rename" /\ ret[c] = Pending /\ ret'[c].is = "error" => root' = root]_vars
=============================================================================
