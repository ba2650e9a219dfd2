---------------------------- MODULE LocalBackend ----------------------------
(***************************************************************************)
(* The StorageBackend over a local directory.  Paths are normalized and    *)
(* validated first, and used by a later system call.  Open files are kept  *)
(* in a table by inode number; all handles of a file share the file that   *)
(* the first of them opened.                                               *)
(*                                                                         *)
(* The kernel and the runtime's File are external: a write returns when    *)
(* the data is in the File's buffer, a thread of the runtime performs it   *)
(* later, the next operation on the File waits for it, and its error is    *)
(* reported by the next write.  System calls fail as Io, whatever errno.   *)
(* Symbolic links name paths of the share.  Locks are in FileLocks.        *)
(***************************************************************************)
EXTENDS FileTree

CONSTANTS
  Clients,
  MaxIno,    \* inode numbers of the file system
  MaxLinks,  \* symbolic links followed by the kernel
  Modes,     \* [calls, max, tree, ordered]: the calls made and how many, the tree
             \* found, and whether buffered writes are performed before other calls
  NoFile

Inos == 1..MaxIno

VARIABLES
  disk,            \* the kernel: [names: path -> inode number, inodes: number -> node]
  dropped,         \* buffered writes of files that were closed
  open_files,      \* [path, fd, writable, ref_count, pending, failed] by inode number
  call, ret, pc,   \* the call of each client, its answer, its next step
  path, file, seen,\* locals of a call: the validated path, the open file, what was read
  held,            \* history: how many handles there are for each inode number
  mode, calls

vars == <<disk, dropped, open_files, call, ret, pc, path, file, seen, held, mode, calls>>
local == <<path, file, seen>>

Idle == [fn |-> "idle"]
Pending == [is |-> "pending"]
Error(e) == [is |-> "error", err |-> e]
Value(v) == [is |-> "value", val |-> v]
Ok == Value("ok")
Closed == [ino |-> 0]

\* Bytes, as in the abstract store.
Bytes == INSTANCE FileStore WITH
  content <- <<>>, opens <- <<>>, Reliable <- {}

------------------------------------------------------------------------------
(* The kernel *)

View(k) == [p \in DOMAIN k.names |-> k.inodes[k.names[p]]]

\* p with one symbolic link replaced by its target.
Followed(t, p, final) ==
  LET links == {q \in DOMAIN t : t[q].type = Symlink /\ IsPrefix(q, p) /\ (final \/ q # p)}
      q == CHOOSE q \in links : \A r \in links : Len(q) <= Len(r)
  IN IF links = {} THEN p ELSE t[q].data \o SubSeq(p, Len(q) + 1, Len(p))

Lookup(t, p, final) == FoldLeft(LAMBDA q, i : Followed(t, q, final), p, [i \in 1..MaxLinks |-> i])

Named(k, n) == \E p \in DOMAIN k.names : k.names[p] = n
Live(n) ==
  \/ Named(disk, n) \/ n \in DOMAIN open_files
  \/ \E c \in Clients : file[c].ino = n
  \/ \E i \in DOMAIN dropped : dropped[i].ino = n

Outcome(k, a) == [disk |-> k, ret |-> a]
Io(k) == Outcome(k, Error("Io"))

\* f(q) for the node p leads to.
OnNode(k, p, done(_)) ==
  LET q == Lookup(View(k), p, TRUE) IN IF Walk(View(k), q) = "found" THEN done(q) ELSE Io(k)

\* The same for the name p in its directory, which is not the root.
OnName(k, p, done(_)) ==
  LET q == Lookup(View(k), p, FALSE) IN
  IF q # <<>> /\ WalkParent(View(k), q) = "found" THEN done(q) ELSE Io(k)

Update(k, q, node) == [k EXCEPT !.inodes[k.names[q]] = node]
Enter(k, q, n, node) == [names |-> (q :> n) @@ k.names, inodes |-> [k.inodes EXCEPT ![n] = node]]
Removed(k, q) == [k EXCEPT !.names = Without(@, q)]

\* convert_metadata: the size in place of the data.
ConvertMetadata(node) == [node EXCEPT !.data = Len(@)]

KernelStat(k, p) == OnNode(k, p, LAMBDA q : Outcome(k, Value(ConvertMetadata(View(k)[q]))))

KernelSet(k, p, attr, val) ==
  OnNode(k, p, LAMBDA q : Outcome(Update(k, q, [View(k)[q] EXCEPT !.attrs = (attr :> val) @@ @]), Ok))

KernelUnset(k, p, attr) ==
  OnNode(k, p, LAMBDA q :
    IF attr \in DOMAIN View(k)[q].attrs
    THEN Outcome(Update(k, q, [View(k)[q] EXCEPT !.attrs = [a \in DOMAIN @ \ {attr} |-> @[a]]]), Ok)
    ELSE Outcome(k, Error("NotFound")))

KernelTruncate(k, p, size) ==
  OnNode(k, p, LAMBDA q :
    IF View(k)[q].type = File
    THEN Outcome(Update(k, q, [View(k)[q] EXCEPT !.data = Bytes!Resized(@, size)]), Ok)
    ELSE Io(k))

KernelMake(k, p, n, node) ==
  OnName(k, p, LAMBDA q : IF q \in DOMAIN k.names THEN Io(k) ELSE Outcome(Enter(k, q, n, node), Ok))

KernelRmdir(k, p) ==
  OnName(k, p, LAMBDA q :
    IF IsDir(View(k), q) /\ Children(k.names, q) = {} THEN Outcome(Removed(k, q), Ok) ELSE Io(k))

KernelUnlink(k, p) ==
  OnName(k, p, LAMBDA q :
    IF q \in DOMAIN k.names /\ ~IsDir(View(k), q) THEN Outcome(Removed(k, q), Ok) ELSE Io(k))

KernelRename(k, p, new) ==
  OnName(k, p, LAMBDA q : OnName(k, new, LAMBDA r :
    LET t == View(k) IN
    CASE \/ q \notin DOMAIN t
         \/ q # r /\ (IsPrefix(q, r) \/ IsPrefix(r, q))
         \/ r \in DOMAIN t /\ q # r /\ (IsDir(t, q) # IsDir(t, r) \/ Children(t, r) # {}) -> Io(k)
      [] OTHER -> IF r \in DOMAIN t /\ k.names[q] = k.names[r] THEN Outcome(k, Ok)
                  ELSE Outcome([k EXCEPT !.names = Grafted(Without(@, q), @, q, r)], Ok)))

KernelLink(k, p, new) ==
  OnName(k, p, LAMBDA q : OnName(k, new, LAMBDA r :
    IF q \in DOMAIN k.names /\ ~IsDir(View(k), q) /\ r \notin DOMAIN k.names
    THEN Outcome([k EXCEPT !.names = (r :> k.names[q]) @@ @], Ok)
    ELSE Io(k)))

KernelReadlink(k, p) ==
  OnName(k, p, LAMBDA q :
    IF q \in DOMAIN k.names /\ View(k)[q].type = Symlink THEN Outcome(k, Value(View(k)[q].data)) ELSE Io(k))

------------------------------------------------------------------------------
(* Calls *)

ByHandle == {"read", "write", "fstat", "fsync", "close"}
ParentOnly == {"mkdir", "symlink"}
TwoPaths == {"rename", "link"}
Unvalidated == {"stat", "readlink"}

Using(c, n) == pc[c] \notin {"idle", "done"} /\ call[c].fn \in ByHandle /\ call[c].ino = n
Closing(c, n) == Using(c, n) /\ call[c].fn = "close"

\* Handles are used while they are open, and closed once; in an ordered behaviour the
\* last one is not closed while it is used.
Start(c) ==
  /\ call[c] = Idle /\ calls < mode.max
  /\ \E o \in mode.calls :
       /\ o.fn \in ByHandle =>
            LET left == held[o.ino] - Cardinality({d \in Clients : Closing(d, o.ino)})
                used == \E d \in Clients : Using(d, o.ino) /\ ~Closing(d, o.ino)
            IN left > (IF o.fn = "close" /\ used /\ mode.ordered THEN 1 ELSE 0)
       /\ call' = [call EXCEPT ![c] = o]
  /\ pc' = [pc EXCEPT ![c] = "start"]
  /\ calls' = calls + 1
  /\ UNCHANGED <<disk, dropped, open_files, ret, local, held, mode>>

\* The call ends with an answer; its locals are gone.
Answer(c, a) ==
  /\ ret' = [ret EXCEPT ![c] = a]
  /\ pc' = [pc EXCEPT ![c] = "done"]
  /\ path' = [path EXCEPT ![c] = <<>>]
  /\ file' = [file EXCEPT ![c] = Closed]
  /\ seen' = [seen EXCEPT ![c] = 0]

Return(c) ==
  /\ pc[c] = "done"
  /\ call' = [call EXCEPT ![c] = Idle]
  /\ ret' = [ret EXCEPT ![c] = Pending]
  /\ pc' = [pc EXCEPT ![c] = "idle"]
  /\ UNCHANGED <<disk, dropped, open_files, local, held, mode, calls>>

\* validate_path: as much of the path as exists is made canonical.
Validated(t, p) ==
  LET exists(n) == Walk(t, Lookup(t, SubSeq(p, 1, n), TRUE)) = "found"
      n == Max({i \in 0..Len(p) : exists(i)})
  IN Lookup(t, SubSeq(p, 1, n), TRUE) \o SubSeq(p, n + 1, Len(p))

\* The error of resolve_path, or of validate_path for the parent of the root.
Refused(o) ==
  \/ NormalizeLocal(o.path) = EscapesRoot
  \/ o.fn \in ParentOnly /\ NormalizeLocal(o.path) = <<>>
  \/ o.fn \in TwoPaths /\ NormalizeLocal(o.new) \in {EscapesRoot, <<>>}

Validate(c) ==
  /\ pc[c] = "start" /\ call[c].fn \notin ByHandle
  /\ IF Refused(call[c]) THEN Answer(c, Error("AccessDenied"))
     ELSE /\ LET p == NormalizeLocal(call[c].path) IN
               path' = [path EXCEPT ![c] = IF call[c].fn \in ParentOnly \cup Unvalidated THEN p
                                           ELSE Validated(View(disk), p)]
          /\ pc' = [pc EXCEPT ![c] = IF call[c].fn = "open" /\ call[c].directory THEN "metadata" ELSE call[c].fn]
          /\ UNCHANGED <<ret, file, seen>>
  /\ UNCHANGED <<disk, dropped, open_files, call, held, mode, calls>>

\* Buffered writes come first in an ordered behaviour.
Quiet == mode.ordered => dropped = <<>> /\ \A n \in DOMAIN open_files : open_files[n].pending = {}

\* The system call of each method; chown and utimes report its error as Backend.
Backend(done) == IF done.ret.is = "error" THEN [done EXCEPT !.ret = Error("Backend")] ELSE done
Stat(o, p) == KernelStat(disk, p)
Chmod(o, p) == KernelSet(disk, p, "chmod", o.val)
Chown(o, p) == Backend(KernelSet(disk, p, "chown", o.val))
Utimes(o, p) == Backend(KernelSet(disk, p, "utimes", o.val))
Setxattr(o, p) == KernelSet(disk, p, "setxattr", o.val)
Removexattr(o, p) == KernelUnset(disk, p, "setxattr")
Truncate(o, p) == KernelTruncate(disk, p, o.size)
Rmdir(o, p) == KernelRmdir(disk, p)
Unlink(o, p) == KernelUnlink(disk, p)
Rename(o, p) == KernelRename(disk, p, NormalizeLocal(o.new))
Link(o, p) == KernelLink(disk, p, NormalizeLocal(o.new))
MakeSymlink(o, p, n) == KernelMake(disk, p, n, NewNode(Symlink, n, o.val))
Readlink(o, p) == KernelReadlink(disk, p)

SystemCall(o, p, n) ==
  CASE o.fn = "stat" -> Stat(o, p)
    [] o.fn = "chmod" -> Chmod(o, p)
    [] o.fn = "chown" -> Chown(o, p)
    [] o.fn = "utimes" -> Utimes(o, p)
    [] o.fn = "setxattr" -> Setxattr(o, p)
    [] o.fn = "removexattr" -> Removexattr(o, p)
    [] o.fn = "truncate" -> Truncate(o, p)
    [] o.fn = "rmdir" -> Rmdir(o, p)
    [] o.fn = "unlink" -> Unlink(o, p)
    [] o.fn = "rename" -> Rename(o, p)
    [] o.fn = "link" -> Link(o, p)
    [] o.fn = "symlink" -> MakeSymlink(o, p, n)
    [] o.fn = "readlink" -> Readlink(o, p)

Twice == {"mkdir", "readdir", "getxattr", "listxattr"}

NameCall(c) ==
  /\ pc[c] = call[c].fn /\ call[c].fn \notin ByHandle \cup Twice \cup {"open", "idle"}
  /\ Quiet
  /\ \E n \in Inos :
       /\ ~Live(n)
       /\ LET done == SystemCall(call[c], path[c], n) IN disk' = done.disk /\ Answer(c, done.ret)
  /\ UNCHANGED <<dropped, open_files, call, held, mode, calls>>

\* Calls that make two system calls: the first ...
Mkdir(c) ==
  /\ pc[c] = "mkdir" /\ Quiet
  /\ \E n \in Inos :
       /\ ~Live(n)
       /\ LET done == KernelMake(disk, path[c], n, NewNode(Directory, n, <<>>)) IN
            /\ disk' = done.disk
            /\ IF done.ret = Ok THEN pc' = [pc EXCEPT ![c] = "permissions"] /\ UNCHANGED <<ret, local>>
               ELSE Answer(c, done.ret)
  /\ UNCHANGED <<dropped, open_files, call, held, mode, calls>>

\* The size of an attribute's value.
Size(val) == val

Look(c) ==
  /\ pc[c] \in {"readdir", "getxattr"} /\ pc[c] = call[c].fn
  /\ LET t == View(disk)
         p == Lookup(t, path[c], TRUE)
         error == CASE Walk(t, p) # "found" -> "Io"
                    [] pc[c] = "readdir" -> IF IsDir(t, p) THEN "none" ELSE "Io"
                    [] OTHER -> IF "setxattr" \in DOMAIN t[p].attrs THEN "none" ELSE "NotFound"
     IN IF error # "none" THEN Answer(c, Error(error))
        ELSE /\ seen' = [seen EXCEPT ![c] = IF pc[c] = "readdir" THEN Children(t, p)
                                            ELSE Size(t[p].attrs["setxattr"])]
             /\ pc' = [pc EXCEPT ![c] = IF @ = "readdir" THEN "entries" ELSE "value"]
             /\ UNCHANGED <<ret, path, file>>
  /\ UNCHANGED <<disk, dropped, open_files, call, held, mode, calls>>

\* listxattr: no second call when there are no attributes. There is one name here.
AttributeNames(t, p) == DOMAIN t[p].attrs \cap {"setxattr"}
LookNames(c) ==
  /\ pc[c] = "listxattr"
  /\ LET t == View(disk)
         p == Lookup(t, path[c], TRUE)
     IN CASE Walk(t, p) # "found" -> Answer(c, Error("Io"))
          [] Walk(t, p) = "found" /\ AttributeNames(t, p) = {} -> Answer(c, Value({}))
          [] OTHER -> pc' = [pc EXCEPT ![c] = "names"] /\ UNCHANGED <<ret, local>>
  /\ UNCHANGED <<disk, dropped, open_files, call, held, mode, calls>>

\* ... and the second, which may find things changed.
Permissions(c) ==
  /\ pc[c] = "permissions"
  /\ LET done == KernelSet(disk, path[c], "chmod", call[c].val) IN disk' = done.disk /\ Answer(c, done.ret)
  /\ UNCHANGED <<dropped, open_files, call, held, mode, calls>>

Entries(c) ==
  /\ pc[c] = "entries"
  /\ Answer(c, IF seen[c] \subseteq DOMAIN disk.names THEN Value({Last(p) : p \in seen[c]}) ELSE Error("Io"))
  /\ UNCHANGED <<disk, dropped, open_files, call, held, mode, calls>>

AttributeValue(c) ==
  /\ pc[c] = "value"
  /\ LET t == View(disk)
         p == Lookup(t, path[c], TRUE)
         readable == p \in DOMAIN t /\ "setxattr" \in DOMAIN t[p].attrs
     IN Answer(c, IF readable /\ Size(t[p].attrs["setxattr"]) <= seen[c]
                  THEN Value(t[p].attrs["setxattr"]) ELSE Error("Io"))
  /\ UNCHANGED <<disk, dropped, open_files, call, held, mode, calls>>

ListNames(c) ==
  /\ pc[c] = "names"
  /\ LET t == View(disk)
         p == Lookup(t, path[c], TRUE)
     IN Answer(c, IF Walk(t, p) = "found" THEN Value(AttributeNames(t, p)) ELSE Error("Io"))
  /\ UNCHANGED <<disk, dropped, open_files, call, held, mode, calls>>

------------------------------------------------------------------------------
(* open *)

\* The path of a directory exists or is to be created.
OpenMetadata(c) ==
  /\ pc[c] = "metadata"
  /\ LET found == Walk(View(disk), Lookup(View(disk), path[c], TRUE))
         isdir == IsDir(View(disk), Lookup(View(disk), path[c], TRUE))
     IN \/ /\ found = "found" /\ isdir /\ ~(call[c].create /\ call[c].excl)
           /\ pc' = [pc EXCEPT ![c] = "opendir"] /\ UNCHANGED <<ret, local>>
        \/ /\ found = "found" /\ (isdir => call[c].create /\ call[c].excl)
           /\ Answer(c, Error(IF isdir THEN "AlreadyExists" ELSE "NotADirectory"))
        \/ /\ found = "NotFound" /\ call[c].create
           /\ pc' = [pc EXCEPT ![c] = "create_dir"] /\ UNCHANGED <<ret, local>>
        \/ /\ found # "found" /\ (found = "NotFound" => ~call[c].create)
           /\ Answer(c, Error(IF found = "NotFound" THEN "NotFound" ELSE "Io"))
  /\ UNCHANGED <<disk, dropped, open_files, call, held, mode, calls>>

OpenCreateDir(c) ==
  /\ pc[c] = "create_dir" /\ Quiet
  /\ \E n \in Inos :
       /\ ~Live(n)
       /\ LET done == KernelMake(disk, path[c], n, NewNode(Directory, n, <<>>)) IN
            /\ disk' = done.disk
            /\ IF done.ret = Ok THEN pc' = [pc EXCEPT ![c] = "opendir"] /\ UNCHANGED <<ret, local>>
               ELSE Answer(c, done.ret)
  /\ UNCHANGED <<dropped, open_files, call, held, mode, calls>>

\* The file of the call is open; the table is next.
Opened(c, n, read, write) ==
  /\ file' = [file EXCEPT ![c] = [ino |-> n, read |-> read, write |-> write]]
  /\ pc' = [pc EXCEPT ![c] = "index"]
  /\ UNCHANGED <<ret, path, seen>>

OpenDir(c) ==
  /\ pc[c] = "opendir"
  /\ LET p == Lookup(View(disk), path[c], TRUE) IN
       IF p \in DOMAIN disk.names THEN Opened(c, disk.names[p], TRUE, FALSE) ELSE Answer(c, Error("Io"))
  /\ UNCHANGED <<disk, dropped, open_files, call, held, mode, calls>>

\* flags_to_options: creating and truncating need write access.
GoodOptions(o) == (o.read \/ o.write) /\ (o.create \/ o.trunc => o.write)

OpenFile(c) ==
  /\ pc[c] = "open" /\ Quiet
  /\ LET o == call[c]
         t == View(disk)
         p == Lookup(t, path[c], ~o.excl)
         there == GoodOptions(o) /\ p \in DOMAIN t /\ ~o.excl /\ t[p].type # Symlink /\ (IsDir(t, p) => ~o.write)
         fresh == GoodOptions(o) /\ p \notin DOMAIN t /\ o.create /\ WalkParent(t, p) = "found"
     IN \/ /\ there
           /\ disk' = IF o.trunc /\ t[p].type = File THEN Update(disk, p, [t[p] EXCEPT !.data = <<>>]) ELSE disk
           /\ Opened(c, disk.names[p], o.read, o.write)
        \/ /\ fresh
           /\ \E n \in Inos : /\ ~Live(n)
                              /\ disk' = Enter(disk, p, n, NewNode(File, n, <<>>))
                              /\ Opened(c, n, o.read, o.write)
        \/ /\ ~there /\ ~fresh
           /\ Answer(c, Error("Io")) /\ UNCHANGED disk
  /\ UNCHANGED <<dropped, open_files, call, held, mode, calls>>

NormalizedPath(c) == NormalizeLocal(call[c].path)

\* An entry that is there keeps its file; only writable is raised.
OpenIndex(c) ==
  /\ pc[c] = "index"
  /\ LET f == file[c] IN
       /\ open_files' =
            IF f.ino \in DOMAIN open_files
            THEN [open_files EXCEPT ![f.ino].ref_count = @ + 1,
                                    ![f.ino].writable = @ \/ (~call[c].directory /\ call[c].write)]
            ELSE (f.ino :> [path |-> NormalizedPath(c), fd |-> f, writable |-> f.write, ref_count |-> 1,
                            pending |-> {}, failed |-> FALSE]) @@ open_files
       /\ held' = [held EXCEPT ![f.ino] = @ + 1]
       /\ Answer(c, Value(f.ino))
  /\ UNCHANGED <<disk, dropped, call, mode, calls>>

------------------------------------------------------------------------------
(* Calls through a handle, under the lock of the table *)

\* The runtime performs a buffered write.
Perform(w, k) ==
  [k EXCEPT !.inodes[w.ino].data = Bytes!Overwritten(@, w.offset, w.data)]

Flush ==
  \/ /\ \E n \in DOMAIN open_files : \E w \in open_files[n].pending :
          /\ open_files' = [open_files EXCEPT ![n].pending = {}, ![n].failed = ~open_files[n].fd.write]
          /\ disk' = IF open_files[n].fd.write THEN Perform(w, disk) ELSE disk
     /\ UNCHANGED dropped
  \/ /\ \E i \in DOMAIN dropped :
          /\ disk' = IF dropped[i].write THEN Perform(dropped[i], disk) ELSE disk
          /\ dropped' = RemoveAt(dropped, i)
     /\ UNCHANGED open_files

FlushStep == Flush /\ UNCHANGED <<call, ret, pc, local, held, mode, calls>>

\* Calls on a File wait for its buffered write.
InTable(c, fn) ==
  /\ pc[c] = "start" /\ call[c].fn = fn
  /\ call[c].ino \in DOMAIN open_files
  /\ fn \in {"read", "write", "fsync"} => open_files[call[c].ino].pending = {}

BadHandle(c) ==
  /\ pc[c] = "start" /\ call[c].fn \in ByHandle \ {"close"}
  /\ call[c].ino \notin DOMAIN open_files
  /\ Answer(c, Error("InvalidHandle"))
  /\ UNCHANGED <<disk, dropped, open_files, call, held, mode, calls>>

Read(c) ==
  /\ InTable(c, "read")
  /\ LET n == call[c].ino IN
       Answer(c, IF open_files[n].fd.read /\ disk.inodes[n].type = File
                 THEN Value(Bytes!BytesAt(disk.inodes[n].data, call[c].offset, call[c].length))
                 ELSE Error("Io"))
  /\ UNCHANGED <<disk, dropped, open_files, call, held, mode, calls>>

Write(c) ==
  /\ InTable(c, "write")
  /\ LET n == call[c].ino IN
       IF ~open_files[n].writable
       THEN UNCHANGED open_files /\ Answer(c, Error("AccessDenied"))
       ELSE IF call[c].data # <<>> /\ open_files[n].failed
       THEN open_files' = [open_files EXCEPT ![n].failed = FALSE] /\ Answer(c, Error("Io"))
       ELSE /\ open_files' = [open_files EXCEPT ![n].pending =
                 IF call[c].data = <<>> THEN {} ELSE {[ino |-> n, offset |-> call[c].offset, data |-> call[c].data]}]
            /\ Answer(c, Value(Len(call[c].data)))
  /\ UNCHANGED <<disk, dropped, call, held, mode, calls>>

Fsync(c) ==
  /\ InTable(c, "fsync")
  /\ Answer(c, Ok)
  /\ UNCHANGED <<disk, dropped, open_files, call, held, mode, calls>>

Fstat(c) ==
  /\ InTable(c, "fstat")
  /\ Answer(c, KernelStat(disk, open_files[call[c].ino].path).ret)
  /\ UNCHANGED <<disk, dropped, open_files, call, held, mode, calls>>

\* Mutant: the entry goes with any of its handles.
MutantClose(c) ==
  /\ pc[c] = "start" /\ call[c].fn = "close"
  /\ LET n == call[c].ino IN
       /\ open_files' = [m \in DOMAIN open_files \ {n} |-> open_files[m]]
       /\ held' = [held EXCEPT ![n] = @ - 1]
  /\ Answer(c, Ok)
  /\ UNCHANGED <<disk, dropped, call, mode, calls>>

\* The last handle drops the File; a write it has buffered is still performed.
Close(c) ==
  /\ pc[c] = "start" /\ call[c].fn = "close"
  /\ LET n == call[c].ino
         last == n \in DOMAIN open_files /\ open_files[n].ref_count = 1
     IN /\ open_files' = CASE n \notin DOMAIN open_files -> open_files
                           [] last -> [m \in DOMAIN open_files \ {n} |-> open_files[m]]
                           [] OTHER -> [open_files EXCEPT ![n].ref_count = @ - 1]
        /\ dropped' = IF last
                      THEN dropped \o SetToSeq({w @@ [write |-> open_files[n].fd.write] : w \in open_files[n].pending})
                      ELSE dropped
        /\ held' = [held EXCEPT ![n] = @ - 1]
  /\ Answer(c, Ok)
  /\ UNCHANGED <<disk, call, mode, calls>>

------------------------------------------------------------------------------
Next ==
  \/ \E c \in Clients :
       \/ Start(c) \/ Return(c) \/ Validate(c) \/ NameCall(c) \/ Mkdir(c) \/ Look(c)
       \/ Permissions(c) \/ Entries(c) \/ AttributeValue(c) \/ LookNames(c) \/ ListNames(c)
       \/ OpenMetadata(c) \/ OpenCreateDir(c) \/ OpenDir(c) \/ OpenFile(c) \/ OpenIndex(c)
       \/ BadHandle(c) \/ Read(c) \/ Write(c) \/ Fsync(c) \/ Fstat(c) \/ Close(c)
  \/ FlushStep

\* A directory tree as it was found; nothing is open.
Init ==
  /\ mode \in Modes
  /\ disk = [names |-> [p \in DOMAIN mode.tree |-> mode.tree[p].ino],
             inodes |-> [n \in Inos |-> IF n \in InosOf(mode.tree) THEN mode.tree[PathOf(mode.tree, n)]
                                        ELSE NewNode(File, n, <<>>)]]
  /\ dropped = <<>>
  /\ open_files = <<>>
  /\ call = [c \in Clients |-> Idle]
  /\ ret = [c \in Clients |-> Pending]
  /\ pc = [c \in Clients |-> "idle"]
  /\ path = [c \in Clients |-> <<>>]
  /\ file = [c \in Clients |-> Closed]
  /\ seen = [c \in Clients |-> 0]
  /\ held = [n \in Inos |-> 0]
  /\ calls = 0

Spec == Init /\ [][Next]_vars

------------------------------------------------------------------------------
(* Properties *)

(* The table counts the handles of every inode number exactly, of directories too, *)
(* although open looks at the file system long before it has the table.            *)
HandlesCounted ==
  \A n \in Inos : held[n] = IF n \in DOMAIN open_files THEN open_files[n].ref_count ELSE 0

Opening(c) == pc[c] = "index"
InFiles(n) ==
  /\ disk.inodes[n].type = File
  /\ Named(disk, n) \/ n \in DOMAIN open_files \/ \E c \in Clients : file[c].ino = n
Buffered(n) ==
  LET writes == {w \in Range(dropped) : w.ino = n} \cup IF n \in DOMAIN open_files THEN open_files[n].pending ELSE {}
  IN IF writes = {} THEN disk.inodes[n].data ELSE Perform(CHOOSE w \in writes : TRUE, disk).inodes[n].data

(* The backend is a FileStore whatever happens to names: a handle reads and writes  *)
(* the file it was opened for after a rename, after an unlink, and although its     *)
(* inode number would otherwise be given to a new file.  This is for files opened   *)
(* for reading and writing, and buffered writes performed before other calls reach  *)
(* the file system; a buffered write counts as done.                                *)
Abstract == INSTANCE FileStore WITH
  Reliable <- {"read", "write"},
  content <- [n \in Inos |-> IF mode.ordered /\ InFiles(n) THEN Buffered(n) ELSE NoFile],
  opens <- [n \in Inos |-> IF mode.ordered THEN held[n] + Cardinality({c \in Clients : Opening(c) /\ file[c].ino = n})
                           ELSE 0],
  call <- [c \in Clients |-> IF mode.ordered THEN call[c] ELSE Idle],
  ret <- [c \in Clients |-> CASE ~mode.ordered -> Pending
                              [] mode.ordered /\ Opening(c) -> Value(file[c].ino)
                              [] OTHER -> ret[c]]
ImplementsFileStore == Abstract!Spec

(* What "upgrade to writable" says: once a file is open for writing, a write that *)
(* was answered with success does not fail afterwards.                            *)
WritesLand == \A n \in DOMAIN open_files : ~open_files[n].failed
=============================================================================
