----------------------------- MODULE MCBackends -----------------------------
(* Both storage backends for TLC: a behaviour is one of the memory backend or  *)
(* one of the local backend.  Two tasks; calls on the data of a file, on a     *)
(* directory, and on names.                                                    *)
EXTENDS FileTree

CONSTANTS c1, c2, NoFile

Clients == {c1, c2}
Unused == "unused"

VARIABLES
  root, inode_counter, node,                          \* of the memory backend
  disk, dropped, file, seen,                          \* of the local backend
  open_files, call, ret, pc, path, held, mode, calls  \* of either

memory == <<root, inode_counter, node>>
local == <<disk, dropped, file, seen>>
vars == <<memory, local, open_files, call, ret, pc, path, held, mode, calls>>

a == <<"a">>
b == <<"b">>
d == <<"d">>
da == <<"d", "a">>

Both == {"read", "write"}
OpenCall(p, access, disposition, directory) ==
  [fn |-> "open", path |-> p] @@ ToOpenFlags(access, disposition, directory)
On(fn, p) == [fn |-> fn, path |-> p, val |-> 1, name |-> "x", size |-> 1]
Through(fn, n) == [fn |-> fn, ino |-> n]
ReadCall(n, offset) == [fn |-> "read", ino |-> n, offset |-> offset, length |-> 2]
WriteCall(n, offset, data) == [fn |-> "write", ino |-> n, offset |-> offset, data |-> data]
MoveCall(fn, p, q) == [fn |-> fn, path |-> p, new |-> q]
TruncateCall(p, size) == [fn |-> "truncate", path |-> p, size |-> size]

RootOnly == (<<>> :> NewNode(Directory, 1, <<>>))
OneFile == With(RootOnly, a, NewNode(File, 2, <<1>>))
Linked == With(With(With(RootOnly, d, NewNode(Directory, 2, <<>>)), da, NewNode(File, 3, <<1>>)), b, NewNode(Symlink, 4, da))
LinkedTwice == With(Linked, <<"c">>, NewNode(Symlink, 5, d))

-----------------------------------------------------------------------------
MemoryData ==
  {OpenCall(a, Both, "open", FALSE), OpenCall(a, Both, "overwrite", FALSE), OpenCall(<<"..", ".", "a">>, Both, "open_if", FALSE),
   ReadCall(2, 0), WriteCall(2, 1, <<0>>), WriteCall(2, 2, <<>>),
   Through("close", 2), TruncateCall(a, 2), On("unlink", a), MoveCall("rename", a, b)}
MemoryDirectory ==
  {OpenCall(d, Both, x, TRUE) : x \in {"create", "open_if", "open"}} \cup
  {OpenCall(d, Both, "create", FALSE), On("rmdir", d), On("unlink", d)} \cup
  UNION {{Through("close", n), Through("fstat", n), Through("fsync", n)} : n \in {2, 3}} \cup
  {ReadCall(2, 0), WriteCall(2, 0, <<1>>)}
MemoryNames ==
  {On(fn, p) : fn \in {"stat", "chmod", "chown", "utimes", "truncate", "mkdir", "rmdir", "readdir", "unlink",
                       "link", "symlink", "readlink", "getxattr", "setxattr", "removexattr"},
               p \in {a, b, d}} \cup
  {On(fn, <<>>) : fn \in {"rmdir", "mkdir", "unlink", "stat"}} \cup
  {MoveCall("rename", p, q) : p \in {<<>>, a, b, d, da}, q \in {<<"d", "b">>, <<"b", "a">>, b}} \cup
  {OpenCall(p, Both, "open_if", dir) : p \in {<<>>, b, <<"b", "a">>}, dir \in BOOLEAN} \cup
  {ReadCall(4, 0), WriteCall(4, 0, <<1>>)}

LocalData ==
  {OpenCall(a, Both, "open", FALSE), OpenCall(a, Both, "overwrite_if", FALSE),
   ReadCall(2, 0), WriteCall(2, 1, <<0>>), WriteCall(2, 2, <<>>),
   Through("close", 2), TruncateCall(a, 2), On("unlink", a), MoveCall("rename", a, b)}
\* The first open may be for reading only.
LocalAccess ==
  {OpenCall(a, {"read"}, "open", FALSE), OpenCall(a, {"write"}, "open", FALSE),
   ReadCall(2, 0), WriteCall(2, 0, <<0>>), Through("fsync", 2), Through("close", 2)}
LocalDirectory ==
  {OpenCall(d, Both, x, TRUE) : x \in {"create", "open_if", "open"}} \cup
  {OpenCall(d, Both, "create", FALSE), On("rmdir", d), On("unlink", d)} \cup
  UNION {{Through("close", n), Through("fstat", n), Through("fsync", n)} : n \in {2, 3}}
LocalNames ==
  {On(fn, p) : fn \in {"stat", "chmod", "truncate", "mkdir", "rmdir", "readdir", "unlink", "readlink", "getxattr",
                       "setxattr", "removexattr"},
               p \in {<<>>, b, <<"c", "a">>}} \cup
  {On("stat", <<"..">>), On("mkdir", <<"b", "a">>), On("rmdir", d), On("readdir", d), On("removexattr", d),
   On("chown", d), On("utimes", d), On("chown", <<"b", "a">>), On("listxattr", b), On("listxattr", <<"c", "a">>), On("listxattr", <<"e">>)} \cup
  {[fn |-> "setxattr", path |-> d, val |-> 2]} \cup
  {[fn |-> "symlink", path |-> p, val |-> a] : p \in {<<>>, a, <<"c", "b">>}} \cup
  {MoveCall(fn, p, q) : fn \in {"rename", "link"}, p \in {b, d}, q \in {<<>>, a, <<"c", "b">>}} \cup
  {OpenCall(p, Both, "open_if", dir) : p \in {<<>>, b, <<"b", "a">>}, dir \in BOOLEAN} \cup
  {OpenCall(b, {"read"}, "overwrite", FALSE), OpenCall(d, {"read"}, "open", FALSE)}

InMemory(C, m, T) ==
  [backend : {"memory"}, calls : {C}, max : {m}, tree : {T}, stable : BOOLEAN, ordered : {FALSE}]
OnDisk(C, m, T, O) ==
  [backend : {"local"}, calls : {C}, max : {m}, tree : {T}, stable : {FALSE}, ordered : O]

Memory == INSTANCE MemoryBackend WITH
  MaxIno <- 5,
  Modes <- InMemory(MemoryData, 4, OneFile) \cup InMemory(MemoryDirectory, 3, RootOnly) \cup InMemory(MemoryNames, 2, Linked)
Local == INSTANCE LocalBackend WITH
  MaxIno <- 7, MaxLinks <- 2,
  Modes <- OnDisk(LocalData, 4, OneFile, {TRUE}) \cup OnDisk(LocalAccess, 4, OneFile, {FALSE}) \cup
           OnDisk(LocalDirectory, 3, RootOnly, {TRUE}) \cup OnDisk(LocalNames, 2, LinkedTwice, {TRUE})

Init ==
  \/ Memory!Init /\ disk = Unused /\ dropped = Unused /\ file = Unused /\ seen = Unused
  \/ Local!Init /\ root = Unused /\ inode_counter = Unused /\ node = Unused
Next ==
  \/ mode.backend = "memory" /\ Memory!Next /\ UNCHANGED local
  \/ mode.backend = "local" /\ Local!Next /\ UNCHANGED memory
Spec == Init /\ [][Next]_vars

-----------------------------------------------------------------------------
(* The memory backend's tree stays a tree: every node is in a directory, and   *)
(* no inode number is in two places, whatever rename moves where and however   *)
(* opens that create race with each other.                                     *)
TreeInv == mode.backend = "memory" => Memory!TreeInv

(* The tables of open files count handles: the local backend's exactly, the    *)
(* memory backend's never more than there are, and exactly for files whose     *)
(* names stay.                                                                 *)
OpenFilesCounted ==
  /\ mode.backend = "memory" => Memory!FilesCounted
  /\ mode.backend = "local" => Local!HandlesCounted

(* Both backends implement FileStore, under the conditions that MemoryBackend  *)
(* and LocalBackend state: a handle reads and writes the bytes of the file it  *)
(* was opened for.  Without the condition, and for the other backend, the      *)
(* abstract store stands still.                                                *)
BackendsImplementFileStore == Memory!ImplementsFileStore /\ Local!ImplementsFileStore

(* What the memory backend's ref_count comment says: every handle, of a        *)
(* directory too, is counted.                                                  *)
MemoryHandlesCounted == mode.backend = "memory" => Memory!HandlesCounted

(* What the memory backend's capability atomic_rename says: a rename that      *)
(* fails leaves the tree as it was.                                            *)
MemoryRenameAtomic == Memory!RenameAtomic

(* What "upgrade to writable" in the local backend says: a write that was      *)
(* answered with success does not fail afterwards.                             *)
LocalWritesLand == mode.backend = "local" => Local!WritesLand
=============================================================================
