----------------------------- MODULE MemoryTree -----------------------------
(***************************************************************************)
(* The calls of the in-memory StorageBackend that take the tree's lock     *)
(* once: the new tree and the answer.  The request handlers see files      *)
(* through them.                                                           *)
(***************************************************************************)
EXTENDS FileTree, FileBytes

Error(e) == [is |-> "error", err |-> e]
Value(v) == [is |-> "value", val |-> v]
Ok == Value("ok")

Done(t, a) == [tree |-> t, ret |-> a]

\* f(p), if the walk to p succeeds.
At(t, p, done) == IF Walk(t, p) = "found" THEN done ELSE Done(t, Error(Walk(t, p)))

\* The same for the walk to the directory of p.
Below(t, p, done) == IF WalkParent(t, p) = "found" THEN done ELSE Done(t, Error(WalkParent(t, p)))

\* to_vfs_metadata: the size of a directory is the number of its entries.
ToVfsMetadata(t, p) ==
  [t[p] EXCEPT !.data = IF IsDir(t, p) THEN Cardinality(Children(t, p)) ELSE Len(@)]

Stat(t, p) == At(t, p, Done(t, Value(ToVfsMetadata(t, p))))

SetAttr(t, p, attr, val) == At(t, p, Done([t EXCEPT ![p].attrs = (attr :> val) @@ @], Ok))

Truncate(t, p, size) ==
  IF p = <<>> THEN Done(t, Error("IsADirectory"))
  ELSE At(t, p, CASE t[p].type = File -> Done([t EXCEPT ![p].data = Resized(@, size)], Ok)
                  [] t[p].type = Directory -> Done(t, Error("IsADirectory"))
                  [] t[p].type = Symlink -> Done(t, Error("InvalidPath")))

Mkdir(t, p, ino) ==
  IF p = <<>> THEN Done(t, Error("AlreadyExists"))
  ELSE Below(t, p, IF p \in DOMAIN t THEN Done(t, Error("AlreadyExists"))
                   ELSE Done(With(t, p, NewNode(Directory, ino, <<>>)), Ok))

Rmdir(t, p) ==
  IF p = <<>> THEN Done(t, Error("InvalidPath"))
  ELSE Below(t, p, CASE p \notin DOMAIN t -> Done(t, Error("NotFound"))
                     [] p \in DOMAIN t /\ ~IsDir(t, p) -> Done(t, Error("NotADirectory"))
                     [] IsDir(t, p) /\ Children(t, p) # {} -> Done(t, Error("DirectoryNotEmpty"))
                     [] OTHER -> Done(Without(t, p), Ok))

Readdir(t, p) ==
  At(t, p, IF IsDir(t, p) THEN Done(t, Value({Last(q) : q \in Children(t, p)}))
           ELSE Done(t, Error("NotADirectory")))

Unlink(t, p) ==
  IF p = <<>> THEN Done(t, Error("InvalidPath"))
  ELSE Below(t, p, CASE p \notin DOMAIN t -> Done(t, Error("NotFound"))
                     [] IsDir(t, p) -> Done(t, Error("IsADirectory"))
                     [] OTHER -> Done(Without(t, p), Ok))

\* Mutant: the node is also left at its old name.
MutantRename(t, p, new) ==
  CASE p = <<>> \/ new = <<>> -> Done(t, Error("InvalidPath"))
    [] p # <<>> /\ p = new -> Done(t, Ok)
    [] OTHER -> Below(t, p, IF p \notin DOMAIN t THEN Done(t, Error("NotFound"))
                            ELSE Below(t, new, Done(Grafted(t, t, p, new), Ok)))

\* The node is taken out of the tree before the walk to its new directory.
Rename(t, p, new) ==
  CASE p = <<>> \/ new = <<>> -> Done(t, Error("InvalidPath"))
    [] p # <<>> /\ p = new -> Done(t, Ok)
    [] OTHER -> Below(t, p, IF p \notin DOMAIN t THEN Done(t, Error("NotFound"))
                            ELSE Below(Without(t, p), new, Done(Grafted(Without(t, p), t, p, new), Ok)))

Link(t) == Done(t, Error("NotSupported"))

MakeSymlink(t, p, target, ino) ==
  IF p = <<>> THEN Done(t, Error("InvalidPath"))
  ELSE Below(t, p, IF p \in DOMAIN t THEN Done(t, Error("AlreadyExists"))
                   ELSE Done(With(t, p, NewNode(Symlink, ino, target)), Ok))

Readlink(t, p) ==
  At(t, p, IF t[p].type = Symlink THEN Done(t, Value(t[p].data)) ELSE Done(t, Error("InvalidPath")))

\* getxattr and listxattr, setxattr, removexattr.
Getxattr(t, p, name) ==
  At(t, p, CASE t[p].type = Symlink -> Done(t, Error("NotSupported"))
             [] t[p].type # Symlink /\ name \in DOMAIN t[p].attrs -> Done(t, Value(t[p].attrs[name]))
             [] OTHER -> Done(t, Error("NotFound")))

Setxattr(t, p, name, val) ==
  At(t, p, IF t[p].type = Symlink THEN Done(t, Error("NotSupported")) ELSE SetAttr(t, p, name, val))

Removexattr(t, p, name) ==
  At(t, p, CASE t[p].type = Symlink -> Done(t, Error("NotSupported"))
             [] t[p].type # Symlink /\ name \in DOMAIN t[p].attrs ->
                  Done([t EXCEPT ![p].attrs = [a \in DOMAIN @ \ {name} |-> @[a]]], Ok)
             [] OTHER -> Done(t, Error("NotFound")))
=============================================================================
