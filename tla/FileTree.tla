------------------------------ MODULE FileTree ------------------------------
(***************************************************************************)
(* Directory trees and paths, as the backends and the handlers use them.   *)
(* A path is the sequence of its components, a tree maps the paths that    *)
(* exist to their nodes; the root is <<>>.                                 *)
(***************************************************************************)
EXTENDS Integers, Sequences, SequencesExt, FiniteSetsExt, TLC

File == "file"
Directory == "directory"
Symlink == "symlink"

\* data: the bytes of a file, the target of a symlink.  Times, owners and extended
\* attributes are kept in attrs.
NewNode(type, ino, data) == [type |-> type, ino |-> ino, data |-> data, attrs |-> <<>>]

------------------------------------------------------------------------------
(* CreateParams *)

\* Mutant: the directory flag is forgotten.
MutantToOpenFlags(access, disposition, directory) ==
  [read |-> "read" \in access, write |-> "write" \in access,
   create |-> disposition \in {"create", "open_if", "overwrite_if", "supersede"},
   excl |-> disposition = "create",
   trunc |-> disposition \in {"overwrite", "overwrite_if", "supersede"},
   directory |-> FALSE]

\* to_open_flags, for an access that is a set of "read" and "write".
ToOpenFlags(access, disposition, directory) ==
  [read |-> "read" \in access, write |-> "write" \in access,
   create |-> disposition \in {"create", "open_if", "overwrite_if", "supersede"},
   excl |-> disposition = "create",
   trunc |-> disposition \in {"overwrite", "overwrite_if", "supersede"},
   directory |-> directory]

------------------------------------------------------------------------------
(* Paths *)

\* normalize_path of MemoryBackend: ".." at the root stays there.
NormalizeMemory(raw) ==
  FoldLeft(LAMBDA p, part : CASE part \in {".", ""} -> p
                              [] part = ".." -> IF p = <<>> THEN p ELSE Front(p)
                              [] OTHER -> Append(p, part),
           <<>>, raw)

\* normalize_path of LocalBackend: ".." at the root is an error.
EscapesRoot == <<"..">>
NormalizeLocal(raw) ==
  FoldLeft(LAMBDA p, part : CASE p = EscapesRoot \/ part \in {".", ""} -> p
                              [] part = ".." -> IF p = <<>> THEN EscapesRoot ELSE Front(p)
                              [] OTHER -> Append(p, part),
           <<>>, raw)

\* split_path of a normalized path that is not the root.
Parent(p) == Front(p)

------------------------------------------------------------------------------
(* Trees *)

\* The walk from the root: it ends at the last component that exists.
Reached(t, p) == CHOOSE q \in DOMAIN t : /\ IsPrefix(q, p)
                                         /\ \A r \in DOMAIN t : IsPrefix(r, p) => Len(r) <= Len(q)

\* "found", or the error of the walk.
Walk(t, p) ==
  CASE p \in DOMAIN t -> "found"
    [] p \notin DOMAIN t /\ t[Reached(t, p)].type = Directory -> "NotFound"
    [] OTHER -> "NotADirectory"

IsDir(t, p) == p \in DOMAIN t /\ t[p].type = Directory

\* The walk to the directory that holds p: "found", or the error.
WalkParent(t, p) ==
  IF Walk(t, Parent(p)) = "found" /\ ~IsDir(t, Parent(p)) THEN "NotADirectory" ELSE Walk(t, Parent(p))

Children(t, p) == {q \in DOMAIN t : Len(q) = Len(p) + 1 /\ IsPrefix(p, q)}

With(t, p, node) == (p :> node) @@ t

Without(t, p) == [q \in {q \in DOMAIN t : ~IsPrefix(p, q)} |-> t[q]]

\* What is at and below p, put at new in place of what is there.
Grafted(t, sub, p, new) ==
  LET rest == Without(t, new)
      moved == {new \o SubSeq(q, Len(p) + 1, Len(q)) : q \in {q \in DOMAIN sub : IsPrefix(p, q)}}
  IN [r \in DOMAIN rest \cup moved |->
        IF r \in moved THEN sub[p \o SubSeq(r, Len(new) + 1, Len(r))] ELSE rest[r]]

\* The nodes of a tree, by identity.
InosOf(t) == {t[p].ino : p \in DOMAIN t}
PathOf(t, n) == CHOOSE p \in DOMAIN t : t[p].ino = n

\* Every node but the root is in a directory, and has one place.
WellFormed(t) ==
  /\ IsDir(t, <<>>)
  /\ \A p \in DOMAIN t \ {<<>>} : IsDir(t, Parent(p))
  /\ \A p, q \in DOMAIN t : t[p].ino = t[q].ino => p = q
=============================================================================
