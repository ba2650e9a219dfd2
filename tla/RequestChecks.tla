---------------------------- MODULE RequestChecks -----------------------------
(***************************************************************************)
(* What the handlers of file requests decide from the request alone, or    *)
(* from it and a snapshot: the order of CREATE's checks, credit charges,   *)
(* the sizes of QUERY_INFO's answers, COPYCHUNK's limits and its lock      *)
(* check, the paths SET_INFO makes, and CREATE's create_action.            *)
(***************************************************************************)
EXTENDS FileTree

CONSTANTS
  CreditUnit,     \* bytes a credit pays for: 65536
  ChargeWidth,    \* values of the u16 that holds an expected charge: 65536
  MaxChunks, MaxChunkSize, MaxDataSize,   \* server_side_copy of ServerConfig
  MaxOffset       \* the largest u64

Success == "Success"
InvalidParameter == "InvalidParameter"

-------------------------------------------------------------------------------
(* CREATE *)

\* What can be wrong with a CREATE, in the order in which it is looked for.
CreateChecks ==
  <<<<"security_flags", InvalidParameter>>, <<"oplock_level", InvalidParameter>>,
    <<"smb_create_flags", InvalidParameter>>, <<"reserved", InvalidParameter>>,
    <<"undefined_options", InvalidParameter>>, <<"unsupported_options", "NotSupported">>,
    <<"leading_slash", InvalidParameter>>, <<"no_access", "AccessDenied">>,
    <<"reserved_access", "AccessDenied">>, <<"file_attributes", InvalidParameter>>,
    <<"impersonation_level", InvalidParameter>>, <<"disposition", InvalidParameter>>>>

CreateVerdict(flaws) ==
  LET found == SelectSeq(CreateChecks, LAMBDA check : check[1] \in flaws)
  IN IF found = <<>> THEN Success ELSE found[1][2]

\* The sharing check, in both directions; access and share are subsets of
\* {"read", "write", "delete"}.
ShareConflict(existing, access, share) ==
  ~(access \subseteq existing.shared) \/ ~(existing.access \subseteq share)

\* create_action, from whether stat found the file before it was opened.
CreateAction(disposition, existed) ==
  CASE disposition = "open" -> "opened"
    [] disposition = "create" -> "created"
    [] disposition = "overwrite" -> "overwritten"
    [] disposition = "supersede" -> IF existed THEN "superseded" ELSE "created"
    [] disposition = "open_if" -> IF existed THEN "opened" ELSE "created"
    [] disposition = "overwrite_if" -> IF existed THEN "overwritten" ELSE "created"

\* NtStatus::from(&VfsError)
StatusOf(error) ==
  CASE error = "NotFound" -> "ObjectNameNotFound"
    [] error = "AlreadyExists" -> "ObjectNameCollision"
    [] error = "IsADirectory" -> "FileIsADirectory"
    [] error = "InvalidPath" -> "ObjectPathSyntaxBad"
    [] error = "Io" -> "InternalError"
    [] OTHER -> error

-------------------------------------------------------------------------------
(* Credits *)

ChargeExpected(payload) ==
  IF payload = 0 THEN 1 ELSE ((payload - 1) \div CreditUnit + 1) % ChargeWidth

\* validate_credit_charge; dialect 2.0.2 has no multi-credit operations.
ChargeAccepted(multi_credit, charge, payload) ==
  multi_credit => ~(charge = 0 /\ payload > 0) /\ charge >= ChargeExpected(payload)

-------------------------------------------------------------------------------
(* QUERY_INFO *)

\* file_info_min_size and fs_info_min_size; 0 for a class they do not know.
FileInfoMinSize(class) ==
  CASE class = 4 -> 40 [] class = 5 -> 24 [] class \in {6, 14} -> 8
    [] class \in {7, 8, 16, 17} -> 4 [] class = 18 -> 96 [] class = 34 -> 56 [] OTHER -> 0
FsInfoMinSize(class) ==
  CASE class = 1 -> 18 [] class = 3 -> 24 [] class = 4 -> 8 [] class = 5 -> 12
    [] class = 7 -> 32 [] OTHER -> 0
InfoMinSize(type, class) ==
  CASE type = "file" -> FileInfoMinSize(class) [] type = "fs" -> FsInfoMinSize(class)
    [] type = "security" -> 20 [] type = "quota" -> 0

\* The length of what build_file_info, build_fs_info and build_security_info build;
\* class is the DACL flag for the last.
FileInfoLength(class) ==
  CASE class = 4 -> 40 [] class = 5 -> 24 [] class = 18 -> 100 [] class = 8 -> 4 [] OTHER -> 8
FsInfoLength(class) ==
  CASE class = 1 -> 18 + 14 [] class = 3 -> 24 [] class = 5 -> 12 + 8 [] class = 7 -> 32
    [] OTHER -> 8
SecurityInfoLength(class) == IF class = 4 THEN 28 ELSE 20
InfoLength(type, class) ==
  CASE type = "file" -> FileInfoLength(class) [] type = "fs" -> FsInfoLength(class)
    [] type = "security" -> SecurityInfoLength(class)

\* What the classes of build_file_info say of a file and its handle.
FileInfo(class, size, type, readonly, position, access) ==
  CASE class = 4 -> [readonly |-> readonly, directory |-> type = Directory]
    [] class = 5 -> [size |-> size, directory |-> type = Directory]
    [] class = 18 -> [readonly |-> readonly, directory |-> type = Directory, size |-> size,
                      position |-> position]
    [] class = 8 -> [access |-> access]
    [] class = 14 -> [position |-> position]
    [] OTHER -> <<>>

-------------------------------------------------------------------------------
(* SET_INFO *)

\* The bytes a class needs; a shorter buffer is InvalidParameter, except for a position,
\* which is then ignored.
SetInfoMinSize(class) ==
  CASE class = "basic" -> 40 [] class = "disposition" -> 1 [] class = "rename" -> 20
    [] class \in {"end_of_file", "allocation"} -> 8 [] OTHER -> 0

\* The new path of a rename.  A relative name is put behind the text of the parent of
\* the handle's path and a slash: a file of the root gets one leading slash, and one
\* more the next time.
RenamedPath(path, name) ==
  CASE name[1] = "" -> name
    [] name[1] # "" /\ Len(path) <= 1 -> <<"">> \o name
    [] OTHER -> (IF NormalizeMemory(Front(path)) = <<>> THEN <<"", "">> ELSE Front(path)) \o name

-------------------------------------------------------------------------------
(* FSCTL_SRV_COPYCHUNK: a chunk is [source, target, length]. *)

TotalLength(chunks) == FoldLeft(LAMBDA n, chunk : n + chunk.length, 0, chunks)

\* Everything but success is InvalidParameter; a limit is answered with the limits.
WithinLimits(chunks) ==
  /\ Len(chunks) \in 1..MaxChunks
  /\ \A k \in DOMAIN chunks : chunks[k].length \in 1..MaxChunkSize
  /\ TotalLength(chunks) <= MaxDataSize

Saturated(n) == IF n > MaxOffset THEN MaxOffset ELSE n

\* Mutant: a lock of length 0 covers nothing.
MutantLockConflict(locks, id, offset, length) ==
  \E l \in locks :
    l.id # id /\ l.exclusive /\ offset < l.offset + l.length /\ l.offset < Saturated(offset + length)

\* check_lock_conflict: a lock of length 0 reaches to the end.
LockConflict(locks, id, offset, length) ==
  \E l \in locks :
    /\ l.id # id /\ l.exclusive
    /\ offset < (IF l.length = 0 THEN MaxOffset ELSE Saturated(l.offset + l.length))
    /\ l.offset < Saturated(offset + length)
===============================================================================
