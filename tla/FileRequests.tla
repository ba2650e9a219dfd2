----------------------------- MODULE FileRequests ------------------------------
(***************************************************************************)
(* The handlers of file requests: CREATE, READ, WRITE, FLUSH, CLOSE,       *)
(* QUERY_DIRECTORY, QUERY_INFO, SET_INFO and IOCTL, on files of several    *)
(* shares.  A handler runs in steps, one for each call of the state store  *)
(* or the backend: other connections run in between.  What it found in a   *)
(* step it keeps in its locals; the handle it works on is the clone it     *)
(* read first, and update_handle writes the whole clone back.              *)
(*                                                                         *)
(* Backend calls are one step each and keep FileStore's promise: reads and *)
(* writes go to the file the handle was opened on; everything else goes by *)
(* the handle's path.  A path is kept as it is spelled: <<"", "f">> is     *)
(* "/f".                                                                   *)
(*                                                                         *)
(* The oplocks, leases and durable handles of CREATE are in Leases and     *)
(* HandleLifecycle, the checks before a handler runs in Connection.  LOCK  *)
(* (FileLocks) and TREE_DISCONNECT (HandleLifecycle) are represented by    *)
(* their effects, in one step.                                             *)
(***************************************************************************)
EXTENDS MemoryTree, RequestChecks

CONSTANTS
  Conns, Shares,
  Modes,              \* what was there before and who may do what: see Init, Session and Send
  Says(_, _),         \* the requests a connection may send
  MaxIno, MaxHandle,  \* bounds
  NoHandle, NoShare, NoFile

Inos == 1..MaxIno
HandleIds == 1..MaxHandle

VARIABLES
  mode,
  tree, content, next_ino,   \* per share: names, bytes of each inode, counter
  trees,                     \* <<session, tree id>> -> share
  handles, next_handle,
  locks,                     \* [path, id, offset, length, exclusive]
  req, pc, loc, answer,      \* per connection: request, next step, locals, answer
  sent,
  strayed, moved             \* history: handles whose path was outdated by another
                             \* handle, and those a rename was made through

files == <<tree, content, next_ino>>
state == <<trees, handles, next_handle, locks>>
vars == <<mode, files, state, req, pc, loc, answer, sent, strayed, moved>>
fixed == <<mode, req, sent>>

Idle == [op |-> "idle"]
NoAnswer == [status |-> "none"]
NoLocals == [handle |-> NoHandle, source |-> NoHandle, share |-> NoShare, existed |-> FALSE,
             made |-> FALSE, locks |-> {}, chunk |-> 1, data |-> <<>>, before |-> <<>>,
             changed |-> FALSE, failed |-> FALSE]

\* The tree this handler works in, the header's session, a path in it.
T(c) == tree[loc[c].share]
Session(c) == mode.session[c]
P(c) == NormalizeMemory(loc[c].handle.path)

\* The answer; what is left of the locals is for the properties.
Responds(c, a) ==
  /\ answer' = [answer EXCEPT ![c] = a]
  /\ pc' = [pc EXCEPT ![c] = "done"]
Status(c, status) == Responds(c, [status |-> status])
Continue(c, step) == pc' = [pc EXCEPT ![c] = step] /\ UNCHANGED answer

\* HandlerError::Vfs, whatever the error.
VfsError == "ObjectNameNotFound"

-------------------------------------------------------------------------------
(* Requests *)

Send(c) ==
  /\ pc[c] = "idle" /\ sent[c] < mode.max[c]
  /\ mode.serial => \A d \in Conns : pc[d] = "idle"
  /\ \E r \in Says(c, mode) : req' = [req EXCEPT ![c] = r]
  /\ pc' = [pc EXCEPT ![c] = "start"]
  /\ sent' = [sent EXCEPT ![c] = @ + 1]
  /\ UNCHANGED <<mode, files, state, loc, answer, strayed, moved>>

Return(c) ==
  /\ pc[c] = "done"
  /\ req' = [req EXCEPT ![c] = Idle]
  /\ pc' = [pc EXCEPT ![c] = "idle"]
  /\ loc' = [loc EXCEPT ![c] = NoLocals]
  /\ answer' = [answer EXCEPT ![c] = NoAnswer]
  /\ UNCHANGED <<mode, files, state, sent, strayed, moved>>

\* The handle of an id, and validate_handle_tree_id.
Known(id) == id \in HandleIds /\ handles[id] # NoHandle
TreeVerdict(c, h) ==
  CASE h.session # Session(c) -> "FileClosed"
    [] h.session = Session(c) /\ h.tid # req[c].tid -> InvalidParameter
    [] OTHER -> Success

\* Requests with validate_credit_charge, IOCTLs last.
Charged == {"read", "write", "query_directory", "query_info",
            "ioctl", "validate_negotiate", "resume_key", "copychunk"}

\* FSCTL_VALIDATE_NEGOTIATE_INFO, by what is wrong with it.
NegotiateVerdict(flaw) ==
  CASE flaw = "none" -> Success [] flaw = "short" -> InvalidParameter
    [] flaw \in {"guid", "dialect"} -> "AccessDenied"

\* What a request is refused for before any call.
EarlyVerdict(c) ==
  LET r == req[c] IN
  CASE r.op \in Charged /\ ~ChargeAccepted(r.multi_credit, r.charge, r.payload) -> InvalidParameter
    [] r.op = "query_info" /\ r.payload < InfoMinSize(r.type, r.class) -> "InfoLengthMismatch"
    [] r.op = "set_info" /\ r.length = 0 -> InvalidParameter
    [] r.op = "resume_key" /\ r.payload < 32 -> InvalidParameter
    [] r.op = "copychunk" /\ ~WithinLimits(r.chunks) -> InvalidParameter
    [] r.op = "copychunk" /\ WithinLimits(r.chunks) /\ r.key[2] # Session(c) -> "ObjectNameNotFound"
    [] r.op = "create" -> CreateVerdict(r.flaws)
    [] OTHER -> Success

\* What it is refused for by the handle.
ReadVerdict(h) ==
  CASE h.directory /\ h.kept # "persistent" -> "InvalidDeviceRequest"
    [] ~(h.directory /\ h.kept # "persistent") /\ "read" \notin h.access -> "AccessDenied"
    [] OTHER -> Success

\* A COPYCHUNK that is too large is answered with the limits.
ExceedsLimits(c) ==
  req[c].op = "copychunk" /\ req[c].chunks # <<>> /\ ~WithinLimits(req[c].chunks)
LimitsResponse == [status |-> InvalidParameter, limits |-> <<MaxChunks, MaxChunkSize, MaxDataSize>>]
LockedResponse == [status |-> "FileLockConflict", chunks |-> 0]

\* Requests refused at once, and those that read and change nothing: FLUSH, CHANGE_NOTIFY,
\* FSCTL_VALIDATE_NEGOTIATE_INFO, other FSCTLs.
Immediate(c) ==
  /\ pc[c] = "start"
  /\ \/ EarlyVerdict(c) # Success /\ ~ExceedsLimits(c) /\ Status(c, EarlyVerdict(c))
     \/ ExceedsLimits(c) /\ Responds(c, LimitsResponse)
     \/ /\ EarlyVerdict(c) = Success
        /\ \/ req[c].op = "flush" /\ Status(c, Success)
           \/ req[c].op \in {"change_notify", "ioctl"} /\ Status(c, "NotSupported")
           \/ req[c].op = "validate_negotiate" /\ Status(c, NegotiateVerdict(req[c].flaw))
  /\ UNCHANGED <<fixed, files, state, loc, strayed, moved>>

\* get_handle: the clone the handler goes on with.
HandleRequests == {"read", "write", "close", "query_directory", "query_info", "set_info", "resume_key"}
GetHandle(c) ==
  /\ pc[c] = "start" /\ req[c].op \in HandleRequests /\ EarlyVerdict(c) = Success
  /\ LET h == handles[req[c].id]
         verdict == CASE ~Known(req[c].id) /\ req[c].op \in {"close", "resume_key"} -> "FileClosed"
                      [] ~Known(req[c].id) /\ req[c].op \notin {"close", "resume_key"} -> "InvalidHandle"
                      [] Known(req[c].id) /\ TreeVerdict(c, h) # Success -> TreeVerdict(c, h)
                      [] Known(req[c].id) /\ TreeVerdict(c, h) = Success /\ req[c].op = "read" ->
                           ReadVerdict(h)
                      [] OTHER -> Success
     IN IF verdict # Success THEN Status(c, verdict) /\ UNCHANGED loc
        ELSE /\ loc' = [loc EXCEPT ![c].handle = h]
             /\ CASE req[c].op = "close" -> Continue(c, "locks")
                  [] req[c].op = "resume_key" ->
                       Responds(c, [status |-> Success, key |-> <<h.id, Session(c)>>])
                  [] OTHER -> Continue(c, "tree")
  /\ UNCHANGED <<fixed, files, state, strayed, moved>>

\* get_tree, and what the handler does next.
GetTree(c) ==
  /\ pc[c] = "tree"
  /\ LET share == trees[<<Session(c), req[c].tid>>] IN
       IF share = NoShare THEN Status(c, InvalidParameter) /\ UNCHANGED loc
       ELSE /\ loc' = [loc EXCEPT ![c].share = share]
            /\ Continue(c, CASE req[c].op = "query_info" -> IF req[c].type = "file" THEN "query_stat" ELSE "query"
                             [] req[c].op = "copychunk" -> "source_locks"
                             [] req[c].op = "create" -> "sharing"
                             [] OTHER -> req[c].op)
  /\ UNCHANGED <<fixed, files, state, strayed, moved>>

\* update_handle: the clone, whatever has become of the handle meanwhile.
UpdateHandle(c) ==
  /\ pc[c] = "update"
  /\ handles' = [handles EXCEPT ![loc[c].handle.id] = loc[c].handle]
  /\ Responds(c, [status |-> Success, data |-> loc[c].data])
  /\ UNCHANGED <<fixed, files, trees, next_handle, locks, loc, strayed, moved>>

-------------------------------------------------------------------------------
(* The backend *)

\* A call that fails by itself, where the handler looks at the error.
Fallible == {"open", "mode", "chmod", "read", "write", "query_directory", "query_stat", "times",
             "utimes", "collide", "rename", "truncate", "copy_read", "copy_write"}
BackendFails(c) ==
  /\ mode.faulty
  /\ pc[c] \in Fallible \/ (pc[c] = "query" /\ req[c].type = "fs")
  /\ Status(c, IF pc[c] = "open" THEN StatusOf("Io") ELSE VfsError)
  /\ loc' = [loc EXCEPT ![c].failed = TRUE]
  /\ UNCHANGED <<fixed, files, state, strayed, moved>>

\* A stat whose error is taken for "not there".
StatOk(t, p) == {Walk(t, p) = "found"} \cup (IF mode.faulty THEN {FALSE} ELSE {})

\* The size of a directory is the number of its entries.
Size(share, p) ==
  IF IsDir(tree[share], p) THEN Cardinality(Children(tree[share], p))
  ELSE Len(content[share][tree[share][p].ino])
Readonly(t, p) == "mode" \in DOMAIN t[p].attrs /\ t[p].attrs["mode"] = "readonly"

\* A handle as it is or, when an update_handle is on its way, will be; whether its path
\* names its file; and the handles but `but` whose path a new tree t outdates.
Current(i) ==
  IF \E d \in Conns : pc[d] = "update" /\ loc[d].handle.id = i
  THEN loc[CHOOSE d \in Conns : pc[d] = "update" /\ loc[d].handle.id = i].handle ELSE handles[i]
Names(t, h) == NormalizeMemory(h.path) \in DOMAIN t /\ t[NormalizeMemory(h.path)].ino = h.ino
Outdated(c, t, but) ==
  {i \in HandleIds \ but : /\ Known(i) /\ handles[i].share = loc[c].share
                           /\ Names(T(c), Current(i)) /\ ~Names(t, Current(i))}

SetTree(c, t) == tree' = [tree EXCEPT ![loc[c].share] = t]

\* The call's new tree and answer; what the step does if it succeeds.
Calls(c, done, ok) ==
  /\ SetTree(c, done.tree)
  /\ IF done.ret.is = "error"
     THEN Status(c, VfsError) /\ loc' = [loc EXCEPT ![c].changed = @ \/ done.tree # T(c)]
     ELSE ok
Touch(c) == loc' = [loc EXCEPT ![c].changed = TRUE]

-------------------------------------------------------------------------------
(* READ, WRITE *)

Read(c) ==
  /\ pc[c] = "read"
  /\ LET h == loc[c].handle
         data == BytesAt(content[loc[c].share][h.ino], req[c].offset, req[c].length)
     IN IF content[loc[c].share][h.ino] = NoFile THEN Status(c, VfsError) /\ UNCHANGED loc
        ELSE IF (data = <<>> /\ req[c].length > 0) \/ Len(data) < req[c].minimum
        THEN Status(c, "EndOfFile") /\ UNCHANGED loc
        ELSE /\ loc' = [loc EXCEPT ![c].data = data, ![c].handle.offset = req[c].offset + Len(data)]
             /\ Continue(c, "update")
  /\ UNCHANGED <<fixed, files, state, strayed, moved>>

\* No access is asked for; only a durable handle's position is kept.
Write(c) ==
  /\ pc[c] = "write"
  /\ LET h == loc[c].handle
         written == Overwritten(content[loc[c].share][h.ino], req[c].offset, req[c].data)
     IN IF content[loc[c].share][h.ino] = NoFile
        THEN Status(c, VfsError) /\ UNCHANGED <<loc, content>>
        ELSE /\ content' = [content EXCEPT ![loc[c].share][h.ino] = written]
             /\ loc' = [loc EXCEPT ![c].handle.offset = req[c].offset + Len(req[c].data), ![c].changed = TRUE]
             /\ IF h.kept # "no" THEN Continue(c, "update") ELSE Status(c, Success)
  /\ UNCHANGED <<fixed, tree, next_ino, state, strayed, moved>>

-------------------------------------------------------------------------------
(* CREATE *)

\* get_tree, and get_handles_for_file: handles with the same share and spelling.
CreateStart(c) ==
  /\ pc[c] = "start" /\ req[c].op = "create" /\ EarlyVerdict(c) = Success
  /\ Continue(c, "tree")
  /\ UNCHANGED <<fixed, files, state, loc, strayed, moved>>

CreateSharing(c) ==
  /\ pc[c] = "sharing"
  /\ LET existing == {handles[i] : i \in {i \in HandleIds : Known(i)}}
         same == {h \in existing : h.share = loc[c].share /\ h.path = req[c].path}
     IN IF \E h \in same : ShareConflict(h, req[c].access, req[c].shared)
        THEN Status(c, "SharingViolation") ELSE Continue(c, "existed")
  /\ UNCHANGED <<fixed, files, state, loc, strayed, moved>>

CreateStat(c) ==
  /\ pc[c] = "existed"
  /\ \E found \in StatOk(T(c), NormalizeMemory(req[c].path)) :
       loc' = [loc EXCEPT ![c].existed = found, ![c].failed = found # (Walk(T(c), NormalizeMemory(req[c].path)) = "found")]
  /\ Continue(c, "open")
  /\ UNCHANGED <<fixed, files, state, strayed, moved>>

\* open, as the backends implement it: the error, or "none".
OpenError(t, p, f) ==
  CASE f.directory /\ p \in DOMAIN t ->
         CASE ~IsDir(t, p) -> "NotADirectory" [] IsDir(t, p) /\ f.excl -> "AlreadyExists" [] OTHER -> "none"
    [] ~f.directory /\ p = <<>> -> "InvalidPath"
    [] p # <<>> /\ WalkParent(t, p) # "found" -> WalkParent(t, p)
    [] p \notin DOMAIN t /\ WalkParent(t, p) = "found" -> IF f.create THEN "none" ELSE "NotFound"
    [] OTHER -> CASE f.excl -> "AlreadyExists" [] ~f.excl /\ IsDir(t, p) -> "IsADirectory" [] OTHER -> "none"

\* The handle, with the number the backend gave it.
CreateOpen(c) ==
  /\ pc[c] = "open"
  /\ LET s == loc[c].share
         p == NormalizeMemory(req[c].path)
         f == ToOpenFlags(req[c].access, req[c].disposition, req[c].directory)
         made == p \notin DOMAIN tree[s]
         n == IF made THEN next_ino[s] ELSE tree[s][p].ino
         truncates == ~made /\ f.trunc /\ tree[s][p].type = File
         h == [id |-> 0, session |-> Session(c), tid |-> req[c].tid, share |-> s, path |-> req[c].path,
               access |-> req[c].access, shared |-> req[c].shared, kept |-> req[c].kept,
               delete |-> req[c].delete, offset |-> 0, directory |-> FALSE, ino |-> n]
     IN IF OpenError(tree[s], p, f) # "none"
        THEN Status(c, StatusOf(OpenError(tree[s], p, f))) /\ UNCHANGED <<files, loc>>
        ELSE /\ n <= MaxIno
             /\ tree' = IF made THEN [tree EXCEPT ![s] = With(@, p, NewNode(IF f.directory THEN Directory ELSE File, n, <<>>))]
                        ELSE tree
             /\ content' = IF (made /\ ~f.directory) \/ truncates THEN [content EXCEPT ![s][n] = <<>>] ELSE content
             /\ next_ino' = IF made THEN [next_ino EXCEPT ![s] = @ + 1] ELSE next_ino
             /\ loc' = [loc EXCEPT ![c].handle = h, ![c].made = made, ![c].changed = made \/ truncates]
             /\ Continue(c, "directory")
  /\ UNCHANGED <<fixed, state, strayed, moved>>

\* is_directory, from the path again; a mismatch closes the backend's handle.
CreateDirectory(c) ==
  /\ pc[c] = "directory"
  /\ \E found \in StatOk(T(c), P(c)) :
       LET is == found /\ IsDir(T(c), P(c))
           action == CreateAction(req[c].disposition, loc[c].existed)
       IN IF req[c].directory /\ ~is
          THEN Status(c, "NotADirectory") /\ loc' = [loc EXCEPT ![c].failed = @ \/ ~found]
          ELSE /\ loc' = [loc EXCEPT ![c].handle.directory = is]
               /\ Continue(c, IF action # "opened" THEN "mode" ELSE "insert")
  /\ UNCHANGED <<fixed, files, state, strayed, moved>>

\* apply_readonly_attribute: stat, chmod; for CREATE and FileBasicInformation.
ModeStat(c) ==
  /\ pc[c] = "mode"
  /\ IF Walk(T(c), P(c)) = "found" THEN Continue(c, "chmod") ELSE Status(c, VfsError)
  /\ UNCHANGED <<fixed, files, state, loc, strayed, moved>>

ModeSet(c) ==
  /\ pc[c] = "chmod"
  /\ Calls(c, SetAttr(T(c), P(c), "mode", IF req[c].readonly THEN "readonly" ELSE "writable"),
           /\ Touch(c)
           /\ IF req[c].op = "create" THEN Continue(c, "insert") ELSE Status(c, Success))
  /\ UNCHANGED <<fixed, content, next_ino, state, strayed, moved>>

\* next_handle_id and create_handle.
CreateInsert(c) ==
  /\ pc[c] = "insert" /\ next_handle <= MaxHandle
  /\ handles' = [handles EXCEPT ![next_handle] = [loc[c].handle EXCEPT !.id = next_handle]]
  /\ loc' = [loc EXCEPT ![c].handle.id = next_handle]
  /\ next_handle' = next_handle + 1
  /\ strayed' = IF Names(T(c), loc[c].handle) THEN strayed ELSE strayed \cup {next_handle}
  /\ Continue(c, "respond")
  /\ UNCHANGED <<fixed, files, trees, locks, moved>>

\* file_attributes of the response: of a new file from the request, else from a stat.
CreatedAttributes(r, action, is_dir, readonly) ==
  [readonly |-> IF action = "created" THEN r.readonly ELSE readonly,
   directory |-> is_dir \/ (action = "created" /\ r.directory)]

\* One more stat, for the attributes and sizes; the durable handle that was asked for is
\* granted in a context.
CreateRespond(c) ==
  /\ pc[c] = "respond"
  /\ \E found \in StatOk(T(c), P(c)) :
       LET action == CreateAction(req[c].disposition, loc[c].existed) IN
       Responds(c, [status |-> Success, action |-> action, id |-> loc[c].handle.id, kept |-> loc[c].handle.kept,
                    attributes |-> CreatedAttributes(req[c], action, found /\ IsDir(T(c), P(c)),
                                                     found /\ Readonly(T(c), P(c))),
                    size |-> IF found THEN Size(loc[c].share, P(c)) ELSE 0])
  /\ UNCHANGED <<fixed, files, state, loc, strayed, moved>>

-------------------------------------------------------------------------------
(* CLOSE *)

CloseLocks(c) ==
  /\ pc[c] = "locks"
  /\ locks' = {l \in locks : l.id # loc[c].handle.id}
  /\ Continue(c, IF loc[c].handle.delete THEN "close_tree" ELSE "delete")
  /\ UNCHANGED <<fixed, files, trees, handles, next_handle, loc, strayed, moved>>

CloseTree(c) ==
  /\ pc[c] = "close_tree"
  /\ LET share == trees[<<Session(c), req[c].tid>>] IN
       /\ loc' = [loc EXCEPT ![c].share = share]
       /\ Continue(c, IF share = NoShare THEN "delete" ELSE "unlink")
  /\ UNCHANGED <<fixed, files, state, strayed, moved>>

\* An error is not looked at.
CloseUnlink(c) ==
  /\ pc[c] = "unlink"
  /\ \/ LET t == Unlink(T(c), P(c)).tree IN
          SetTree(c, t) /\ strayed' = strayed \cup Outdated(c, t, {loc[c].handle.id})
     \/ mode.faulty /\ UNCHANGED <<tree, strayed>>
  /\ Continue(c, "delete")
  /\ UNCHANGED <<fixed, content, next_ino, state, loc, moved>>

CloseDelete(c) ==
  /\ pc[c] = "delete"
  /\ handles' = [handles EXCEPT ![loc[c].handle.id] = NoHandle]
  /\ Status(c, Success)
  /\ UNCHANGED <<fixed, files, trees, next_handle, locks, loc, strayed, moved>>

-------------------------------------------------------------------------------
(* QUERY_DIRECTORY, QUERY_INFO *)

\* build_directory_info: everything there is, whatever the client has room for.
DirectoryInfo(share, p) ==
  {[name |-> Last(q), size |-> Size(share, q), directory |-> IsDir(tree[share], q),
    readonly |-> Readonly(tree[share], q)] : q \in Children(tree[share], p)}

QueryDirectory(c) ==
  /\ pc[c] = "query_directory"
  /\ IF Readdir(T(c), P(c)).ret.is = "error" THEN Status(c, VfsError)
     ELSE Responds(c, [status |-> Success, entries |-> DirectoryInfo(loc[c].share, P(c))])
  /\ UNCHANGED <<fixed, files, state, loc, strayed, moved>>

\* The answer has to fit.
Fitting(c, info) ==
  IF InfoLength(req[c].type, req[c].class) > req[c].payload THEN Status(c, "BufferTooSmall")
  ELSE Responds(c, [status |-> Success, info |-> info])

QueryFile(c) ==
  /\ pc[c] = "query_stat"
  /\ LET h == loc[c].handle IN
       IF Walk(T(c), P(c)) # "found" THEN Status(c, VfsError)
       ELSE Fitting(c, FileInfo(req[c].class, Size(loc[c].share, P(c)), T(c)[P(c)].type,
                                Readonly(T(c), P(c)), h.offset, h.access))
  /\ UNCHANGED <<fixed, files, state, loc, strayed, moved>>

QueryOther(c) ==
  /\ pc[c] = "query"
  /\ IF req[c].type = "quota" THEN Status(c, "NotSupported") ELSE Fitting(c, <<>>)
  /\ UNCHANGED <<fixed, files, state, loc, strayed, moved>>

-------------------------------------------------------------------------------
(* SET_INFO *)

\* FileDispositionInformation, FilePositionInformation: in the clone.
Disposed(handle) == [handle EXCEPT !.delete = TRUE]
Positioned(handle, position) == [handle EXCEPT !.offset = position]

SetInfoFile(c) ==
  LET r == req[c] IN
  CASE r.class = "unknown" -> Status(c, "NotSupported") /\ UNCHANGED loc
    [] r.class # "unknown" /\ r.length < SetInfoMinSize(r.class) -> Status(c, InvalidParameter) /\ UNCHANGED loc
    [] OTHER ->
         CASE r.class = "basic" ->
                /\ IF r.times # <<0, 0>> THEN Continue(c, "times")
                   ELSE IF r.attributes THEN Continue(c, "mode") ELSE Status(c, Success)
                /\ UNCHANGED loc
           [] r.class = "rename" -> Continue(c, IF r.replace THEN "rename" ELSE "collide") /\ UNCHANGED loc
           [] r.class \in {"end_of_file", "allocation"} -> Continue(c, "truncate") /\ UNCHANGED loc
           [] r.class = "disposition" /\ r.delete ->
                Continue(c, "update") /\ loc' = [loc EXCEPT ![c].handle = Disposed(@)]
           [] r.class = "position" /\ r.length >= 8 ->
                Continue(c, "update") /\ loc' = [loc EXCEPT ![c].handle = Positioned(@, r.position)]
           [] OTHER -> Status(c, Success) /\ UNCHANGED loc   \* DeletePending = 0, a mode

SetInfo(c) ==
  /\ pc[c] = "set_info"
  /\ CASE ~req[c].fits -> Status(c, InvalidParameter) /\ UNCHANGED loc
       [] req[c].fits /\ req[c].type \in {"fs", "quota"} -> Status(c, "NotSupported") /\ UNCHANGED loc
       [] req[c].fits /\ req[c].type = "security" -> Status(c, Success) /\ UNCHANGED loc
       [] OTHER -> SetInfoFile(c)
  /\ UNCHANGED <<fixed, files, state, strayed, moved>>

\* FileBasicInformation: a time that is not given (0) is taken from a stat.
TimesOf(node) == IF "times" \in DOMAIN node.attrs THEN node.attrs["times"] ELSE <<0, 0>>
TimesStat(c) ==
  /\ pc[c] = "times"
  /\ IF Walk(T(c), P(c)) = "found"
     THEN /\ loc' = [loc EXCEPT ![c].data = [i \in 1..2 |-> IF req[c].times[i] # 0 THEN req[c].times[i]
                                                           ELSE TimesOf(T(c)[P(c)])[i]]]
          /\ Continue(c, "utimes")
     ELSE Status(c, VfsError) /\ UNCHANGED loc
  /\ UNCHANGED <<fixed, files, state, strayed, moved>>

TimesSet(c) ==
  /\ pc[c] = "utimes"
  /\ Calls(c, SetAttr(T(c), P(c), "times", loc[c].data),
           Touch(c) /\ IF req[c].attributes THEN Continue(c, "mode") ELSE Status(c, Success))
  /\ UNCHANGED <<fixed, content, next_ino, state, strayed, moved>>

\* FileRenameInformation: without ReplaceIfExists, a stat first.
RenameTo(c) == RenamedPath(loc[c].handle.path, req[c].name)

RenameStat(c) ==
  /\ pc[c] = "collide"
  /\ LET found == Walk(T(c), NormalizeMemory(RenameTo(c))) IN
       CASE found = "found" -> Status(c, "ObjectNameCollision")
         [] found = "NotFound" -> Continue(c, "rename")
         [] OTHER -> Status(c, VfsError)
  /\ UNCHANGED <<fixed, files, state, loc, strayed, moved>>

\* Mutant: the handle keeps its path.
MutantRenamed(handle, path) == handle

Renamed(handle, path) == [handle EXCEPT !.path = path]

RenameFile(c) ==
  /\ pc[c] = "rename"
  /\ LET done == Rename(T(c), P(c), NormalizeMemory(RenameTo(c)))
         fails == done.ret.is = "error"
         id == loc[c].handle.id
     IN /\ Calls(c, done, /\ loc' = [loc EXCEPT ![c].handle = Renamed(@, RenameTo(c)), ![c].changed = TRUE]
                          /\ Continue(c, "update"))
        /\ strayed' = strayed \cup Outdated(c, done.tree, IF fails THEN {} ELSE {id})
        /\ moved' = IF fails THEN moved ELSE moved \cup {id}
  /\ UNCHANGED <<fixed, content, next_ino, state>>

\* FileEndOfFileInformation and FileAllocationInformation: by path.
TruncateFile(c) ==
  /\ pc[c] = "truncate"
  /\ IF Truncate(T(c), P(c), 0).ret.is = "error" THEN Status(c, VfsError) /\ UNCHANGED <<content, loc>>
     ELSE /\ content' = [content EXCEPT ![loc[c].share][T(c)[P(c)].ino] = Resized(@, req[c].size)]
          /\ Touch(c)
          /\ Status(c, Success)
  /\ UNCHANGED <<fixed, tree, next_ino, state, strayed, moved>>

-------------------------------------------------------------------------------
(* FSCTL_SRV_COPYCHUNK: key is what FSCTL_SRV_REQUEST_RESUME_KEY answered. *)

CopySource(c) ==
  /\ pc[c] = "start" /\ req[c].op = "copychunk" /\ EarlyVerdict(c) = Success
  /\ LET id == req[c].key[1] IN
       IF Known(id) /\ handles[id].session = Session(c)
       THEN loc' = [loc EXCEPT ![c].source = handles[id]] /\ Continue(c, "destination")
       ELSE Status(c, "ObjectNameNotFound") /\ UNCHANGED loc
  /\ UNCHANGED <<fixed, files, state, strayed, moved>>

CopyAccess(c, h) ==
  /\ "read" \in loc[c].source.access
  /\ "write" \in h.access
  /\ "read" \in h.access \/ req[c].write_variant

CopyDestination(c) ==
  /\ pc[c] = "destination"
  /\ LET h == handles[req[c].id]
         verdict == CASE ~Known(req[c].id) -> "FileClosed"
                      [] Known(req[c].id) /\ TreeVerdict(c, h) # Success -> TreeVerdict(c, h)
                      [] OTHER -> IF CopyAccess(c, h) THEN Success ELSE "AccessDenied"
     IN IF verdict # Success THEN Status(c, verdict) /\ UNCHANGED loc
        ELSE loc' = [loc EXCEPT ![c].handle = h] /\ Continue(c, "tree")
  /\ UNCHANGED <<fixed, files, state, strayed, moved>>

LocksOf(path) == {l \in locks : l.path = path}

CopySourceLocks(c) ==
  /\ pc[c] = "source_locks"
  /\ loc' = [loc EXCEPT ![c].locks = LocksOf(loc[c].source.path)]
  /\ Continue(c, "target_locks")
  /\ UNCHANGED <<fixed, files, state, strayed, moved>>

\* The locks of both, before anything is copied.
CopyLocks(c) ==
  /\ pc[c] = "target_locks"
  /\ LET s == loc[c].source
         h == loc[c].handle
         r == req[c].chunks
     IN IF \E k \in DOMAIN r : \/ LockConflict(loc[c].locks, s.id, r[k].source, r[k].length)
                               \/ LockConflict(LocksOf(h.path), h.id, r[k].target, r[k].length)
        THEN Responds(c, LockedResponse) /\ UNCHANGED loc
        ELSE /\ loc' = [loc EXCEPT ![c].before = <<content[s.share][s.ino], content[h.share][h.ino]>>]
             /\ Continue(c, "copy_read")
  /\ UNCHANGED <<fixed, files, state, strayed, moved>>

\* The destination's backend is asked for the source.
CopyRead(c) ==
  /\ pc[c] = "copy_read"
  /\ LET bytes == content[loc[c].share][loc[c].source.ino]
         chunk == req[c].chunks[loc[c].chunk]
     IN IF bytes = NoFile THEN Status(c, VfsError) /\ UNCHANGED loc
        ELSE /\ loc' = [loc EXCEPT ![c].data = BytesAt(bytes, chunk.source, chunk.length)]
             /\ Continue(c, "copy_write")
  /\ UNCHANGED <<fixed, files, state, strayed, moved>>

\* Mutant: a chunk is written where it was read.
MutantChunkWritten(bytes, chunk, data) ==
  IF data = <<>> THEN bytes ELSE Overwritten(bytes, chunk.source, data)

ChunkWritten(bytes, chunk, data) ==
  IF data = <<>> THEN bytes ELSE Overwritten(bytes, chunk.target, data)

CopyWrite(c) ==
  /\ pc[c] = "copy_write"
  /\ LET s == loc[c].share
         n == loc[c].handle.ino
         k == loc[c].chunk
     IN IF loc[c].data # <<>> /\ content[s][n] = NoFile
        THEN Status(c, VfsError) /\ UNCHANGED <<content, loc>>
        ELSE /\ content' = [content EXCEPT ![s][n] = ChunkWritten(@, req[c].chunks[k], loc[c].data)]
             /\ loc' = [loc EXCEPT ![c].chunk = k + 1, ![c].changed = @ \/ loc[c].data # <<>>]
             /\ IF k < Len(req[c].chunks) THEN Continue(c, "copy_read")
                ELSE Responds(c, [status |-> Success, chunks |-> k])
  /\ UNCHANGED <<fixed, tree, next_ino, state, strayed, moved>>

-------------------------------------------------------------------------------
(* Requests of other modules, by their effects. *)

Lock(c) ==
  /\ pc[c] = "start" /\ req[c].op = "lock"
  /\ LET h == handles[req[c].id] IN
       IF Known(req[c].id) /\ TreeVerdict(c, h) = Success
          /\ ~LockConflict(LocksOf(h.path), h.id, req[c].offset, req[c].length)
       THEN /\ locks' = locks \cup {[path |-> h.path, id |-> h.id, offset |-> req[c].offset,
                                     length |-> req[c].length, exclusive |-> TRUE]}
            /\ Status(c, Success)
       ELSE UNCHANGED locks /\ Status(c, "LockNotGranted")
  /\ UNCHANGED <<fixed, files, trees, handles, next_handle, loc, strayed, moved>>

\* The handles of the tree go, without CLOSE; then the tree.
TreeDisconnect(c) ==
  /\ pc[c] = "start" /\ req[c].op = "tree_disconnect"
  /\ LET here == <<Session(c), req[c].tid>> IN
       /\ handles' = [i \in HandleIds |-> IF Known(i) /\ <<handles[i].session, handles[i].tid>> = here
                                          THEN NoHandle ELSE handles[i]]
       /\ trees' = [trees EXCEPT ![here] = NoShare]
  /\ Status(c, Success)
  /\ UNCHANGED <<fixed, files, next_handle, locks, loc, strayed, moved>>

-------------------------------------------------------------------------------
Next ==
  \E c \in Conns :
    \/ Send(c) \/ Return(c) \/ Immediate(c) \/ GetHandle(c) \/ GetTree(c) \/ UpdateHandle(c)
    \/ BackendFails(c) \/ Read(c) \/ Write(c)
    \/ CreateStart(c) \/ CreateSharing(c) \/ CreateStat(c) \/ CreateOpen(c) \/ CreateDirectory(c)
    \/ ModeStat(c) \/ ModeSet(c) \/ CreateInsert(c) \/ CreateRespond(c)
    \/ CloseLocks(c) \/ CloseTree(c) \/ CloseUnlink(c) \/ CloseDelete(c)
    \/ QueryDirectory(c) \/ QueryFile(c) \/ QueryOther(c)
    \/ SetInfo(c) \/ TimesStat(c) \/ TimesSet(c) \/ RenameStat(c) \/ RenameFile(c) \/ TruncateFile(c)
    \/ CopySource(c) \/ CopyDestination(c) \/ CopySourceLocks(c) \/ CopyLocks(c) \/ CopyRead(c) \/ CopyWrite(c)
    \/ Lock(c) \/ TreeDisconnect(c)

\* Earlier requests have left files, and handles of them in the table.
Init ==
  /\ mode \in Modes
  /\ tree = [s \in Shares |-> mode.disk[s].tree]
  /\ content = [s \in Shares |-> [n \in Inos |-> IF n \in DOMAIN mode.disk[s].bytes THEN mode.disk[s].bytes[n] ELSE NoFile]]
  /\ next_ino = [s \in Shares |-> Max(InosOf(mode.disk[s].tree)) + 1]
  /\ trees = mode.trees
  /\ handles = [i \in HandleIds |-> IF i \in DOMAIN mode.handles THEN mode.handles[i] ELSE NoHandle]
  /\ next_handle = Len(mode.handles) + 1
  /\ locks = {}
  /\ req = [c \in Conns |-> Idle]
  /\ pc = [c \in Conns |-> "idle"]
  /\ loc = [c \in Conns |-> NoLocals]
  /\ answer = [c \in Conns |-> NoAnswer]
  /\ sent = [c \in Conns |-> 0]
  /\ strayed = {} /\ moved = {}

Spec == Init /\ [][Next]_vars

-------------------------------------------------------------------------------
(* Properties *)

Quiet == \A c \in Conns : pc[c] \in {"idle", "done"}
Apart == \A c, d \in Conns : Session(c) = Session(d) => c = d

(* The path in a handle, by which QUERY_INFO, SET_INFO and the deletion in CLOSE    *)
(* find the file, names the file the handle was opened on, also after renames       *)
(* through the handle, unless a request for another handle has renamed, replaced or *)
(* deleted that file.  So no update_handle brings an outdated path back, whatever   *)
(* other sessions do, as long as no session has two connections.                    *)
PathNamesFile ==
  Quiet /\ Apart =>
    \A i \in HandleIds : Known(i) /\ i \notin strayed => Names(tree[handles[i].share], handles[i])

(* The create_action a CREATE answers is what it did: "created" just when its open *)
(* made the file.  With other requests in between only where the disposition       *)
(* decides it.                                                                     *)
CreateTellsTruth ==
  \A c \in Conns :
    (/\ pc[c] = "done" /\ req[c].op = "create" /\ answer[c].status = Success
     /\ ~loc[c].failed
     /\ mode.serial \/ req[c].disposition \in {"create", "open"})
      => (answer[c].action = "created" <=> loc[c].made)

(* A request answered with an error has changed no file, but for four that change  *)
(* files in several steps and undo nothing: COPYCHUNK, CREATE and                    *)
(* FileBasicInformation, when the backend fails in the middle, and a rename to a     *)
(* directory that is not there, which the in-memory backend notices too late.        *)
ErrorsChangeNothing ==
  \A c \in Conns :
    pc[c] = "done" /\ answer[c].status # Success /\ loc[c].changed =>
      LET rename == req[c].op = "set_info" /\ req[c].class = "rename"
          basic == req[c].op = "set_info" /\ req[c].class = "basic"
      IN /\ rename \/ basic \/ req[c].op \in {"copychunk", "create"}
         /\ mode.serial => \/ loc[c].failed
                           \/ rename /\ WalkParent(T(c), NormalizeMemory(RenameTo(c))) # "found"

\* The copy, one chunk after the other, on the bytes there were: source and target.
CopyReference(r, bytes, same) ==
  FoldLeft(LAMBDA b, chunk : LET from == IF same THEN b ELSE bytes[1] IN
                             LET data == BytesAt(from, chunk.source, chunk.length) IN
                             IF data = <<>> THEN b ELSE Overwritten(b, chunk.target, data),
           bytes[2], r.chunks)

Copied(c) == pc[c] = "done" /\ req[c].op = "copychunk" /\ answer[c].status = Success
SameShare(c) == loc[c].source.share = loc[c].handle.share

(* A COPYCHUNK that succeeds has copied, into the file of the handle it was sent    *)
(* for, every chunk from the file of the handle the resume key was issued for, in   *)
(* order, also when the two are the same file and chunks overlap.  One request at a *)
(* time, both handles on one share.                                                 *)
CopyMatches ==
  \A c \in Conns :
    mode.serial /\ Copied(c) /\ SameShare(c) =>
      content[loc[c].share][loc[c].handle.ino] =
        CopyReference(req[c], loc[c].before, loc[c].source.ino = loc[c].handle.ino)

ByteAt(bytes, i) == IF i <= Len(bytes) THEN bytes[i] ELSE 0
Covers(l, i) == l.offset < i /\ (l.length = 0 \/ i <= l.offset + l.length)

\* The bytes other handles of the file have locked are as they were.
SparesLocked(c) ==
  \A l \in locks :
    /\ Known(l.id) /\ l.id # loc[c].handle.id
    /\ handles[l.id].share = loc[c].handle.share /\ handles[l.id].ino = loc[c].handle.ino
    => \A i \in 1..MaxOffset : Covers(l, i) =>
         ByteAt(content[loc[c].share][loc[c].handle.ino], i) = ByteAt(loc[c].before[2], i)

(* A COPYCHUNK leaves alone the bytes that another handle of the same file has      *)
(* locked exclusively: locks are looked up by path, before the first chunk is       *)
(* copied.  One request at a time; renames, after which the same file has several   *)
(* paths, are excepted.                                                             *)
CopySparesLocked ==
  \A c \in Conns : mode.serial /\ Copied(c) /\ moved = {} => SparesLocked(c)

(* What the comment at SET_INFO's update_handle says: after a rename I/O uses the *)
(* correct path; with other requests in between.                                  *)
RenamedPathKept ==
  Quiet => \A i \in moved \ strayed : Known(i) => Names(tree[handles[i].share], handles[i])

(* What the comment in COPYCHUNK quotes: locked ranges are not copied over, also *)
(* after a rename.                                                               *)
CopyAlwaysSparesLocked == \A c \in Conns : mode.serial /\ Copied(c) => SparesLocked(c)

(* What a resume key is for: the bytes copied are the source's, whatever share it *)
(* is on.                                                                         *)
CopyReadsSource ==
  \A c \in Conns :
    mode.serial /\ Copied(c) =>
      content[loc[c].share][loc[c].handle.ino] =
        CopyReference(req[c], loc[c].before, SameShare(c) /\ loc[c].source.ino = loc[c].handle.ino)
===============================================================================
