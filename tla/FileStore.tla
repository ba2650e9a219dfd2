----------------------------- MODULE FileStore ------------------------------
(***************************************************************************)
(* What StorageBackend promises about the data of files: a handle stands   *)
(* for a file, whatever happens to names.  Reads and writes through it act *)
(* on the bytes of that file in one step; nothing else changes them but an *)
(* open that truncates and truncate itself; and they are there as long as  *)
(* the file is open.  Names are abstracted away: an open, and a truncate,  *)
(* pick some file.                                                         *)
(***************************************************************************)
EXTENDS FileBytes

CONSTANTS
  Clients,
  Inos,      \* identities of files (inode numbers)
  Reliable,  \* calls through a handle that do not fail by themselves
  NoFile

VARIABLES
  content,   \* [Inos -> bytes of the file, or NoFile]
  opens,     \* [Inos -> how many handles stand for it]
  call, ret  \* the call of each client and its answer

storeVars == <<content, opens, call, ret>>

Idle == [fn |-> "idle"]
Pending == [is |-> "pending"]
Error(e) == [is |-> "error", err |-> e]
Value(v) == [is |-> "value", val |-> v]

------------------------------------------------------------------------------
Init ==
  /\ content \in [Inos -> {NoFile, <<>>, <<1>>}]
  /\ opens = [n \in Inos |-> 0]
  /\ call = [c \in Clients |-> Idle]
  /\ ret = [c \in Clients |-> Pending]

Start(c) ==
  /\ call[c] = Idle
  /\ call' = [call EXCEPT ![c] = call'[c]]
  /\ call'[c] # Idle
  /\ UNCHANGED <<content, opens, ret>>

Answer(c, a) == ret[c] = Pending /\ ret' = [ret EXCEPT ![c] = a] /\ UNCHANGED call

Open(c) ==
  /\ call[c].fn = "open"
  /\ \E n \in Inos :
       /\ \/ UNCHANGED content
          \/ content[n] # NoFile /\ call[c].trunc /\ content' = [content EXCEPT ![n] = <<>>]
          \/ content[n] = NoFile /\ opens[n] = 0 /\ call[c].create /\ content' = [content EXCEPT ![n] = <<>>]
       /\ opens' = [opens EXCEPT ![n] = @ + 1]
       /\ Answer(c, Value(n))

Read(c) ==
  /\ call[c].fn = "read"
  /\ LET n == call[c].ino IN
       /\ content[n] # NoFile
       /\ Answer(c, Value(BytesAt(content[n], call[c].offset, call[c].length)))
  /\ UNCHANGED <<content, opens>>

\* A write of nothing may fill the file up to its offset, or not.
Write(c) ==
  /\ call[c].fn = "write"
  /\ LET n == call[c].ino IN
       /\ content[n] # NoFile
       /\ \/ content' = [content EXCEPT ![n] = Overwritten(@, call[c].offset, call[c].data)]
          \/ call[c].data = <<>> /\ UNCHANGED content
       /\ Answer(c, Value(Len(call[c].data)))
  /\ UNCHANGED opens

\* A file that has lost its name goes when it is not open, and not before.
Forgets(o) ==
  /\ content' = [n \in Inos |-> content'[n]]
  /\ \A n \in Inos : content'[n] # content[n] => content'[n] = NoFile /\ o[n] = 0

Close(c) ==
  /\ call[c].fn = "close"
  /\ opens' = [opens EXCEPT ![call[c].ino] = @ - 1]
  /\ Answer(c, Value("ok"))
  /\ Forgets(opens')

Truncate(c) ==
  /\ call[c].fn = "truncate"
  /\ \E n \in Inos : /\ content[n] # NoFile
                     /\ content' = [content EXCEPT ![n] = Resized(@, call[c].size)]
  /\ Answer(c, Value("ok"))
  /\ UNCHANGED opens

\* Calls about names, whatever they answer.
Other(c) ==
  /\ call[c].fn \notin {"idle", "open", "read", "write", "close", "truncate"}
  /\ Answer(c, ret'[c])
  /\ Forgets(opens)
  /\ UNCHANGED opens

\* A call fails without effect; a Reliable one only when the handle is of no file.
Fail(c) ==
  /\ call[c] # Idle
  /\ call[c].fn \in Reliable => content[call[c].ino] = NoFile
  /\ ret'[c].is = "error"
  /\ Answer(c, ret'[c])
  /\ UNCHANGED <<content, opens>>

Return(c) ==
  /\ ret[c] # Pending
  /\ call' = [call EXCEPT ![c] = Idle]
  /\ ret' = [ret EXCEPT ![c] = Pending]
  /\ UNCHANGED <<content, opens>>

Next ==
  \E c \in Clients :
    \/ Start(c) \/ Open(c) \/ Read(c) \/ Write(c) \/ Close(c) \/ Truncate(c) \/ Other(c)
    \/ Fail(c) \/ Return(c)

Spec == Init /\ [][Next]_storeVars
=============================================================================
