--------------------------- MODULE MCFileRequests ---------------------------
(* Two connections and two shares; a mode fixes what is there and what is sent. *)
EXTENDS FileRequests

CONSTANTS s1, s2   \* shares

All == {"read", "write", "delete"}
Root == NewNode(Directory, 1, <<>>)

\* Share s1 holds f (2), g (3) and directory d (4), s2 holds f (2) only.
Disk(bytes) ==
  (s1 :> [tree |-> <<>> :> Root @@ <<"f">> :> NewNode(File, 2, <<>>) @@ <<"g">> :> NewNode(File, 3, <<>>)
                   @@ <<"d">> :> NewNode(Directory, 4, <<>>),
          bytes |-> 2 :> bytes[1] @@ 3 :> bytes[2]]) @@
  (s2 :> [tree |-> <<>> :> Root @@ <<"f">> :> NewNode(File, 2, <<>>), bytes |-> 2 :> <<7, 8>>])
Trees == [k \in {1, 2} \X {1, 2} |-> IF k[2] = 1 THEN s1 ELSE s2]

Handle(i, session, tid, path, ino, access) ==
  [id |-> i, session |-> session, tid |-> tid, share |-> Trees[<<session, tid>>], path |-> path,
   access |-> access, shared |-> All, kept |-> "no", delete |-> FALSE, offset |-> 0,
   directory |-> path = <<"d">>, ino |-> ino]

------------------------------------------------------------------------------
(* Requests *)

Charge(n) == [multi_credit |-> TRUE, charge |-> 1, payload |-> n]
On(op, i) == [op |-> op, id |-> i, tid |-> 1]
Rd(i, offset, length, min) == On("read", i) @@ [offset |-> offset, length |-> length, minimum |-> min] @@ Charge(length)
Wr(i, offset, data) == On("write", i) @@ [offset |-> offset, data |-> data] @@ Charge(Len(data))
Cr(path, disposition, directory) ==
  [op |-> "create", tid |-> 1, flaws |-> {}, path |-> path, access |-> All, shared |-> All, kept |-> "no",
   delete |-> FALSE, disposition |-> disposition, directory |-> directory, readonly |-> FALSE]
Query(i, type, class, n) == On("query_info", i) @@ [type |-> type, class |-> class] @@ Charge(n)
Set(i, class, length) == On("set_info", i) @@ [fits |-> TRUE, type |-> "file", class |-> class, length |-> length]
Basic(i, times, attributes) == Set(i, "basic", 40) @@ [times |-> times, attributes |-> attributes, readonly |-> TRUE]
Ren(i, name, replace) == Set(i, "rename", 24) @@ [name |-> name, replace |-> replace]
Disposition(i, delete) == Set(i, "disposition", 1) @@ [delete |-> delete]
Eof(i, n) == Set(i, "end_of_file", 8) @@ [size |-> n]
Chunk(source, target, length) == [source |-> source, target |-> target, length |-> length]
Copy(key, i, chunks) ==
  On("copychunk", i) @@ [key |-> <<key, 1>>, chunks |-> chunks, write_variant |-> FALSE] @@ Charge(32)
Lk(i, offset, length) == On("lock", i) @@ [offset |-> offset, length |-> length]
Dispositions == {"create", "open", "overwrite", "supersede", "open_if", "overwrite_if"}

\* Every kind of request once, also what is refused.
OddRequests ==
  {On("flush", 1), On("change_notify", 1), On("ioctl", 1) @@ Charge(0), On("ioctl", 1) @@ [Charge(9) EXCEPT !.charge = 0],
   On("resume_key", 1) @@ Charge(32), On("resume_key", 9) @@ Charge(32), On("resume_key", 1) @@ Charge(31),
   On("close", 9), Rd(9, 0, 1, 0), Rd(2, 0, 1, 0), [Rd(1, 0, 1, 0) EXCEPT !.tid = 2], Rd(3, 0, 1, 0), Rd(4, 0, 1, 0),
   On("query_directory", 3) @@ Charge(64), On("query_directory", 1) @@ Charge(64),
   On("query_directory", 1) @@ Charge(65), Query(1, "security", 4, 28), Query(1, "quota", 1, 0),
   On("set_info", 1) @@ [length |-> 0],
   Set(1, "mode", 4), Set(1, "position", 4), Set(1, "position", 8) @@ [position |-> 1], Set(1, "unknown", 4),
   Set(1, "rename", 19), [Set(1, "mode", 4) EXCEPT !.fits = FALSE], [Set(1, "mode", 4) EXCEPT !.type = "fs"],
   [Set(1, "mode", 4) EXCEPT !.type = "security"], Set(1, "allocation", 8) @@ [size |-> 3], Disposition(1, FALSE),
   Copy(9, 1, <<Chunk(0, 0, 1)>>), Copy(2, 1, <<Chunk(0, 0, 1)>>), Copy(1, 9, <<Chunk(0, 0, 1)>>), Copy(1, 4, <<Chunk(0, 0, 1)>>),
   Copy(1, 3, <<Chunk(0, 0, 1)>>), Copy(3, 3, <<Chunk(0, 0, 1)>>), Wr(3, 0, <<1>>), Wr(4, 0, <<1>>), Rd(5, 0, 1, 0),
   Copy(1, 1, <<>>), Copy(1, 1, <<Chunk(0, 0, 3)>>), [Copy(1, 1, <<Chunk(0, 0, 1)>>) EXCEPT !.key = <<1, 2>>], [op |-> "tree_disconnect", tid |-> 1]}
  \cup {On("validate_negotiate", 1) @@ Charge(24) @@ [flaw |-> flaw] : flaw \in {"none", "short", "guid", "dialect"}}
  \cup {Query(1, "file", class, n) : class \in {4, 5, 6, 7, 8, 14, 18}, n \in {4, 8, 40}}
  \cup {Query(1, "fs", class, n) : class \in {1, 3, 7}, n \in {18, 32}}
  \cup {[Cr(<<"f">>, "open", FALSE) EXCEPT !.flaws = x] : x \in {{CreateChecks[k][1]} : k \in DOMAIN CreateChecks}
                                                             \cup {{"reserved", "no_access"}}}
  \cup {[Cr(<<"f">>, "open", FALSE) EXCEPT !.shared = {"read"}], Cr(<<"f">>, "open", TRUE), Cr(<<"d">>, "open", FALSE),
        Cr(<<"f", "x">>, "create", FALSE), Cr(<<"e", "x">>, "create", FALSE), Cr(<<>>, "open", FALSE)}

\* Names: files made, renamed, deleted and looked at by two sessions in turn.
NameRequests(c) ==
  LET i == IF c = 1 THEN 1 ELSE 2 IN
  {Cr(<<"f">>, "open_if", FALSE), Cr(<<"h">>, "open_if", FALSE), Cr(<<"d", "h">>, "create", TRUE),
   [Cr(<<"h">>, "create", FALSE) EXCEPT !.delete = TRUE], On("close", i), On("close", 4), Disposition(i, TRUE),
   Ren(4, <<"f">>, TRUE)}
  \cup {Ren(i, name, replace) : name \in {<<"h">>, <<"", "g">>, <<"", "d", "g">>}, replace \in BOOLEAN}
  \cup {Ren(i, <<"", "e", "h">>, TRUE), Ren(i, <<"", "g", "h">>, FALSE)}

\* The same at the same time; each session its own handles.
RaceRequests(c) ==
  LET i == IF c = 1 THEN 1 ELSE 2 IN
  {Wr(i, 0, <<5>>), Rd(i, 0, 1, 0), On("close", i), Ren(i, <<"h">>, FALSE), Disposition(i, TRUE),
   Eof(i, 0), Query(i, "file", 5, 64), Basic(i, <<0, 1>>, TRUE)}
  \cup {Cr(<<"h">>, d, FALSE) : d \in {"create", "open_if", "overwrite"}}

CopyRequests(c) ==
  IF c = 1 THEN {Copy(k, 1, chunks) : k \in {1, 3}, chunks \in
                   {<<Chunk(0, 1, 2)>>, <<Chunk(0, 1, 2), Chunk(1, 0, 1)>>, <<Chunk(4, 0, 1)>>, <<Chunk(0, 3, 1), Chunk(3, 0, 1)>>,
                    <<Chunk(0, 0, 2), Chunk(0, 2, 2)>>, <<Chunk(0, 0, 3)>>}} \cup {Eof(1, 3), Rd(1, 1, 2, 2)}
  ELSE {Lk(2, offset, length) : offset \in 0..2, length \in 0..1} \cup {On("close", 2), Wr(2, 3, <<6>>)}

FaultRequests ==
  {Cr(<<"h">>, "create", FALSE), Cr(<<"d">>, "open", TRUE), Cr(<<"f">>, "supersede", FALSE), Cr(<<"d", "h">>, "create", TRUE),
   Basic(1, <<1, 0>>, TRUE), Basic(1, <<0, 0>>, TRUE), Basic(1, <<0, 0>>, FALSE), Basic(1, <<2, 2>>, FALSE), Eof(1, 1), Disposition(1, TRUE),
   On("close", 1), Ren(1, <<"h">>, FALSE), Rd(1, 0, 2, 0), Wr(1, 1, <<5, 5>>), Query(1, "fs", 3, 24), Query(1, "file", 4, 40),
   On("query_directory", 3) @@ Charge(64), Copy(2, 1, <<Chunk(0, 1, 1), Chunk(0, 0, 1)>>)}
  \cup {Cr(<<"f">>, d, FALSE) : d \in Dispositions}

MultiRequests == {Ren(1, <<"h">>, TRUE), Rd(1, 0, 1, 0)}
AcrossRequests == {Copy(2, 1, <<Chunk(0, 0, 2)>>)}
MovedRequests(c) == IF c = 1 THEN {Ren(1, <<"h">>, TRUE), Copy(3, 1, <<Chunk(0, 0, 1)>>)} ELSE {Lk(2, 0, 1)}

MCSays(c, m) ==
  CASE m.name = "odd" -> OddRequests [] m.name = "names" -> NameRequests(c) [] m.name = "race" -> RaceRequests(c)
    [] m.name = "copy" -> CopyRequests(c) [] m.name = "fault" -> FaultRequests [] m.name = "multi" -> MultiRequests
    [] m.name = "across" -> AcrossRequests [] m.name = "moved" -> MovedRequests(c)

------------------------------------------------------------------------------
Mode(name, session, held, max) ==
  [name |-> name, session |-> session, trees |-> Trees, disk |-> Disk(<<<<1, 2>>, <<3>>>>), handles |-> held,
   serial |-> TRUE, faulty |-> FALSE, max |-> max]

\* Handles 1 and 2 of f, 3 of what is copied from or listed.
Pair(access) == <<Handle(1, 1, 1, <<"f">>, 2, access), Handle(2, 2, 1, <<"f">>, 2, access)>>
Odd == Mode("odd", <<1, 2>>, Pair({"read"}) \o <<[Handle(3, 1, 1, <<"d">>, 4, All) EXCEPT !.kept = "persistent"],
                                                [Handle(4, 1, 1, <<"g">>, 3, {"write"}) EXCEPT !.kept = "durable"],
                                                Handle(5, 1, 1, <<"d">>, 4, All)>>, <<2, 0>>)
NamesMode == Mode("names", <<1, 2>>, Pair(All) \o <<Handle(3, 2, 1, <<"g">>, 3, All)>>, <<2, 2>>)
Race == [Mode("race", <<1, 2>>, Pair(All), <<2, 1>>) EXCEPT !.serial = FALSE]
CopyMode == Mode("copy", <<1, 2>>, Pair(All) \o <<Handle(3, 1, 1, <<"g">>, 3, All)>>, <<2, 2>>)
Fault == [Mode("fault", <<1, 2>>, <<Handle(1, 1, 1, <<"f">>, 2, All), Handle(2, 1, 1, <<"g">>, 3, All),
                                    Handle(3, 1, 1, <<"d">>, 4, All)>>, <<2, 0>>) EXCEPT !.faulty = TRUE]
MCModes == {Odd, NamesMode, Race, CopyMode, Fault}

\* Two connections of one session.
MultiModes == {[Mode("multi", <<1, 1>>, Pair(All), <<1, 1>>) EXCEPT !.serial = FALSE]}
\* A resume key of a handle on the other share.
AcrossModes == {Mode("across", <<1, 2>>, <<Handle(1, 1, 1, <<"f">>, 2, All), Handle(2, 1, 2, <<"f">>, 2, All)>>, <<1, 0>>)}
\* A rename of a file with a lock.
MovedModes == {Mode("moved", <<1, 2>>, Pair(All) \o <<Handle(3, 1, 1, <<"g">>, 3, All)>>, <<2, 1>>)}
=============================================================================
