----------------------------- MODULE MCConnection -----------------------------
(***************************************************************************)
(* Two connections of a server.  Each initial state picks what the clients *)
(* do: compound requests on an established session that the other          *)
(* connection may log off; setting up, binding and re-authenticating       *)
(* sessions; or a client that never stops sending while break events come. *)
(***************************************************************************)
EXTENDS Connection

CONSTANTS a, b

OneServer == [c \in Conns |-> "s"]
TwoServers == [c \in Conns |-> IF c = a THEN "s" ELSE "t"]

Same(op, fid, arg) == Command(op, Sentinel, Sentinel, fid, arg)
Own(op, fid, arg) == Command(op, 1, 1, fid, arg)
Single(cmd) == Message(FALSE, <<cmd>>)
Bad == Command("bad", 0, 0, 0, "")

Firsts == {Own("create", 0, "ok"), Own("create", 0, "missing"), Own("read", 1, ""),
           Command("echo", 1, 0, 0, "")}
Seconds == {Same("read", Sentinel, ""), Same("close", 1, ""), Same("create", 0, "ok"),
            Own("create", 0, "missing"), Own("read", 1, "")}
Thirds == {Same("close", Sentinel, ""), Own("read", 1, ""), Bad}

Compounds ==
  {Message(r, <<x, y, z>>) : r \in BOOLEAN, x \in Firsts, y \in Seconds, z \in Thirds}
  \cup {Message(r, <<x, y>>) : r \in BOOLEAN, x \in Firsts, y \in {Bad, Same("tree_disconnect", 0, "")}}
  \cup {Single(Own("tree_disconnect", 0, "")), Single(Command("cancel", 1, 0, 0, "")), Single(Bad),
        Single(Command("tree_connect", 1, 0, 0, "unknown")), EOF, Single(Command("read", 0, 1, 1, "")),
        Single(Command("logoff", 0, 0, 0, "")),
        Message(FALSE, <<Command("tree_connect", 1, 0, 0, "ok"), Command("read", 1, 2, 1, "")>>)}

Logoffs == {Message(TRUE, <<x, Same("logoff", 0, "")>>) : x \in Firsts}

Setup(sid, kind, wrap, user, good, previous) ==
  Single(Command("session_setup", sid, 0, 0,
    [token |-> [wrap |-> wrap, kind |-> kind, user |-> user, good |-> good], previous |-> previous,
     binding |-> FALSE, signed |-> FALSE, key |-> NoKey]))
Bind(sid, signed, key) ==
  Single(Command("session_setup", sid, 0, 0,
    [token |-> [wrap |-> "raw", kind |-> "empty", user |-> "", good |-> FALSE], previous |-> 0,
     binding |-> TRUE, signed |-> signed, key |-> key]))

Answers(previous) ==
  {Setup(s, "authenticate", "resp", "u", TRUE, previous) : s \in {1, 2}}
Starts == {Setup(s, "negotiate", "init", "", FALSE, 0) : s \in {0, 1}}
Oddities ==
  {Setup(0, "authenticate", "raw", "u", TRUE, 0), Setup(1, "authenticate", "resp", "u", FALSE, 0),
   Setup(1, "other_mechanism", "init", "", FALSE, 0), Setup(0, "empty", "resp", "", FALSE, 0),
   Setup(0, "empty", "raw", "", FALSE, 0), Setup(1, "authenticate", "raw", "", FALSE, 0)}
Negotiations == {Single(Command("negotiate", 0, 0, 0, d)) : d \in {"3.0", "2.1", NoDialect}}
Bindings == {Bind(1, TRUE, 2), Bind(1, TRUE, 3), Bind(1, FALSE, 2), Bind(2, TRUE, 4)}
Anonymous == {Setup(0, "empty", "raw", "", FALSE, 0)}

Mode(name, start, max_a, max_b, rest) ==
  [name |-> name, start |-> start, bound |-> {b}, max |-> [c \in Conns |-> IF c = a THEN max_a ELSE max_b],
   dialect |-> [c \in Conns |-> IF c = a THEN "3.0" ELSE rest.dialect], flight |-> rest.flight,
   anonymous |-> rest.anonymous, endless |-> rest.endless, breaks |-> rest.breaks, late |-> rest.late]
Plain == [dialect |-> "3.0", flight |-> 1, anonymous |-> FALSE, endless |-> {}, breaks |-> {},
          late |-> {FALSE}]

CompoundMode == Mode("compound", "ready", 1, 1, Plain)
TakeoverMode == Mode("takeover", "fresh", 3, 2, Plain)
BindMode == Mode("bind", "fresh", 2, 3, [Plain EXCEPT !.late = BOOLEAN, !.dialect = NoDialect])
OddMode == Mode("odd", "fresh", 3, 0, Plain)
BusyMode == Mode("busy", "ready", 0, 0, [Plain EXCEPT !.flight = 2, !.endless = {a}, !.breaks = {a}])
AnonymousMode == Mode("anonymous", "fresh", 1, 2, [Plain EXCEPT !.anonymous = TRUE])
LogoffMode == Mode("logoff", "ready", 1, 0, Plain)

Echo1 == Single(Command("echo", 1, 0, 0, ""))
Logoff1 == {Single(Command("logoff", 1, 0, 0, ""))}
TakeoverA == Starts \cup Answers(0)
TakeoverB == Starts \cup Answers(1)
BindA == {Setup(0, "negotiate", "init", "", FALSE, 0), Setup(1, "authenticate", "resp", "u", TRUE, 0)}
BindB == Negotiations \cup Bindings \cup Starts
OddA == Starts \cup Oddities \cup Answers(0)
BusyA == {Single([Command("echo", 1, 0, 0, "") EXCEPT !.charge = 0]),
          Single([Command("echo", 1, 0, 0, "") EXCEPT !.charge = 3, !.ask = 9]),
          Message(TRUE, <<Own("read", 1, ""), Same("read", 1, "")>>)}

MCSays(name, c) ==
  CASE name = "compound" -> IF c = a THEN Compounds ELSE Logoff1
    [] name = "takeover" -> IF c = a THEN TakeoverA ELSE TakeoverB
    [] name = "bind" -> IF c = a THEN BindA ELSE BindB
    [] name = "odd" -> OddA
    [] name = "busy" -> IF c = a THEN BusyA ELSE {Echo1}
    [] name = "anonymous" -> IF c = a THEN Anonymous ELSE TakeoverA
    [] name = "logoff" -> Logoffs

AllModes == {CompoundMode, TakeoverMode, BindMode, OddMode, BusyMode}
AnonymousModes == {AnonymousMode}
LogoffModes == {LogoffMode}
CompoundModes == {CompoundMode}

===============================================================================
