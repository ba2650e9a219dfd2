--------------------------- MODULE ConnectionProofs ---------------------------
(***************************************************************************)
(* Proofs about Connection: what is true of every message answered, for    *)
(* every set of connections, whatever the clients send and however many    *)
(* credits, sessions and files there are.                                  *)
(***************************************************************************)
EXTENDS Connection, TLAPS

-------------------------------------------------------------------------------
(* Lists and tables. *)

\* The commands before one of a message.
LEMMA UpTo == \A len \in Nat : \A n \in 1..len : n \in Nat \ {0} /\ 1..n \subseteq 1..len
  BY SMT

\* A function changed at one argument.
LEMMA ChangedAt ==
  ASSUME NEW f, DOMAIN f = Conns, NEW c \in Conns, NEW v
  PROVE /\ DOMAIN [f EXCEPT ![c] = v] = Conns
        /\ [f EXCEPT ![c] = v][c] = v
        /\ \A d \in Conns : d # c => [f EXCEPT ![c] = v][d] = f[d]
  BY Zenon

\* What appending to a list does.
LEMMA Appended ==
  ASSUME NEW s, IsList(s), NEW e
  PROVE /\ IsList(Append(s, e)) /\ Len(Append(s, e)) = Len(s) + 1
        /\ Append(s, e)[Len(s) + 1] = e
        /\ \A i \in 1..Len(s) : Append(s, e)[i] = s[i]
<1> DEFINE S == {s[i] : i \in 1..Len(s)} \cup {e}
<1>1. s \in [1..Len(s) -> S] /\ Len(s) \in Nat
  BY Zenon DEF IsList
<1>2. s \in Seq(S)
  BY SMTT(30), <1>1
<1>3. e \in S
  BY Zenon
<1> HIDE DEF S
<1>4. /\ Append(s, e) \in Seq(S) /\ Len(Append(s, e)) = Len(s) + 1
      /\ Append(s, e)[Len(s) + 1] = e
      /\ \A i \in 1..Len(s) : Append(s, e)[i] = s[i]
  BY SMTT(30), <1>2, <1>3
<1>5. \A q \in Seq(S) : Len(q) \in Nat /\ q = [i \in 1..Len(q) |-> q[i]]
  BY SMTT(30)
<1> QED
  BY Zenon, <1>4, <1>5 DEF IsList

-------------------------------------------------------------------------------
(* Responses. *)

IsResponse(r) ==
  r = [op |-> r.op, status |-> r.status, sid |-> r.sid, tid |-> r.tid, fid |-> r.fid,
       credits |-> r.credits, related |-> r.related, next |-> r.next, sig |-> r.sig]

\* q says what r says.
Alike(r, q) ==
  /\ q.op = r.op /\ q.status = r.status /\ q.sid = r.sid /\ q.fid = r.fid /\ q.credits = r.credits

Covers(r) == r.sig # Unsigned => r.sig = Signature(r.sig.key, r)

\* Signing writes the signature, and nothing else.
LEMMA SignedIs ==
  ASSUME NEW r, IsResponse(r), NEW key
  PROVE /\ IsResponse(Signed(key, r)) /\ Alike(r, Signed(key, r)) /\ Covers(Signed(key, r))
        /\ Signed(key, r).related = r.related /\ Signed(key, r).next = r.next
<1>1. Signed(key, r) = [op |-> r.op, status |-> r.status, sid |-> r.sid, tid |-> r.tid, fid |-> r.fid,
         credits |-> r.credits, related |-> r.related, next |-> r.next, sig |-> Signature(key, r)]
  BY SMTT(30) DEF IsResponse, Signed
<1>2. Signature(key, r) = Signature(Signature(key, r).key, Signed(key, r))
  BY SMTT(30), <1>1 DEF Signature
<1> QED
  BY SMTT(30), <1>1, <1>2 DEF IsResponse, Alike, Covers

\* maybe_sign_response signs with a key of the connection, or leaves the response.
LEMMA MaybeSignedIs ==
  ASSUME NEW r, IsResponse(r), NEW keys \in [Sids -> Nat]
  PROVE /\ IsResponse(MaybeSigned(keys, r)) /\ Alike(r, MaybeSigned(keys, r))
        /\ MaybeSigned(keys, r).related = r.related /\ MaybeSigned(keys, r).next = r.next
        /\ MaybeSigned(keys, r) = r \/
           (r.sid \in Sids /\ keys[r.sid] # NoKey /\ Covers(MaybeSigned(keys, r)))
<1>1. DOMAIN keys = Sids
  BY Zenon
<1>2. CASE r.sid \in DOMAIN keys /\ keys[r.sid] # NoKey /\ r.sig = Unsigned
  BY Zenon, <1>1, <1>2, SignedIs DEF MaybeSigned
<1>3. CASE ~(r.sid \in DOMAIN keys /\ keys[r.sid] # NoKey /\ r.sig = Unsigned)
  BY Zenon, <1>3 DEF MaybeSigned, Alike
<1> QED
  BY Zenon, <1>2, <1>3

\* re_sign_response: a signature whose key is there covers the response again.
LEMMA ReSignedIs ==
  ASSUME NEW r, IsResponse(r), NEW keys \in [Sids -> Nat]
  PROVE /\ IsResponse(ReSigned(keys, r)) /\ Alike(r, ReSigned(keys, r))
        /\ r.sig # Unsigned /\ r.sid \in Sids /\ keys[r.sid] # NoKey => Covers(ReSigned(keys, r))
        /\ r.sig = Unsigned => Covers(ReSigned(keys, r))
<1>1. DOMAIN keys = Sids
  BY Zenon
<1>2. CASE r.sid \in DOMAIN keys /\ keys[r.sid] # NoKey /\ r.sig # Unsigned
  BY Zenon, <1>1, <1>2, SignedIs DEF ReSigned
<1>3. CASE ~(r.sid \in DOMAIN keys /\ keys[r.sid] # NoKey /\ r.sig # Unsigned)
  BY Zenon, <1>1, <1>3 DEF ReSigned, Alike, Covers
<1> QED
  BY Zenon, <1>2, <1>3

\* What is signed on the way stays a response in the making.
LEMMA MadeSigned ==
  ASSUME NEW m, NEW keys \in [Sids -> Nat], NEW r, Made(m, keys, r)
  PROVE Made(m, keys, MaybeSigned(keys, r)) /\ Alike(r, MaybeSigned(keys, r))
<1>1. IsResponse(r) /\ r.related = FALSE /\ r.next = FALSE
  BY SMTT(30) DEF Made, IsResponse
<1> DEFINE q == MaybeSigned(keys, r)
<1>2. /\ IsResponse(q) /\ Alike(r, q) /\ q.related = FALSE /\ q.next = FALSE
      /\ q = r \/ (r.sid \in Sids /\ keys[r.sid] # NoKey /\ Covers(q))
  BY Zenon, <1>1, MaybeSignedIs
<1> HIDE DEF q
<1>3. CASE q = r
  BY Zenon, <1>2, <1>3 DEF q
<1>4. CASE r.sid \in Sids /\ keys[r.sid] # NoKey /\ Covers(q)
  <2>1. q = [op |-> q.op, status |-> q.status, sid |-> q.sid, tid |-> q.tid, fid |-> q.fid,
             credits |-> q.credits, related |-> FALSE, next |-> FALSE, sig |-> q.sig]
    BY Zenon, <1>2 DEF IsResponse
  <2>2. q.sig # Unsigned => q.sig = Signature(q.sig.key, q) /\ q.sid \in Sids /\ keys[q.sid] # NoKey
    BY Zenon, <1>2, <1>4 DEF Covers, Alike
  <2>3. Coverable(m) /\ q.op # "negotiate" /\ ~Silent(q) => q.credits >= 1
    BY Zenon, <1>2 DEF Made, Alike, Silent
  <2>4. Made(m, keys, q)
    BY Zenon, <2>1, <2>2, <2>3 DEF Made
  <2> QED
    BY Zenon, <2>4, <1>2 DEF q
<1> QED
  BY Zenon, <1>2, <1>3, <1>4

-------------------------------------------------------------------------------
(* Replies. *)

\* What the properties say of one reply.
GoodReply(m, ran, out) ==
  /\ m.related /\ Len(out) > 1 /\ Len(out) = Len(m.cmds) => \A j \in ran : Linked(m, out, j)
  /\ NoLogoff(m) => \A i \in 1..Len(out) : Covers(out[i])
  /\ Coverable(m) =>
       \A i \in 1..Len(out) : out[i].op # "negotiate" /\ ~Silent(out[i]) => out[i].credits >= 1

Replies == \A c \in Conns : GoodReply(reply[c].msg, reply[c].ran, reply[c].out)

\* The links of a chain are in what its responses say.
LEMMA LinkedAlike ==
  ASSUME NEW m, NEW out, NEW new, NEW j \in Nat \ {0}, Linked(m, out, j),
         \A i \in 1..j : Alike(out[i], new[i])
  PROVE Linked(m, new, j)
<1>1. j \in 1..j /\ \A i \in 1..(j - 1) : i \in 1..j
  BY SMTT(30)
<1>2. \A i \in 1..(j - 1) : ~Failed(new[i])
  BY Zenon, <1>1 DEF Linked, Failed, Alike
<1>3. m.cmds[j].sid = Sentinel /\ m.cmds[j].op \notin OwnSession => new[j].sid = m.cmds[1].sid
  BY Zenon, <1>1 DEF Linked, Alike
<1>4. \A i \in 1..(j - 1) : OpensFor(m, i, j) => new[j].fid = new[i].fid
  BY ZenonT(60), <1>1 DEF Linked, Alike
<1> QED
  BY Zenon, <1>2, <1>3, <1>4 DEF Linked

\* Responses that say the same make as good a reply.
LEMMA GoodReplyAlike ==
  ASSUME NEW m, NEW ran, NEW out, NEW new, ran \subseteq 1..Len(m.cmds), Len(m.cmds) \in Nat,
         Len(new) = Len(out), GoodReply(m, ran, out),
         \A i \in 1..Len(out) : Alike(out[i], new[i]),
         NoLogoff(m) => \A i \in 1..Len(out) : Covers(new[i])
  PROVE GoodReply(m, ran, new)
<1>1. Coverable(m) =>
        \A i \in 1..Len(new) : new[i].op # "negotiate" /\ ~Silent(new[i]) => new[i].credits >= 1
  BY Zenon DEF GoodReply, Alike, Silent
<1>2. ASSUME m.related, Len(new) > 1, Len(new) = Len(m.cmds), NEW j \in ran
      PROVE Linked(m, new, j)
  <2>1. Linked(m, out, j)
    BY Zenon, <1>2 DEF GoodReply
  <2>2. j \in Nat \ {0} /\ \A i \in 1..j : i \in 1..Len(out)
    BY SMTT(30), <1>2
  <2> QED
    BY Zenon, <2>1, <2>2, LinkedAlike
<1> QED
  BY Zenon, <1>1, <1>2 DEF GoodReply

\* The end of a message: a good list of responses is a good reply.
LEMMA FinishedIs ==
  ASSUME NEW c \in Conns, NEW w, NEW keys \in [Sids -> Nat], NEW out,
         DOMAIN work = Conns, DOMAIN reply = Conns,
         w.ran \subseteq 1..Len(w.msg.cmds), Len(w.msg.cmds) \in Nat, Len(out) \in Nat,
         \A i \in 1..Len(out) : IsResponse(out[i]),
         GoodReply(w.msg, w.ran, out), Finished(c, w, keys, out)
  PROVE /\ DOMAIN work' = Conns /\ DOMAIN reply' = Conns
        /\ work'[c] = NoWork /\ GoodReply(reply'[c].msg, reply'[c].ran, reply'[c].out)
        /\ \A d \in Conns : d # c => work'[d] = work[d] /\ reply'[d] = reply[d]
<1> DEFINE new == [i \in 1..Len(out) |-> IF Leads(out, i) THEN MaybeSigned(keys, out[i]) ELSE out[i]]
           rep == [msg |-> w.msg, ran |-> w.ran, out |-> new]
<1>1. Len(new) = Len(out)
  BY SMTT(30)
<1>2. ASSUME NEW i \in 1..Len(out)
      PROVE Alike(out[i], new[i]) /\ (Covers(out[i]) => Covers(new[i]))
  <2>1. new[i] = IF Leads(out, i) THEN MaybeSigned(keys, out[i]) ELSE out[i]
    BY Zenon
  <2>2. CASE new[i] = out[i]
    BY Zenon, <2>2 DEF Alike
  <2>3. CASE new[i] = MaybeSigned(keys, out[i])
    BY Zenon, <2>3, MaybeSignedIs
  <2> QED
    BY Zenon, <2>1, <2>2, <2>3
<1> HIDE DEF new
<1>3. NoLogoff(w.msg) => \A i \in 1..Len(out) : Covers(new[i])
  BY Zenon, <1>2 DEF GoodReply
<1>4. GoodReply(w.msg, w.ran, new)
  BY Zenon, <1>1, <1>2, <1>3, GoodReplyAlike
<1>5. work' = [work EXCEPT ![c] = NoWork] /\ reply' = [reply EXCEPT ![c] = rep]
  BY Zenon DEF Finished, new
<1>6. rep.msg = w.msg /\ rep.ran = w.ran /\ rep.out = new
  BY Zenon
<1> HIDE DEF rep
<1>7. /\ DOMAIN work' = Conns /\ work'[c] = NoWork
      /\ \A d \in Conns : d # c => work'[d] = work[d]
  BY Zenon, <1>5, ChangedAt
<1>8. /\ DOMAIN reply' = Conns /\ reply'[c] = rep
      /\ \A d \in Conns : d # c => reply'[d] = reply[d]
  BY Zenon, <1>5, ChangedAt
<1> QED
  BY Zenon, <1>4, <1>6, <1>7, <1>8

\* Combining keeps what the responses say; signatures whose keys are there are renewed.
LEMMA CombinedIs ==
  ASSUME NEW m, m.related \in BOOLEAN, NEW keys \in [Sids -> Nat], NEW rs, Len(rs) \in Nat,
         \A i \in 1..Len(rs) : Made(m, keys, rs[i])
  PROVE /\ Len(Combined(keys, m.related, rs)) = Len(rs)
        /\ \A i \in 1..Len(rs) :
             /\ IsResponse(Combined(keys, m.related, rs)[i])
             /\ Alike(rs[i], Combined(keys, m.related, rs)[i])
             /\ NoLogoff(m) => Covers(Combined(keys, m.related, rs)[i])
<1> DEFINE put(i) == [rs[i] EXCEPT !.related = m.related, !.next = (i # Len(rs))]
<1>1. /\ Len(Combined(keys, m.related, rs)) = Len(rs)
      /\ \A i \in 1..Len(rs) : Combined(keys, m.related, rs)[i] =
           IF m.related \/ i # Len(rs) THEN ReSigned(keys, put(i)) ELSE put(i)
  BY SMTT(30) DEF Combined
<1>2. ASSUME NEW i \in 1..Len(rs)
      PROVE LET q == Combined(keys, m.related, rs)[i]
            IN IsResponse(q) /\ Alike(rs[i], q) /\ (NoLogoff(m) => Covers(q))
  <2>0. PICK r : r = rs[i]
    BY Zenon
  <2>1. Made(m, keys, r)
    BY Zenon, <2>0
  <2>2. IsResponse(r) /\ r.related = FALSE /\ r.next = FALSE
    BY SMTT(30), <2>1 DEF Made, IsResponse
  <2>3. PICK next, p : /\ next \in BOOLEAN /\ next = (i # Len(rs))
                       /\ p = [rs[i] EXCEPT !.related = m.related, !.next = next]
    <3>1. CASE i # Len(rs)
      <4>1. TRUE \in BOOLEAN /\ TRUE = (i # Len(rs))
        BY Zenon, <3>1
      <4> QED
        BY Zenon, <4>1
    <3>2. CASE ~(i # Len(rs))
      <4>1. FALSE \in BOOLEAN /\ FALSE = (i # Len(rs))
        BY Zenon, <3>2
      <4> QED
        BY Zenon, <4>1
    <3> QED
      BY Zenon, <3>1, <3>2
  <2>4. NoLogoff(m) /\ r.sig # Unsigned => r.sid \in Sids /\ keys[r.sid] # NoKey
    BY Zenon, <2>1 DEF Made
  <2>5. /\ IsResponse(p) /\ Alike(r, p) /\ p.sig = r.sig
        /\ m.related = FALSE /\ next = FALSE => p = r
    <3>1. p = [r EXCEPT !.related = m.related, !.next = next]
      BY Zenon, <2>0, <2>3
    <3>2. p = [op |-> r.op, status |-> r.status, sid |-> r.sid, tid |-> r.tid, fid |-> r.fid,
               credits |-> r.credits, related |-> m.related, next |-> next, sig |-> r.sig]
      BY Zenon, <2>2, <3>1 DEF IsResponse
    <3>3. IsResponse(p) /\ Alike(r, p) /\ p.sig = r.sig
      BY Zenon, <3>2 DEF IsResponse, Alike
    <3>4. m.related = FALSE /\ next = FALSE => p = r
      BY Zenon, <2>2, <3>2 DEF IsResponse
    <3> QED
      BY Zenon, <3>3, <3>4
  <2>6. p = put(i)
    BY Zenon, <2>3
  <2>7. CASE m.related \/ i # Len(rs)
    <3>1. Combined(keys, m.related, rs)[i] = ReSigned(keys, p)
      BY Zenon, <1>1, <2>6, <2>7
    <3>2. IsResponse(ReSigned(keys, p)) /\ Alike(p, ReSigned(keys, p))
      BY Zenon, <2>5, ReSignedIs
    <3>3. NoLogoff(m) => Covers(ReSigned(keys, p))
      BY Zenon, <2>4, <2>5, ReSignedIs DEF Alike
    <3> QED
      BY Zenon, <2>0, <2>5, <3>1, <3>2, <3>3 DEF Alike
  <2>8. CASE ~(m.related \/ i # Len(rs))
    <3>1. Combined(keys, m.related, rs)[i] = p
      BY Zenon, <1>1, <2>6, <2>8
    <3>2. m.related = FALSE /\ next = FALSE
      BY Zenon, <2>3, <2>8
    <3>3. Covers(r)
      BY Zenon, <2>1 DEF Covers, Made
    <3> QED
      BY Zenon, <2>0, <2>5, <3>1, <3>2, <3>3
  <2> QED
    BY Zenon, <2>7, <2>8
<1> QED
  BY Zenon, <1>1, <1>2

-------------------------------------------------------------------------------
(* The answer to a command. *)

\* Only a LOGOFF takes a key away.
KeysKept(m, old, keys) ==
  NoLogoff(m) => \A s \in Sids : old[s] # NoKey => keys[s] # NoKey

\* The response r to the command of w is one the handlers give.
Fits(w, keys, r, ok) ==
  /\ Made(w.msg, keys, r)
  /\ ok => /\ w.stage # "resolve" /\ ~Failed(r) /\ r.op = w.cmd.op
           /\ r.op = "create" => r.fid # 0
  /\ ~ok => r.status # "none"
  /\ w.stage # "resolve" => /\ w.cmd.op \notin OwnSession => r.sid = w.cmd.sid
                            /\ w.cmd.op \in FileOps => r.fid = w.cmd.fid

\* A response stays in the making while its key stays.
LEMMA MadeKept ==
  ASSUME NEW m, NEW old, NEW keys, NEW r, Made(m, old, r), KeysKept(m, old, keys)
  PROVE Made(m, keys, r)
  BY Zenon DEF Made, KeysKept

\* out is the list with the response r, perhaps signed, put at its end.
Extended(m, keys, list, r, out) ==
  /\ IsList(out) /\ Len(out) = Len(list) + 1
  /\ \A i \in 1..(Len(list) + 1) : Made(m, keys, out[i])
  /\ \A i \in 1..Len(list) : out[i] = list[i]
  /\ Alike(r, out[Len(list) + 1])

\* The responses collected so far, and the new one at the end.
LEMMA AnswerList ==
  ASSUME NEW m, NEW old, NEW list, IsList(list), Len(list) \in Nat,
         \A i \in 1..Len(list) : Made(m, old, list[i]),
         NEW keys \in [Sids -> Nat], KeysKept(m, old, keys), NEW r, Made(m, keys, r)
  PROVE Extended(m, keys, list, r, Append(list, MaybeSigned(keys, r)))
<1>0. PICK out : out = Append(list, MaybeSigned(keys, r))
  BY Zenon
<1>1. /\ IsList(out) /\ Len(out) = Len(list) + 1 /\ out[Len(list) + 1] = MaybeSigned(keys, r)
      /\ \A i \in 1..Len(list) : out[i] = list[i]
  BY SMTT(30), <1>0, Appended
<1>2. \A i \in 1..(Len(list) + 1) : i \in 1..Len(list) \/ i = Len(list) + 1
  BY SMTT(30)
<1>3. Made(m, keys, MaybeSigned(keys, r)) /\ Alike(r, MaybeSigned(keys, r))
  BY Zenon, MadeSigned
<1>4. \A i \in 1..Len(list) : Made(m, keys, list[i])
  BY Zenon, MadeKept
<1>5. \A i \in 1..(Len(list) + 1) : Made(m, keys, out[i])
  BY Zenon, <1>1, <1>2, <1>3, <1>4
<1> QED
  BY Zenon, <1>0, <1>1, <1>3, <1>5 DEF Extended

\* Every command that ran is linked to the ones before it, the last one included.
LEMMA AnswerLinked ==
  ASSUME NEW says, NEW w, NEW old, NEW available, InWork(says, w, old, available),
         w.msg.related, Len(w.msg.cmds) \in Nat,
         NEW keys, NEW r, NEW ok, Fits(w, keys, r, ok),
         NEW out, \A i \in 1..(w.ctx.index - 1) : out[i] = w.out[i], Alike(r, out[w.ctx.index]),
         NEW j \in w.ran
  PROVE Linked(w.msg, out, j)
<1> DEFINE n == w.ctx.index
           m == w.msg
<1>1. /\ n \in 1..Len(m.cmds) /\ w.ran \subseteq 1..n /\ Chained(w)
      /\ w.stage = "resolve" => n \notin w.ran
      /\ w.stage # "resolve" => UnderWay(w, available)
  BY Zenon DEF InWork
<1>2. n \in Nat \ {0} /\ j \in Nat \ {0} /\ (j < n \/ j = n)
  BY SMTT(30), <1>1
<1>3. CASE j < n
  <2>1. Linked(m, w.out, j)
    BY Zenon, <1>1, <1>3 DEF Chained
  <2>2. \A i \in 1..j : i \in 1..(n - 1)
    BY SMTT(30), <1>2, <1>3
  <2>3. \A i \in 1..j : Alike(w.out[i], out[i])
    BY Zenon, <2>2 DEF Alike
  <2> QED
    BY Zenon, <1>2, <2>1, <2>3, LinkedAlike
<1>4. CASE j = n
  <2>1. UnderWay(w, available) /\ w.stage # "resolve"
    BY Zenon, <1>1, <1>4
  <2>2. /\ w.ctx.error = "none" /\ w.cmd.op = m.cmds[n].op
        /\ m.cmds[n].sid = Sentinel => w.cmd.sid = m.cmds[1].sid
        /\ m.cmds[n].op \in FileOps /\ w.ctx.fid # 0 => w.cmd.fid = w.ctx.fid
    BY Zenon, <2>1 DEF UnderWay
  <2>3. \A i \in 1..(n - 1) : ~Failed(out[i])
    BY Zenon, <1>1, <2>2 DEF Chained
  <2>4. m.cmds[n].sid = Sentinel /\ m.cmds[n].op \notin OwnSession => out[n].sid = m.cmds[1].sid
    BY Zenon, <2>1, <2>2 DEF Fits, Alike
  <2>5. ASSUME NEW i \in 1..(n - 1), OpensFor(m, i, n)
        PROVE out[n].fid = out[i].fid
    <3>1. w.ctx.fid = w.out[i].fid /\ w.ctx.fid # 0
      BY Zenon, <1>1, <2>2, <2>5 DEF Chained, OpensFor
    <3>2. w.cmd.op \in FileOps /\ w.cmd.fid = w.ctx.fid
      BY Zenon, <2>2, <2>5, <3>1 DEF OpensFor
    <3> QED
      BY Zenon, <2>1, <2>5, <3>1, <3>2 DEF Fits, Alike
  <2> QED
    BY Zenon, <1>4, <2>3, <2>4, <2>5 DEF Linked
<1> QED
  BY Zenon, <1>2, <1>3, <1>4

\* The context after an answer that is not the last one.
After(w, r, ok) ==
  [index |-> w.ctx.index + 1,
   sid |-> IF w.ctx.index = 1 /\ ok THEN w.cmd.sid ELSE w.ctx.sid,
   tid |-> IF w.ctx.index = 1 /\ ok THEN w.cmd.tid ELSE w.ctx.tid,
   fid |-> IF ok /\ r.op = "create" THEN r.fid ELSE w.ctx.fid,
   set |-> w.ctx.set \/ (w.ctx.index = 1 /\ ok),
   error |-> IF ok THEN w.ctx.error ELSE r.status]

Moved(w, ctx, out) == [w EXCEPT !.ctx = ctx, !.out = out, !.stage = "resolve"]

\* The chain goes on with it.
LEMMA AnswerChained ==
  ASSUME NEW says, NEW w, NEW old, NEW available, InWork(says, w, old, available),
         w.msg.related, Len(w.msg.cmds) \in Nat,
         NEW keys, NEW r, NEW ok \in BOOLEAN, Fits(w, keys, r, ok),
         NEW out, \A i \in 1..(w.ctx.index - 1) : out[i] = w.out[i], Alike(r, out[w.ctx.index]),
         NEW v, v.ctx = After(w, r, ok), v.out = out, v.msg = w.msg, v.ran = w.ran
  PROVE Chained(v)
<1> DEFINE n == w.ctx.index
           m == w.msg
           x == After(w, r, ok)
<1>1. /\ n \in 1..Len(m.cmds) /\ w.ran \subseteq 1..n /\ Chained(w)
      /\ w.stage # "resolve" => UnderWay(w, available)
      /\ n = 1 => w.ctx = Context
  BY Zenon DEF InWork
<1>2. n \in Nat \ {0} /\ (n + 1) - 1 = n /\ \A i \in 1..n : i \in 1..(n - 1) \/ i = n
  BY SMTT(30), <1>1
<1>3. /\ x.index = n + 1
      /\ x.sid = (IF n = 1 /\ ok THEN w.cmd.sid ELSE w.ctx.sid)
      /\ x.fid = (IF ok /\ r.op = "create" THEN r.fid ELSE w.ctx.fid)
      /\ x.set = (w.ctx.set \/ (n = 1 /\ ok))
      /\ x.error = (IF ok THEN w.ctx.error ELSE r.status)
  BY Zenon DEF After
<1> HIDE DEF x
<1>4. ok => w.stage # "resolve" /\ UnderWay(w, available)
  BY Zenon, <1>1 DEF Fits
<1>5. x.set => x.sid = m.cmds[1].sid
  <2>1. CASE n = 1 /\ ok
    BY Zenon, <1>3, <1>4, <2>1 DEF UnderWay
  <2>2. CASE ~(n = 1 /\ ok)
    BY Zenon, <1>1, <1>3, <2>2 DEF Chained
  <2> QED
    BY Zenon, <2>1, <2>2
<1>6. ASSUME x.error = "none", NEW i \in 1..n
      PROVE /\ ~Failed(out[i])
            /\ (m.cmds[i].op = "create" /\ \A k \in (i + 1)..n : m.cmds[k].op # "create")
               => x.fid = out[i].fid /\ x.fid # 0
  <2>1. ok /\ w.ctx.error = "none"
    BY Zenon, <1>3, <1>6 DEF Fits
  <2>2. r.op = w.cmd.op /\ w.cmd.op = m.cmds[n].op /\ ~Failed(r)
    BY Zenon, <1>4, <2>1 DEF Fits, UnderWay
  <2>3. CASE i = n
    <3>1. ~Failed(out[i])
      BY Zenon, <2>2, <2>3 DEF Failed, Alike
    <3>2. m.cmds[i].op = "create" => x.fid = out[i].fid /\ x.fid # 0
      BY ZenonT(60), <1>3, <2>1, <2>2, <2>3 DEF Fits, Alike
    <3> QED
      BY Zenon, <3>1, <3>2
  <2>4. CASE i \in 1..(n - 1)
    <3>1. ~Failed(out[i])
      BY Zenon, <1>1, <2>1, <2>4 DEF Chained
    <3>2. ASSUME m.cmds[i].op = "create", \A k \in (i + 1)..n : m.cmds[k].op # "create"
          PROVE x.fid = out[i].fid /\ x.fid # 0
      <4>1. n \in (i + 1)..n /\ \A k \in (i + 1)..(n - 1) : k \in (i + 1)..n
        BY SMTT(30), <1>2, <2>4
      <4>2. w.ctx.fid = w.out[i].fid /\ w.ctx.fid # 0
        BY ZenonT(60), <1>1, <2>1, <2>4, <3>2, <4>1 DEF Chained
      <4>3. r.op # "create"
        BY Zenon, <2>2, <3>2, <4>1
      <4> QED
        BY Zenon, <1>3, <2>4, <4>2, <4>3
    <3> QED
      BY Zenon, <3>1, <3>2
  <2> QED
    BY Zenon, <1>2, <2>3, <2>4
<1>7. \A j \in w.ran : Linked(m, out, j)
  BY Zenon, AnswerLinked
<1>8. v.ctx.index - 1 = n /\ v.ctx = x
  BY ZenonT(60), <1>2, <1>3 DEF x
<1>9. v.ctx.set => v.ctx.sid = v.msg.cmds[1].sid
  BY Zenon, <1>5, <1>8
<1>10. ASSUME v.ctx.error = "none", NEW i \in 1..(v.ctx.index - 1)
       PROVE /\ ~Failed(v.out[i])
             /\ (/\ v.msg.cmds[i].op = "create"
                 /\ \A k \in (i + 1)..(v.ctx.index - 1) : v.msg.cmds[k].op # "create")
                => v.ctx.fid = v.out[i].fid /\ v.ctx.fid # 0
  <2>1. x.error = "none" /\ i \in 1..n /\ (i + 1)..(v.ctx.index - 1) = (i + 1)..n
    BY Zenon, <1>8, <1>10
  <2>2. /\ ~Failed(out[i])
        /\ (m.cmds[i].op = "create" /\ \A k \in (i + 1)..n : m.cmds[k].op # "create")
           => x.fid = out[i].fid /\ x.fid # 0
    BY Zenon, <1>6, <2>1
  <2> QED
    BY ZenonT(60), <1>8, <2>1, <2>2
<1>11. \A j \in v.ran : j < v.ctx.index => Linked(v.msg, v.out, j)
  BY Zenon, <1>7
<1> QED
  BY Zenon, <1>9, <1>10, <1>11 DEF Chained

\* What the assumption on messages says of a message in work.
GoodMessage(m) ==
  /\ m.related \in BOOLEAN /\ Len(m.cmds) \in Nat \ {0}
  /\ \A i \in 1..Len(m.cmds) : WellFormed(m.cmds[i])

\* After the result of a command the message goes on, or it is answered well.
Answered(c, says, keys) ==
  /\ DOMAIN work' = Conns /\ DOMAIN reply' = Conns
  /\ \A d \in Conns : d # c => work'[d] = work[d] /\ reply'[d] = reply[d]
  /\ work'[c] # NoWork => \A left : InWork(says, work'[c], keys, left)
  /\ reply'[c] = reply[c] \/ GoodReply(reply'[c].msg, reply'[c].ran, reply'[c].out)

\* What Answer makes of it.
LEMMA AnswerIs ==
  ASSUME NEW c \in Conns, DOMAIN work = Conns, DOMAIN reply = Conns,
         NEW says, NEW w, NEW old, NEW available, InWork(says, w, old, available),
         GoodMessage(w.msg),
         NEW keys \in [Sids -> Nat], KeysKept(w.msg, old, keys),
         NEW r, NEW ok \in BOOLEAN, Fits(w, keys, r, ok), Answer(c, w, keys, r, ok)
  PROVE Answered(c, says, keys)
<1> SUFFICES /\ DOMAIN work' = Conns /\ DOMAIN reply' = Conns
             /\ \A d \in Conns : d # c => work'[d] = work[d] /\ reply'[d] = reply[d]
             /\ work'[c] # NoWork => \A left : InWork(says, work'[c], keys, left)
             /\ reply'[c] = reply[c] \/ GoodReply(reply'[c].msg, reply'[c].ran, reply'[c].out)
  BY Zenon DEF Answered
<1> DEFINE n == w.ctx.index
           m == w.msg
<1>0. PICK out : out = Append(w.out, MaybeSigned(keys, r))
  BY Zenon
<1>1. /\ n \in 1..Len(m.cmds) /\ w.ran \subseteq 1..n /\ Len(m.cmds) \in Nat /\ m.related \in BOOLEAN
      /\ w.msg \in says \ {EOF} /\ Keyed(w.setup)
      /\ w = [stage |-> w.stage, msg |-> w.msg, ctx |-> w.ctx, cmd |-> w.cmd, out |-> w.out,
              ran |-> w.ran, setup |-> w.setup, id |-> w.id, user |-> w.user]
  BY Zenon DEF InWork, GoodMessage
<1>2. /\ IsList(out) /\ Len(out) = n /\ n \in Nat \ {0}
      /\ \A i \in 1..n : Made(m, keys, out[i])
      /\ \A i \in 1..(n - 1) : out[i] = w.out[i]
      /\ Alike(r, out[n])
  <2>1. /\ IsList(w.out) /\ Len(w.out) = n - 1 /\ Made(m, keys, r)
        /\ \A i \in 1..(n - 1) : Made(m, old, w.out[i])
    BY Zenon DEF InWork, Fits
  <2>2. n \in Nat \ {0} /\ n - 1 \in Nat /\ (n - 1) + 1 = n
    <3>1. n \in 1..Len(m.cmds)
      BY Zenon, <1>1
    <3> QED
      BY SMTT(30), <3>1
  <2>3. Len(w.out) \in Nat /\ \A i \in 1..Len(w.out) : Made(m, old, w.out[i])
    BY Zenon, <2>1, <2>2
  <2>4. Extended(m, keys, w.out, r, Append(w.out, MaybeSigned(keys, r)))
    BY Zenon, <2>1, <2>3, AnswerList
  <2>5. Extended(m, keys, w.out, r, out)
    BY Zenon, <1>0, <2>4
  <2>6. Len(w.out) + 1 = n
    BY Zenon, <2>1, <2>2
  <2> QED
    BY Zenon, <2>1, <2>2, <2>5, <2>6 DEF Extended
<1>3. m.related => \A j \in w.ran : Linked(m, out, j)
  BY Zenon, <1>1, <1>2, AnswerLinked
<1>4. w.ran \subseteq 1..Len(m.cmds)
  BY SMTT(30), <1>1
<1>5. /\ \A i \in 1..n : IsResponse(out[i]) /\ Covers(out[i])
      /\ Coverable(m) => \A i \in 1..n : out[i].op # "negotiate" /\ ~Silent(out[i]) => out[i].credits >= 1
  <2>1. ASSUME NEW i \in 1..n PROVE IsResponse(out[i]) /\ Covers(out[i])
    <3>0. PICK q : q = out[i]
      BY Zenon
    <3>1. Made(m, keys, q)
      BY Zenon, <1>2, <3>0
    <3>2. IsResponse(q)
      BY Zenon, <3>1 DEF Made, IsResponse
    <3>3. Covers(q)
      BY Zenon, <3>1 DEF Made, Covers
    <3> QED
      BY Zenon, <3>0, <3>2, <3>3
  <2>2. Coverable(m) => \A i \in 1..n : out[i].op # "negotiate" /\ ~Silent(out[i]) => out[i].credits >= 1
    BY Zenon, <1>2 DEF Made
  <2> QED
    BY Zenon, <2>1, <2>2
<1>6. CASE Len(m.cmds) = 1
  <2>1. Finished(c, w, keys, out)
    BY SMTT(30), <1>0, <1>6 DEF Answer
  <2>2. n = 1
    BY SMTT(30), <1>1, <1>6
  <2>3. ~(Len(out) > 1)
    BY SMTT(30), <1>2, <2>2
  <2>4. GoodReply(m, w.ran, out)
    BY Zenon, <1>2, <1>5, <2>3 DEF GoodReply
  <2>5. Len(out) \in Nat /\ \A i \in 1..Len(out) : IsResponse(out[i])
    BY Zenon, <1>2, <1>5 DEF IsList
  <2> QED
    BY Zenon, <1>1, <1>4, <2>1, <2>4, <2>5, FinishedIs
<1>7. CASE Len(m.cmds) > 1 /\ n = Len(m.cmds)
  <2>0. PICK q : q = Combined(keys, m.related, out)
    BY Zenon
  <2>1. Finished(c, w, keys, q)
    BY SMTT(30), <1>0, <1>1, <1>7, <2>0 DEF Answer
  <2>2. Len(out) \in Nat /\ \A i \in 1..Len(out) : Made(m, keys, out[i])
    BY Zenon, <1>2 DEF IsList
  <2>3. /\ Len(q) = Len(out)
        /\ \A i \in 1..Len(out) : /\ IsResponse(q[i]) /\ Alike(out[i], q[i])
                                  /\ NoLogoff(m) => Covers(q[i])
    BY SMTT(30), <1>1, <2>0, <2>2, CombinedIs
  <2>4. GoodReply(m, w.ran, out)
    BY Zenon, <1>2, <1>3, <1>5 DEF GoodReply
  <2>5. GoodReply(m, w.ran, q)
    BY Zenon, <1>1, <1>4, <2>3, <2>4, GoodReplyAlike
  <2>6. Len(q) \in Nat /\ \A i \in 1..Len(q) : IsResponse(q[i])
    BY Zenon, <2>2, <2>3
  <2> QED
    BY Zenon, <1>1, <1>4, <2>1, <2>5, <2>6, FinishedIs
<1>8. CASE Len(m.cmds) # 1 /\ ~(Len(m.cmds) > 1 /\ n = Len(m.cmds))
  <2>0. PICK v : v = Moved(w, After(w, r, ok), out)
    BY Zenon
  <2>1. work' = [work EXCEPT ![c] = v] /\ reply' = reply
    BY Zenon, <1>0, <1>8, <2>0 DEF Answer, Moved, After
  <2>2. v = [stage |-> "resolve", msg |-> m, ctx |-> After(w, r, ok), cmd |-> w.cmd, out |-> out,
             ran |-> w.ran, setup |-> w.setup, id |-> w.id, user |-> w.user]
    BY Zenon, <1>1, <2>0 DEF Moved
  <2>3. /\ v.stage = "resolve" /\ v.msg = m /\ v.ctx = After(w, r, ok) /\ v.out = out /\ v.ran = w.ran
        /\ v.setup = w.setup
        /\ v = [stage |-> v.stage, msg |-> v.msg, ctx |-> v.ctx, cmd |-> v.cmd, out |-> v.out,
                ran |-> v.ran, setup |-> v.setup, id |-> v.id, user |-> v.user]
    BY Zenon, <2>2
  <2>4. v.ctx.index = n + 1
    BY SMTT(30), <2>3 DEF After
  <2>5. /\ n + 1 \in 1..Len(m.cmds) /\ n + 1 # 1 /\ (n + 1) - 1 = n
        /\ n + 1 \notin w.ran /\ w.ran \subseteq 1..(n + 1)
    <3>1. n \in 1..Len(m.cmds) /\ Len(m.cmds) \in Nat
      BY Zenon, <1>1
    <3>2. /\ n + 1 \in 1..Len(m.cmds) /\ n + 1 # 1 /\ (n + 1) - 1 = n
          /\ n + 1 \notin 1..n /\ \A i \in 1..n : i \in 1..(n + 1)
      <4>1. PICK k, i : k \in Nat /\ i \in 1..k /\ k = Len(m.cmds) /\ i = n
        BY Zenon, <3>1
      <4>2. k # 1 /\ ~(k > 1 /\ i = k)
        BY Zenon, <1>8, <4>1
      <4>3. /\ i + 1 \in 1..k /\ i + 1 # 1 /\ (i + 1) - 1 = i
            /\ i + 1 \notin 1..i /\ \A j \in 1..i : j \in 1..(i + 1)
        <5>1. k \in Nat /\ i \in 1..k
          BY Zenon, <4>1
        <5> QED
          BY SMTT(30), <4>2, <5>1
      <4> QED
        BY Zenon, <4>1, <4>3
    <3> QED
      BY Zenon, <1>1, <3>2
  <2>6. m.related => Chained(v)
    BY ZenonT(60), <1>1, <1>2, <2>3, AnswerChained
  <2>7. v.stage # "create" /\ v.stage \in {"resolve", "session", "tree", "run", "create"}
    BY Zenon, <2>3
  <2>8. ASSUME NEW left PROVE InWork(says, v, keys, left)
    BY Zenon, <1>1, <1>2, <2>3, <2>4, <2>5, <2>6, <2>7 DEF InWork
  <2> QED
    BY Zenon, <2>1, <2>8, ChangedAt
<1> QED
  BY Zenon, <1>6, <1>7, <1>8

-------------------------------------------------------------------------------
(* Steps.  What a step of connection c has to keep. *)

\* The messages of the clients are well formed.
LEMMA SaidIsGood ==
  ASSUME mode \in Modes, NEW c \in Conns, NEW m \in Says(mode.name, c) \ {EOF}
  PROVE GoodMessage(m)
  BY Zenon, MessagesAssumption DEF GoodMessage

\* Everything else is as it was.
Others(c) ==
  /\ mode' = mode /\ wire' = wire /\ buffer' = buffer /\ breaks' = breaks
  /\ DOMAIN conn' = Conns /\ \A d \in Conns : d # c => conn'[d] = conn[d]
  /\ StoreInv(store')
  /\ ConnInv(conn'[c]) /\ conn'[c].up = conn[c].up

Paid(c) == credits' \in [Conns -> 0..MaxCredits] /\ \A d \in Conns : d # c => credits'[d] = credits[d]

\* A step that answers.
LEMMA Answers ==
  ASSUME ConnectionInv, Replies, NEW c \in Conns, work[c] # NoWork, Others(c), Paid(c),
         KeysKept(work[c].msg, conn[c].keys, conn'[c].keys),
         NEW r, NEW ok \in BOOLEAN, NEW keys, keys = conn'[c].keys,
         Fits(work[c], keys, r, ok), Answer(c, work[c], keys, r, ok)
  PROVE ConnectionInv' /\ Replies'
<1>0. PICK w, says, old, left : /\ w = work[c] /\ says = Says(mode.name, c)
                                /\ old = conn[c].keys /\ left = credits'[c]
  BY Zenon
<1>1. /\ DOMAIN work = Conns /\ DOMAIN reply = Conns /\ mode \in Modes
      /\ InWork(says, w, old, credits[c]) /\ conn[c].up
      /\ keys \in [Sids -> Nat] /\ KeysKept(w.msg, old, keys)
      /\ Fits(w, keys, r, ok) /\ Answer(c, w, keys, r, ok)
  BY Zenon, <1>0 DEF ConnectionInv, ConnInv, Others
<1>2. GoodMessage(w.msg)
  BY Zenon, <1>0, <1>1, SaidIsGood DEF InWork
<1>3. /\ DOMAIN work' = Conns /\ DOMAIN reply' = Conns
      /\ \A d \in Conns : d # c => work'[d] = work[d] /\ reply'[d] = reply[d]
      /\ work'[c] # NoWork => InWork(says, work'[c], keys, left)
      /\ reply'[c] = reply[c] \/ GoodReply(reply'[c].msg, reply'[c].ran, reply'[c].out)
  <2>1. Answered(c, says, keys)
    BY Zenon, <1>1, <1>2, AnswerIs
  <2> QED
    BY Zenon, <2>1 DEF Answered
<1>4. Replies'
  BY Zenon, <1>3 DEF Replies
<1>5. ASSUME NEW d \in Conns
      PROVE /\ ConnInv(conn'[d])
            /\ wire'[d] \in Seq(Says(mode'.name, d)) /\ buffer'[d] \in Seq(Says(mode'.name, d) \ {EOF})
            /\ work'[d] # NoWork =>
                 conn'[d].up /\ InWork(Says(mode'.name, d), work'[d], conn'[d].keys, credits'[d])
  <2>1. CASE d = c
    BY Zenon, <1>0, <1>1, <1>3, <2>1 DEF ConnectionInv, Others, Paid
  <2>2. CASE d # c
    BY Zenon, <1>3, <2>2 DEF ConnectionInv, Others, Paid
  <2> QED
    BY Zenon, <2>1, <2>2
<1>6. /\ mode' \in Modes /\ DOMAIN conn' = Conns /\ DOMAIN wire' = Conns /\ DOMAIN buffer' = Conns
      /\ credits' \in [Conns -> 0..MaxCredits] /\ breaks' \in [Conns -> 0..MaxBreaks]
      /\ StoreInv(store')
  BY Zenon DEF ConnectionInv, Others, Paid
<1>7. ConnectionInv'
  BY Zenon, <1>3, <1>5, <1>6 DEF ConnectionInv
<1> QED
  BY Zenon, <1>4, <1>7

\* A step that moves the message on.
LEMMA Moves ==
  ASSUME ConnectionInv, Replies, NEW c \in Conns, work[c] # NoWork, Others(c), Paid(c), reply' = reply,
         conn'[c].keys = conn[c].keys,
         NEW v, work' = [work EXCEPT ![c] = v],
         InWork(Says(mode.name, c), v, conn[c].keys, credits'[c])
  PROVE ConnectionInv' /\ Replies'
<1>1. /\ DOMAIN work' = Conns /\ work'[c] = v
      /\ \A d \in Conns : d # c => work'[d] = work[d]
  BY Zenon, ChangedAt DEF ConnectionInv
<1>2. ASSUME NEW d \in Conns
      PROVE /\ ConnInv(conn'[d])
            /\ wire'[d] \in Seq(Says(mode'.name, d)) /\ buffer'[d] \in Seq(Says(mode'.name, d) \ {EOF})
            /\ work'[d] # NoWork =>
                 conn'[d].up /\ InWork(Says(mode'.name, d), work'[d], conn'[d].keys, credits'[d])
  <2>1. CASE d = c
    BY Zenon, <1>1, <2>1 DEF ConnectionInv, Others, Paid
  <2>2. CASE d # c
    BY Zenon, <1>1, <2>2 DEF ConnectionInv, Others, Paid
  <2> QED
    BY Zenon, <2>1, <2>2
<1>3. /\ mode' \in Modes /\ DOMAIN conn' = Conns /\ DOMAIN wire' = Conns /\ DOMAIN buffer' = Conns
      /\ credits' \in [Conns -> 0..MaxCredits] /\ breaks' \in [Conns -> 0..MaxBreaks]
      /\ StoreInv(store') /\ DOMAIN reply' = Conns
  BY Zenon DEF ConnectionInv, Others, Paid
<1>4. ConnectionInv'
  BY Zenon, <1>1, <1>2, <1>3 DEF ConnectionInv
<1>5. Replies'
  BY Zenon DEF Replies
<1> QED
  BY Zenon, <1>4, <1>5

-------------------------------------------------------------------------------
(* Credits. *)

\* CreditManager::consume: what remains is below the maximum if the charge could be taken.
LEMMA ConsumedIs ==
  ASSUME NEW available \in 0..MaxCredits, NEW charge \in Nat
  PROVE /\ Consumed(available, charge) \in 0..MaxCredits
        /\ charge <= MaxCredits => Consumed(available, charge) < MaxCredits
  BY SMTT(30), CreditsAssumption DEF Consumed, AtLeast

\* CreditManager::calculate_grant: at least one credit below the maximum, and never more
\* than fit.
LEMMA GrantIs ==
  ASSUME NEW available \in 0..MaxCredits, NEW ask \in Nat
  PROVE /\ CalculateGrant(available, ask) \in Nat
        /\ available + CalculateGrant(available, ask) \in 0..MaxCredits
        /\ available < MaxCredits => CalculateGrant(available, ask) >= 1
<1> DEFINE target == MaxCredits \div 2
           base == IF available < target THEN 1 + (target - available) \div 4 ELSE 1
<1>1. MaxCredits \in Nat /\ target \in Nat /\ available \in Nat /\ available <= MaxCredits
  BY SMTT(30), CreditsAssumption
<1>2. base \in Nat /\ base >= 1
  <2>1. CASE available < target
    <3>1. target - available \in Nat
      BY SMTT(30), <1>1, <2>1
    <3>2. (target - available) \div 4 \in Nat
      BY SMTT(30), <3>1
    <3> QED
      BY SMTT(30), <2>1, <3>2
  <2>2. CASE ~(available < target)
    BY SMTT(30), <2>2
  <2> QED
    BY Zenon, <2>1, <2>2
<1>3. CalculateGrant(available, ask) = AtMost(AtLeast(base, ask), MaxCredits - available)
  BY Zenon DEF CalculateGrant
<1> HIDE DEF base
<1> QED
  BY SMTT(30), <1>1, <1>2, <1>3 DEF AtMost, AtLeast

\* A response that is granted credits.
LEMMA GrantedWell ==
  ASSUME ConnectionInv, NEW c \in Conns, work[c] # NoWork, work[c].stage # "resolve",
         Granted(c, work[c])
  PROVE /\ Paid(c)
        /\ Coverable(work[c].msg) /\ work[c].cmd.op # "negotiate" => Grant(c, work[c]) >= 1
<1>0. PICK w, n : w = work[c] /\ n = credits[c]
  BY Zenon
<1>1. /\ InWork(Says(mode.name, c), w, conn[c].keys, n)
      /\ credits \in [Conns -> 0..MaxCredits]
  BY Zenon, <1>0 DEF ConnectionInv
<1>2. UnderWay(w, n) /\ w.ctx.index \in 1..Len(w.msg.cmds)
  BY Zenon, <1>0, <1>1 DEF InWork
<1>3. n \in 0..MaxCredits /\ w.cmd.ask \in Nat
  BY Zenon, <1>0, <1>1, <1>2 DEF UnderWay, WellFormed
<1>4. Grant(c, w) = CalculateGrant(n, w.cmd.ask)
  BY Zenon, <1>0 DEF Grant
<1>5. n + Grant(c, w) \in 0..MaxCredits /\ (n < MaxCredits => Grant(c, w) >= 1)
  BY Zenon, <1>3, <1>4, GrantIs
<1>6. credits' = [credits EXCEPT ![c] = n + Grant(c, w)]
  BY Zenon, <1>0, <1>1 DEF Granted
<1>7. Paid(c)
  BY Zenon, <1>1, <1>5, <1>6 DEF Paid
<1>8. Coverable(w.msg) /\ w.cmd.op # "negotiate" => n < MaxCredits
  BY Zenon, <1>2 DEF UnderWay, Coverable
<1> QED
  BY Zenon, <1>0, <1>5, <1>7, <1>8

\* A response of these fields, before it is signed or combined.
Plain(r, op, status, sid, fid, granted) ==
  /\ IsResponse(r) /\ r.related = FALSE /\ r.next = FALSE /\ r.sig = Unsigned
  /\ r.op = op /\ r.status = status /\ r.sid = sid /\ r.fid = fid /\ r.credits = granted

\* A response as the handlers build it.
LEMMA ResponseIs ==
  ASSUME NEW cmd, NEW status, NEW sid, NEW tid, NEW fid, NEW granted
  PROVE Plain(Response(cmd, status, sid, tid, fid, granted), cmd.op, status, sid, fid, granted)
  BY Zenon DEF Plain, Response, IsResponse

\* An error response grants one credit.
LEMMA ErrorIs ==
  ASSUME NEW cmd, NEW status
  PROVE Plain(ErrorResponse(cmd, status), cmd.op, status, cmd.sid, cmd.fid, 1)
  BY Zenon, ResponseIs DEF ErrorResponse

\* A response is one in the making, if it grants what it should.
LEMMA UnsignedMade ==
  ASSUME NEW m, NEW keys, NEW r, NEW op, NEW status, NEW sid, NEW fid, NEW granted,
         Plain(r, op, status, sid, fid, granted),
         Coverable(m) /\ op # "negotiate" /\ status # "silent" => granted >= 1
  PROVE Made(m, keys, r)
<1>1. r = [op |-> r.op, status |-> r.status, sid |-> r.sid, tid |-> r.tid, fid |-> r.fid,
           credits |-> r.credits, related |-> FALSE, next |-> FALSE, sig |-> r.sig]
  BY Zenon DEF IsResponse, Plain
<1>2. r.status = "silent" => Silent(r)
  BY Zenon DEF Silent
<1> QED
  BY Zenon, <1>1, <1>2 DEF Made, Plain

\* An error response is one in the making.
LEMMA ErrorMade ==
  ASSUME NEW m, NEW keys, NEW cmd, NEW status
  PROVE Made(m, keys, ErrorResponse(cmd, status))
<1>1. 1 >= 1
  BY SMTT(30)
<1> QED
  BY Zenon, <1>1, ErrorIs, UnsignedMade

\* A handler that answers with success.
LEMMA SucceedsWell ==
  ASSUME ConnectionInv, Replies, NEW c \in Conns, work[c] # NoWork, work[c].stage # "resolve",
         Others(c), KeysKept(work[c].msg, conn[c].keys, conn'[c].keys),
         NEW keys, keys = conn'[c].keys, NEW status \in {"ok", "more"}, NEW sid, NEW tid, NEW fid,
         work[c].cmd.op \notin OwnSession => sid = work[c].cmd.sid,
         work[c].cmd.op \in FileOps => fid = work[c].cmd.fid,
         work[c].cmd.op = "create" => fid # 0,
         Granted(c, work[c]),
         Answer(c, work[c], keys, Response(work[c].cmd, status, sid, tid, fid, Grant(c, work[c])), TRUE)
  PROVE ConnectionInv' /\ Replies'
<1>0. PICK w, r : w = work[c] /\ r = Response(w.cmd, status, sid, tid, fid, Grant(c, w))
  BY Zenon
<1>1. Paid(c) /\ (Coverable(w.msg) /\ w.cmd.op # "negotiate" => Grant(c, w) >= 1)
  BY Zenon, <1>0, GrantedWell
<1>2. /\ Made(w.msg, keys, r) /\ r.op = w.cmd.op /\ r.status = status /\ r.sid = sid /\ r.fid = fid
  <2>1. Plain(Response(w.cmd, status, sid, tid, fid, Grant(c, w)), w.cmd.op, status, sid, fid, Grant(c, w))
    BY Zenon, ResponseIs
  <2>2. Plain(r, w.cmd.op, status, sid, fid, Grant(c, w))
    BY Zenon, <1>0, <2>1
  <2>3. Made(w.msg, keys, r)
    BY Zenon, <1>1, <2>2, UnsignedMade
  <2> QED
    BY Zenon, <2>2, <2>3 DEF Plain
<1>3. ~Failed(r)
  BY Zenon, <1>2 DEF Failed
<1>4. Fits(w, keys, r, TRUE)
  BY Zenon, <1>0, <1>2, <1>3 DEF Fits
<1>5. Fits(work[c], keys, r, TRUE) /\ Answer(c, work[c], keys, r, TRUE)
  BY Zenon, <1>0, <1>4
<1> QED
  BY Zenon, <1>1, <1>5, Answers

\* A handler that answers with an error.
LEMMA FailsWell ==
  ASSUME ConnectionInv, Replies, NEW c \in Conns, work[c] # NoWork, work[c].stage # "resolve",
         Others(c), credits' = credits, conn'[c].keys = conn[c].keys,
         NEW status, status # "none", Fails(c, work[c], status)
  PROVE ConnectionInv' /\ Replies'
<1>0. PICK w, r, keys : w = work[c] /\ r = ErrorResponse(w.cmd, status) /\ keys = conn[c].keys
  BY Zenon
<1>1. Paid(c)
  BY Zenon DEF Paid, ConnectionInv
<1>2. KeysKept(work[c].msg, conn[c].keys, conn'[c].keys)
  BY Zenon DEF KeysKept
<1>3. Made(w.msg, keys, r) /\ r.status = status /\ r.sid = w.cmd.sid /\ r.fid = w.cmd.fid
  <2>1. /\ Made(w.msg, keys, ErrorResponse(w.cmd, status))
        /\ Plain(ErrorResponse(w.cmd, status), w.cmd.op, status, w.cmd.sid, w.cmd.fid, 1)
    BY Zenon, ErrorMade, ErrorIs
  <2> QED
    BY Zenon, <1>0, <2>1 DEF Plain
<1>4. Fits(w, keys, r, FALSE)
  BY Zenon, <1>3 DEF Fits
<1>5. Fits(work[c], keys, r, FALSE) /\ Answer(c, work[c], keys, r, FALSE) /\ keys = conn'[c].keys
  BY Zenon, <1>0, <1>4 DEF Fails
<1> QED
  BY Zenon, <1>1, <1>2, <1>5, Answers

-------------------------------------------------------------------------------
(* The handlers, one lemma each. *)

\* A connection whose work has another stage than idle is at work.
LEMMA AtWork ==
  ASSUME NEW c, work[c].stage # "idle"
  PROVE work[c] # NoWork
  BY SMTT(30) DEF NoWork

LEMMA RunsIs ==
  ASSUME NEW c, NEW op, Running(c, op)
  PROVE work[c] # NoWork /\ work[c].stage # "resolve" /\ work[c].cmd.op = op
  BY Zenon, AtWork DEF Running

\* Connections and store as they were.
LEMMA SameOthers ==
  ASSUME ConnectionInv, NEW c \in Conns, UNCHANGED <<mode, conn, wire, buffer, breaks, store>>
  PROVE Others(c) /\ KeysKept(work[c].msg, conn[c].keys, conn'[c].keys)
  BY Zenon DEF ConnectionInv, Others, KeysKept

\* A new store.
LEMMA StoreOthers ==
  ASSUME ConnectionInv, NEW c \in Conns, UNCHANGED <<mode, conn, wire, buffer, breaks>>,
         StoreInv(store')
  PROVE Others(c) /\ KeysKept(work[c].msg, conn[c].keys, conn'[c].keys)
  BY Zenon DEF ConnectionInv, Others, KeysKept

\* A new state of the connection.
LEMMA ConnOthers ==
  ASSUME ConnectionInv, NEW c \in Conns, UNCHANGED <<mode, wire, buffer, breaks>>,
         StoreInv(store'), NEW k, conn' = [conn EXCEPT ![c] = k], ConnInv(k), k.up = conn[c].up
  PROVE Others(c) /\ conn'[c] = k
  BY Zenon, ChangedAt DEF ConnectionInv, Others

\* NEGOTIATE.
LEMMA NegotiateWell ==
  ASSUME ConnectionInv, Replies, NEW c \in Conns, Negotiate(c)
  PROVE ConnectionInv' /\ Replies'
<1>1. /\ work[c] # NoWork /\ work[c].stage # "resolve" /\ work[c].cmd.op = "negotiate"
      /\ UNCHANGED <<mode, wire, buffer, breaks, store>>
  BY Zenon, RunsIs DEF Negotiate
<1>2. CASE work[c].cmd.arg = NoDialect
  <2>1. Fails(c, work[c], "not_supported") /\ UNCHANGED <<conn, credits>>
    BY Zenon, <1>2 DEF Negotiate
  <2>2. Others(c)
    BY Zenon, <1>1, <2>1, SameOthers
  <2>3. "not_supported" # "none"
    BY Zenon
  <2> QED
    BY Zenon, <1>1, <2>1, <2>2, <2>3, FailsWell
<1>3. CASE work[c].cmd.arg # NoDialect
  <2>0. PICK k, keys : k = [conn[c] EXCEPT !.dialect = work[c].cmd.arg] /\ keys = conn[c].keys
    BY Zenon
  <2>1. /\ conn' = [conn EXCEPT ![c] = k]
        /\ Succeeds(c, work[c], keys, work[c].cmd.sid, work[c].cmd.tid, 0)
    BY Zenon, <1>3, <2>0 DEF Negotiate
  <2>2. ConnInv(conn[c]) /\ StoreInv(store)
    BY Zenon DEF ConnectionInv
  <2>3. ConnInv(k) /\ k.up = conn[c].up /\ k.keys = keys
    BY Zenon, <2>0, <2>2 DEF ConnInv
  <2>4. Others(c) /\ conn'[c] = k
    BY Zenon, <1>1, <2>1, <2>2, <2>3, ConnOthers
  <2>5. KeysKept(work[c].msg, conn[c].keys, conn'[c].keys) /\ keys = conn'[c].keys
    BY Zenon, <2>0, <2>3, <2>4 DEF KeysKept
  <2>6. "negotiate" \notin FileOps /\ "negotiate" # "create" /\ "ok" \in {"ok", "more"}
    BY Zenon DEF FileOps
  <2> QED
    BY Zenon, <1>1, <2>1, <2>4, <2>5, <2>6, SucceedsWell DEF Succeeds
<1> QED
  BY Zenon, <1>2, <1>3

\* ECHO.
LEMMA EchoWell ==
  ASSUME ConnectionInv, Replies, NEW c \in Conns, Echo(c)
  PROVE ConnectionInv' /\ Replies'
<1>1. /\ work[c] # NoWork /\ work[c].stage # "resolve" /\ work[c].cmd.op = "echo"
      /\ UNCHANGED <<mode, conn, wire, buffer, breaks, store>>
      /\ Succeeds(c, work[c], conn[c].keys, work[c].cmd.sid, work[c].cmd.tid, 0)
  BY Zenon, RunsIs DEF Echo
<1>2. Others(c) /\ KeysKept(work[c].msg, conn[c].keys, conn'[c].keys) /\ conn[c].keys = conn'[c].keys
  BY Zenon, <1>1, SameOthers
<1>3. "echo" \notin FileOps /\ "echo" # "create" /\ "ok" \in {"ok", "more"}
  BY Zenon DEF FileOps
<1> QED
  BY Zenon, <1>1, <1>2, <1>3, SucceedsWell DEF Succeeds

\* CANCEL.
LEMMA CancelWell ==
  ASSUME ConnectionInv, Replies, NEW c \in Conns, Cancel(c)
  PROVE ConnectionInv' /\ Replies'
<1>0. PICK w, r, keys : w = work[c] /\ keys = conn[c].keys /\ r = Response(w.cmd, "silent", 0, 0, 0, 0)
  BY Zenon
<1>1. /\ w # NoWork /\ w.stage # "resolve" /\ w.cmd.op = "cancel"
      /\ UNCHANGED <<mode, conn, wire, buffer, breaks, store, credits>>
      /\ Answer(c, work[c], keys, r, TRUE)
  BY Zenon, <1>0, RunsIs DEF Cancel
<1>2. Others(c) /\ KeysKept(work[c].msg, conn[c].keys, conn'[c].keys) /\ keys = conn'[c].keys
  BY Zenon, <1>0, <1>1, SameOthers
<1>3. Paid(c)
  BY Zenon, <1>1 DEF Paid, ConnectionInv
<1>4. Made(w.msg, keys, r) /\ r.op = "cancel" /\ r.status = "silent"
  <2>1. Plain(Response(w.cmd, "silent", 0, 0, 0, 0), w.cmd.op, "silent", 0, 0, 0)
    BY Zenon, ResponseIs
  <2>2. Plain(r, "cancel", "silent", 0, 0, 0)
    BY Zenon, <1>0, <1>1, <2>1
  <2>3. Made(w.msg, keys, r)
    BY Zenon, <2>2, UnsignedMade
  <2> QED
    BY Zenon, <2>2, <2>3 DEF Plain
<1>5. ~Failed(r) /\ "cancel" \in OwnSession /\ "cancel" \notin FileOps /\ "cancel" # "create"
  BY Zenon, <1>4 DEF Failed, OwnSession, FileOps
<1>6. Fits(w, keys, r, TRUE)
  BY Zenon, <1>1, <1>4, <1>5 DEF Fits
<1>7. work[c] # NoWork /\ Fits(work[c], keys, r, TRUE)
  BY Zenon, <1>0, <1>1, <1>6
<1> QED
  BY Zenon, <1>1, <1>2, <1>3, <1>7, Answers

\* delete_session leaves a good store.
LEMMA DeletedStore ==
  ASSUME NEW st, StoreInv(st), NEW s
  PROVE StoreInv(Deleted(st, s))
<1>0. PICK ss, ts, hs, new :
        /\ ss = IF s \in Sids THEN [st.sessions EXCEPT ![s] = NoSession] ELSE st.sessions
        /\ ts = {t \in st.trees : t[1] # s} /\ hs = {h \in st.handles : h.sid # s}
        /\ new = Deleted(st, s)
  BY Zenon
<1>1. /\ st = [sessions |-> st.sessions, trees |-> st.trees, handles |-> st.handles,
               nextSid |-> st.nextSid, nextTid |-> st.nextTid, nextFid |-> st.nextFid, made |-> st.made]
      /\ st.nextFid \in Nat \ {0} /\ st.made \in Nat \ {0}
  BY Zenon DEF StoreInv
<1>2. new = [st EXCEPT !.handles = hs, !.trees = ts, !.sessions = ss]
  BY Zenon, <1>0 DEF Deleted
<1>3. new = [sessions |-> ss, trees |-> ts, handles |-> hs, nextSid |-> st.nextSid,
             nextTid |-> st.nextTid, nextFid |-> st.nextFid, made |-> st.made]
  BY Zenon, <1>1, <1>2
<1>4. /\ new.sessions = ss /\ new.handles = hs /\ new.nextFid = st.nextFid /\ new.made = st.made
      /\ new = [sessions |-> new.sessions, trees |-> new.trees, handles |-> new.handles,
                nextSid |-> new.nextSid, nextTid |-> new.nextTid, nextFid |-> new.nextFid,
                made |-> new.made]
  BY Zenon, <1>3
<1>5. Keyed(NoSession)
  BY Zenon DEF Keyed, NoSession
<1>6. DOMAIN ss = Sids /\ \A x \in Sids : Keyed(ss[x])
  BY Zenon, <1>0, <1>5 DEF StoreInv
<1>7. \A h \in hs : h.fid \in Nat /\ h.fid < st.nextFid
  BY Zenon, <1>0 DEF StoreInv
<1>8. StoreInv(new)
  BY Zenon, <1>1, <1>4, <1>6, <1>7 DEF StoreInv
<1> QED
  BY Zenon, <1>0, <1>8

\* LOGOFF.
LEMMA LogoffWell ==
  ASSUME ConnectionInv, Replies, NEW c \in Conns, Logoff(c)
  PROVE ConnectionInv' /\ Replies'
<1>0. PICK w, s : w = work[c] /\ s = w.cmd.sid
  BY Zenon
<1>1. /\ work[c] # NoWork /\ work[c].stage # "resolve" /\ work[c].cmd.op = "logoff"
      /\ UNCHANGED <<mode, wire, buffer, breaks>>
  BY Zenon, RunsIs DEF Logoff
<1>2. CASE ~Live(work[c].cmd.sid)
  <2>1. Fails(c, work[c], "session_deleted") /\ UNCHANGED <<conn, store, credits>>
    BY Zenon, <1>2 DEF Logoff
  <2>2. Others(c)
    BY Zenon, <1>1, <2>1, SameOthers
  <2>3. "session_deleted" # "none"
    BY Zenon
  <2> QED
    BY Zenon, <1>1, <2>1, <2>2, <2>3, FailsWell
<1>3. CASE Live(work[c].cmd.sid)
  <2>0. PICK keys, k : /\ keys = [conn[c].keys EXCEPT ![s] = NoKey]
                       /\ k = [conn[c] EXCEPT !.sessions = @ \ {s}, !.keys = keys]
    BY Zenon
  <2>1. /\ conn' = [conn EXCEPT ![c].sessions = @ \ {s}, ![c].keys = keys]
        /\ store' = Deleted(store, s)
        /\ Succeeds(c, work[c], keys, work[c].cmd.sid, work[c].cmd.tid, 0)
    BY Zenon, <1>0, <1>3, <2>0 DEF Logoff
  <2>2. ConnInv(conn[c]) /\ StoreInv(store) /\ DOMAIN conn = Conns
    BY Zenon DEF ConnectionInv
  <2>3. conn' = [conn EXCEPT ![c] = k]
    BY Zenon, <2>0, <2>1, <2>2
  <2>4. keys \in [Sids -> Nat]
    BY Zenon, <2>0, <2>2 DEF ConnInv, NoKey
  <2>5. ConnInv(k) /\ k.up = conn[c].up /\ k.keys = keys
    BY Zenon, <2>0, <2>2, <2>4 DEF ConnInv
  <2>6. StoreInv(store')
    BY Zenon, <2>1, <2>2, DeletedStore
  <2>7. Others(c) /\ conn'[c] = k
    BY Zenon, <1>1, <2>3, <2>5, <2>6, ConnOthers
  <2>8. ~NoLogoff(w.msg)
    <3>1. UnderWay(w, credits[c]) /\ w.ctx.index \in 1..Len(w.msg.cmds)
      BY Zenon, <1>0, <1>1 DEF ConnectionInv, InWork
    <3> QED
      BY Zenon, <1>0, <1>1, <3>1 DEF UnderWay, NoLogoff
  <2>9. KeysKept(work[c].msg, conn[c].keys, conn'[c].keys) /\ keys = conn'[c].keys
    BY Zenon, <1>0, <2>5, <2>7, <2>8 DEF KeysKept
  <2>10. "logoff" \notin FileOps /\ "logoff" # "create" /\ "ok" \in {"ok", "more"}
    BY Zenon DEF FileOps
  <2> QED
    BY Zenon, <1>1, <2>1, <2>7, <2>9, <2>10, SucceedsWell DEF Succeeds
<1> QED
  BY Zenon, <1>2, <1>3

\* A store with the same sessions.
LEMMA SameSessions ==
  ASSUME NEW st, StoreInv(st), NEW trees, NEW handles, NEW nextSid, NEW nextTid,
         NEW nextFid \in Nat \ {0}, \A h \in handles : h.fid \in Nat /\ h.fid < nextFid,
         NEW new, new = [sessions |-> st.sessions, trees |-> trees, handles |-> handles,
                         nextSid |-> nextSid, nextTid |-> nextTid, nextFid |-> nextFid, made |-> st.made]
  PROVE StoreInv(new)
<1>1. /\ new.sessions = st.sessions /\ new.handles = handles /\ new.nextFid = nextFid /\ new.made = st.made
      /\ new = [sessions |-> new.sessions, trees |-> new.trees, handles |-> new.handles,
                nextSid |-> new.nextSid, nextTid |-> new.nextTid, nextFid |-> new.nextFid,
                made |-> new.made]
  BY Zenon
<1> QED
  BY Zenon, <1>1 DEF StoreInv

\* The store is its fields.
LEMMA StoreFields ==
  ASSUME ConnectionInv
  PROVE /\ StoreInv(store) /\ store.nextFid \in Nat \ {0}
        /\ \A h \in store.handles : h.fid \in Nat /\ h.fid < store.nextFid
        /\ store = [sessions |-> store.sessions, trees |-> store.trees, handles |-> store.handles,
                    nextSid |-> store.nextSid, nextTid |-> store.nextTid, nextFid |-> store.nextFid,
                    made |-> store.made]
  BY Zenon DEF ConnectionInv, StoreInv

\* A handler that changes the store and succeeds.
LEMMA StoreSucceeds ==
  ASSUME ConnectionInv, Replies, NEW c \in Conns, work[c] # NoWork, work[c].stage # "resolve",
         UNCHANGED <<mode, conn, wire, buffer, breaks>>, StoreInv(store'),
         work[c].cmd.op \notin OwnSession, NEW tid, NEW fid,
         work[c].cmd.op \in FileOps => fid = work[c].cmd.fid,
         work[c].cmd.op = "create" => fid # 0,
         Succeeds(c, work[c], conn[c].keys, work[c].cmd.sid, tid, fid)
  PROVE ConnectionInv' /\ Replies'
<1>1. Others(c) /\ KeysKept(work[c].msg, conn[c].keys, conn'[c].keys) /\ conn[c].keys = conn'[c].keys
  BY Zenon, StoreOthers
<1>2. "ok" \in {"ok", "more"}
  BY Zenon
<1> QED
  BY Zenon, <1>1, <1>2, SucceedsWell DEF Succeeds

\* A handler that changes nothing and fails.
LEMMA JustFails ==
  ASSUME ConnectionInv, Replies, NEW c \in Conns, work[c] # NoWork, work[c].stage # "resolve",
         UNCHANGED <<mode, conn, wire, buffer, breaks, store, credits>>,
         NEW status, status # "none", Fails(c, work[c], status)
  PROVE ConnectionInv' /\ Replies'
<1>1. Others(c) /\ conn'[c].keys = conn[c].keys
  BY Zenon, SameOthers
<1> QED
  BY Zenon, <1>1, FailsWell

\* TREE_CONNECT.
LEMMA TreeConnectWell ==
  ASSUME ConnectionInv, Replies, NEW c \in Conns, TreeConnect(c)
  PROVE ConnectionInv' /\ Replies'
<1>1. /\ work[c] # NoWork /\ work[c].stage # "resolve" /\ work[c].cmd.op = "tree_connect"
      /\ UNCHANGED <<mode, conn, wire, buffer, breaks>>
  BY Zenon, RunsIs DEF TreeConnect
<1>2. CASE work[c].cmd.arg = "unknown"
  <2>1. Fails(c, work[c], "bad_network_name") /\ UNCHANGED <<store, credits>>
    BY Zenon, <1>2 DEF TreeConnect
  <2>2. "bad_network_name" # "none"
    BY Zenon
  <2> QED
    BY Zenon, <1>1, <2>1, <2>2, JustFails
<1>3. CASE work[c].cmd.arg # "unknown"
  <2>0. PICK s, t : s = work[c].cmd.sid /\ t = store.nextTid[s]
    BY Zenon
  <2>1. /\ store' = [store EXCEPT !.nextTid[s] = t + 1, !.trees = @ \cup {<<s, t>>}]
        /\ Succeeds(c, work[c], conn[c].keys, work[c].cmd.sid, t, 0)
    BY Zenon, <1>3, <2>0 DEF TreeConnect
  <2>2. store' = [sessions |-> store.sessions, trees |-> store.trees \cup {<<s, t>>},
           handles |-> store.handles, nextSid |-> store.nextSid,
           nextTid |-> [store.nextTid EXCEPT ![s] = t + 1], nextFid |-> store.nextFid,
           made |-> store.made]
    BY Zenon, <2>1, StoreFields
  <2>3. StoreInv(store')
    BY Zenon, <2>2, StoreFields, SameSessions
  <2>4. "tree_connect" \notin FileOps /\ "tree_connect" # "create" /\ "tree_connect" \notin OwnSession
    BY Zenon DEF FileOps, OwnSession
  <2> QED
    BY Zenon, <1>1, <2>1, <2>3, <2>4, StoreSucceeds
<1> QED
  BY Zenon, <1>2, <1>3

\* TREE_DISCONNECT.
LEMMA TreeDisconnectWell ==
  ASSUME ConnectionInv, Replies, NEW c \in Conns, TreeDisconnect(c)
  PROVE ConnectionInv' /\ Replies'
<1>0. PICK t : t = <<work[c].cmd.sid, work[c].cmd.tid>>
  BY Zenon
<1>1. /\ work[c] # NoWork /\ work[c].stage # "resolve" /\ work[c].cmd.op = "tree_disconnect"
      /\ UNCHANGED <<mode, conn, wire, buffer, breaks>>
  BY Zenon, RunsIs DEF TreeDisconnect
<1>2. CASE t \notin store.trees
  <2>1. Fails(c, work[c], "network_name_deleted") /\ UNCHANGED <<store, credits>>
    BY Zenon, <1>0, <1>2 DEF TreeDisconnect
  <2>2. "network_name_deleted" # "none"
    BY Zenon
  <2> QED
    BY Zenon, <1>1, <2>1, <2>2, JustFails
<1>3. CASE t \in store.trees
  <2>0. PICK hs : hs = {h \in store.handles : h.sid # t[1] \/ h.tid # t[2]}
    BY Zenon
  <2>1. /\ store' = [store EXCEPT !.trees = @ \ {t}, !.handles = {h \in @ : h.sid # t[1] \/ h.tid # t[2]}]
        /\ Succeeds(c, work[c], conn[c].keys, work[c].cmd.sid, work[c].cmd.tid, 0)
    BY Zenon, <1>0, <1>3 DEF TreeDisconnect
  <2>2. store' = [sessions |-> store.sessions, trees |-> store.trees \ {t}, handles |-> hs,
           nextSid |-> store.nextSid, nextTid |-> store.nextTid, nextFid |-> store.nextFid,
           made |-> store.made]
    BY Zenon, <2>0, <2>1, StoreFields
  <2>3. \A h \in hs : h.fid \in Nat /\ h.fid < store.nextFid
    BY Zenon, <2>0, StoreFields
  <2>4. StoreInv(store')
    BY Zenon, <2>2, <2>3, StoreFields, SameSessions
  <2>5. /\ "tree_disconnect" \notin FileOps /\ "tree_disconnect" # "create"
        /\ "tree_disconnect" \notin OwnSession
    BY Zenon DEF FileOps, OwnSession
  <2> QED
    BY Zenon, <1>1, <2>1, <2>4, <2>5, StoreSucceeds
<1> QED
  BY Zenon, <1>2, <1>3

\* CREATE.
LEMMA CreateWell ==
  ASSUME ConnectionInv, Replies, NEW c \in Conns, Create(c)
  PROVE ConnectionInv' /\ Replies'
<1>1. /\ work[c] # NoWork /\ work[c].stage # "resolve" /\ work[c].cmd.op = "create"
      /\ UNCHANGED <<mode, conn, wire, buffer, breaks>>
  BY Zenon, RunsIs DEF Create
<1>2. CASE work[c].cmd.arg = "missing"
  <2>1. Fails(c, work[c], "not_found") /\ UNCHANGED <<store, credits>>
    BY Zenon, <1>2 DEF Create
  <2>2. "not_found" # "none"
    BY Zenon
  <2> QED
    BY Zenon, <1>1, <2>1, <2>2, JustFails
<1>3. CASE work[c].cmd.arg # "missing"
  <2>0. PICK f, new : /\ f = store.nextFid
                      /\ new = [fid |-> f, sid |-> work[c].cmd.sid, tid |-> work[c].cmd.tid]
    BY Zenon
  <2>1. /\ store' = [store EXCEPT !.nextFid = @ + 1, !.handles = @ \cup {new}]
        /\ Succeeds(c, work[c], conn[c].keys, work[c].cmd.sid, work[c].cmd.tid, f)
    BY Zenon, <1>3, <2>0 DEF Create
  <2>2. store' = [sessions |-> store.sessions, trees |-> store.trees,
           handles |-> store.handles \cup {new}, nextSid |-> store.nextSid,
           nextTid |-> store.nextTid, nextFid |-> f + 1, made |-> store.made]
    BY Zenon, <2>0, <2>1, StoreFields
  <2>3. f \in Nat \ {0} /\ f # 0 /\ f + 1 \in Nat \ {0} /\ new.fid = f
    BY SMTT(30), <2>0, StoreFields
  <2>4. \A h \in store.handles \cup {new} : h.fid \in Nat /\ h.fid < f + 1
    BY SMTT(30), <2>0, <2>3, StoreFields
  <2>5. StoreInv(store')
    BY Zenon, <2>2, <2>3, <2>4, StoreFields, SameSessions
  <2>6. "create" \notin FileOps /\ "create" \notin OwnSession
    BY Zenon DEF FileOps, OwnSession
  <2> QED
    BY Zenon, <1>1, <2>1, <2>3, <2>5, <2>6, StoreSucceeds
<1> QED
  BY Zenon, <1>2, <1>3

\* An operation on a handle.
LEMMA FileOpWell ==
  ASSUME ConnectionInv, Replies, NEW c \in Conns, FileOp(c)
  PROVE ConnectionInv' /\ Replies'
<1>0. PICK found : found = {h \in store.handles : h.fid = work[c].cmd.fid}
  BY Zenon
<1>1. /\ work[c].stage = "run" /\ work[c].cmd.op \in FileOps
      /\ UNCHANGED <<mode, conn, wire, buffer, breaks>>
  BY Zenon DEF FileOp
<1>2. work[c] # NoWork /\ work[c].stage # "resolve" /\ work[c].cmd.op \notin OwnSession
      /\ work[c].cmd.op # "create"
  BY Zenon, <1>1, AtWork DEF FileOps, OwnSession
<1>3. \/ Fails(c, work[c], "file_closed") /\ UNCHANGED <<store, credits>>
      \/ Fails(c, work[c], "invalid") /\ UNCHANGED <<store, credits>>
      \/ /\ store' = [store EXCEPT !.handles = IF work[c].cmd.op = "close" THEN @ \ found ELSE @]
         /\ Succeeds(c, work[c], conn[c].keys, work[c].cmd.sid, work[c].cmd.tid, work[c].cmd.fid)
  BY Zenon, <1>0 DEF FileOp
<1>4. "file_closed" # "none" /\ "invalid" # "none"
  BY Zenon
<1>5. CASE Fails(c, work[c], "file_closed") /\ UNCHANGED <<store, credits>>
  BY Zenon, <1>1, <1>2, <1>4, <1>5, JustFails
<1>6. CASE Fails(c, work[c], "invalid") /\ UNCHANGED <<store, credits>>
  BY Zenon, <1>1, <1>2, <1>4, <1>6, JustFails
<1>7. CASE /\ store' = [store EXCEPT !.handles = IF work[c].cmd.op = "close" THEN @ \ found ELSE @]
           /\ Succeeds(c, work[c], conn[c].keys, work[c].cmd.sid, work[c].cmd.tid, work[c].cmd.fid)
  <2>0. PICK hs : hs = IF work[c].cmd.op = "close" THEN store.handles \ found ELSE store.handles
    BY Zenon
  <2>1. store' = [sessions |-> store.sessions, trees |-> store.trees, handles |-> hs,
           nextSid |-> store.nextSid, nextTid |-> store.nextTid, nextFid |-> store.nextFid,
           made |-> store.made]
    BY Zenon, <1>7, <2>0, StoreFields
  <2>2. \A h \in hs : h.fid \in Nat /\ h.fid < store.nextFid
    BY Zenon, <2>0, StoreFields
  <2>3. StoreInv(store')
    BY Zenon, <2>1, <2>2, StoreFields, SameSessions
  <2> QED
    BY Zenon, <1>1, <1>2, <1>7, <2>3, StoreSucceeds
<1> QED
  BY Zenon, <1>3, <1>5, <1>6, <1>7

\* The work w goes on as v, with the session to create.
Found(w, v, id, user, setup) ==
  /\ v.stage = "create" /\ v.msg = w.msg /\ v.ctx = w.ctx /\ v.cmd = w.cmd /\ v.out = w.out
  /\ v.ran = w.ran /\ v.setup = setup /\ v.id = id /\ v.user = user
  /\ v = [stage |-> v.stage, msg |-> v.msg, ctx |-> v.ctx, cmd |-> v.cmd, out |-> v.out,
          ran |-> v.ran, setup |-> v.setup, id |-> v.id, user |-> v.user]

\* A provider's answer that is kept for the creation of the session.
LEMMA SessionFound ==
  ASSUME NEW w, NEW id, NEW user, NEW setup,
         w = [stage |-> w.stage, msg |-> w.msg, ctx |-> w.ctx, cmd |-> w.cmd, out |-> w.out,
              ran |-> w.ran, setup |-> w.setup, id |-> w.id, user |-> w.user],
         NEW v, v = [w EXCEPT !.stage = "create", !.id = id, !.user = user, !.setup = setup]
  PROVE Found(w, v, id, user, setup)
<1>1. PICK x, y : x = [w EXCEPT !.stage = "create", !.id = id] /\ y = [x EXCEPT !.user = user, !.setup = setup]
  BY Zenon
<1>2. x = [stage |-> "create", msg |-> w.msg, ctx |-> w.ctx, cmd |-> w.cmd, out |-> w.out,
           ran |-> w.ran, setup |-> w.setup, id |-> id, user |-> w.user]
  BY Zenon, <1>1
<1>3. /\ x = [stage |-> x.stage, msg |-> x.msg, ctx |-> x.ctx, cmd |-> x.cmd, out |-> x.out,
              ran |-> x.ran, setup |-> x.setup, id |-> x.id, user |-> x.user]
      /\ x.stage = "create" /\ x.msg = w.msg /\ x.ctx = w.ctx /\ x.cmd = w.cmd /\ x.out = w.out
      /\ x.ran = w.ran /\ x.id = id
  BY Zenon, <1>2
<1>4. y = [stage |-> x.stage, msg |-> x.msg, ctx |-> x.ctx, cmd |-> x.cmd, out |-> x.out,
           ran |-> x.ran, setup |-> setup, id |-> x.id, user |-> user]
  BY ZenonT(60), <1>1, <1>3
<1>5. /\ y.stage = x.stage /\ y.msg = x.msg /\ y.ctx = x.ctx /\ y.cmd = x.cmd /\ y.out = x.out
      /\ y.ran = x.ran /\ y.setup = setup /\ y.id = x.id /\ y.user = user
      /\ y = [stage |-> y.stage, msg |-> y.msg, ctx |-> y.ctx, cmd |-> y.cmd, out |-> y.out,
              ran |-> y.ran, setup |-> y.setup, id |-> y.id, user |-> y.user]
  BY Zenon, <1>4
<1>6. y = v
  BY Zenon, <1>1
<1> QED
  BY Zenon, <1>3, <1>5, <1>6 DEF Found

\* A command that joins the ones that ran.
LEMMA ChainedAlso ==
  ASSUME NEW w, NEW v, v.ctx = w.ctx, v.out = w.out, v.msg = w.msg, Chained(w),
         \A j \in v.ran : j < w.ctx.index => j \in w.ran
  PROVE Chained(v)
  BY ZenonT(60) DEF Chained

\* A command that stays the same is under way and in its chain wherever it stands.
LEMMA SameCommand ==
  ASSUME NEW w, NEW v, NEW left, v.ctx = w.ctx, v.out = w.out, v.msg = w.msg, v.ran = w.ran, v.cmd = w.cmd
  PROVE (Chained(w) => Chained(v)) /\ (UnderWay(w, left) => UnderWay(v, left))
  BY ZenonT(60) DEF Chained, UnderWay

\* The next check, or the handler.
LEMMA StageMoved ==
  ASSUME NEW says, NEW w, NEW keys, NEW left, InWork(says, w, keys, left), w.stage # "resolve",
         NEW stage \in {"session", "tree", "run"}, NEW v, v = [w EXCEPT !.stage = stage]
  PROVE InWork(says, v, keys, left)
<1>1. w = [stage |-> w.stage, msg |-> w.msg, ctx |-> w.ctx, cmd |-> w.cmd, out |-> w.out,
           ran |-> w.ran, setup |-> w.setup, id |-> w.id, user |-> w.user]
  BY Zenon DEF InWork
<1>2. v = [stage |-> stage, msg |-> w.msg, ctx |-> w.ctx, cmd |-> w.cmd, out |-> w.out,
           ran |-> w.ran, setup |-> w.setup, id |-> w.id, user |-> w.user]
  BY Zenon, <1>1
<1>3. /\ v.stage = stage /\ v.msg = w.msg /\ v.ctx = w.ctx /\ v.cmd = w.cmd /\ v.out = w.out
      /\ v.ran = w.ran /\ v.setup = w.setup
      /\ v = [stage |-> v.stage, msg |-> v.msg, ctx |-> v.ctx, cmd |-> v.cmd, out |-> v.out,
              ran |-> v.ran, setup |-> v.setup, id |-> v.id, user |-> v.user]
  BY Zenon, <1>2
<1>4. /\ stage \in {"resolve", "session", "tree", "run", "create"}
      /\ stage # "resolve" /\ stage # "create"
  BY Zenon
<1>5. (Chained(w) => Chained(v)) /\ (UnderWay(w, left) => UnderWay(v, left))
  BY Zenon, <1>3, SameCommand
<1> QED
  BY Zenon, <1>3, <1>4, <1>5 DEF InWork

\* A check that is passed.
LEMMA ContinueWell ==
  ASSUME ConnectionInv, Replies, NEW c \in Conns, work[c] # NoWork, work[c].stage # "resolve",
         UNCHANGED <<mode, conn, wire, buffer, breaks, store, credits, reply>>, Continue(c, work[c])
  PROVE ConnectionInv' /\ Replies'
<1>0. PICK w, stage, v :
        /\ w = work[c] /\ v = [w EXCEPT !.stage = stage]
        /\ stage = IF w.cmd.op \in NeedsTree /\ w.stage = "session" THEN "tree" ELSE "run"
  BY Zenon
<1>1. work' = [work EXCEPT ![c] = v]
  BY Zenon, <1>0 DEF Continue
<1>2. stage \in {"session", "tree", "run"}
  BY Zenon, <1>0
<1>3. InWork(Says(mode.name, c), w, conn[c].keys, credits[c])
  BY Zenon, <1>0 DEF ConnectionInv
<1>4. InWork(Says(mode.name, c), v, conn[c].keys, credits'[c])
  BY Zenon, <1>0, <1>2, <1>3, StageMoved
<1>5. Others(c) /\ Paid(c)
  BY Zenon, SameOthers DEF Paid, ConnectionInv
<1> QED
  BY Zenon, <1>1, <1>4, <1>5, Moves

\* The session check.
LEMMA CheckSessionWell ==
  ASSUME ConnectionInv, Replies, NEW c \in Conns, CheckSession(c)
  PROVE ConnectionInv' /\ Replies'
<1>1. work[c].stage = "session" /\ UNCHANGED <<mode, wire, buffer, breaks, credits, store>>
  BY Zenon DEF CheckSession
<1>2. work[c] # NoWork /\ work[c].stage # "resolve" /\ "session_deleted" # "none"
  BY Zenon, <1>1, AtWork
<1>3. \/ Continue(c, work[c]) /\ UNCHANGED <<conn, reply>>
      \/ Fails(c, work[c], "session_deleted") /\ UNCHANGED conn
      \/ /\ Fails(c, work[c], "session_deleted")
         /\ conn' = [conn EXCEPT ![c].sessions = @ \ {work[c].cmd.sid}]
  BY Zenon DEF CheckSession
<1>4. CASE Continue(c, work[c]) /\ UNCHANGED <<conn, reply>>
  BY Zenon, <1>1, <1>2, <1>4, ContinueWell
<1>5. CASE Fails(c, work[c], "session_deleted") /\ UNCHANGED conn
  BY Zenon, <1>1, <1>2, <1>5, JustFails
<1>6. CASE /\ Fails(c, work[c], "session_deleted")
           /\ conn' = [conn EXCEPT ![c].sessions = @ \ {work[c].cmd.sid}]
  <2>0. PICK k : k = [conn[c] EXCEPT !.sessions = @ \ {work[c].cmd.sid}]
    BY Zenon
  <2>1. ConnInv(conn[c]) /\ StoreInv(store) /\ DOMAIN conn = Conns
    BY Zenon DEF ConnectionInv
  <2>2. conn' = [conn EXCEPT ![c] = k]
    BY Zenon, <1>6, <2>0
  <2>3. ConnInv(k) /\ k.up = conn[c].up /\ k.keys = conn[c].keys
    BY Zenon, <2>0, <2>1 DEF ConnInv
  <2>4. Others(c) /\ conn'[c] = k
    BY Zenon, <1>1, <2>1, <2>2, <2>3, ConnOthers
  <2> QED
    BY Zenon, <1>1, <1>2, <1>6, <2>3, <2>4, FailsWell
<1> QED
  BY Zenon, <1>3, <1>4, <1>5, <1>6

\* The tree check.
LEMMA CheckTreeWell ==
  ASSUME ConnectionInv, Replies, NEW c \in Conns, CheckTree(c)
  PROVE ConnectionInv' /\ Replies'
<1>1. work[c].stage = "tree" /\ UNCHANGED <<mode, conn, wire, buffer, breaks, credits, store>>
  BY Zenon DEF CheckTree
<1>2. work[c] # NoWork /\ work[c].stage # "resolve" /\ "network_name_deleted" # "none"
  BY Zenon, <1>1, AtWork
<1>3. \/ Continue(c, work[c]) /\ UNCHANGED reply
      \/ Fails(c, work[c], "network_name_deleted")
  BY Zenon DEF CheckTree
<1>4. CASE Continue(c, work[c]) /\ UNCHANGED reply
  BY Zenon, <1>1, <1>2, <1>4, ContinueWell
<1>5. CASE Fails(c, work[c], "network_name_deleted")
  BY Zenon, <1>1, <1>2, <1>5, JustFails
<1> QED
  BY Zenon, <1>3, <1>4, <1>5

\* The connection is as usable as before.
SameConn(k0, k) == ConnInv(k) /\ k.up = k0.up /\ k.keys = k0.keys

\* SESSION_SETUP keeps where an authentication stands, and changes nothing else of the connection.
LEMMA AuthAlone ==
  ASSUME NEW k0, ConnInv(k0), NEW auth
  PROVE SameConn(k0, [k0 EXCEPT !.auth = auth])
<1>1. PICK u, d, s, keys, a : /\ k0 = [up |-> u, dialect |-> d, sessions |-> s, keys |-> keys, auth |-> a]
                             /\ s \subseteq Sids /\ keys \in [Sids -> Nat]
  BY Zenon DEF ConnInv
<1>2. [k0 EXCEPT !.auth = auth] = [up |-> u, dialect |-> d, sessions |-> s, keys |-> keys, auth |-> auth]
  BY SMTT(30), <1>1
<1>3. k0.up = u /\ k0.keys = keys
  BY Zenon, <1>1
<1> QED
  BY Zenon, <1>1, <1>2, <1>3 DEF ConnInv, SameConn

\* The first half of SESSION_SETUP.
LEMMA AuthenticateWell ==
  ASSUME ConnectionInv, Replies, NEW c \in Conns, Authenticate(c)
  PROVE ConnectionInv' /\ Replies'
<1> DEFINE before == IF work[c].cmd.sid = 0 THEN None ELSE conn[c].auth
           spnego == SpnegoAuthenticate(provider[ServerOf[c]], before, c, work[c].cmd.arg.token)
<1>0. PICK w, o, context, id, k :
        /\ w = work[c] /\ o = spnego
        /\ context = IF o.is = "continue" /\ Existing(c, w.cmd) THEN w.cmd.sid ELSE o.id
        /\ id = IF o.id # None THEN o.id ELSE store.nextSid
        /\ k = [conn[c] EXCEPT !.auth = context]
  BY Zenon
<1>1. /\ work[c] # NoWork /\ work[c].stage # "resolve" /\ work[c].cmd.op = "session_setup"
      /\ UNCHANGED <<mode, wire, buffer, breaks>> /\ conn' = [conn EXCEPT ![c] = k]
  BY Zenon, <1>0, RunsIs DEF Authenticate
<1>2. \/ MoreProcessing(c, work[c], context) /\ UNCHANGED store
      \/ /\ id \in Sids
         /\ store' = [store EXCEPT !.nextSid = IF o.id # None THEN @ ELSE @ + 1]
         /\ work' = [work EXCEPT ![c].stage = "create", ![c].id = id, ![c].user = o.user,
              ![c].setup = IF Existing(c, w.cmd) THEN store.sessions[w.cmd.sid] ELSE store.sessions[id]]
         /\ UNCHANGED <<reply, credits>>
      \/ Fails(c, work[c], AuthStatus(o)) /\ UNCHANGED <<store, credits>>
  BY Zenon, <1>0 DEF Authenticate
<1>3. ConnInv(conn[c]) /\ StoreInv(store) /\ DOMAIN conn = Conns /\ DOMAIN work = Conns
  BY Zenon DEF ConnectionInv
<1>4. ConnInv(k) /\ k.up = conn[c].up /\ k.keys = conn[c].keys
  <2>1. SameConn(conn[c], [conn[c] EXCEPT !.auth = context])
    BY Zenon, <1>3, AuthAlone
  <2>2. SameConn(conn[c], k)
    BY Zenon, <1>0, <2>1
  <2> QED
    BY Zenon, <2>2 DEF SameConn
<1>5. ASSUME StoreInv(store')
      PROVE /\ Others(c) /\ conn'[c].keys = conn[c].keys
            /\ KeysKept(work[c].msg, conn[c].keys, conn'[c].keys)
  <2>1. Others(c) /\ conn'[c] = k
    BY Zenon, <1>1, <1>3, <1>4, <1>5, ConnOthers
  <2> QED
    BY Zenon, <1>4, <2>1 DEF KeysKept
<1>6. CASE MoreProcessing(c, work[c], context) /\ UNCHANGED store
  <2>1. /\ "session_setup" \in OwnSession /\ "session_setup" \notin FileOps
        /\ "session_setup" # "create" /\ "more" \in {"ok", "more"}
    BY Zenon DEF FileOps, OwnSession
  <2>2. Others(c) /\ KeysKept(work[c].msg, conn[c].keys, conn'[c].keys) /\ conn[c].keys = conn'[c].keys
    BY Zenon, <1>3, <1>5, <1>6
  <2> QED
    BY Zenon, <1>1, <1>6, <2>1, <2>2, SucceedsWell DEF MoreProcessing
<1>7. CASE Fails(c, work[c], AuthStatus(o)) /\ UNCHANGED <<store, credits>>
  <2>1. AuthStatus(o) # "none"
    BY Zenon DEF AuthStatus
  <2> QED
    BY Zenon, <1>1, <1>3, <1>5, <1>7, <2>1, FailsWell
<1>8. CASE /\ id \in Sids
           /\ store' = [store EXCEPT !.nextSid = IF o.id # None THEN @ ELSE @ + 1]
           /\ work' = [work EXCEPT ![c].stage = "create", ![c].id = id, ![c].user = o.user,
                ![c].setup = IF Existing(c, w.cmd) THEN store.sessions[w.cmd.sid] ELSE store.sessions[id]]
           /\ UNCHANGED <<reply, credits>>
  <2>0. PICK next, setup :
          /\ next = IF o.id # None THEN store.nextSid ELSE store.nextSid + 1
          /\ setup = IF Existing(c, w.cmd) THEN store.sessions[w.cmd.sid] ELSE store.sessions[id]
    BY Zenon
  <2>1. store' = [sessions |-> store.sessions, trees |-> store.trees, handles |-> store.handles,
           nextSid |-> next, nextTid |-> store.nextTid, nextFid |-> store.nextFid, made |-> store.made]
    BY Zenon, <1>8, <2>0, StoreFields
  <2>2. StoreInv(store')
    BY Zenon, <2>1, StoreFields, SameSessions
  <2>3. Keyed(setup)
    <3>1. Existing(c, w.cmd) => w.cmd.sid \in Sids
      BY Zenon DEF Existing, Live
    <3> QED
      BY Zenon, <1>3, <1>8, <2>0, <3>1 DEF StoreInv
  <2>4. InWork(Says(mode.name, c), w, conn[c].keys, credits[c])
    BY Zenon, <1>0, <1>1 DEF ConnectionInv
  <2>5. w = [stage |-> w.stage, msg |-> w.msg, ctx |-> w.ctx, cmd |-> w.cmd, out |-> w.out,
             ran |-> w.ran, setup |-> w.setup, id |-> w.id, user |-> w.user]
    BY Zenon, <2>4 DEF InWork
  <2>6. PICK user, v :
          /\ user = o.user
          /\ v = [w EXCEPT !.stage = "create", !.id = id, !.user = user, !.setup = setup]
    BY Zenon
  <2>7. work' = [work EXCEPT ![c] = v]
    BY ZenonT(60), <1>0, <1>8, <2>0, <2>6
  <2>8. Found(w, v, id, user, setup)
    BY Zenon, <2>5, <2>6, SessionFound
  <2>9. "create" \in {"resolve", "session", "tree", "run", "create"} /\ "create" # "resolve"
    BY Zenon
  <2>10. (Chained(w) => Chained(v)) /\ (UnderWay(w, credits[c]) => UnderWay(v, credits[c]))
    BY Zenon, <2>8, SameCommand DEF Found
  <2>11. w.stage # "resolve" /\ v.cmd.op = "session_setup"
    BY Zenon, <1>0, <1>1, <2>8 DEF Found
  <2>12. InWork(Says(mode.name, c), v, conn[c].keys, credits[c])
    BY Zenon, <1>8, <2>3, <2>4, <2>8, <2>9, <2>10, <2>11 DEF InWork, Found
  <2>13. Paid(c) /\ credits'[c] = credits[c] /\ reply' = reply
    BY Zenon, <1>8 DEF Paid, ConnectionInv
  <2>14. InWork(Says(mode.name, c), v, conn[c].keys, credits'[c])
    BY Zenon, <2>12, <2>13
  <2> QED
    BY Zenon, <1>1, <1>5, <2>2, <2>7, <2>13, <2>14, Moves
<1> QED
  BY Zenon, <1>2, <1>6, <1>7, <1>8

\* A signed response whose key the connection has.
LEMMA SignedMade ==
  ASSUME NEW m, NEW keys, NEW r, Made(m, keys, r), NEW key, r.sid \in Sids, keys[r.sid] # NoKey,
         NEW q, q = Signed(key, r)
  PROVE Made(m, keys, q) /\ Alike(r, q)
<1>1. IsResponse(r) /\ r.related = FALSE /\ r.next = FALSE
  BY SMTT(30) DEF Made, IsResponse
<1>2. IsResponse(q) /\ Alike(r, q) /\ Covers(q) /\ q.related = FALSE /\ q.next = FALSE
  BY Zenon, <1>1, SignedIs
<1>3. q = [op |-> q.op, status |-> q.status, sid |-> q.sid, tid |-> q.tid, fid |-> q.fid,
           credits |-> q.credits, related |-> FALSE, next |-> FALSE, sig |-> q.sig]
  BY Zenon, <1>2 DEF IsResponse
<1>4. Coverable(m) /\ q.op # "negotiate" /\ ~Silent(q) => q.credits >= 1
  BY Zenon, <1>2 DEF Made, Alike, Silent
<1>5. q.sid = r.sid /\ (q.sig # Unsigned => q.sig = Signature(q.sig.key, q))
  BY Zenon, <1>2 DEF Alike, Covers
<1>6. Made(m, keys, q)
  BY Zenon, <1>3, <1>4, <1>5 DEF Made
<1> QED
  BY Zenon, <1>2, <1>6

\* The connection after a session entered its table and its key the keys.
LEMMA ConnEntered ==
  ASSUME ConnectionInv, NEW c \in Conns, UNCHANGED <<mode, wire, buffer, breaks>>, StoreInv(store'),
         NEW ss \in SUBSET Sids, NEW keys \in [Sids -> Nat],
         conn' = [conn EXCEPT ![c].sessions = ss, ![c].keys = keys]
  PROVE Others(c) /\ conn'[c].keys = keys
<1>0. PICK k : k = [conn[c] EXCEPT !.sessions = ss, !.keys = keys]
  BY Zenon
<1>1. ConnInv(conn[c]) /\ DOMAIN conn = Conns
  BY Zenon DEF ConnectionInv
<1>2. conn' = [conn EXCEPT ![c] = k]
  BY Zenon, <1>0, <1>1
<1>3. ConnInv(k) /\ k.up = conn[c].up /\ k.keys = keys
  BY Zenon, <1>0, <1>1 DEF ConnInv
<1>4. Others(c) /\ conn'[c] = k
  BY Zenon, <1>2, <1>3, ConnOthers
<1> QED
  BY Zenon, <1>3, <1>4

\* A key that is set keeps the others.
LEMMA KeySet ==
  ASSUME NEW m, NEW old \in [Sids -> Nat], NEW s \in Sids, NEW key \in Nat \ {0},
         NEW keys, keys = [old EXCEPT ![s] = key]
  PROVE keys \in [Sids -> Nat] /\ KeysKept(m, old, keys) /\ keys[s] # NoKey
<1>1. keys \in [Sids -> Nat] /\ keys[s] = key /\ key # NoKey
  BY Zenon DEF NoKey
<1>2. \A x \in Sids : x # s => keys[x] = old[x]
  BY Zenon
<1> QED
  BY Zenon, <1>1, <1>2 DEF KeysKept

\* The second half of SESSION_SETUP.
LEMMA EstablishWell ==
  ASSUME ConnectionInv, Replies, NEW c \in Conns, Establish(c)
  PROVE ConnectionInv' /\ Replies'
<1> DEFINE w == work[c]
           old == conn[c].keys
           new == ~w.setup.live
           named == ~w.user.guest /\ ~w.user.anonymous
           key == IF ~new THEN w.setup.key ELSE IF named THEN 2 * store.made ELSE NullKey
           dialect == IF conn[c].dialect = NoDialect THEN "2.0" ELSE conn[c].dialect
           signing == IF ~new /\ old[w.id] # NoKey THEN old[w.id] ELSE DerivedKey(dialect, key)
           session == [user |-> w.user, key |-> key, dialect |-> dialect, live |-> TRUE]
           keys == IF named THEN [old EXCEPT ![w.id] = signing] ELSE old
           created == IF new THEN [store EXCEPT !.made = @ + 1, !.sessions[w.id] = session] ELSE store
           r == Response(w.cmd, "ok", w.id, w.cmd.tid, 0, Grant(c, w))
           ss == IF new THEN WithSession(conn[c].sessions, w.id) ELSE conn[c].sessions
           a == IF named THEN Signed(signing, r) ELSE r
<1>1. /\ work[c].stage = "create" /\ UNCHANGED <<mode, wire, buffer, breaks>>
      /\ store' = IF w.cmd.arg.previous # 0 /\ named THEN Deleted(created, w.cmd.arg.previous) ELSE created
      /\ conn' = [conn EXCEPT ![c].sessions = ss, ![c].keys = keys]
      /\ Granted(c, work[c])
      /\ Answer(c, work[c], keys, a, TRUE)
  BY Zenon DEF Establish
<1>a. w = work[c] /\ old = conn[c].keys
  BY Zenon
<1>b. /\ key = IF ~new THEN w.setup.key ELSE IF named THEN 2 * store.made ELSE NullKey
      /\ dialect = IF conn[c].dialect = NoDialect THEN "2.0" ELSE conn[c].dialect
  BY Zenon
<1>c. /\ signing = IF ~new /\ old[w.id] # NoKey THEN old[w.id] ELSE DerivedKey(dialect, key)
      /\ session = [user |-> w.user, key |-> key, dialect |-> dialect, live |-> TRUE]
  BY Zenon
<1>d. /\ keys = IF named THEN [old EXCEPT ![w.id] = signing] ELSE old
      /\ created = IF new THEN [store EXCEPT !.made = @ + 1, !.sessions[w.id] = session] ELSE store
      /\ r = Response(w.cmd, "ok", w.id, w.cmd.tid, 0, Grant(c, w))
      /\ ss = IF new THEN WithSession(conn[c].sessions, w.id) ELSE conn[c].sessions
  BY Zenon
<1>e. a = IF named THEN Signed(signing, r) ELSE r
  BY Zenon
<1> HIDE DEF w, old, key, dialect, signing, session, keys, created, r, ss, a
<1>2. work[c] # NoWork /\ work[c].stage # "resolve"
  BY Zenon, <1>1, AtWork
<1>3. ConnInv(conn[c]) /\ StoreInv(store) /\ InWork(Says(mode.name, c), w, old, credits[c])
      /\ DOMAIN conn = Conns
  BY Zenon, <1>a, <1>2 DEF ConnectionInv
<1>4. /\ w.id \in Sids /\ w.cmd.op = "session_setup" /\ Keyed(w.setup)
      /\ old \in [Sids -> Nat] /\ store.made \in Nat \ {0} /\ conn[c].sessions \subseteq Sids
  BY Zenon, <1>a, <1>1, <1>3 DEF InWork, ConnInv, StoreInv
<1>5. key \in Nat \ {0}
  <2>1. CASE w.setup.live
    BY Zenon, <1>b, <1>4, <2>1 DEF Keyed
  <2>2. CASE ~w.setup.live /\ named
    <3>1. key = 2 * store.made
      BY Zenon, <1>b, <2>2
    <3> QED
      BY SMTT(30), <1>4, <3>1
  <2>3. CASE ~w.setup.live /\ ~named
    <3>1. key = 1
      BY Zenon, <1>b, <2>3 DEF NullKey
    <3> QED
      BY SMTT(30), <3>1
  <2> QED
    BY Zenon, <2>1, <2>2, <2>3
<1>6. DerivedKey(dialect, key) \in Nat \ {0}
  BY SMTT(30), <1>5 DEF DerivedKey
<1>7. signing \in Nat \ {0}
  <2>1. old[w.id] \in Nat
    BY Zenon, <1>4
  <2> QED
    BY Zenon, <1>c, <1>6, <2>1 DEF NoKey
<1>8. /\ keys \in [Sids -> Nat] /\ KeysKept(w.msg, old, keys)
      /\ named => keys[w.id] # NoKey
  <2>1. CASE named
    <3>1. keys = [old EXCEPT ![w.id] = signing]
      BY Zenon, <1>d, <2>1
    <3> QED
      BY Zenon, <1>4, <1>7, <3>1, KeySet
  <2>2. CASE ~named
    BY Zenon, <1>d, <1>4, <2>2 DEF KeysKept
  <2> QED
    BY Zenon, <2>1, <2>2
<1>9. StoreInv(created)
  <2>1. CASE new
    <3>0. PICK xs : xs = [store.sessions EXCEPT ![w.id] = session]
      BY Zenon
    <3>1. created = [sessions |-> xs, trees |-> store.trees, handles |-> store.handles,
             nextSid |-> store.nextSid, nextTid |-> store.nextTid, nextFid |-> store.nextFid,
             made |-> store.made + 1]
      BY Zenon, <1>d, <2>1, <3>0, StoreFields
    <3>2. Keyed(session)
      BY Zenon, <1>c, <1>5 DEF Keyed
    <3>3. DOMAIN xs = Sids /\ \A s \in Sids : Keyed(xs[s])
      BY Zenon, <1>3, <3>0, <3>2 DEF StoreInv
    <3>4. store.made + 1 \in Nat \ {0}
      BY SMTT(30), <1>4
    <3>5. /\ created.sessions = xs /\ created.handles = store.handles
          /\ created.nextFid = store.nextFid /\ created.made = store.made + 1
          /\ created = [sessions |-> created.sessions, trees |-> created.trees,
               handles |-> created.handles, nextSid |-> created.nextSid, nextTid |-> created.nextTid,
               nextFid |-> created.nextFid, made |-> created.made]
      BY Zenon, <3>1
    <3> QED
      BY Zenon, <3>3, <3>4, <3>5, StoreFields DEF StoreInv
  <2>2. CASE ~new
    BY Zenon, <1>d, <1>3, <2>2
  <2> QED
    BY Zenon, <2>1, <2>2
<1>10. StoreInv(store')
  BY Zenon, <1>1, <1>9, DeletedStore
<1>11. ss \in SUBSET Sids
  BY Zenon, <1>d, <1>4 DEF WithSession
<1>12. Others(c) /\ conn'[c].keys = keys
  BY Zenon, <1>1, <1>8, <1>10, <1>11, ConnEntered
<1>13. Paid(c) /\ (Coverable(w.msg) /\ w.cmd.op # "negotiate" => Grant(c, w) >= 1)
  BY Zenon, <1>a, <1>1, <1>2, GrantedWell
<1>14. Made(w.msg, keys, r) /\ r.op = w.cmd.op /\ r.status = "ok" /\ r.sid = w.id /\ r.fid = 0
  <2>1. Plain(Response(w.cmd, "ok", w.id, w.cmd.tid, 0, Grant(c, w)), w.cmd.op, "ok", w.id, 0, Grant(c, w))
    BY Zenon, ResponseIs
  <2>2. Plain(r, w.cmd.op, "ok", w.id, 0, Grant(c, w))
    BY Zenon, <1>d, <2>1
  <2>3. Made(w.msg, keys, r)
    BY Zenon, <1>13, <2>2, UnsignedMade
  <2> QED
    BY Zenon, <2>2, <2>3 DEF Plain
<1>15. Made(w.msg, keys, a) /\ a.op = "session_setup" /\ a.status = "ok"
  <2>1. CASE named
    <3>1. Made(w.msg, keys, a) /\ Alike(r, a)
      <4>1. a = Signed(signing, r) /\ r.sid \in Sids /\ keys[r.sid] # NoKey /\ Made(w.msg, keys, r)
        BY Zenon, <1>e, <1>4, <1>8, <1>14, <2>1
      <4> QED
        BY Zenon, <4>1, SignedMade
    <3> QED
      BY Zenon, <1>4, <1>14, <3>1 DEF Alike
  <2>2. CASE ~named
    BY Zenon, <1>e, <1>4, <1>14, <2>2
  <2> QED
    BY Zenon, <2>1, <2>2
<1>16. /\ ~Failed(a) /\ "session_setup" \in OwnSession /\ "session_setup" \notin FileOps
       /\ "session_setup" # "create"
  BY Zenon, <1>15 DEF Failed, OwnSession, FileOps
<1>17. Fits(w, keys, a, TRUE)
  BY Zenon, <1>a, <1>2, <1>4, <1>15, <1>16 DEF Fits
<1>18. /\ Fits(work[c], keys, a, TRUE) /\ KeysKept(work[c].msg, conn[c].keys, conn'[c].keys)
       /\ keys = conn'[c].keys
  BY Zenon, <1>a, <1>8, <1>12, <1>17
<1> QED
  BY Zenon, <1>1, <1>2, <1>12, <1>13, <1>18, Answers

\* Binding a session to this connection.
LEMMA BindingWell ==
  ASSUME ConnectionInv, Replies, NEW c \in Conns, Binding(c)
  PROVE ConnectionInv' /\ Replies'
<1>0. PICK w, s, keys, ss :
        /\ w = work[c] /\ s = IF w.cmd.sid \in Sids THEN store.sessions[w.cmd.sid] ELSE NoSession
        /\ keys = [conn[c].keys EXCEPT ![w.cmd.sid] = s.key]
        /\ ss = WithSession(conn[c].sessions, w.cmd.sid)
  BY Zenon
<1>1. /\ work[c] # NoWork /\ work[c].stage # "resolve" /\ work[c].cmd.op = "session_setup"
      /\ UNCHANGED <<mode, wire, buffer, breaks, store>>
  BY Zenon, RunsIs DEF Binding
<1> DEFINE refusal(late) ==
             IF conn[c].dialect # "3.0" THEN "request_not_accepted"
             ELSE IF ~s.live THEN "session_deleted"
             ELSE IF conn[c].dialect # s.dialect \/ ~w.cmd.arg.signed THEN "invalid"
             ELSE IF late THEN "session_expired"
             ELSE IF s.user.guest \/ s.user.anonymous THEN "not_supported"
             ELSE IF w.cmd.sid \in conn[c].sessions THEN "request_not_accepted"
             ELSE IF ~Verified(s.key, w.cmd) THEN "access_denied" ELSE "none"
<1>2. PICK late \in mode.late :
        IF refusal(late) # "none" THEN Fails(c, work[c], refusal(late)) /\ UNCHANGED <<conn, credits>>
        ELSE /\ conn' = [conn EXCEPT ![c].sessions = WithSession(@, w.cmd.sid), ![c].keys = keys]
             /\ Succeeds(c, work[c], keys, work[c].cmd.sid, work[c].cmd.tid, 0)
  BY ZenonT(60), <1>0 DEF Binding
<1>3. refusal(late) = "none" => s.live
  BY Zenon
<1>4. PICK status : status = refusal(late)
  BY Zenon
<1> HIDE DEF refusal
<1>5. CASE status # "none"
  BY Zenon, <1>1, <1>2, <1>4, <1>5, JustFails
<1>6. CASE status = "none"
  <2>1. /\ conn' = [conn EXCEPT ![c].sessions = ss, ![c].keys = keys]
        /\ Succeeds(c, work[c], keys, work[c].cmd.sid, work[c].cmd.tid, 0)
    BY Zenon, <1>0, <1>2, <1>4, <1>6
  <2>2. ConnInv(conn[c]) /\ StoreInv(store)
    BY Zenon DEF ConnectionInv
  <2>3. s.live
    BY Zenon, <1>3, <1>4, <1>6
  <2>4. w.cmd.sid \in Sids
    BY Zenon, <1>0, <2>3 DEF NoSession
  <2>5. s.key \in Nat \ {0}
    BY Zenon, <1>0, <2>2, <2>3, <2>4 DEF StoreInv, Keyed
  <2>6. keys \in [Sids -> Nat] /\ KeysKept(work[c].msg, conn[c].keys, keys)
    BY Zenon, <1>0, <2>2, <2>4, <2>5, KeySet DEF ConnInv
  <2>7. ss \in SUBSET Sids
    BY Zenon, <1>0, <2>2, <2>4 DEF WithSession, ConnInv
  <2>8. StoreInv(store')
    BY Zenon, <1>1, <2>2
  <2>9. Others(c) /\ conn'[c].keys = keys
    BY Zenon, <1>1, <2>1, <2>6, <2>7, <2>8, ConnEntered
  <2>10. KeysKept(work[c].msg, conn[c].keys, conn'[c].keys) /\ keys = conn'[c].keys
    BY Zenon, <2>6, <2>9
  <2>11. "session_setup" \notin FileOps /\ "session_setup" # "create" /\ "ok" \in {"ok", "more"}
    BY Zenon DEF FileOps
  <2> QED
    BY Zenon, <1>1, <2>1, <2>9, <2>10, <2>11, SucceedsWell DEF Succeeds
<1> QED
  BY Zenon, <1>5, <1>6

-------------------------------------------------------------------------------
(* The loop over the commands, and over the messages. *)

\* A message with a single error for an answer.
LEMMA OneError ==
  ASSUME NEW c \in Conns, DOMAIN work = Conns, DOMAIN reply = Conns, NEW w, NEW keys \in [Sids -> Nat],
         GoodMessage(w.msg), w.ran \subseteq 1..Len(w.msg.cmds), NEW cmd, NEW status,
         Finished(c, w, keys, <<ErrorResponse(cmd, status)>>)
  PROVE /\ DOMAIN work' = Conns /\ DOMAIN reply' = Conns
        /\ work'[c] = NoWork /\ GoodReply(reply'[c].msg, reply'[c].ran, reply'[c].out)
        /\ \A d \in Conns : d # c => work'[d] = work[d] /\ reply'[d] = reply[d]
<1>0. PICK e, out : e = ErrorResponse(cmd, status) /\ out = <<e>>
  BY Zenon
<1>1. Len(out) = 1 /\ Len(out) \in Nat /\ ~(Len(out) > 1) /\ (\A i \in 1..Len(out) : out[i] = e)
  BY SMTT(30), <1>0
<1>2. IsResponse(e) /\ e.sig = Unsigned /\ e.credits >= 1
  <2>1. Plain(ErrorResponse(cmd, status), cmd.op, status, cmd.sid, cmd.fid, 1) /\ 1 >= 1
    BY SMTT(30), ErrorIs
  <2> QED
    BY Zenon, <1>0, <2>1 DEF Plain
<1>3. Covers(e)
  BY Zenon, <1>2 DEF Covers
<1>4. GoodReply(w.msg, w.ran, out)
  BY Zenon, <1>1, <1>2, <1>3 DEF GoodReply
<1>5. \A i \in 1..Len(out) : IsResponse(out[i])
  BY Zenon, <1>1, <1>2
<1>6. Finished(c, w, keys, out)
  BY Zenon, <1>0
<1>7. Len(w.msg.cmds) \in Nat
  BY Zenon DEF GoodMessage
<1> QED
  BY Zenon, <1>1, <1>4, <1>5, <1>6, <1>7, FinishedIs

\* What a step of c has to establish.
LEMMA Frame ==
  ASSUME ConnectionInv, NEW c \in Conns, mode' = mode,
         DOMAIN conn' = Conns, DOMAIN work' = Conns, DOMAIN reply' = Conns,
         DOMAIN wire' = Conns, DOMAIN buffer' = Conns,
         credits' \in [Conns -> 0..MaxCredits], breaks' \in [Conns -> 0..MaxBreaks], StoreInv(store'),
         \A d \in Conns : d # c => /\ conn'[d] = conn[d] /\ work'[d] = work[d] /\ wire'[d] = wire[d]
                                   /\ buffer'[d] = buffer[d] /\ credits'[d] = credits[d],
         ConnInv(conn'[c]), wire'[c] \in Seq(Says(mode.name, c)),
         buffer'[c] \in Seq(Says(mode.name, c) \ {EOF}),
         work'[c] # NoWork =>
           conn'[c].up /\ InWork(Says(mode.name, c), work'[c], conn'[c].keys, credits'[c])
  PROVE ConnectionInv'
<1>1. ASSUME NEW d \in Conns
      PROVE /\ ConnInv(conn'[d])
            /\ wire'[d] \in Seq(Says(mode'.name, d)) /\ buffer'[d] \in Seq(Says(mode'.name, d) \ {EOF})
            /\ work'[d] # NoWork =>
                 conn'[d].up /\ InWork(Says(mode'.name, d), work'[d], conn'[d].keys, credits'[d])
  <2>1. CASE d = c
    BY Zenon, <2>1
  <2>2. CASE d # c
    BY Zenon, <2>2 DEF ConnectionInv
  <2> QED
    BY Zenon, <2>1, <2>2
<1> QED
  BY Zenon, <1>1 DEF ConnectionInv

\* A place in a list.
LEMMA OnePlace ==
  ASSUME NEW k, NEW n \in 1..k
  PROVE n \in Nat /\ n \in 1..n /\ ~(n < n)
  BY SMTT(30)

\* A command is dispatched.
LEMMA DispatchedWell ==
  ASSUME ConnectionInv, Replies, NEW c \in Conns, NEW w, w = work[c], w.stage = "resolve",
         UNCHANGED <<mode, conn, wire, buffer, breaks, store>>,
         NEW cmd, WellFormed(cmd), cmd.op = w.msg.cmds[w.ctx.index].op,
         cmd.charge = w.msg.cmds[w.ctx.index].charge,
         w.ctx.index = 1 => cmd.sid = w.msg.cmds[w.ctx.index].sid,
         w.msg.related =>
           /\ w.ctx.error = "none"
           /\ w.msg.cmds[w.ctx.index].sid = Sentinel => cmd.sid = w.msg.cmds[1].sid
           /\ cmd.op \in FileOps /\ w.ctx.fid # 0 => cmd.fid = w.ctx.fid,
         Dispatched(c, w, cmd)
  PROVE ConnectionInv' /\ Replies'
<1>0. PICK stage, n, left, v :
        /\ stage = IF cmd.op \in NeedsSession THEN "session" ELSE "run"
        /\ n = w.ctx.index
        /\ left = IF cmd.op = "negotiate" THEN credits[c] ELSE Consumed(credits[c], cmd.charge)
        /\ v = [w EXCEPT !.cmd = cmd, !.ran = @ \cup {n}, !.stage = stage]
  BY Zenon
<1>1. work[c] # NoWork
  BY Zenon, AtWork
<1>2. InWork(Says(mode.name, c), w, conn[c].keys, credits[c]) /\ credits \in [Conns -> 0..MaxCredits]
  BY Zenon, <1>1 DEF ConnectionInv
<1>3. /\ w = [stage |-> w.stage, msg |-> w.msg, ctx |-> w.ctx, cmd |-> w.cmd, out |-> w.out,
              ran |-> w.ran, setup |-> w.setup, id |-> w.id, user |-> w.user]
      /\ n \in 1..Len(w.msg.cmds) /\ w.ran \subseteq 1..n /\ n \notin w.ran
      /\ w.msg.related => Chained(w)
  BY Zenon, <1>0, <1>2 DEF InWork
<1>4. /\ work' = [work EXCEPT ![c] = v] /\ reply' = reply
      /\ credits' = [credits EXCEPT ![c] = left]
  BY Zenon, <1>0 DEF Dispatched
<1>5. credits[c] \in 0..MaxCredits /\ cmd.charge \in Nat
  BY Zenon, <1>2 DEF WellFormed
<1>6. left \in 0..MaxCredits /\ (cmd.op # "negotiate" /\ cmd.charge <= MaxCredits => left < MaxCredits)
  BY Zenon, <1>0, <1>5, ConsumedIs
<1>7. Paid(c) /\ credits'[c] = left
  BY Zenon, <1>2, <1>4, <1>6 DEF Paid
<1>8. v = [stage |-> stage, msg |-> w.msg, ctx |-> w.ctx, cmd |-> cmd, out |-> w.out,
           ran |-> w.ran \cup {n}, setup |-> w.setup, id |-> w.id, user |-> w.user]
  BY ZenonT(60), <1>0, <1>3
<1>9. /\ v.stage = stage /\ v.msg = w.msg /\ v.ctx = w.ctx /\ v.cmd = cmd /\ v.out = w.out
      /\ v.ran = w.ran \cup {n} /\ v.setup = w.setup
      /\ v = [stage |-> v.stage, msg |-> v.msg, ctx |-> v.ctx, cmd |-> v.cmd, out |-> v.out,
              ran |-> v.ran, setup |-> v.setup, id |-> v.id, user |-> v.user]
  BY Zenon, <1>8
<1>10. /\ stage \in {"resolve", "session", "tree", "run", "create"}
       /\ stage # "resolve" /\ stage # "create"
  BY Zenon, <1>0
<1>11. n \in Nat /\ n \in 1..n /\ ~(n < n)
  <2>1. n \in 1..Len(w.msg.cmds)
    BY Zenon, <1>3
  <2> QED
    BY Zenon, <2>1, OnePlace
<1>12. v.ran \subseteq 1..n
  BY Zenon, <1>3, <1>9, <1>11
<1>13. w.msg.related => Chained(v)
  <2>1. \A j \in v.ran : j < n => j \in w.ran
    BY Zenon, <1>9, <1>11
  <2>2. \A j \in v.ran : j < w.ctx.index => j \in w.ran
    BY Zenon, <1>0, <2>1
  <2> QED
    BY Zenon, <1>3, <1>9, <2>2, ChainedAlso
<1>14. UnderWay(v, left)
  <2>0. PICK x : x = w.msg.cmds[w.ctx.index]
    BY Zenon
  <2>1. /\ cmd.op = x.op /\ cmd.charge = x.charge /\ (w.ctx.index = 1 => cmd.sid = x.sid)
        /\ w.msg.related => /\ w.ctx.error = "none"
                            /\ x.sid = Sentinel => cmd.sid = w.msg.cmds[1].sid
                            /\ x.op \in FileOps /\ w.ctx.fid # 0 => cmd.fid = w.ctx.fid
        /\ x.op # "negotiate" /\ x.charge <= MaxCredits => left < MaxCredits
    BY Zenon, <1>6, <2>0
  <2>2. v.msg.cmds[v.ctx.index] = x
    BY Zenon, <1>9, <2>0
  <2> QED
    BY ZenonT(60), <1>9, <2>1, <2>2 DEF UnderWay
<1>15. InWork(Says(mode.name, c), v, conn[c].keys, left)
  BY ZenonT(60), <1>0, <1>2, <1>9, <1>10, <1>12, <1>13, <1>14 DEF InWork
<1>16. InWork(Says(mode.name, c), v, conn[c].keys, credits'[c])
  BY Zenon, <1>7, <1>15
<1>17. Others(c)
  BY Zenon, SameOthers
<1> QED
  BY Zenon, <1>1, <1>4, <1>7, <1>16, <1>17, Moves

\* An error that the loop itself answers with.
LEMMA RefusedWell ==
  ASSUME ConnectionInv, Replies, NEW c \in Conns, work[c].stage = "resolve",
         UNCHANGED <<mode, conn, wire, buffer, breaks, store, credits>>,
         NEW cmd, NEW status, status # "none",
         Answer(c, work[c], conn[c].keys, ErrorResponse(cmd, status), FALSE)
  PROVE ConnectionInv' /\ Replies'
<1>0. PICK w, r, keys : w = work[c] /\ r = ErrorResponse(cmd, status) /\ keys = conn[c].keys
  BY Zenon
<1>1. Others(c) /\ KeysKept(work[c].msg, conn[c].keys, conn'[c].keys) /\ keys = conn'[c].keys
  BY Zenon, <1>0, SameOthers
<1>2. Paid(c) /\ work[c] # NoWork
  BY Zenon, AtWork DEF Paid, ConnectionInv
<1>3. Made(w.msg, keys, r) /\ r.status = status
  <2>1. /\ Made(w.msg, keys, ErrorResponse(cmd, status))
        /\ Plain(ErrorResponse(cmd, status), cmd.op, status, cmd.sid, cmd.fid, 1)
    BY Zenon, ErrorMade, ErrorIs
  <2> QED
    BY Zenon, <1>0, <2>1 DEF Plain
<1>4. Fits(w, keys, r, FALSE)
  BY Zenon, <1>0, <1>3 DEF Fits
<1>5. Fits(work[c], keys, r, FALSE) /\ Answer(c, work[c], keys, r, FALSE)
  BY Zenon, <1>0, <1>4
<1> QED
  BY Zenon, <1>1, <1>2, <1>5, Answers

\* A command with its ids resolved is still that command.
LEMMA ResolvedIs ==
  ASSUME NEW w, NEW cmd, WellFormed(cmd), NEW x, x = WithFile(w, Resolved(w, cmd))
  PROVE /\ WellFormed(x) /\ x.op = cmd.op /\ x.charge = cmd.charge
        /\ cmd.sid = Sentinel => x.sid = w.ctx.sid
        /\ cmd.op \in FileOps /\ w.ctx.fid # 0 => x.fid = w.ctx.fid
<1>0. PICK y : y = Resolved(w, cmd)
  BY Zenon
<1>1. cmd = [op |-> cmd.op, sid |-> cmd.sid, tid |-> cmd.tid, fid |-> cmd.fid,
             charge |-> cmd.charge, ask |-> cmd.ask, arg |-> cmd.arg]
  BY Zenon DEF WellFormed
<1>2. y = [op |-> cmd.op, sid |-> IF cmd.sid = Sentinel THEN w.ctx.sid ELSE cmd.sid,
           tid |-> IF cmd.tid = Sentinel THEN w.ctx.tid ELSE cmd.tid, fid |-> cmd.fid,
           charge |-> cmd.charge, ask |-> cmd.ask, arg |-> cmd.arg]
  BY Zenon, <1>0, <1>1 DEF Resolved
<1>3. x = [op |-> cmd.op, sid |-> IF cmd.sid = Sentinel THEN w.ctx.sid ELSE cmd.sid,
           tid |-> IF cmd.tid = Sentinel THEN w.ctx.tid ELSE cmd.tid,
           fid |-> IF cmd.op \in FileOps /\ w.ctx.fid # 0 THEN w.ctx.fid ELSE cmd.fid,
           charge |-> cmd.charge, ask |-> cmd.ask, arg |-> cmd.arg]
  BY SMTT(30), <1>0, <1>2 DEF WithFile
<1> QED
  BY SMTT(30), <1>3 DEF WellFormed

\* The loop over the commands of a message.
LEMMA ResolveWell ==
  ASSUME ConnectionInv, Replies, NEW c \in Conns, Resolve(c)
  PROVE ConnectionInv' /\ Replies'
<1>0. PICK w, n, cmd, x : /\ w = work[c] /\ n = w.ctx.index /\ cmd = w.msg.cmds[n]
                          /\ x = WithFile(w, Resolved(w, cmd))
  BY Zenon
<1>1. work[c].stage = "resolve" /\ w.stage = "resolve"
      /\ UNCHANGED <<mode, conn, wire, buffer, breaks, store>>
  BY Zenon, <1>0 DEF Resolve
<1>2. work[c] # NoWork
  BY Zenon, <1>1, AtWork
<1>3. InWork(Says(mode.name, c), w, conn[c].keys, credits[c]) /\ mode \in Modes
  BY Zenon, <1>0, <1>2 DEF ConnectionInv
<1>4. GoodMessage(w.msg) /\ n \in 1..Len(w.msg.cmds) /\ (n = 1 => w.ctx = Context)
      /\ w.ran \subseteq 1..n /\ (w.msg.related => Chained(w))
  BY Zenon, <1>0, <1>3, SaidIsGood DEF InWork
<1>5. WellFormed(cmd) /\ n \in Nat \ {0} /\ w.ran \subseteq 1..Len(w.msg.cmds)
  <2>1. WellFormed(cmd)
    BY Zenon, <1>0, <1>4 DEF GoodMessage
  <2>2. n \in Nat \ {0} /\ 1..n \subseteq 1..Len(w.msg.cmds)
    BY Zenon, <1>4, UpTo DEF GoodMessage
  <2> QED
    BY Zenon, <1>4, <2>1, <2>2
<1>6. \/ /\ Answer(c, work[c], conn[c].keys,
              ErrorResponse([cmd EXCEPT !.sid = w.ctx.sid, !.tid = w.ctx.tid], "invalid"), FALSE)
         /\ UNCHANGED credits
      \/ w.msg.related /\ n > 1 /\ Related(c, w, cmd)
      \/ ~(w.msg.related /\ n > 1) /\ Dispatched(c, w, cmd)
  BY Zenon, <1>0 DEF Resolve
<1>7. CASE /\ Answer(c, work[c], conn[c].keys,
                ErrorResponse([cmd EXCEPT !.sid = w.ctx.sid, !.tid = w.ctx.tid], "invalid"), FALSE)
           /\ UNCHANGED credits
  <2>1. "invalid" # "none"
    BY Zenon
  <2> QED
    BY Zenon, <1>1, <1>7, <2>1, RefusedWell
<1>8. CASE ~(w.msg.related /\ n > 1) /\ Dispatched(c, w, cmd)
  <2>1. w.msg.related => n = 1
    BY SMTT(30), <1>5, <1>8
  <2>2. w.msg.related => w.ctx.error = "none" /\ w.ctx.fid = 0
    BY SMTT(30), <1>4, <2>1 DEF Context
  <2>3. w.msg.related => cmd = w.msg.cmds[1]
    BY Zenon, <1>0, <2>1
  <2> QED
    BY Zenon, <1>0, <1>1, <1>5, <1>8, <2>2, <2>3, DispatchedWell
<1>9. CASE w.msg.related /\ n > 1 /\ Related(c, w, cmd)
  <2>1. \/ /\ Finished(c, w, conn[c].keys, <<ErrorResponse(w.msg.cmds[1], "invalid")>>)
           /\ UNCHANGED credits
        \/ /\ w.ctx.error # "none" /\ UNCHANGED credits
           /\ Answer(c, work[c], conn[c].keys, ErrorResponse(Resolved(w, cmd), w.ctx.error), FALSE)
        \/ ~Unresolved(w, cmd) /\ w.ctx.error = "none" /\ Dispatched(c, w, x)
    BY Zenon, <1>0, <1>9 DEF Related
  <2>2. CASE /\ Finished(c, w, conn[c].keys, <<ErrorResponse(w.msg.cmds[1], "invalid")>>)
             /\ UNCHANGED credits
    <3>1. DOMAIN work = Conns /\ DOMAIN reply = Conns /\ conn[c].keys \in [Sids -> Nat]
      BY Zenon DEF ConnectionInv, ConnInv
    <3>2. /\ DOMAIN work' = Conns /\ DOMAIN reply' = Conns
          /\ work'[c] = NoWork /\ GoodReply(reply'[c].msg, reply'[c].ran, reply'[c].out)
          /\ \A d \in Conns : d # c => work'[d] = work[d] /\ reply'[d] = reply[d]
      BY Zenon, <1>4, <1>5, <2>2, <3>1, OneError
    <3>3. Replies'
      BY Zenon, <3>2 DEF Replies
    <3>4. ConnectionInv'
      BY Zenon, <1>1, <2>2, <3>2, Frame DEF ConnectionInv
    <3> QED
      BY Zenon, <3>3, <3>4
  <2>3. CASE /\ w.ctx.error # "none" /\ UNCHANGED credits
             /\ Answer(c, work[c], conn[c].keys, ErrorResponse(Resolved(w, cmd), w.ctx.error), FALSE)
    BY Zenon, <1>1, <2>3, RefusedWell
  <2>4. CASE ~Unresolved(w, cmd) /\ w.ctx.error = "none" /\ Dispatched(c, w, x)
    <3>1. /\ WellFormed(x) /\ x.op = cmd.op /\ x.charge = cmd.charge
          /\ cmd.sid = Sentinel => x.sid = w.ctx.sid
          /\ cmd.op \in FileOps /\ w.ctx.fid # 0 => x.fid = w.ctx.fid
      <4>1. x = WithFile(w, Resolved(w, cmd)) /\ WellFormed(cmd)
        BY Zenon, <1>0, <1>5
      <4> QED
        BY SMTT(30), <4>1, ResolvedIs
    <3>2. cmd.sid = Sentinel => w.ctx.sid = w.msg.cmds[1].sid
      BY Zenon, <1>4, <1>9, <2>4 DEF Unresolved, Chained
    <3>3. n # 1
      BY SMTT(30), <1>5, <1>9
    <3> QED
      BY ZenonT(60), <1>0, <1>1, <2>4, <3>1, <3>2, <3>3, DispatchedWell
  <2> QED
    BY Zenon, <2>1, <2>2, <2>3, <2>4
<1> QED
  BY Zenon, <1>6, <1>7, <1>8, <1>9

\* The connection ends.
LEMMA ClosedWell ==
  ASSUME ConnectionInv, Replies, NEW c \in Conns, Closed(c)
  PROVE ConnectionInv' /\ Replies'
<1>0. PICK k : k = [Fresh EXCEPT !.up = FALSE]
  BY Zenon
<1>1. k = [up |-> FALSE, dialect |-> NoDialect, sessions |-> {}, keys |-> [s \in Sids |-> NoKey],
           auth |-> None]
  BY Zenon, <1>0 DEF Fresh
<1>2. [s \in Sids |-> NoKey] \in [Sids -> Nat]
  BY Zenon DEF NoKey
<1>3. ConnInv(k)
  BY Zenon, <1>1, <1>2 DEF ConnInv
<1>4. /\ mode' = mode /\ credits' = credits /\ store' = store /\ reply' = reply
      /\ DOMAIN conn' = Conns /\ conn'[c] = k /\ \A d \in Conns : d # c => conn'[d] = conn[d]
      /\ DOMAIN wire' = Conns /\ wire'[c] = <<>> /\ \A d \in Conns : d # c => wire'[d] = wire[d]
      /\ DOMAIN buffer' = Conns /\ buffer'[c] = <<>> /\ \A d \in Conns : d # c => buffer'[d] = buffer[d]
      /\ DOMAIN work' = Conns /\ work'[c] = NoWork /\ \A d \in Conns : d # c => work'[d] = work[d]
  BY ZenonT(60), <1>0, ChangedAt DEF Closed, ConnectionInv
<1>5. breaks' \in [Conns -> 0..MaxBreaks]
  BY SMTT(30), BoundsAssumption DEF Closed, ConnectionInv
<1>6. \A S : <<>> \in Seq(S)
  BY SMTT(30)
<1>7. Replies'
  BY Zenon, <1>4 DEF Replies
<1>8. StoreInv(store') /\ credits' \in [Conns -> 0..MaxCredits] /\ DOMAIN reply' = Conns
  BY Zenon, <1>4 DEF ConnectionInv
<1>9. ConnectionInv'
  BY ZenonT(60), <1>3, <1>4, <1>5, <1>6, <1>8, Frame
<1> QED
  BY Zenon, <1>7, <1>9

\* A message that is taken up.
LEMMA WorkStarts ==
  ASSUME NEW says, NEW m \in says \ {EOF}, GoodMessage(m), NEW keys, NEW left,
         NEW w, w = Working(m, "resolve")
  PROVE InWork(says, w, keys, left)
<1>1. /\ w.stage = "resolve" /\ w.msg = m /\ w.ctx = Context /\ w.out = <<>> /\ w.ran = {}
      /\ w.setup = NoSession
      /\ w = [stage |-> w.stage, msg |-> w.msg, ctx |-> w.ctx, cmd |-> w.cmd, out |-> w.out,
              ran |-> w.ran, setup |-> w.setup, id |-> w.id, user |-> w.user]
  BY Zenon DEF Working
<1>2. /\ w.ctx.index = 1 /\ w.ctx.set = FALSE /\ w.ctx.error = "none"
  BY SMTT(30), <1>1 DEF Context
<1>3. 1 \in 1..Len(m.cmds) /\ 1 - 1 = 0 /\ 1..0 = {}
  BY SMTT(30) DEF GoodMessage
<1>4. IsList(<<>>) /\ Len(<<>>) = 0
  BY SMTT(30) DEF IsList
<1>5. Keyed(NoSession)
  BY Zenon DEF Keyed, NoSession
<1>6. Chained(w)
  BY Zenon, <1>1, <1>2, <1>3 DEF Chained
<1>7. "resolve" \in {"resolve", "session", "tree", "run", "create"} /\ "resolve" # "create"
  BY Zenon
<1>8. /\ w.ran \subseteq 1..1 /\ 1 \notin w.ran
      /\ \A i \in 1..(1 - 1) : Made(w.msg, keys, w.out[i])
      /\ Len(w.out) = 1 - 1
  BY Zenon, <1>1, <1>3, <1>4
<1> QED
  BY Zenon, <1>1, <1>2, <1>3, <1>4, <1>5, <1>6, <1>7, <1>8 DEF InWork

\* The next frame of the buffer.
LEMMA TakeWell ==
  ASSUME ConnectionInv, Replies, NEW c \in Conns, Take(c)
  PROVE ConnectionInv' /\ Replies'
<1>0. PICK m, says, b, keys : /\ m = Head(buffer[c]) /\ says = Says(mode.name, c)
                              /\ b = buffer[c] /\ keys = conn[c].keys
  BY Zenon
<1>1. CASE m.cmds[1].op = "bad"
  <2>1. Closed(c)
    BY Zenon, <1>0, <1>1 DEF Take
  <2> QED
    BY Zenon, <2>1, ClosedWell
<1>2. CASE m.cmds[1].op # "bad"
  <2>1. /\ conn[c].up /\ work[c] = NoWork /\ b # <<>>
        /\ buffer' = [buffer EXCEPT ![c] = Tail(b)]
        /\ UNCHANGED <<mode, conn, wire, breaks, credits, store>>
        /\ \/ Finished(c, Working(m, "resolve"), keys, <<ErrorResponse(m.cmds[1], "invalid")>>)
           \/ work' = [work EXCEPT ![c] = Working(m, "resolve")] /\ reply' = reply
    BY Zenon, <1>0, <1>2 DEF Take
  <2>2. b \in Seq(says \ {EOF}) /\ mode \in Modes /\ DOMAIN buffer = Conns /\ keys \in [Sids -> Nat]
        /\ DOMAIN work = Conns /\ DOMAIN reply = Conns
    BY Zenon, <1>0 DEF ConnectionInv, ConnInv
  <2>3. m \in says \ {EOF} /\ Tail(b) \in Seq(says \ {EOF})
    BY SMTT(30), <1>0, <2>1, <2>2
  <2>4. GoodMessage(m)
    BY Zenon, <1>0, <2>2, <2>3, SaidIsGood
  <2>5. PICK w : w = Working(m, "resolve")
    BY Zenon
  <2>6. InWork(says, w, keys, credits[c])
    BY Zenon, <2>3, <2>4, <2>5, WorkStarts
  <2>7. w.msg = m /\ w.ran = {} /\ w.ran \subseteq 1..Len(w.msg.cmds)
    BY Zenon, <2>5 DEF Working
  <2>8. /\ DOMAIN work' = Conns /\ DOMAIN reply' = Conns
        /\ \A d \in Conns : d # c => work'[d] = work[d] /\ reply'[d] = reply[d]
        /\ work'[c] = NoWork \/ work'[c] = w
        /\ reply'[c] = reply[c] \/ GoodReply(reply'[c].msg, reply'[c].ran, reply'[c].out)
    <3>1. CASE Finished(c, Working(m, "resolve"), keys, <<ErrorResponse(m.cmds[1], "invalid")>>)
      <4>1. Finished(c, w, keys, <<ErrorResponse(m.cmds[1], "invalid")>>)
        BY Zenon, <2>5, <3>1
      <4>2. GoodMessage(w.msg)
        BY Zenon, <2>4, <2>7
      <4> QED
        BY Zenon, <2>2, <2>7, <4>1, <4>2, OneError
    <3>2. CASE work' = [work EXCEPT ![c] = Working(m, "resolve")] /\ reply' = reply
      BY Zenon, <2>2, <2>5, <3>2, ChangedAt
    <3> QED
      BY Zenon, <2>1, <3>1, <3>2
  <2>9. DOMAIN buffer' = Conns /\ buffer'[c] = Tail(b) /\ \A d \in Conns : d # c => buffer'[d] = buffer[d]
    BY Zenon, <2>1, <2>2, ChangedAt
  <2>10. Replies'
    BY Zenon, <2>8 DEF Replies
  <2>11. work'[c] # NoWork =>
           conn'[c].up /\ InWork(Says(mode.name, c), work'[c], conn'[c].keys, credits'[c])
    BY Zenon, <1>0, <2>1, <2>6, <2>8
  <2>12. ConnectionInv'
    BY ZenonT(60), <1>0, <2>1, <2>3, <2>8, <2>9, <2>11, Frame DEF ConnectionInv
  <2> QED
    BY Zenon, <2>10, <2>12
<1> QED
  BY Zenon, <1>1, <1>2

\* A step that changes nothing but frames and events.
LEMMA FramesWell ==
  ASSUME ConnectionInv, Replies, NEW c \in Conns,
         UNCHANGED <<mode, conn, work, credits, store, reply>>,
         breaks' \in [Conns -> 0..MaxBreaks], DOMAIN wire' = Conns, DOMAIN buffer' = Conns,
         \A d \in Conns : d # c => wire'[d] = wire[d] /\ buffer'[d] = buffer[d],
         wire'[c] \in Seq(Says(mode.name, c)), buffer'[c] \in Seq(Says(mode.name, c) \ {EOF})
  PROVE ConnectionInv' /\ Replies'
<1>1. Replies'
  BY Zenon DEF Replies
<1>2. ConnectionInv'
  BY Zenon, Frame DEF ConnectionInv
<1> QED
  BY Zenon, <1>1, <1>2

\* Parts of a list.
LEMMA Parts ==
  ASSUME NEW S, NEW e, NEW s \in Seq(S), NEW n \in 1..Len(s), \A i \in 1..n : s[i] # e
  PROVE SubSeq(s, 1, n) \in Seq(S \ {e}) /\ SubSeq(s, n + 1, Len(s)) \in Seq(S)
<1>1. Len(s) \in Nat /\ n \in Nat /\ \A i \in 1..Len(s) : s[i] \in S
  BY SMTT(30)
<1>2. SubSeq(s, 1, n) = [i \in 1..n |-> s[i]]
  BY SMTT(30), <1>1
<1>3. [i \in 1..n |-> s[i]] \in [1..n -> S \ {e}]
  BY SMTT(30), <1>1
<1>4. SubSeq(s, 1, n) \in Seq(S \ {e})
  BY SMTT(30), <1>1, <1>2, <1>3
<1>5. SubSeq(s, n + 1, Len(s)) \in Seq(S)
  BY SMTT(30), <1>1
<1> QED
  BY Zenon, <1>4, <1>5

\* Reading from the socket.
LEMMA ReadWell ==
  ASSUME ConnectionInv, Replies, NEW c \in Conns, Read(c)
  PROVE ConnectionInv' /\ Replies'
<1>1. CASE Closed(c)
  BY Zenon, <1>1, ClosedWell
<1>2. CASE ReadFrames(c)
  <2>0. PICK s, says : s = wire[c] /\ says = Says(mode.name, c)
    BY Zenon
  <2>1. UNCHANGED <<mode, conn, breaks, work, credits, store, reply>>
    BY Zenon, <1>2 DEF ReadFrames
  <2>2. PICK n \in 1..Len(s) :
          /\ \A i \in 1..n : s[i] # EOF
          /\ buffer' = [buffer EXCEPT ![c] = SubSeq(s, 1, n)]
          /\ wire' = [wire EXCEPT ![c] = SubSeq(s, n + 1, Len(s))]
    BY Zenon, <1>2, <2>0 DEF ReadFrames
  <2>3. s \in Seq(says) /\ DOMAIN wire = Conns /\ DOMAIN buffer = Conns
        /\ breaks \in [Conns -> 0..MaxBreaks]
    BY Zenon, <2>0 DEF ConnectionInv
  <2>4. SubSeq(s, 1, n) \in Seq(says \ {EOF}) /\ SubSeq(s, n + 1, Len(s)) \in Seq(says)
    BY SMTT(30), <2>2, <2>3, Parts
  <2>5. /\ DOMAIN wire' = Conns /\ wire'[c] = SubSeq(s, n + 1, Len(s))
        /\ \A d \in Conns : d # c => wire'[d] = wire[d]
    BY Zenon, <2>2, <2>3, ChangedAt
  <2>6. /\ DOMAIN buffer' = Conns /\ buffer'[c] = SubSeq(s, 1, n)
        /\ \A d \in Conns : d # c => buffer'[d] = buffer[d]
    BY Zenon, <2>2, <2>3, ChangedAt
  <2>7. /\ breaks' \in [Conns -> 0..MaxBreaks]
        /\ wire'[c] \in Seq(Says(mode.name, c)) /\ buffer'[c] \in Seq(Says(mode.name, c) \ {EOF})
    BY Zenon, <2>0, <2>1, <2>3, <2>4, <2>5, <2>6
  <2> QED
    BY Zenon, <2>1, <2>5, <2>6, <2>7, FramesWell
<1> QED
  BY Zenon, <1>1, <1>2 DEF Read

\* What the client sends.
LEMMA SendWell ==
  ASSUME ConnectionInv, Replies, NEW c \in Conns, Send(c)
  PROVE ConnectionInv' /\ Replies'
<1>1. UNCHANGED <<mode, conn, buffer, breaks, work, credits, store, reply>>
  BY Zenon DEF Send
<1>2. PICK m \in Says(mode.name, c) : wire' = [wire EXCEPT ![c] = Append(wire[c], m)]
  BY Zenon DEF Send
<1>3. /\ DOMAIN wire = Conns /\ wire[c] \in Seq(Says(mode.name, c)) /\ DOMAIN buffer = Conns
      /\ buffer[c] \in Seq(Says(mode.name, c) \ {EOF}) /\ breaks \in [Conns -> 0..MaxBreaks]
  BY Zenon DEF ConnectionInv
<1>4. \A S : \A s \in Seq(S) : \A e \in S : Append(s, e) \in Seq(S)
  BY SMTT(30)
<1>5. Append(wire[c], m) \in Seq(Says(mode.name, c))
  BY Zenon, <1>2, <1>3, <1>4
<1>6. /\ DOMAIN wire' = Conns /\ wire'[c] = Append(wire[c], m)
      /\ \A d \in Conns : d # c => wire'[d] = wire[d]
  BY Zenon, <1>2, <1>3, ChangedAt
<1>7. /\ breaks' \in [Conns -> 0..MaxBreaks] /\ DOMAIN buffer' = Conns
      /\ wire'[c] \in Seq(Says(mode.name, c)) /\ buffer'[c] \in Seq(Says(mode.name, c) \ {EOF})
      /\ \A d \in Conns : d # c => wire'[d] = wire[d] /\ buffer'[d] = buffer[d]
  BY Zenon, <1>1, <1>3, <1>5, <1>6
<1> QED
  BY Zenon, <1>1, <1>6, <1>7, FramesWell

\* Break events come and are sent.
LEMMA BreaksWell ==
  ASSUME ConnectionInv, Replies, NEW c \in Conns, BreakEvent(c) \/ SendBreak(c)
  PROVE ConnectionInv' /\ Replies'
<1>1. UNCHANGED <<mode, conn, wire, buffer, work, credits, store, reply>>
  BY Zenon DEF BreakEvent, SendBreak
<1>2. breaks \in [Conns -> 0..MaxBreaks] /\ MaxBreaks \in Nat
  BY Zenon, BoundsAssumption DEF ConnectionInv
<1>3. breaks' \in [Conns -> 0..MaxBreaks]
  <2>1. CASE BreakEvent(c)
    BY SMTT(30), <1>2, <2>1 DEF BreakEvent
  <2>2. CASE SendBreak(c)
    BY SMTT(30), <1>2, <2>2 DEF SendBreak
  <2> QED
    BY Zenon, <2>1, <2>2
<1>4. /\ DOMAIN wire' = Conns /\ DOMAIN buffer' = Conns
      /\ wire'[c] \in Seq(Says(mode.name, c)) /\ buffer'[c] \in Seq(Says(mode.name, c) \ {EOF})
      /\ \A d \in Conns : d # c => wire'[d] = wire[d] /\ buffer'[d] = buffer[d]
  BY Zenon, <1>1 DEF ConnectionInv
<1> QED
  BY Zenon, <1>1, <1>3, <1>4, FramesWell

-------------------------------------------------------------------------------
(* The invariant. *)

\* Connections start well: fresh, negotiated, or with an established session.
LEMMA InitConn ==
  ASSUME Init, NEW c \in Conns
  PROVE ConnInv(conn[c])
<1>1. conn[c] = IF mode.start = "fresh" THEN [Fresh EXCEPT !.dialect = mode.dialect[c]]
                ELSE Established(c \in mode.bound)
  BY Zenon DEF Init
<1>2. [s \in Sids |-> NoKey] \in [Sids -> Nat]
  BY Zenon DEF NoKey
<1>3. CASE mode.start = "fresh"
  <2>1. conn[c] = [up |-> TRUE, dialect |-> mode.dialect[c], sessions |-> {},
                   keys |-> [s \in Sids |-> NoKey], auth |-> None]
    BY Zenon, <1>1, <1>3 DEF Fresh
  <2> QED
    BY SMTT(30), <1>2, <2>1 DEF ConnInv
<1>4. CASE mode.start # "fresh"
  <2>0. PICK keys, auth : /\ keys = [[s \in Sids |-> NoKey] EXCEPT ![1] = IF c \in mode.bound THEN 2 ELSE 3]
                          /\ auth = IF c \in mode.bound THEN None ELSE 1
    BY Zenon
  <2>1. keys \in [Sids -> Nat]
    BY Zenon, <1>2, <2>0
  <2>2. conn[c] = [up |-> TRUE, dialect |-> "3.0", sessions |-> {1}, keys |-> keys, auth |-> auth]
    BY Zenon, <1>1, <1>4, <2>0 DEF Established
  <2>3. {1} \subseteq Sids
    BY Zenon, BoundsAssumption
  <2> QED
    BY SMTT(30), <2>1, <2>2, <2>3 DEF ConnInv
<1> QED
  BY Zenon, <1>3, <1>4

\* So does the store.
LEMMA InitStore ==
  ASSUME Init
  PROVE StoreInv(store)
<1>1. CASE mode.start = "fresh"
  <2>1. store = [sessions |-> [s \in Sids |-> NoSession], trees |-> {}, handles |-> {},
                 nextSid |-> 1, nextTid |-> [s \in Sids \cup {0} |-> 1], nextFid |-> 1, made |-> 1]
    BY Zenon, <1>1 DEF Init
  <2>2. \A s \in Sids : Keyed([x \in Sids |-> NoSession][s])
    BY Zenon DEF Keyed, NoSession
  <2>3. /\ store.sessions = [s \in Sids |-> NoSession] /\ store.handles = {}
        /\ store.nextFid = 1 /\ store.made = 1
        /\ store = [sessions |-> store.sessions, trees |-> store.trees, handles |-> store.handles,
                    nextSid |-> store.nextSid, nextTid |-> store.nextTid, nextFid |-> store.nextFid,
                    made |-> store.made]
    BY Zenon, <2>1
  <2>4. 1 \in Nat \ {0}
    BY SMTT(30)
  <2> QED
    BY Zenon, <2>2, <2>3, <2>4 DEF StoreInv
<1>2. CASE mode.start # "fresh"
  <2>0. PICK ss, h : /\ ss = [s \in Sids |->
                          IF s = 1 THEN [user |-> Account("u"), key |-> 2, dialect |-> "3.0", live |-> TRUE]
                          ELSE NoSession]
                     /\ h = [fid |-> 1, sid |-> 1, tid |-> 1]
    BY Zenon
  <2>1. store = [sessions |-> ss, trees |-> {<<1, 1>>}, handles |-> {h}, nextSid |-> 1,
                 nextTid |-> [[s \in Sids \cup {0} |-> 1] EXCEPT ![1] = 2], nextFid |-> 2, made |-> 2]
    BY Zenon, <1>2, <2>0 DEF Init
  <2>2. DOMAIN ss = Sids /\ \A s \in Sids : Keyed(ss[s])
    BY SMTT(30), <2>0 DEF Keyed, NoSession
  <2>3. /\ store.sessions = ss /\ store.handles = {h} /\ store.nextFid = 2 /\ store.made = 2
        /\ store = [sessions |-> store.sessions, trees |-> store.trees, handles |-> store.handles,
                    nextSid |-> store.nextSid, nextTid |-> store.nextTid, nextFid |-> store.nextFid,
                    made |-> store.made]
    BY Zenon, <2>1
  <2>4. 2 \in Nat \ {0} /\ h.fid \in Nat /\ h.fid < 2
    BY SMTT(30), <2>0
  <2> QED
    BY Zenon, <2>2, <2>3, <2>4 DEF StoreInv
<1> QED
  BY Zenon, <1>1, <1>2

\* The invariant holds at the start.
LEMMA InvStarts ==
  ASSUME Init
  PROVE ConnectionInv /\ Replies
<1>1. /\ mode \in Modes
      /\ DOMAIN conn = Conns /\ DOMAIN work = Conns /\ DOMAIN reply = Conns
      /\ DOMAIN wire = Conns /\ DOMAIN buffer = Conns
      /\ \A c \in Conns : wire[c] = <<>> /\ buffer[c] = <<>> /\ work[c] = NoWork /\ reply[c] = NoReply
  BY Zenon DEF Init
<1>2. credits \in [Conns -> 0..MaxCredits] /\ breaks \in [Conns -> 0..MaxBreaks]
  BY SMTT(30), CreditsAssumption, BoundsAssumption DEF Init
<1>3. \A S : <<>> \in Seq(S)
  BY SMTT(30)
<1>4. ConnectionInv
  BY Zenon, <1>1, <1>2, <1>3, InitConn, InitStore DEF ConnectionInv
<1>5. NoReply.msg.related = FALSE /\ NoReply.out = <<>> /\ 1..Len(<<>>) = {}
  BY SMTT(30) DEF NoReply, Message
<1>6. GoodReply(NoReply.msg, NoReply.ran, NoReply.out)
  BY Zenon, <1>5 DEF GoodReply
<1>7. Replies
  BY Zenon, <1>1, <1>6 DEF Replies
<1> QED
  BY Zenon, <1>4, <1>7

\* Every step keeps it.
LEMMA InvSteps ==
  ASSUME ConnectionInv, Replies, [Next]_vars
  PROVE ConnectionInv' /\ Replies'
<1>1. CASE UNCHANGED vars
  <2>1. UNCHANGED <<mode, conn, wire, buffer, breaks, work, credits, store, reply>>
    BY Zenon, <1>1 DEF vars
  <2>2. ConnectionInv'
    BY Zenon, <2>1 DEF ConnectionInv
  <2>3. Replies'
    BY Zenon, <2>1 DEF Replies
  <2> QED
    BY Zenon, <2>2, <2>3
<1>2. CASE Next
  <2>1. PICK c \in Conns : Serve(c) \/ Send(c) \/ BreakEvent(c)
    BY Zenon, <1>2 DEF Next
  <2>2. CASE Send(c)
    BY Zenon, <2>2, SendWell
  <2>3. CASE BreakEvent(c)
    BY Zenon, <2>3, BreaksWell
  <2>4. CASE Serve(c)
    <3>1. CASE Take(c)
      BY Zenon, <3>1, TakeWell
    <3>2. CASE Resolve(c)
      BY Zenon, <3>2, ResolveWell
    <3>3. CASE CheckSession(c)
      BY Zenon, <3>3, CheckSessionWell
    <3>4. CASE CheckTree(c)
      BY Zenon, <3>4, CheckTreeWell
    <3>5. CASE Negotiate(c)
      BY Zenon, <3>5, NegotiateWell
    <3>6. CASE Echo(c)
      BY Zenon, <3>6, EchoWell
    <3>7. CASE Cancel(c)
      BY Zenon, <3>7, CancelWell
    <3>8. CASE Logoff(c)
      BY Zenon, <3>8, LogoffWell
    <3>9. CASE TreeConnect(c)
      BY Zenon, <3>9, TreeConnectWell
    <3>10. CASE TreeDisconnect(c)
      BY Zenon, <3>10, TreeDisconnectWell
    <3>11. CASE Create(c)
      BY Zenon, <3>11, CreateWell
    <3>12. CASE FileOp(c)
      BY Zenon, <3>12, FileOpWell
    <3>13. CASE Authenticate(c)
      BY Zenon, <3>13, AuthenticateWell
    <3>14. CASE Establish(c)
      BY Zenon, <3>14, EstablishWell
    <3>15. CASE Binding(c)
      BY Zenon, <3>15, BindingWell
    <3>16. CASE SendBreak(c)
      BY Zenon, <3>16, BreaksWell
    <3>17. CASE Read(c)
      BY Zenon, <3>17, ReadWell
    <3> QED
      BY Zenon, <2>4, <3>1, <3>2, <3>3, <3>4, <3>5, <3>6, <3>7, <3>8, <3>9, <3>10, <3>11, <3>12,
         <3>13, <3>14, <3>15, <3>16, <3>17 DEF Serve
  <2> QED
    BY Zenon, <2>1, <2>2, <2>3, <2>4
<1> QED
  BY Zenon, <1>1, <1>2

\* Every message in work keeps what its chain, its signatures and its credits rest on, and
\* every reply is a good one.
THEOREM ConnectionHolds == Spec => [](ConnectionInv /\ Replies)
<1>1. Init => ConnectionInv /\ Replies
  BY Zenon, InvStarts
<1>2. ConnectionInv /\ Replies /\ [Next]_vars => (ConnectionInv /\ Replies)'
  BY Zenon, InvSteps
<1> QED
  BY <1>1, <1>2, PTL DEF Spec

\* Types: the credits of a connection stay within the manager's maximum, its table of sessions
\* within the ids there are, and only a connection that is up has a message in work.
THEOREM ConnectionTyped == Spec => []TypeOK
<1>1. ConnectionInv /\ Replies => TypeOK
  <2>1. ConnectionInv => /\ \A c \in Conns : /\ conn[c].sessions \subseteq Sids
                                             /\ credits[c] \in 0..MaxCredits
                                             /\ breaks[c] \in 0..MaxBreaks
                                             /\ work[c] = NoWork \/ conn[c].up
                         /\ \A h \in store.handles : h.fid < store.nextFid
    BY Zenon DEF ConnectionInv, ConnInv, StoreInv
  <2> QED
    BY Zenon, <2>1 DEF TypeOK
<1> QED
  BY <1>1, ConnectionHolds, PTL

\* process_compound_request: a related compound is one chain, for any number of commands, whatever
\* the other connections do between two of them.
THEOREM CompoundIsOneChain == Spec => []CompoundChain
<1>1. ConnectionInv /\ Replies => CompoundChain
  BY Zenon DEF Replies, GoodReply, CompoundChain
<1> QED
  BY <1>1, ConnectionHolds, PTL

\* re_sign_response: without a LOGOFF in the message, every signature covers what is sent.
THEOREM SignaturesCover == Spec => []SignedAsSent
<1>1. ConnectionInv /\ Replies => SignedAsSent
  BY Zenon DEF Replies, GoodReply, SignedAsSent, NoLogoff, Covers
<1> QED
  BY <1>1, ConnectionHolds, PTL

\* CreditManager: a response other than to NEGOTIATE grants a credit, whatever was charged
\* before, for every initial and every maximal number of credits.
THEOREM CreditsReturn == Spec => []RespondsWithCredits
<1>1. ConnectionInv /\ Replies => RespondsWithCredits
  BY Zenon DEF Replies, GoodReply, RespondsWithCredits, Coverable
<1> QED
  BY <1>1, ConnectionHolds, PTL

===============================================================================
