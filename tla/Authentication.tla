---------------------------- MODULE Authentication ----------------------------
(***************************************************************************)
(* The authentication providers behind SESSION_SETUP, as functions from    *)
(* the provider's state p, the connection's AuthContext and a token to an  *)
(* outcome: what AuthProvider::authenticate returns and what it leaves in  *)
(* the provider and in the context.                                        *)
(*                                                                         *)
(* Of the context only session_id matters (0 is None): no provider reads   *)
(* its state or challenge fields back.  A token is [wrap, kind, user,      *)
(* good]: wrap is its SPNEGO envelope, kind the message inside, good says  *)
(* that the NTLMv2 response was computed from the user's password.  A      *)
(* server challenge is named by the connection it was sent to, since a     *)
(* client answers the last challenge it was sent there.                    *)
(***************************************************************************)
EXTENDS Naturals

CONSTANT Users   \* the accounts added to the NTLM provider

None == 0

NoPending == 0

\* A fresh provider: its own counter of ids, and no challenge waiting.
NtlmNew(ids, anonymous) ==
  [next |-> 1, pending |-> [i \in ids |-> NoPending], anonymous |-> anonymous]

NoUser == [name |-> "none", guest |-> FALSE, anonymous |-> FALSE]
AnonymousUser == [name |-> "anonymous", guest |-> FALSE, anonymous |-> TRUE]
\* An AUTHENTICATE message without a name logs on as a guest called anonymous.
NtlmAnonymous == [name |-> "anonymous", guest |-> TRUE, anonymous |-> FALSE]
Account(u) == [name |-> u, guest |-> FALSE, anonymous |-> FALSE]

AuthOutcome(is, p, id, user) == [is |-> is, p |-> p, id |-> id, user |-> user]
AuthFails(e, p, id) == AuthOutcome(e, p, id, NoUser)

MutantProcessNegotiate(p, id, c) ==
  LET sid == IF id = None THEN p.next ELSE id
  IN AuthOutcome("continue", [p EXCEPT !.pending[sid] = c], sid, NoUser)

(* process_negotiate: the challenge is kept under the context's session id;
   a context that has none is given one from the provider's own counter. *)
ProcessNegotiate(p, id, c) ==
  LET sid == IF id = None THEN p.next ELSE id
  IN AuthOutcome("continue",
       [p EXCEPT !.next = IF id = None THEN @ + 1 ELSE @, !.pending[sid] = c], sid, NoUser)

(* process_authenticate: the response is verified against the challenge
   pending under the session id, which a success removes. *)
ProcessAuthenticate(p, id, c, token) ==
  CASE token.user = "" ->
         IF p.anonymous THEN AuthOutcome("success", p, id, NtlmAnonymous)
                        ELSE AuthFails("credentials", p, id)
    [] token.user # "" /\ id = None -> AuthFails("failed", p, id)
    [] token.user # "" /\ id # None /\ p.pending[id] = NoPending -> AuthFails("failed", p, id)
    [] OTHER ->
         IF token.user \in Users /\ token.good /\ p.pending[id] = c
         THEN AuthOutcome("success", [p EXCEPT !.pending[id] = NoPending], id, Account(token.user))
         ELSE AuthFails("credentials", p, id)

NtlmAuthenticate(p, id, c, token) ==
  CASE token.kind = "empty" ->
         IF p.anonymous THEN AuthOutcome("success", p, id, AnonymousUser)
                        ELSE AuthFails("failed", p, id)
    [] token.kind = "negotiate" -> ProcessNegotiate(p, id, c)
    [] token.kind = "authenticate" -> ProcessAuthenticate(p, id, c, token)
    [] OTHER -> AuthFails("malformed", p, id)

(* SpnegoProvider: a NegTokenInit that does not offer NTLM fails, one without
   a mechanism token is passed on as an empty token; a NegTokenResp must carry
   a token; anything else is handed to NTLM as it is. *)
SpnegoAuthenticate(p, id, c, token) ==
  CASE token.wrap = "init" /\ token.kind = "other_mechanism" -> AuthFails("failure", p, id)
    [] token.wrap = "resp" /\ token.kind = "empty" -> AuthFails("malformed", p, id)
    [] OTHER -> NtlmAuthenticate(p, id, c, token)

===============================================================================
