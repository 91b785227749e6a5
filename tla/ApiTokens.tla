------------------------------ MODULE ApiTokens ------------------------------
(***************************************************************************)
(* The session tokens of the HTTP API (api-server.js): POST /auth signs a  *)
(* token with the key of the day, and the middleware auth() verifies it    *)
(* with the key of the day on which the token expires.                     *)
(*                                                                         *)
(* Time is in seconds since some midnight, UTC, as in the code.  A         *)
(* signature is the key it was made with: HMAC and HKDF are taken to be    *)
(* injective.                                                              *)
(***************************************************************************)
EXTENDS Integers

CONSTANTS
  Users,        \* handles, as they are after toLowerCase()
  Instants,     \* times the clock is looked at
  FIXED_SECRET, \* JWT_BASE_SECRET is set; otherwise each start makes one up
  MaxRestarts,  \* bound on restarts of the API
  None          \* no answer yet

DAY == 86400
TTL == 7200

VARIABLES
  now,          \* the clock
  secret,       \* base secret of the running API
  restarts,     \* restarts so far
  tokens,       \* tokens handed out
  answer        \* the answer of auth() to the last request, with its token

vars == <<now, secret, restarts, tokens, answer>>

\* dayKey(): the key of a day under a base secret.
dayKey(base, day) == [base |-> base, day |-> day]

Key   == [base: Nat, day: Nat]
Token == [sub: Users, iat: Nat, exp: Nat, sig: Key]

-----------------------------------------------------------------------------
\* The three reads of the clock are taken to fall into the same second.
signToken(handle) ==
  [sub |-> handle, iat |-> now, exp |-> now + TTL, sig |-> dayKey(secret, now \div DAY)]

verifyToken(t) == now <= t.exp /\ t.sig = dayKey(secret, t.exp \div DAY)

\* POST /auth with a well-formed handle.
Auth(h) ==
  /\ tokens' = tokens \cup {signToken(h)}
  /\ UNCHANGED <<now, secret, restarts, answer>>

\* A request to a protected route.  verifyToken() gives every failure the same
\* message, so the answer never says that a token has expired.
Request(t) ==
  /\ answer' = [token |-> t, at |-> now,
                status |-> IF verifyToken(t) THEN "next" ELSE "Invalid token"]
  /\ UNCHANGED <<now, secret, restarts, tokens>>

Tick ==
  /\ \E n \in Instants : n \in Nat /\ n > now /\ now' = n
  /\ UNCHANGED <<secret, restarts, tokens, answer>>

\* The API starts again: tokens live on in the clients.
Restart ==
  /\ restarts < MaxRestarts
  /\ restarts' = restarts + 1
  /\ secret' = IF FIXED_SECRET THEN secret ELSE secret + 1
  /\ UNCHANGED <<now, tokens, answer>>

Init ==
  /\ now = 0 /\ secret = 0 /\ restarts = 0
  /\ tokens = {} /\ answer = None

Next ==
  \/ Tick \/ Restart
  \/ \E h \in Users : Auth(h)
  \/ \E t \in tokens : Request(t)

Spec == Init /\ [][Next]_vars

-----------------------------------------------------------------------------
(* Properties *)

\* Type invariant.
TypeOK ==
  /\ now \in Nat /\ secret \in Nat /\ restarts \in Nat
  /\ tokens \subseteq Token
  /\ answer # None => answer.token \in tokens /\ answer.at \in 0..now

\* A served request carried a token at most TTL old: auth() lets nothing through
\* on the strength of a signature alone.
ServedIsFresh ==
  answer # None /\ answer.status = "next" => answer.at <= answer.token.iat + TTL

\* Of the current secret exactly the tokens signed before 22:00 UTC work until
\* they expire: the rest expire on the next day, whose key did not sign them, and
\* are refused from the start.
WorksIfSameDay ==
  \A t \in tokens : t.sig.base = secret /\ now <= t.exp =>
    (verifyToken(t) <=> t.iat % DAY < DAY - TTL)

-----------------------------------------------------------------------------
(* What the documentation says and the code does not do *)

\* README.md:219, "2 h TTL", and SECURITY.md:152, "2h expiration": a token that
\* was handed out is accepted until it expires, two hours later.
WorksTwoHours ==
  \A t \in tokens : now <= t.iat + TTL => verifyToken(t)
=============================================================================
