-------------------------- MODULE ApiTokensProofs --------------------------
(***************************************************************************)
(* Proofs about the tokens of the API, for any number of users, tokens and *)
(* restarts and any times: exactly which tokens work, and that none works  *)
(* for longer than its two hours.                                          *)
(***************************************************************************)
EXTENDS ApiTokens, TLAPS

\* The two lengths of api-server.js:228-236.
LEMMA TimeFacts == DAY \in Nat \ {0} /\ TTL \in Nat \ {0} /\ TTL < DAY
  BY DEF DAY, TTL

\* Division with remainder by the length of a day.
LEMMA DivMod ==
  ASSUME NEW n \in Nat, NEW d \in Nat \ {0}
  PROVE  /\ n \div d \in Nat /\ n % d \in 0..d - 1
         /\ n = d * (n \div d) + (n % d)
<1>1. n \div d \in Nat
  BY SMT
<1>2. n % d \in 0..d - 1
  BY SMT
<1>3. n = d * (n \div d) + (n % d)
  BY SMT
<1> QED
  BY <1>1, <1>2, <1>3

\* The quotient is the only one.
LEMMA DivUnique ==
  ASSUME NEW n \in Nat, NEW d \in Nat \ {0}, NEW q \in Nat, NEW r \in 0..d - 1, n = d * q + r
  PROVE  n \div d = q
  BY SMT

\* Adding less than a day stays on the same day exactly when enough of it is
\* left.  It decides which of the two day keys of a token are the same.
LEMMA SameDay ==
  ASSUME NEW n \in Nat
  PROVE  (n + TTL) \div DAY = n \div DAY <=> n % DAY < DAY - TTL
<1> USE TimeFacts
<1>1. PICK q \in Nat, r \in 0..DAY - 1 : q = n \div DAY /\ r = n % DAY /\ n = DAY * q + r
  BY DivMod
<1>2. CASE r < DAY - TTL
  <2>1. r + TTL \in 0..DAY - 1 /\ n + TTL = DAY * q + (r + TTL)
    BY <1>1, <1>2
  <2>2. (n + TTL) \div DAY = q
    BY <2>1, DivUnique
  <2> QED
    BY <1>1, <1>2, <2>2
<1>3. CASE ~(r < DAY - TTL)
  <2>1. r + TTL - DAY \in 0..DAY - 1 /\ n + TTL = DAY * (q + 1) + (r + TTL - DAY)
    BY <1>1, <1>3
  <2>2. (n + TTL) \div DAY = q + 1
    BY <2>1, DivUnique
  <2> QED
    BY <1>1, <1>3, <2>2
<1> QED
  BY <1>2, <1>3

\* Every token in the clients' hands is one that signToken() made.
Signed ==
  \A t \in tokens : /\ t.exp = t.iat + TTL
                    /\ t.sig = dayKey(t.sig.base, t.iat \div DAY)

\* The type invariant, with Signed, holds in every state.
LEMMA Tokens == Spec => [](TypeOK /\ Signed)
<1> USE TimeFacts
<1>1. Init => TypeOK /\ Signed
  BY DEF Init, TypeOK, Signed
<1>2. TypeOK /\ Signed /\ [Next]_vars => TypeOK' /\ Signed'
  <2> SUFFICES ASSUME TypeOK, Signed, [Next]_vars PROVE TypeOK' /\ Signed'
    OBVIOUS
  <2>1. ASSUME NEW h \in Users, Auth(h)
        PROVE  TypeOK' /\ Signed'
    <3>1. now \div DAY \in Nat
      BY DivMod DEF TypeOK
    <3>2. signToken(h) \in Token
      BY <3>1 DEF TypeOK, signToken, dayKey, Token, Key
    <3>3. /\ signToken(h).exp = signToken(h).iat + TTL
          /\ signToken(h).sig = dayKey(signToken(h).sig.base, signToken(h).iat \div DAY)
      BY DEF signToken, dayKey
    <3> QED
      BY <2>1, <3>2, <3>3 DEF Auth, TypeOK, Signed
  <2>2. ASSUME NEW t \in tokens, Request(t)
        PROVE  TypeOK' /\ Signed'
    <3>1. answer'.token = t /\ answer'.at = now /\ UNCHANGED <<now, secret, restarts, tokens>>
      BY <2>2, Zenon DEF Request
    <3>2. now \in 0..now
      BY DEF TypeOK
    <3>3. TypeOK'
      BY <3>1, <3>2 DEF TypeOK
    <3>4. Signed'
      BY <3>1 DEF Signed
    <3> QED
      BY <3>3, <3>4
  <2>3. CASE Tick
    <3>1. now' \in Nat /\ \A i \in 0..now : i \in 0..now'
      BY <2>3 DEF Tick, TypeOK
    <3> QED
      BY <2>3, <3>1 DEF Tick, TypeOK, Signed
  <2>4. CASE Restart
    BY <2>4 DEF Restart, TypeOK, Signed
  <2>5. CASE UNCHANGED vars
    BY <2>5 DEF vars, TypeOK, Signed
  <2> QED
    BY <2>1, <2>2, <2>3, <2>4, <2>5 DEF Next
<1> QED
  BY <1>1, <1>2, PTL DEF Spec

\* The types, with the token of every answer among those handed out and its time
\* not after the clock (api-server.js:208-274).
THEOREM TypeCorrect == Spec => []TypeOK
  BY Tokens, PTL

\* Exactly the tokens signed before 22:00 UTC work until they expire
\* (api-server.js:228-274): what is left of the promise of two hours.
THEOREM SameDayWorks == Spec => []WorksIfSameDay
<1>1. TypeOK /\ Signed => WorksIfSameDay
  <2> SUFFICES ASSUME TypeOK, Signed, NEW t \in tokens, t.sig.base = secret, now <= t.exp
               PROVE  verifyToken(t) <=> t.iat % DAY < DAY - TTL
    BY DEF WorksIfSameDay
  <2>1. t.iat \in Nat /\ t.exp = t.iat + TTL /\ t.sig = dayKey(secret, t.iat \div DAY)
    BY DEF TypeOK, Signed, Token
  <2>2. verifyToken(t) <=> (t.iat + TTL) \div DAY = t.iat \div DAY
    BY <2>1 DEF verifyToken, dayKey
  <2> QED
    BY <2>1, <2>2, SameDay
<1> QED
  BY <1>1, Tokens, PTL

\* A request is served only with a token at most two hours old
\* (api-server.js:258), whatever the restarts and the days between.
THEOREM ServedFresh == Spec => []ServedIsFresh
<1>1. Init => ServedIsFresh
  BY DEF Init, ServedIsFresh
<1>2. TypeOK /\ Signed /\ ServedIsFresh /\ [Next]_vars => ServedIsFresh'
  <2> SUFFICES ASSUME TypeOK, Signed, ServedIsFresh, [Next]_vars PROVE ServedIsFresh'
    OBVIOUS
  <2>1. ASSUME NEW t \in tokens, Request(t)
        PROVE  ServedIsFresh'
    BY <2>1, Zenon DEF Request, Signed, ServedIsFresh, verifyToken
  <2>2. ASSUME UNCHANGED answer
        PROVE  ServedIsFresh'
    BY <2>2 DEF ServedIsFresh
  <2> QED
    BY <2>1, <2>2 DEF Next, vars, Tick, Restart, Auth
<1> QED
  BY <1>1, <1>2, Tokens, PTL DEF Spec
=============================================================================
