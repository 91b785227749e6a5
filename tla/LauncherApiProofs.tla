-------------------------- MODULE LauncherApiProofs --------------------------
(***************************************************************************)
(* Proofs about the launcher's HTTP interface, for any number of requests, *)
(* clients and users and any lifetimes of counters and keys.  The last     *)
(* part is what RequestsEnd rests on besides fairness: a request makes     *)
(* finitely many steps, and the answer it waits for is on its way.         *)
(***************************************************************************)
EXTENDS LauncherApi, TLAPS

\* What is known of a request at each place: it has an address once it has
\* arrived, a user where the code uses one, and a status only when it has ended.
Formed(q) ==
  /\ q \in Request
  /\ q.pc # "free" => q.ip \in Ips
  /\ q.pc \in {"set", "reply", "lateSet", "check", "route"} => q.user \in Users
  /\ q.pc \in {"check", "route"} => q.route = "protected"
  /\ q.pc # "ended" => q.status = 0

AllFormed == req \in [Requests -> Request] /\ \A r \in Requests : Formed(req[r])

\* No two replies are for one request.
Distinct == \A i, j \in DOMAIN replies : replies[i] = replies[j] => i = j

TypeInv == TypeOK /\ AllFormed /\ Distinct

\* One request becomes q.
LEMMA OneFormed ==
  ASSUME AllFormed, NEW r \in Requests, NEW q, Formed(q), req' = [req EXCEPT ![r] = q]
  PROVE  AllFormed'
  BY Zenon DEF AllFormed, Formed

\* A request that has arrived may go on to each place that needs no more of it.
LEMMA GotoFormed ==
  ASSUME AllFormed, NEW r \in Requests, NEW pc, Goto(r, pc), req[r].pc \notin {"free", "ended"},
         \/ pc \in {"verify", "del", "incr", "expire", "gone"}
         \/ pc = "reply" /\ req[r].pc = "set"
  PROVE  AllFormed'
<1>1. PICK q : q = [req[r] EXCEPT !.pc = pc]
  BY Zenon
<1>2. Formed(req[r])
  BY Zenon DEF AllFormed
<1>3. Formed(q)
  BY <1>1, <1>2, Zenon DEF Formed, Request, Places, Awaiting
<1>4. req' = [req EXCEPT ![r] = q]
  BY <1>1, Zenon DEF Goto
<1> QED
  BY <1>3, <1>4, OneFormed, Zenon

\* A request ends with a status.
LEMMA EndFormed ==
  ASSUME AllFormed, NEW r \in Requests, NEW s \in Statuses, End(r, s),
         req[r].pc # "free"
  PROVE  AllFormed'
<1>1. PICK q : q = [req[r] EXCEPT !.pc = "ended", !.status = s]
  BY Zenon
<1>2. Formed(req[r])
  BY Zenon DEF AllFormed
<1>3. Formed(q)
  <2>1. q \in Request
    <3>1. req[r] \in Request
      BY <1>2, Zenon DEF Formed
    <3>2. s \in Statuses /\ "ended" \in Places
      BY Zenon DEF Places
    <3> QED
      BY ONLY <1>1, <3>1, <3>2, Zenon DEF Request
  <2>2. q.pc = "ended" /\ q.ip = req[r].ip
    BY <1>1, <1>2, Zenon DEF Formed, Request
  <2> QED
    BY <1>2, <2>1, <2>2, Zenon DEF Formed
<1>4. req' = [req EXCEPT ![r] = q]
  <2>1. req \in [Requests -> Request]
    BY Zenon DEF AllFormed
  <2>2. req' = [req EXCEPT ![r].pc = "ended", ![r].status = s]
    BY Zenon DEF End
  <2> QED
    BY ONLY <1>1, <2>1, <2>2, r \in Requests, Zenon
<1> QED
  BY ONLY AllFormed, r \in Requests, <1>3, <1>4, OneFormed, Zenon

\* The places of a request after the end of the process.
LEMMA AfterEndPlaces ==
  ASSUME NEW pc \in Places
  PROVE  /\ AfterEnd(pc) \in Places /\ AfterEnd(pc) \notin Awaiting
         /\ AfterEnd(pc) = "free" <=> pc = "free"
         /\ AfterEnd(pc) = "ended" <=> pc = "ended"
         /\ AfterEnd(pc) = "lateSet" <=> pc \in {"set", "lateSet"}
         /\ AfterEnd(pc) = "lateExpire" <=> pc \in {"expire", "lateExpire"}
         /\ pc \in {"reply", "gone"} => AfterEnd(pc) = "gone"
  BY Zenon DEF AfterEnd, Places, Awaiting, Late

\* Every step keeps the requests well-formed.
LEMMA FormedStep == TypeInv /\ [Next]_vars => AllFormed'
<1> SUFFICES ASSUME TypeInv, [Next]_vars PROVE AllFormed'
  BY Zenon
<1>a. AllFormed
  BY Zenon DEF TypeInv
<1>1. ASSUME NEW r \in Requests, NEW b \in BOOLEAN,
             CaptchaCount(r, b) \/ CaptchaVerify(r, b) \/ GetToken(r, b)
      PROVE  AllFormed'
  BY <1>a, <1>1, GotoFormed, EndFormed DEF CaptchaCount, CaptchaVerify, GetToken, Statuses
<1>2. ASSUME NEW r \in Requests, CaptchaIncr(r) \/ CaptchaExpire(r) \/ RouteDone(r) \/ KeySet(r)
      PROVE  AllFormed'
  BY <1>a, <1>2, GotoFormed, EndFormed DEF CaptchaIncr, CaptchaExpire, RouteDone, KeySet, Statuses
<1>3. ASSUME NEW r \in Requests, CaptchaPassed(r)
      PROVE  AllFormed'
  <2>1. CASE End(r, 400) \/ End(r, 403)
    BY <1>a, <1>3, <2>1, EndFormed DEF CaptchaPassed, Statuses
  <2>2. ASSUME NEW u \in Users, NEW pc \in {"set", "check"},
               req' = [req EXCEPT ![r].pc = pc, ![r].user = u],
               pc = "check" => req[r].route = "protected"
        PROVE  AllFormed'
    <3>1. PICK q : q = [req[r] EXCEPT !.pc = pc, !.user = u]
      BY Zenon
    <3>2. Formed(req[r]) /\ req[r].pc = "del"
      BY <1>a, <1>3, Zenon DEF AllFormed, CaptchaPassed
    <3>3. Formed(q)
      <4>1. q \in Request
        <5>1. req[r] \in Request /\ pc \in Places
          BY <3>2, Zenon DEF Formed, Places, Awaiting
        <5> QED
          BY ONLY u \in Users, <3>1, <5>1, Zenon DEF Request
      <4>2. /\ q.pc = pc /\ q.user = u /\ q.ip = req[r].ip /\ q.route = req[r].route
            /\ q.status = req[r].status
        BY <3>1, <3>2, Zenon DEF Formed, Request
      <4> QED
        BY <2>2, <3>2, <4>1, <4>2, Zenon DEF Formed
    <3>4. req' = [req EXCEPT ![r] = q]
      BY <1>a, <2>2, <3>1, Zenon DEF AllFormed
    <3> QED
      BY <1>a, <3>3, <3>4, OneFormed, Zenon
  <2> QED
    BY <1>3, <2>1, <2>2 DEF CaptchaPassed
<1>4. ASSUME NEW r \in Requests, KeyTold(r)
      PROVE  AllFormed'
  <2>1. req[r].pc = "reply" /\ End(r, 200)
    BY <1>4 DEF KeyTold, TypeInv, TypeOK
  <2> QED
    BY <1>a, <2>1, EndFormed DEF Statuses
<1>5. ASSUME NEW r \in Requests, NEW k \in Requests, validateApiKey(r, k)
      PROVE  AllFormed'
  <2>1. CASE End(r, 403)
    BY <1>a, <1>5, <2>1, EndFormed DEF validateApiKey, Statuses
  <2>2. CASE Serve(r, k)
    <3>1. PICK q : q = [req[r] EXCEPT !.pc = "route", !.key = k]
      BY Zenon
    <3>2. Formed(req[r]) /\ req[r].pc = "check"
      BY <1>a, <1>5, Zenon DEF AllFormed, validateApiKey
    <3>3. Formed(q)
      <4>1. q \in Request
        <5>1. req[r] \in Request /\ "route" \in Places
          BY <3>2, Zenon DEF Formed, Places, Awaiting
        <5> QED
          BY ONLY k \in Requests, <3>1, <5>1, Zenon DEF Request
      <4>2. /\ q.pc = "route" /\ q.user = req[r].user /\ q.ip = req[r].ip
            /\ q.route = req[r].route /\ q.status = req[r].status
        BY <3>1, <3>2, Zenon DEF Formed, Request
      <4> QED
        BY <3>2, <4>1, <4>2, Zenon DEF Formed
    <3>4. req' = [req EXCEPT ![r] = q]
      BY <1>a, <2>2, <3>1, Zenon DEF Serve, AllFormed
    <3> QED
      BY <1>a, <3>3, <3>4, OneFormed, Zenon
  <2> QED
    BY <1>5, <2>1, <2>2, Zenon DEF validateApiKey
<1>6. ASSUME NEW r \in Requests, Throws(r)
      PROVE  AllFormed'
  BY <1>a, <1>6, EndFormed DEF Throws, Awaiting, Statuses
<1>7. ASSUME NEW r \in Requests, LateCommand(r)
      PROVE  AllFormed'
  BY <1>a, <1>7, GotoFormed, Zenon DEF LateCommand, Late
<1>8. ASSUME NEW r \in Requests, NEW route \in Routes, NEW ip \in Ips, Arrive(r, route, ip)
      PROVE  AllFormed'
  <2>1. PICK pc \in {"hgetall", "count"} : pc = IF route = "token" THEN "hgetall" ELSE "count"
    BY Zenon
  <2>2. PICK q : q = [req[r] EXCEPT !.route = route, !.ip = ip, !.pc = pc]
    BY Zenon
  <2>3. Formed(req[r]) /\ req[r].pc = "free"
    BY <1>a, <1>8, Zenon DEF AllFormed, Arrive
  <2>4. Formed(q)
    <3>1. q \in Request
      <4>1. req[r] \in Request /\ pc \in Places
        BY <2>3, Zenon DEF Formed, Places, Awaiting
      <4> QED
        BY ONLY route \in Routes, ip \in Ips, <2>2, <4>1, Zenon DEF Request
    <3>2. q.pc = pc /\ q.ip = ip /\ q.status = req[r].status
      BY <2>2, <2>3, Zenon DEF Formed, Request
    <3> QED
      BY <2>3, <3>1, <3>2, Zenon DEF Formed
  <2>5. req' = [req EXCEPT ![r] = q]
    BY <1>a, <1>8, <2>1, <2>2, Zenon DEF Arrive, AllFormed
  <2> QED
    BY <1>a, <2>4, <2>5, OneFormed, Zenon
<1>9. CASE LauncherEnds
  <2>1. ASSUME NEW r \in Requests PROVE Formed(req'[r])
    <3>1. Formed(req[r]) /\ req'[r] = [req[r] EXCEPT !.pc = AfterEnd(req[r].pc)]
      BY <1>a, <1>9, Zenon DEF AllFormed, LauncherEnds
    <3>2. req[r].pc \in Places
      BY <3>1, Zenon DEF Formed, Request
    <3>3. PICK pc \in Places :
            /\ pc = AfterEnd(req[r].pc) /\ (pc = "free" <=> req[r].pc = "free")
            /\ pc = "ended" <=> req[r].pc = "ended"
            /\ pc = "lateSet" <=> req[r].pc \in {"set", "lateSet"}
            /\ pc \notin Awaiting
      BY <3>2, AfterEndPlaces, Zenon
    <3> QED
      <4>1. req'[r] \in Request
        BY <3>1, <3>3, Zenon DEF Formed, Request
      <4>2. /\ req'[r].pc = pc /\ req'[r].ip = req[r].ip /\ req'[r].user = req[r].user
            /\ req'[r].status = req[r].status
        BY <3>1, <3>3, Zenon DEF Formed, Request
      <4> QED
        BY <3>1, <3>3, <4>1, <4>2, Zenon DEF Formed, Awaiting
  <2> QED
    BY <1>9, <2>1, Zenon DEF LauncherEnds, AllFormed, Formed
<1>10. CASE Tick \/ UNCHANGED vars
  BY <1>a, <1>10, Zenon DEF Tick, vars, AllFormed, Formed
<1> QED
  BY <1>1, <1>2, <1>3, <1>4, <1>5, <1>6, <1>7, <1>8, <1>9, <1>10, Zenon DEF Next, Continue

-----------------------------------------------------------------------------
(* Counters, keys, replies and reports *)

CountersOK ==
  /\ fails \in [Ips -> Nat] /\ failTtl \in [Ips -> 1..FAILTTL \cup {Never}] /\ cut \subseteq Ips
  /\ \A ip \in Ips : failTtl[ip] # Never => fails[ip] > 0

KeysOK ==
  /\ apikey \in [Users -> Requests \cup {None}] /\ keyTtl \in [Users -> 1..KEYTTL \cup {Never}]
  /\ told \in [Users -> Requests \cup {None}] /\ age \in [Requests -> 0..KEYTTL]

RepliesOK ==
  /\ replies \in Seq(Requests) /\ Distinct
  /\ \A i \in DOMAIN replies : req[replies[i]].pc = "reply"

\* The commands on a counter keep its type, and set an expiry only where a counter is.
LEMMA CounterCommands ==
  ASSUME CountersOK, NEW ip \in Ips, INCR(ip) \/ EXPIRE(ip) \/ DEL(ip)
  PROVE  CountersOK'
<1> USE LifetimesAssumption, NoneAssumption
<1>1. CASE INCR(ip)
  <2>1. fails[ip] + 1 \in Nat /\ fails[ip] + 1 > 0
    BY DEF CountersOK
  <2> QED
    BY <1>1, <2>1, Zenon DEF INCR, CountersOK
<1>2. CASE EXPIRE(ip)
  <2>1. FAILTTL \in 1..FAILTTL /\ (fails[ip] # 0 => fails[ip] > 0)
    BY DEF CountersOK
  <2> QED
    BY <1>2, <2>1, Zenon DEF EXPIRE, CountersOK
<1>3. CASE DEL(ip)
  BY <1>3, Zenon DEF DEL, CountersOK
<1> QED
  BY <1>1, <1>2, <1>3, Zenon

\* The requests that change the counters, and their commands.
LEMMA CounterSteps ==
  ASSUME TypeInv, [Next]_vars
  PROVE  \/ Tick
         \/ UNCHANGED <<fails, failTtl>> /\ cut' \subseteq Ips
         \/ \E ip \in Ips : INCR(ip) \/ EXPIRE(ip) \/ DEL(ip)
         \/ \E ip \in Ips : fails' = [fails EXCEPT ![ip] = @ + 1] /\ UNCHANGED failTtl /\ cut' \subseteq Ips
<1>a. ASSUME NEW r \in Requests, req[r].pc # "free" PROVE req[r].ip \in Ips
  BY <1>a, Zenon DEF TypeInv, AllFormed, Formed
<1>b. cut \subseteq Ips
  BY Zenon DEF TypeInv, TypeOK
<1>c. ASSUME NEW ip \in Ips, Abandon(ip) PROVE cut' \subseteq Ips
  BY <1>b, <1>c, Zenon DEF Abandon
<1>1. ASSUME NEW r \in Requests, CaptchaIncr(r) \/ CaptchaExpire(r) \/ CaptchaPassed(r)
      PROVE  \E ip \in Ips : INCR(ip) \/ EXPIRE(ip) \/ DEL(ip)
  BY <1>1, <1>a, Zenon DEF CaptchaIncr, CaptchaExpire, CaptchaPassed
<1>2. ASSUME NEW r \in Requests, LateCommand(r)
      PROVE  \/ UNCHANGED <<fails, failTtl>> /\ cut' \subseteq Ips
             \/ \E ip \in Ips : INCR(ip) \/ EXPIRE(ip) \/ DEL(ip)
             \/ \E ip \in Ips : fails' = [fails EXCEPT ![ip] = @ + 1] /\ UNCHANGED failTtl /\ cut' \subseteq Ips
  <2>1. req[r].ip \in Ips
    BY <1>2, <1>a, Zenon DEF LateCommand, Late
  <2> QED
    BY <1>2, <2>1, <1>b, <1>c, Zenon DEF LateCommand, counters
<1>3. ASSUME NEW r \in Requests, Throws(r)
      PROVE  UNCHANGED <<fails, failTtl>> /\ cut' \subseteq Ips
  BY <1>3, <1>a, <1>b, <1>c, Zenon DEF Throws
<1>4. ASSUME NEW r \in Requests, KeySet(r) \/ KeyTold(r) \/ RouteDone(r)
      PROVE  UNCHANGED counters
  BY <1>4, Zenon DEF KeySet, KeyTold, RouteDone
<1>5. ASSUME NEW r \in Requests, NEW b \in BOOLEAN,
             CaptchaCount(r, b) \/ CaptchaVerify(r, b) \/ GetToken(r, b)
      PROVE  UNCHANGED counters
  BY <1>5, Zenon DEF CaptchaCount, CaptchaVerify, GetToken
<1>6. ASSUME NEW r \in Requests, NEW k \in Requests, validateApiKey(r, k)
      PROVE  UNCHANGED counters
  BY <1>6, Zenon DEF validateApiKey
<1>7. ASSUME NEW r \in Requests, NEW route \in Routes, NEW ip \in Ips, Arrive(r, route, ip)
      PROVE  UNCHANGED counters
  BY <1>7, Zenon DEF Arrive
<1>8. CASE LauncherEnds \/ UNCHANGED vars
  BY <1>8, <1>b, Zenon DEF LauncherEnds, vars, counters
<1>9. ASSUME UNCHANGED counters PROVE UNCHANGED <<fails, failTtl>> /\ cut' \subseteq Ips
  BY <1>9, <1>b, Zenon DEF counters
<1>10. CASE \E r \in Requests : Continue(r)
  BY <1>1, <1>2, <1>3, <1>4, <1>5, <1>6, <1>9, <1>10, Zenon DEF Continue
<1> QED
  BY <1>7, <1>8, <1>9, <1>10, Zenon DEF Next

\* Every step keeps the counters' types.
LEMMA CountersStep == TypeInv /\ [Next]_vars => CountersOK'
<1> USE LifetimesAssumption, NoneAssumption
<1> SUFFICES ASSUME TypeInv, [Next]_vars PROVE CountersOK'
  BY Zenon
<1>1. CountersOK
  BY Zenon DEF TypeInv, TypeOK, CountersOK
<1>2. CASE Tick
  <2>1. ASSUME NEW ip \in Ips
        PROVE  /\ fails'[ip] \in Nat /\ failTtl'[ip] \in 1..FAILTTL \cup {Never}
               /\ failTtl'[ip] # Never => fails'[ip] > 0
    <3>1. failTtl[ip] \in 1..FAILTTL \cup {Never} /\ fails[ip] \in Nat
          /\ (failTtl[ip] # Never => fails[ip] > 0)
      BY <1>1, Zenon DEF CountersOK
    <3>2. /\ fails'[ip] = IF failTtl[ip] = 1 THEN 0 ELSE fails[ip]
          /\ failTtl'[ip] = IF failTtl[ip] = Never \/ failTtl[ip] = 1 THEN Never ELSE failTtl[ip] - 1
      BY <1>2, Zenon DEF Tick
    <3>3. CASE failTtl[ip] = Never
      BY <3>1, <3>2, <3>3
    <3>4. CASE failTtl[ip] \in 1..FAILTTL
      BY <3>1, <3>2, <3>4
    <3> QED
      BY <3>1, <3>3, <3>4, Zenon
  <2>2. fails' = [ip \in Ips |-> fails'[ip]] /\ failTtl' = [ip \in Ips |-> failTtl'[ip]] /\ cut' = cut
    BY <1>2, Zenon DEF Tick
  <2> QED
    BY <1>1, <2>1, <2>2, Zenon DEF CountersOK
<1>3. CASE UNCHANGED <<fails, failTtl>> /\ cut' \subseteq Ips
  BY <1>1, <1>3, Zenon DEF CountersOK
<1>4. ASSUME NEW ip \in Ips, fails' = [fails EXCEPT ![ip] = @ + 1], UNCHANGED failTtl, cut' \subseteq Ips
      PROVE  CountersOK'
  <2>1. fails[ip] + 1 \in Nat /\ fails[ip] + 1 > 0
    BY <1>1 DEF CountersOK
  <2> QED
    BY <1>1, <1>4, <2>1, Zenon DEF CountersOK
<1> QED
  BY <1>1, <1>2, <1>3, <1>4, CounterCommands, CounterSteps, Zenon

\* A request whose SET is done and one that has ended.
Settled == {"reply", "ended", "gone"}

\* A SET that a process has left on the wire.
LateSet(r) ==
  /\ req[r].pc = "lateSet" /\ Goto(r, "gone")
  /\ SET(req[r].user, r) /\ UNCHANGED <<replies, told>>

\* What a step does to the keys: the steps named here, or nothing, and then it
\* leaves alone the requests whose SET is done.
LEMMA KeySteps ==
  ASSUME TypeInv, [Next]_vars
  PROVE  \/ Tick \/ LauncherEnds
         \/ \E r \in Requests : KeySet(r) \/ KeyTold(r) \/ LateSet(r)
         \/ UNCHANGED keys /\ \A r \in Requests : req[r].pc \in Settled => req'[r] = req[r]
<1> DEFINE Quiet == UNCHANGED keys /\ \A r \in Requests : req[r].pc \in Settled => req'[r] = req[r]
<1>a. req \in [Requests -> Request]
  BY Zenon DEF TypeInv, AllFormed
<1>b. ASSUME NEW r \in Requests, NEW pc, Goto(r, pc), req[r].pc \notin Settled, UNCHANGED keys
      PROVE  Quiet
  BY <1>a, <1>b, Zenon DEF Goto
<1>c. ASSUME NEW r \in Requests, NEW s, End(r, s), req[r].pc \notin Settled, UNCHANGED keys
      PROVE  Quiet
  BY <1>a, <1>c, Zenon DEF End
<1>1. ASSUME NEW r \in Requests, NEW b \in BOOLEAN,
             CaptchaCount(r, b) \/ CaptchaVerify(r, b) \/ GetToken(r, b)
      PROVE  Quiet
  BY <1>1, <1>b, <1>c DEF CaptchaCount, CaptchaVerify, GetToken, Settled
<1>2. ASSUME NEW r \in Requests, CaptchaIncr(r) \/ CaptchaExpire(r) \/ RouteDone(r)
      PROVE  Quiet
  BY <1>2, <1>b, <1>c DEF CaptchaIncr, CaptchaExpire, RouteDone, Settled
<1>3. ASSUME NEW r \in Requests, CaptchaPassed(r)
      PROVE  Quiet
  <2>1. req[r].pc \notin Settled /\ UNCHANGED keys
    BY <1>3, Zenon DEF CaptchaPassed, Settled
  <2>2. CASE End(r, 400) \/ End(r, 403)
    BY <1>c, <2>1, <2>2, Zenon
  <2>3. ASSUME NEW u \in Users, NEW pc, req' = [req EXCEPT ![r].pc = pc, ![r].user = u]
        PROVE  Quiet
    BY <1>a, <2>1, <2>3, Zenon
  <2> QED
    BY <1>3, <2>2, <2>3 DEF CaptchaPassed
<1>4. ASSUME NEW r \in Requests, NEW k \in Requests, validateApiKey(r, k)
      PROVE  Quiet
  <2>1. req[r].pc \notin Settled /\ UNCHANGED keys
    BY <1>4, Zenon DEF validateApiKey, Settled
  <2>2. CASE End(r, 403)
    BY <1>c, <2>1, <2>2, Zenon
  <2>3. CASE Serve(r, k)
    BY <1>a, <2>1, <2>3, Zenon DEF Serve
  <2> QED
    BY <1>4, <2>2, <2>3, Zenon DEF validateApiKey
<1>5. ASSUME NEW r \in Requests, Throws(r)
      PROVE  Quiet
  <2>1. req[r].pc \notin Settled /\ UNCHANGED keys /\ End(r, 500)
    BY <1>5, Zenon DEF Throws, Awaiting, Settled
  <2> QED
    BY <1>c, <2>1, Zenon
<1>6. ASSUME NEW r \in Requests, LateCommand(r)
      PROVE  Quiet \/ LateSet(r)
  <2>1. req[r].pc \notin Settled /\ Goto(r, "gone")
    BY <1>6, Zenon DEF LateCommand, Late, Settled
  <2>2. UNCHANGED keys \/ (req[r].pc = "lateSet" /\ SET(req[r].user, r) /\ UNCHANGED <<replies, told>>)
    BY <1>6, Zenon DEF LateCommand
  <2> QED
    BY <1>b, <2>1, <2>2, Zenon DEF LateSet
<1>7. ASSUME NEW r \in Requests, NEW route \in Routes, NEW ip \in Ips, Arrive(r, route, ip)
      PROVE  Quiet
  <2>1. req[r].pc \notin Settled /\ UNCHANGED keys
    BY <1>7, Zenon DEF Arrive, Settled
  <2> QED
    BY <1>a, <1>7, <2>1, Zenon DEF Arrive
<1>8. CASE UNCHANGED vars
  BY <1>8, Zenon DEF vars
<1>9. CASE \E r \in Requests : Continue(r)
  BY <1>1, <1>2, <1>3, <1>4, <1>5, <1>6, <1>9, Zenon DEF Continue
<1> QED
  BY <1>7, <1>8, <1>9, Zenon DEF Next

\* Every step keeps the keys' types.
LEMMA KeysStep == TypeInv /\ [Next]_vars => KeysOK'
<1> USE LifetimesAssumption, NoneAssumption
<1> SUFFICES ASSUME TypeInv, [Next]_vars PROVE KeysOK'
  BY Zenon
<1>1. KeysOK
  BY Zenon DEF TypeInv, TypeOK, KeysOK
<1>2. ASSUME NEW r \in Requests, NEW u \in Users, SET(u, r), told' \in [Users -> Requests \cup {None}]
      PROVE  KeysOK'
  <2>1. KEYTTL \in 1..KEYTTL /\ 0 \in 0..KEYTTL
    OBVIOUS
  <2> QED
    BY <1>1, <1>2, <2>1, Zenon DEF SET, KeysOK
<1>a. ASSUME NEW r \in Requests, req[r].pc \in {"set", "lateSet", "reply"} PROVE req[r].user \in Users
  BY <1>a, Zenon DEF TypeInv, AllFormed, Formed
<1>3. ASSUME NEW r \in Requests, KeySet(r) \/ LateSet(r) PROVE KeysOK'
  <2>1. req[r].user \in Users /\ SET(req[r].user, r) /\ told' = told
    BY <1>3, <1>a, Zenon DEF KeySet, LateSet
  <2> QED
    BY <1>1, <1>2, <2>1, Zenon DEF KeysOK
<1>4. ASSUME NEW r \in Requests, KeyTold(r) PROVE KeysOK'
  BY <1>1, <1>4, Zenon DEF KeyTold, KeysOK
<1>5. CASE Tick
  <2>1. ASSUME NEW u \in Users
        PROVE  apikey'[u] \in Requests \cup {None} /\ keyTtl'[u] \in 1..KEYTTL \cup {Never}
    <3>1. keyTtl[u] \in 1..KEYTTL \cup {Never} /\ apikey[u] \in Requests \cup {None}
      BY <1>1, Zenon DEF KeysOK
    <3>2. /\ apikey'[u] = IF keyTtl[u] = 1 THEN None ELSE apikey[u]
          /\ keyTtl'[u] = IF keyTtl[u] = Never \/ keyTtl[u] = 1 THEN Never ELSE keyTtl[u] - 1
      BY <1>5, Zenon DEF Tick
    <3>3. CASE keyTtl[u] = Never
      BY <3>1, <3>2, <3>3, Zenon
    <3>4. CASE keyTtl[u] \in 1..KEYTTL
      BY <3>1, <3>2, <3>4
    <3> QED
      BY <3>1, <3>3, <3>4, Zenon
  <2>2. ASSUME NEW r \in Requests PROVE age'[r] \in 0..KEYTTL
    <3>1. age[r] \in 0..KEYTTL /\ age'[r] = IF age[r] < KEYTTL THEN age[r] + 1 ELSE KEYTTL
      BY <1>1, <1>5, Zenon DEF KeysOK, Tick
    <3> QED
      BY <3>1
  <2>3. /\ apikey' = [u \in Users |-> apikey'[u]] /\ keyTtl' = [u \in Users |-> keyTtl'[u]]
        /\ age' = [r \in Requests |-> age'[r]] /\ told' = told
    BY <1>5, Zenon DEF Tick
  <2> QED
    BY <1>1, <2>1, <2>2, <2>3, Zenon DEF KeysOK
<1>6. CASE LauncherEnds \/ UNCHANGED keys
  BY <1>1, <1>6, Zenon DEF LauncherEnds, keys, KeysOK
<1> QED
  BY <1>3, <1>4, <1>5, <1>6, KeySteps, Zenon

\* The replies that are waited for are of requests that wait, one for each.
LEMMA RepliesStep == TypeInv /\ [Next]_vars => RepliesOK'
<1> SUFFICES ASSUME TypeInv, [Next]_vars PROVE RepliesOK'
  BY Zenon
<1>1. RepliesOK /\ req \in [Requests -> Request]
  BY Zenon DEF TypeInv, TypeOK, RepliesOK
<1>2. ASSUME NEW r \in Requests, KeySet(r) PROVE RepliesOK'
  <2>1. replies' = Append(replies, r) /\ req[r].pc = "set"
    BY <1>2, Zenon DEF KeySet
  <2>2. /\ replies \in Seq(Requests) /\ replies' \in Seq(Requests)
        /\ Len(replies') = Len(replies) + 1 /\ replies'[Len(replies) + 1] = r
        /\ \A i \in 1 .. Len(replies) : replies'[i] = replies[i]
    BY <1>1, <2>1 DEF RepliesOK
  <2>3. \A i \in 1 .. Len(replies) : replies[i] # r /\ replies[i] \in Requests /\ req[replies[i]].pc = "reply"
    BY <1>1, <2>1, <2>2 DEF RepliesOK
  <2>4. req'[r].pc = "reply" /\ \A x \in Requests : x # r => req'[x] = req[x]
    BY <1>1, <1>2, Zenon DEF KeySet, Goto, Request
  <2>5. \A i, j \in 1 .. Len(replies) : replies[i] = replies[j] => i = j
    BY <1>1, <2>2 DEF RepliesOK, Distinct
  <2>6. DOMAIN replies' = 1 .. Len(replies) + 1
    BY <2>2
  <2>7. ASSUME NEW i \in 1 .. Len(replies) + 1 PROVE req'[replies'[i]].pc = "reply"
    BY <2>2, <2>3, <2>4
  <2>8. ASSUME NEW i \in 1 .. Len(replies) + 1, NEW j \in 1 .. Len(replies) + 1, replies'[i] = replies'[j]
        PROVE  i = j
    <3>1. CASE i = Len(replies) + 1
      BY <2>2, <2>3, <2>8, <3>1
    <3>2. CASE j = Len(replies) + 1
      BY <2>2, <2>3, <2>8, <3>2
    <3>3. CASE i \in 1 .. Len(replies) /\ j \in 1 .. Len(replies)
      BY <2>2, <2>5, <2>8, <3>3, Zenon
    <3> QED
      BY <2>2, <3>1, <3>2, <3>3
  <2> QED
    BY <2>2, <2>6, <2>7, <2>8, Zenon DEF RepliesOK, Distinct
<1>3. ASSUME NEW r \in Requests, KeyTold(r) PROVE RepliesOK'
  <2>1. replies # <<>> /\ r = Head(replies) /\ replies' = Tail(replies)
    BY <1>3, Zenon DEF KeyTold
  <2>2. /\ replies \in Seq(Requests) /\ replies' \in Seq(Requests)
        /\ Len(replies) \in Nat \ {0} /\ Len(replies') = Len(replies) - 1 /\ r = replies[1]
        /\ \A i \in 1 .. Len(replies) - 1 : replies'[i] = replies[i + 1]
    BY <1>1, <2>1 DEF RepliesOK
  <2>3. ASSUME NEW i \in 1 .. Len(replies) - 1
        PROVE  i + 1 \in 1 .. Len(replies) /\ replies'[i] = replies[i + 1] /\ replies[i + 1] # r
    <3>1. i + 1 \in 1 .. Len(replies) /\ 1 \in 1 .. Len(replies) /\ i + 1 # 1
      BY <2>2
    <3>2. replies[i + 1] # replies[1]
      <4>1. i + 1 \in DOMAIN replies /\ 1 \in DOMAIN replies
        BY <2>2, <3>1
      <4> QED
        BY <1>1, <3>1, <4>1, Zenon DEF RepliesOK, Distinct
    <3> QED
      BY <2>2, <3>1, <3>2, Zenon
  <2>4. \A x \in Requests : x # r => req'[x] = req[x]
    BY <1>1, <1>3, Zenon DEF KeyTold, End
  <2>5. DOMAIN replies' = 1 .. Len(replies) - 1 /\ DOMAIN replies = 1 .. Len(replies)
    BY <2>2
  <2>6. ASSUME NEW i \in 1 .. Len(replies) - 1 PROVE req'[replies'[i]].pc = "reply"
    <3>1. i + 1 \in 1 .. Len(replies) /\ replies'[i] = replies[i + 1] /\ replies[i + 1] # r
      BY <2>3, Zenon
    <3>2. replies[i + 1] \in Requests /\ req[replies[i + 1]].pc = "reply"
      BY <1>1, <2>2, <2>5, <3>1 DEF RepliesOK
    <3> QED
      BY <2>4, <3>1, <3>2, Zenon
  <2>7. ASSUME NEW i \in 1 .. Len(replies) - 1, NEW j \in 1 .. Len(replies) - 1, replies'[i] = replies'[j]
        PROVE  i = j
    <3>1. i + 1 \in 1 .. Len(replies) /\ j + 1 \in 1 .. Len(replies) /\ replies[i + 1] = replies[j + 1]
      BY <2>3, <2>7, Zenon
    <3>2. i + 1 = j + 1
      BY <1>1, <2>5, <3>1, Zenon DEF RepliesOK, Distinct
    <3> QED
      BY <2>2, <3>2
  <2> QED
    BY <2>2, <2>5, <2>6, <2>7, Zenon DEF RepliesOK, Distinct
<1>4. ASSUME NEW r \in Requests, LateSet(r) PROVE RepliesOK'
  <2>1. req[r].pc # "reply" /\ replies' = replies
    BY <1>4, Zenon DEF LateSet
  <2>2. \A x \in Requests : x # r => req'[x] = req[x]
    BY <1>1, <1>4, Zenon DEF LateSet, Goto
  <2>3. \A i \in DOMAIN replies : replies[i] \in Requests /\ replies[i] # r
    BY <1>1, <2>1 DEF RepliesOK
  <2> QED
    BY <1>1, <2>1, <2>2, <2>3, Zenon DEF RepliesOK, Distinct
<1>5. CASE Tick
  BY <1>1, <1>5, Zenon DEF Tick, RepliesOK, Distinct
<1>6. CASE LauncherEnds
  BY <1>6 DEF LauncherEnds, RepliesOK, Distinct
<1>7. CASE UNCHANGED keys /\ \A r \in Requests : req[r].pc \in Settled => req'[r] = req[r]
  <2>1. \A i \in DOMAIN replies : replies[i] \in Requests /\ req[replies[i]].pc \in Settled
    BY <1>1 DEF RepliesOK, Settled
  <2> QED
    BY <1>1, <1>7, <2>1, Zenon DEF RepliesOK, Distinct, keys
<1> QED
  BY <1>2, <1>3, <1>4, <1>5, <1>6, <1>7, KeySteps, Zenon

\* What a step does to request x and its reports: x does not end, or it ends with
\* a status that is not reported, or with one that is.
Reports(x) ==
  /\ reported' \in [Requests -> Nat]
  /\ \/ reported'[x] = reported[x] /\ req'[x] = req[x]
     \/ reported'[x] = reported[x] /\ req[x].pc # "ended" /\ req'[x].pc # "ended"
     \/ /\ req[x].pc # "ended" /\ req'[x].pc = "ended"
        /\ \/ reported'[x] = reported[x] /\ req'[x].status \notin {403, 500}
           \/ reported'[x] = reported[x] + 1 /\ req'[x].status \in {403, 500}
           \/ reported'[x] = reported[x] + 2 /\ req'[x].status = 500 /\ req'[x].route = "protected"

\* Every step does that.
LEMMA ReportSteps ==
  ASSUME TypeInv, [Next]_vars, NEW x \in Requests
  PROVE  Reports(x)
<1>a. req \in [Requests -> Request] /\ reported \in [Requests -> Nat] /\ AllFormed
  BY Zenon DEF TypeInv, TypeOK
<1>b. ASSUME NEW r \in Requests, NEW pc, Goto(r, pc), req[r].pc # "ended", pc # "ended", UNCHANGED reported
      PROVE  Reports(x)
  BY <1>a, <1>b DEF Goto, Request, Reports
<1>c. ASSUME NEW r \in Requests, NEW s, End(r, s), req[r].pc # "ended",
             \/ UNCHANGED reported /\ s \notin {403, 500}
             \/ Report(r, 1) /\ s \in {403, 500}
             \/ Report(r, 2) /\ s = 500 /\ req[r].route = "protected"
      PROVE  Reports(x)
  <2>1. /\ \A y \in Requests : y # r => req'[y] = req[y]
        /\ req'[r].pc = "ended" /\ req'[r].status = s /\ req'[r].route = req[r].route
    BY <1>a, <1>c DEF End, Request
  <2>2. CASE UNCHANGED reported /\ s \notin {403, 500}
    BY <1>a, <1>c, <2>1, <2>2 DEF Reports
  <2>3. CASE Report(r, 1) /\ s \in {403, 500}
    BY <1>a, <1>c, <2>1, <2>3 DEF Report, Reports
  <2>4. CASE Report(r, 2) /\ s = 500 /\ req[r].route = "protected"
    BY <1>a, <1>c, <2>1, <2>4 DEF Report, Reports
  <2> QED
    BY <1>c, <2>2, <2>3, <2>4
<1>d. ASSUME NEW r \in Requests, UNCHANGED reported, req[r].pc # "ended", req'[r].pc # "ended",
             \A y \in Requests : y # r => req'[y] = req[y]
      PROVE  Reports(x)
  BY <1>a, <1>d DEF Reports
<1>1. ASSUME NEW r \in Requests, NEW b \in BOOLEAN,
             CaptchaCount(r, b) \/ CaptchaVerify(r, b) \/ GetToken(r, b)
      PROVE  Reports(x)
  BY <1>1, <1>b, <1>c DEF CaptchaCount, CaptchaVerify, GetToken
<1>2. ASSUME NEW r \in Requests, CaptchaIncr(r) \/ CaptchaExpire(r) \/ RouteDone(r) \/ KeySet(r)
      PROVE  Reports(x)
  BY <1>2, <1>b, <1>c DEF CaptchaIncr, CaptchaExpire, RouteDone, KeySet
<1>3. ASSUME NEW r \in Requests, CaptchaPassed(r)
      PROVE  Reports(x)
  <2>1. CASE End(r, 400) /\ UNCHANGED reported
    BY <1>3, <1>c, <2>1 DEF CaptchaPassed
  <2>2. CASE End(r, 403) /\ Report(r, 1)
    BY <1>3, <1>c, <2>2 DEF CaptchaPassed
  <2>3. ASSUME NEW u \in Users, NEW pc \in {"set", "check"}, UNCHANGED reported,
               req' = [req EXCEPT ![r].pc = pc, ![r].user = u]
        PROVE  Reports(x)
    <3>1. req[r].pc # "ended" /\ req'[r].pc # "ended" /\ \A y \in Requests : y # r => req'[y] = req[y]
      BY <1>3, <1>a, <2>3, Zenon DEF CaptchaPassed, Request
    <3> QED
      BY <1>d, <2>3, <3>1, Zenon
  <2> QED
    BY <1>3, <2>1, <2>2, <2>3, Zenon DEF CaptchaPassed
<1>4. ASSUME NEW r \in Requests, KeyTold(r)
      PROVE  Reports(x)
  <2>1. req[r].pc = "reply" /\ End(r, 200) /\ UNCHANGED reported
    BY <1>4 DEF KeyTold, TypeInv, TypeOK
  <2> QED
    BY <1>c, <2>1
<1>5. ASSUME NEW r \in Requests, NEW k \in Requests, validateApiKey(r, k)
      PROVE  Reports(x)
  <2>1. CASE End(r, 403) /\ Report(r, 1)
    BY <1>5, <1>c, <2>1 DEF validateApiKey
  <2>2. CASE Serve(r, k) /\ UNCHANGED reported
    <3>1. req[r].pc # "ended" /\ req'[r].pc # "ended" /\ \A y \in Requests : y # r => req'[y] = req[y]
      BY <1>5, <1>a, <2>2, Zenon DEF validateApiKey, Serve, Request
    <3> QED
      BY <1>d, <2>2, <3>1, Zenon
  <2> QED
    BY <1>5, <2>1, <2>2, Zenon DEF validateApiKey
<1>6. ASSUME NEW r \in Requests, Throws(r)
      PROVE  Reports(x)
  <2>1. End(r, 500) /\ req[r].pc # "ended" /\ (Report(r, 1) \/ (req[r].pc = "route" /\ Report(r, 2)))
    BY <1>6, Zenon DEF Throws, Awaiting
  <2>2. req[r].pc = "route" => req[r].route = "protected"
    BY <1>a, Zenon DEF AllFormed, Formed
  <2> QED
    BY <1>c, <2>1, <2>2
<1>7. ASSUME NEW r \in Requests, LateCommand(r)
      PROVE  Reports(x)
  <2>1. Goto(r, "gone") /\ req[r].pc # "ended" /\ UNCHANGED reported
    BY <1>7, Zenon DEF LateCommand, Late
  <2> QED
    BY <1>b, <2>1, Zenon
<1>8. ASSUME NEW r \in Requests, NEW route \in Routes, NEW ip \in Ips, Arrive(r, route, ip)
      PROVE  Reports(x)
  <2>1. /\ req[r].pc # "ended" /\ req'[r].pc # "ended" /\ UNCHANGED reported
        /\ \A y \in Requests : y # r => req'[y] = req[y]
    BY <1>a, <1>8 DEF Arrive, Request
  <2> QED
    BY <1>d, <2>1, Zenon
<1>9. CASE LauncherEnds
  <2>1. req'[x] = [req[x] EXCEPT !.pc = AfterEnd(req[x].pc)] /\ UNCHANGED reported /\ req[x] \in Request
    BY <1>9, <1>a, Zenon DEF LauncherEnds
  <2>2. (AfterEnd(req[x].pc) = "ended" <=> req[x].pc = "ended")
        /\ (req[x].pc = "ended" => AfterEnd(req[x].pc) = req[x].pc)
    BY <2>1, AfterEndPlaces, Zenon DEF Request
  <2>3. CASE req[x].pc = "ended"
    <3>1. req'[x] = req[x]
      BY <2>1, <2>2, <2>3, Zenon DEF Request
    <3> QED
      BY <1>a, <2>1, <3>1 DEF Reports
  <2>4. CASE req[x].pc # "ended"
    <3>1. req'[x].pc # "ended"
      BY <2>1, <2>2, <2>4, Zenon DEF Request
    <3> QED
      BY <1>a, <2>1, <2>4, <3>1, Zenon DEF Reports
  <2> QED
    BY <2>3, <2>4, Zenon
<1>10. CASE Tick \/ UNCHANGED vars
  BY <1>a, <1>10 DEF Tick, vars, Reports
<1>11. CASE \E r \in Requests : Continue(r)
  BY <1>1, <1>2, <1>3, <1>4, <1>5, <1>6, <1>7, <1>11, Zenon DEF Continue
<1> QED
  BY <1>8, <1>9, <1>10, <1>11, Zenon DEF Next

\* The type invariant, with the shape of the requests and the replies, holds in
\* every state.
LEMMA Types == Spec => []TypeInv
<1>1. Init => TypeInv
  <2> SUFFICES ASSUME Init PROVE TypeInv
    BY Zenon
  <2> USE LifetimesAssumption, NoneAssumption
  <2>1. AllFormed
    <3>1. ASSUME NEW r \in Requests PROVE Formed(req[r])
      <4>1. "free" \in Places /\ 0 \in Statuses
        BY DEF Places, Statuses
      <4>2. req[r] = [route |-> "none", ip |-> None, user |-> None, key |-> None, pc |-> "free", status |-> 0]
        BY Zenon DEF Init
      <4>3. req[r] \in Request
        BY <4>1, <4>2 DEF Request
      <4> QED
        BY <4>2, <4>3 DEF Formed
    <3> QED
      BY <3>1, Zenon DEF AllFormed, Formed, Init
  <2>2. KEYTTL \in 0..KEYTTL
    OBVIOUS
  <2> QED
    BY <2>1, <2>2 DEF Init, TypeInv, TypeOK, AllFormed, Distinct
<1>2. TypeInv /\ [Next]_vars => TypeInv'
  <2> SUFFICES ASSUME TypeInv, [Next]_vars PROVE TypeInv'
    BY Zenon
  <2>1. AllFormed' /\ CountersOK' /\ KeysOK' /\ RepliesOK'
    BY FormedStep, CountersStep, KeysStep, RepliesStep, Zenon
  <2>2. reported' \in [Requests -> Nat]
    <3>1. CASE Requests = {}
      <4>1. reported' = reported
        BY <3>1, Zenon DEF Next, Tick, LauncherEnds, vars
      <4> QED
        BY <4>1, Zenon DEF TypeInv, TypeOK
    <3>2. CASE Requests # {}
      BY <3>2, ReportSteps, Zenon DEF Reports
    <3> QED
      BY <3>1, <3>2, Zenon
  <2> QED
    BY <2>1, <2>2, Zenon DEF TypeInv, TypeOK, AllFormed, CountersOK, KeysOK, RepliesOK
<1> QED
  BY <1>1, <1>2, PTL DEF Spec

\* The types; Redis keeps an expiry only for a key that is there, and the replies
\* that are waited for are those of requests that wait (server.js:138-223).
THEOREM TypeCorrect == Spec => []TypeOK
<1>1. TypeInv => TypeOK
  BY Zenon DEF TypeInv
<1> QED
  BY <1>1, Types, PTL

-----------------------------------------------------------------------------
(* Reports and counters *)

\* A request is reported when it ends, not before.
Unreported == \A r \in Requests : req[r].pc # "ended" => reported[r] = 0

\* The firewall hears once of a refused key or an error, twice where a helper of a
\* route has reported it already, and of nothing else (server.js:159-223, 465-468).
THEOREM Reported == Spec => []ReportedRight
<1>1. Init => Unreported /\ ReportedRight
  BY DEF Init, Unreported, ReportedRight
<1>2. TypeInv /\ TypeInv' /\ Unreported /\ ReportedRight /\ [Next]_vars => Unreported' /\ ReportedRight'
  <2> SUFFICES ASSUME TypeInv, TypeInv', Unreported, ReportedRight, [Next]_vars, NEW x \in Requests
               PROVE  /\ req'[x].pc # "ended" => reported'[x] = 0
                      /\ reported'[x] > 0 <=> req'[x].status \in {403, 500}
                      /\ reported'[x] <= IF req'[x].route = "protected" /\ req'[x].status = 500 THEN 2 ELSE 1
    BY DEF Unreported, ReportedRight
  <2>1. /\ req[x].pc # "ended" => reported[x] = 0 /\ req[x].status = 0
        /\ req'[x].pc # "ended" => req'[x].status = 0
    BY Zenon DEF Unreported, TypeInv, AllFormed, Formed
  <2>2. /\ reported[x] > 0 <=> req[x].status \in {403, 500}
        /\ reported[x] <= IF req[x].route = "protected" /\ req[x].status = 500 THEN 2 ELSE 1
    BY DEF ReportedRight
  <2>3. Reports(x)
    BY ReportSteps, Zenon
  <2>4. CASE reported'[x] = reported[x] /\ req'[x] = req[x]
    BY <2>1, <2>2, <2>4
  <2>5. CASE reported'[x] = reported[x] /\ req[x].pc # "ended" /\ req'[x].pc # "ended"
    BY <2>1, <2>5
  <2>6. CASE /\ req[x].pc # "ended" /\ req'[x].pc = "ended"
             /\ \/ reported'[x] = reported[x] /\ req'[x].status \notin {403, 500}
                \/ reported'[x] = reported[x] + 1 /\ req'[x].status \in {403, 500}
                \/ reported'[x] = reported[x] + 2 /\ req'[x].status = 500 /\ req'[x].route = "protected"
    BY <2>1, <2>6
  <2> QED
    BY <2>3, <2>4, <2>5, <2>6, Zenon DEF Reports
<1> QED
  BY <1>1, <1>2, Types, PTL DEF Spec

\* A request is about to give the counter of ip an expiry.
Expiring(ip) == \E r \in Requests : req[r].ip = ip /\ req[r].pc \in {"expire", "lateExpire"}

\* Every step keeps CounterExpires.
LEMMA CounterStep == TypeInv /\ CounterExpires /\ [Next]_vars => CounterExpires'
<1> USE LifetimesAssumption, NoneAssumption
<1> SUFFICES ASSUME TypeInv, CounterExpires, [Next]_vars,
                    NEW ip \in Ips, fails'[ip] > 0, failTtl'[ip] = Never
             PROVE  ip \in cut' \/ Expiring(ip)'
  BY Zenon DEF CounterExpires, Expiring
<1>a. /\ req \in [Requests -> Request] /\ fails \in [Ips -> Nat]
      /\ failTtl \in [Ips -> 1..FAILTTL \cup {Never}] /\ FAILTTL # Never
  BY Zenon DEF TypeInv, TypeOK
<1>b. fails[ip] > 0 /\ failTtl[ip] = Never => ip \in cut \/ Expiring(ip)
  BY Zenon DEF CounterExpires, Expiring
\* Only request r changes; it is not one that Expiring(ip) is about.
<1>c. ASSUME NEW r \in Requests, \A x \in Requests : x # r => req'[x] = req[x],
             req[r].ip # ip \/ req[r].pc \notin {"expire", "lateExpire"}
      PROVE  Expiring(ip) => Expiring(ip)'
  BY <1>c, Zenon DEF Expiring
<1>d. ASSUME NEW r \in Requests, NEW pc, Goto(r, pc)
      PROVE  \A x \in Requests : x # r => req'[x] = req[x]
  BY <1>a, <1>d, Zenon DEF Goto
<1>e. ASSUME NEW r \in Requests, NEW s, End(r, s)
      PROVE  \A x \in Requests : x # r => req'[x] = req[x]
  BY <1>a, <1>e, Zenon DEF End
<1>f. ASSUME NEW g \in Ips, EXPIRE(g)
      PROVE  g # ip /\ UNCHANGED fails /\ failTtl[ip] = Never /\ (ip \in cut => ip \in cut')
  BY <1>a, <1>f DEF EXPIRE
<1>g. ASSUME NEW g \in Ips, DEL(g)
      PROVE  g # ip /\ fails'[ip] = fails[ip] /\ failTtl[ip] = Never /\ (ip \in cut => ip \in cut')
  BY <1>a, <1>g DEF DEL
<1>h. ASSUME NEW g \in Ips, Abandon(g), UNCHANGED failTtl
      PROVE  (ip \in cut => ip \in cut') /\ (g = ip => ip \in cut')
  BY <1>h, Zenon DEF Abandon
<1>i. ASSUME NEW r \in Requests, req[r].pc # "free" PROVE req[r].ip \in Ips
  BY <1>i, Zenon DEF TypeInv, AllFormed, Formed
<1>j. ASSUME NEW r \in Requests, \A x \in Requests : x # r => req'[x] = req[x],
             req[r].pc \notin {"expire", "lateExpire"}, UNCHANGED counters
      PROVE  ip \in cut' \/ Expiring(ip)'
  BY <1>b, <1>c, <1>j, Zenon DEF counters
<1>1. ASSUME NEW r \in Requests, CaptchaIncr(r)
      PROVE  ip \in cut' \/ Expiring(ip)'
  <2>1. /\ req[r].pc = "incr" /\ cut' = cut /\ failTtl' = failTtl /\ Goto(r, "expire")
        /\ fails' = [fails EXCEPT ![req[r].ip] = @ + 1]
    BY <1>1, Zenon DEF CaptchaIncr, INCR
  <2>2. req'[r].ip = req[r].ip /\ req'[r].pc = "expire"
    BY <1>a, <2>1 DEF Goto, Request
  <2>3. CASE req[r].ip = ip
    BY <2>2, <2>3, Zenon DEF Expiring
  <2>4. CASE req[r].ip # ip
    BY <1>a, <1>b, <1>c, <1>d, <2>1, <2>4, Zenon
  <2> QED
    BY <2>3, <2>4, Zenon
<1>2. ASSUME NEW r \in Requests, CaptchaExpire(r)
      PROVE  ip \in cut' \/ Expiring(ip)'
  <2>1. EXPIRE(req[r].ip) /\ req[r].ip \in Ips /\ \A x \in Requests : x # r => req'[x] = req[x]
    BY <1>2, <1>e, <1>i DEF CaptchaExpire
  <2> QED
    BY <1>b, <1>c, <1>f, <2>1, Zenon
<1>3. ASSUME NEW r \in Requests, CaptchaPassed(r)
      PROVE  ip \in cut' \/ Expiring(ip)'
  <2>1. DEL(req[r].ip) /\ req[r].ip \in Ips /\ req[r].pc = "del"
    BY <1>3, <1>i, Zenon DEF CaptchaPassed
  <2>2. \A x \in Requests : x # r => req'[x] = req[x]
    BY <1>3, <1>a, <1>e DEF CaptchaPassed
  <2> QED
    BY <1>b, <1>c, <1>g, <2>1, <2>2, Zenon
<1>4. ASSUME NEW r \in Requests, Throws(r)
      PROVE  ip \in cut' \/ Expiring(ip)'
  <2>1. /\ UNCHANGED <<fails, failTtl>> /\ \A x \in Requests : x # r => req'[x] = req[x]
        /\ req[r].ip \in Ips /\ req[r].pc # "lateExpire"
    BY <1>4, <1>e, <1>i, Zenon DEF Throws, Awaiting
  <2>2. IF req[r].pc = "expire" THEN Abandon(req[r].ip) ELSE UNCHANGED cut
    BY <1>4, Zenon DEF Throws
  <2> QED
    BY <1>b, <1>c, <1>h, <2>1, <2>2, Zenon
<1>5. ASSUME NEW r \in Requests, LateCommand(r)
      PROVE  ip \in cut' \/ Expiring(ip)'
  <2>1. req[r].ip \in Ips /\ req[r].pc # "expire" /\ \A x \in Requests : x # r => req'[x] = req[x]
    BY <1>5, <1>d, <1>i, Zenon DEF LateCommand, Late
  <2>2. CASE /\ req[r].pc = "lateIncr" /\ fails' = [fails EXCEPT ![req[r].ip] = @ + 1]
             /\ Abandon(req[r].ip) /\ UNCHANGED failTtl
    BY <1>a, <1>b, <1>c, <1>h, <2>1, <2>2, Zenon
  <2>3. CASE req[r].pc = "lateExpire" /\ EXPIRE(req[r].ip)
    BY <1>b, <1>c, <1>f, <2>1, <2>3, Zenon
  <2>4. CASE req[r].pc = "lateDel" /\ DEL(req[r].ip)
    BY <1>b, <1>c, <1>g, <2>1, <2>4, Zenon
  <2>5. CASE req[r].pc = "lateSet" /\ UNCHANGED counters
    BY <1>j, <2>1, <2>5, Zenon
  <2>6. CASE UNCHANGED <<fails, failTtl>> /\ Abandon(req[r].ip)
    BY <1>b, <1>c, <1>h, <2>1, <2>6, Zenon
  <2> QED
    BY <1>5, <2>2, <2>3, <2>4, <2>5, <2>6, Zenon DEF LateCommand
<1>6. ASSUME NEW r \in Requests, KeySet(r) \/ KeyTold(r) \/ RouteDone(r)
      PROVE  ip \in cut' \/ Expiring(ip)'
  <2>1. req[r].pc \in {"set", "reply", "route"} /\ UNCHANGED counters
    BY <1>6 DEF KeySet, KeyTold, RouteDone, TypeInv, TypeOK
  <2>2. \A x \in Requests : x # r => req'[x] = req[x]
    BY <1>6, <1>d, <1>e DEF KeySet, KeyTold, RouteDone
  <2> QED
    BY <1>j, <2>1, <2>2, Zenon
<1>7. ASSUME NEW r \in Requests, NEW b \in BOOLEAN,
             CaptchaCount(r, b) \/ CaptchaVerify(r, b) \/ GetToken(r, b)
      PROVE  ip \in cut' \/ Expiring(ip)'
  BY <1>7, <1>d, <1>e, <1>j DEF CaptchaCount, CaptchaVerify, GetToken
<1>8. ASSUME NEW r \in Requests, NEW k \in Requests, validateApiKey(r, k)
      PROVE  ip \in cut' \/ Expiring(ip)'
  <2>1. \A x \in Requests : x # r => req'[x] = req[x]
    BY <1>8, <1>a, <1>e, Zenon DEF validateApiKey, Serve
  <2> QED
    BY <1>8, <1>j, <2>1, Zenon DEF validateApiKey
<1>9. ASSUME NEW r \in Requests, NEW route \in Routes, NEW g \in Ips, Arrive(r, route, g)
      PROVE  ip \in cut' \/ Expiring(ip)'
  <2>1. \A x \in Requests : x # r => req'[x] = req[x]
    BY <1>9, <1>a, Zenon DEF Arrive
  <2> QED
    BY <1>9, <1>j, <2>1, Zenon DEF Arrive
<1>10. CASE Tick
  <2>1. fails'[ip] = fails[ip] /\ failTtl[ip] = Never /\ UNCHANGED <<req, cut>>
    BY <1>10, <1>a DEF Tick
  <2> QED
    BY <1>b, <2>1, Zenon DEF Expiring
<1>11. CASE LauncherEnds
  <2>1. UNCHANGED counters
    BY <1>11, Zenon DEF LauncherEnds
  <2>2. ASSUME NEW r \in Requests, req[r].ip = ip, req[r].pc \in {"expire", "lateExpire"}
        PROVE  req'[r].ip = ip /\ req'[r].pc = "lateExpire"
    <3>1. req'[r] = [req[r] EXCEPT !.pc = AfterEnd(req[r].pc)] /\ req[r] \in Request
      BY <1>11, <1>a, Zenon DEF LauncherEnds
    <3>2. AfterEnd(req[r].pc) = "lateExpire"
      BY <2>2, <3>1, AfterEndPlaces DEF Request
    <3> QED
      BY <2>2, <3>1, <3>2, Zenon DEF Request
  <2> QED
    BY <1>b, <2>1, <2>2, Zenon DEF Expiring, counters
<1>12. CASE UNCHANGED vars
  BY <1>12, <1>b, Zenon DEF vars, counters, Expiring
<1>13. CASE \E r \in Requests : Continue(r)
  BY <1>1, <1>2, <1>3, <1>4, <1>5, <1>6, <1>7, <1>8, <1>13, Zenon DEF Continue
<1> QED
  BY <1>9, <1>10, <1>11, <1>12, <1>13, Zenon DEF Next

\* A counter of failures without an expiry has a request that is about to set it,
\* or was left by one that was stopped between INCR and EXPIRE (server.js:151-152).
THEOREM CountersExpire == Spec => []CounterExpires
<1>1. Init => CounterExpires
  BY DEF Init, CounterExpires
<1> QED
  BY <1>1, CounterStep, Types, PTL DEF Spec

-----------------------------------------------------------------------------
(* Keys *)

\* A stored key is the one that a request made for this very user; its lifetime
\* and its age add up.
StoredInv ==
  \A u \in Users : \A r \in Requests : apikey[u] = r =>
    /\ req[r].user = u /\ req[r].pc \in Settled
    /\ keyTtl[u] \in 1..KEYTTL /\ age[r] + keyTtl[u] = KEYTTL

\* A SET by request x, which has not made one before.
LEMMA SetStored ==
  ASSUME TypeInv, StoredInv, NEW x \in Requests, req[x].user \in Users, SET(req[x].user, x),
         req[x].pc \notin Settled, req'[x].user = req[x].user, req'[x].pc \in Settled,
         \A r \in Requests : r # x => req'[r] = req[r]
  PROVE  StoredInv'
<1> USE LifetimesAssumption, NoneAssumption
<1> SUFFICES ASSUME NEW u \in Users, NEW r \in Requests, apikey'[u] = r
             PROVE  /\ req'[r].user = u /\ req'[r].pc \in Settled
                    /\ keyTtl'[u] \in 1..KEYTTL /\ age'[r] + keyTtl'[u] = KEYTTL
  BY Zenon DEF StoredInv
<1>a. apikey \in [Users -> Requests \cup {None}] /\ keyTtl \in [Users -> 1..KEYTTL \cup {Never}]
      /\ age \in [Requests -> 0..KEYTTL]
  BY Zenon DEF TypeInv, TypeOK
<1>1. CASE u = req[x].user
  <2>1. r = x /\ keyTtl'[u] = KEYTTL /\ age'[x] = 0
    BY <1>1, <1>a, Zenon DEF SET
  <2> QED
    BY <1>1, <2>1
<1>2. CASE u # req[x].user
  <2>1. apikey[u] = r /\ keyTtl'[u] = keyTtl[u]
    BY <1>2, <1>a, Zenon DEF SET
  <2>2. /\ req[r].user = u /\ req[r].pc \in Settled
        /\ keyTtl[u] \in 1..KEYTTL /\ age[r] + keyTtl[u] = KEYTTL
    BY <2>1, Zenon DEF StoredInv
  <2>3. r # x /\ req'[r] = req[r] /\ age'[r] = age[r]
    BY <1>a, <2>2, Zenon DEF SET
  <2> QED
    BY <2>1, <2>2, <2>3, Zenon
<1> QED
  BY <1>1, <1>2, Zenon

\* How KeySet and a late SET change the requests.
LEMMA SetRequests ==
  ASSUME TypeInv, NEW x \in Requests, KeySet(x) \/ LateSet(x)
  PROVE  /\ req[x].user \in Users /\ SET(req[x].user, x) /\ told' = told
         /\ req[x].pc \notin Settled /\ req'[x].user = req[x].user /\ req'[x].pc \in {"reply", "gone"}
         /\ \A r \in Requests : r # x => req'[r] = req[r]
         /\ \/ replies' = Append(replies, x)
            \/ replies' = replies /\ req'[x].pc = "gone"
<1>1. req \in [Requests -> Request] /\ Formed(req[x])
  BY Zenon DEF TypeInv, AllFormed
<1>2. PICK pc \in {"reply", "gone"} :
        /\ Goto(x, pc) /\ req[x].pc \in {"set", "lateSet"} /\ SET(req[x].user, x) /\ told' = told
        /\ \/ replies' = Append(replies, x)
           \/ replies' = replies /\ pc = "gone"
  BY Zenon DEF KeySet, LateSet
<1>3. req'[x].user = req[x].user /\ req'[x].pc = pc /\ \A r \in Requests : r # x => req'[r] = req[r]
  BY <1>1, <1>2, Zenon DEF Goto, Request
<1> QED
  BY <1>1, <1>2, <1>3, Zenon DEF Formed, Settled

\* How telling a key changes the requests.
LEMMA ToldRequests ==
  ASSUME TypeInv, NEW x \in Requests, KeyTold(x)
  PROVE  /\ req[x].pc = "reply" /\ req[x].user \in Users /\ UNCHANGED <<apikey, keyTtl, age>>
         /\ req'[x].user = req[x].user /\ req'[x].pc = "ended"
         /\ \A r \in Requests : r # x => req'[r] = req[r]
<1>1. req \in [Requests -> Request] /\ Formed(req[x]) /\ req[x].pc = "reply"
  BY DEF TypeInv, TypeOK, AllFormed, KeyTold
<1> QED
  BY <1>1, Zenon DEF KeyTold, End, Formed, Request

\* How the end of the process changes the requests.
LEMMA EndRequests ==
  ASSUME TypeInv, NEW x \in Requests, LauncherEnds
  PROVE  /\ req'[x].user = req[x].user
         /\ req[x].pc \in {"reply", "gone"} => req'[x].pc = "gone"
         /\ req[x].pc = "ended" => req'[x].pc = "ended"
<1>1. req[x] \in Request /\ req'[x] = [req[x] EXCEPT !.pc = AfterEnd(req[x].pc)]
  BY Zenon DEF TypeInv, TypeOK, LauncherEnds
<1>2. /\ req[x].pc \in {"reply", "gone"} => AfterEnd(req[x].pc) = "gone"
      /\ req[x].pc = "ended" => AfterEnd(req[x].pc) = "ended"
  BY <1>1, AfterEndPlaces, Zenon DEF Request
<1> QED
  BY <1>1, <1>2, Zenon DEF Request

\* How the clock changes a key and its age.
LEMMA TickKeys ==
  ASSUME TypeInv, StoredInv, Tick, NEW u \in Users
  PROVE  /\ \A r \in Requests : age'[r] = IF age[r] < KEYTTL THEN age[r] + 1 ELSE KEYTTL
         /\ \A r \in Requests : apikey[u] = r =>
              \/ apikey'[u] = None /\ age[r] = KEYTTL - 1
              \/ apikey'[u] = r /\ keyTtl'[u] = keyTtl[u] - 1 /\ keyTtl[u] # 1
         /\ apikey'[u] # None => apikey'[u] = apikey[u]
<1> USE LifetimesAssumption, NoneAssumption
<1>1. /\ apikey'[u] = IF keyTtl[u] = 1 THEN None ELSE apikey[u]
      /\ keyTtl'[u] = IF keyTtl[u] = Never \/ keyTtl[u] = 1 THEN Never ELSE keyTtl[u] - 1
      /\ \A r \in Requests : age'[r] = IF age[r] < KEYTTL THEN age[r] + 1 ELSE KEYTTL
  BY Zenon DEF Tick
<1>2. ASSUME NEW r \in Requests, apikey[u] = r
      PROVE  \/ apikey'[u] = None /\ age[r] = KEYTTL - 1
             \/ apikey'[u] = r /\ keyTtl'[u] = keyTtl[u] - 1 /\ keyTtl[u] # 1
  <2>1. keyTtl[u] \in 1..KEYTTL /\ age[r] + keyTtl[u] = KEYTTL /\ age[r] \in 0..KEYTTL
    BY <1>2, Zenon DEF StoredInv, TypeInv, TypeOK
  <2>2. keyTtl[u] # Never
    BY <2>1
  <2>3. CASE keyTtl[u] = 1
    BY <1>1, <2>1, <2>3
  <2>4. CASE keyTtl[u] # 1
    BY <1>1, <1>2, <2>2, <2>4, Zenon
  <2> QED
    BY <2>3, <2>4, Zenon
<1> QED
  BY <1>1, <1>2, Zenon

\* Every step keeps StoredInv.
LEMMA StoredStep == TypeInv /\ StoredInv /\ [Next]_vars => StoredInv'
<1> USE LifetimesAssumption, NoneAssumption
<1> SUFFICES ASSUME TypeInv, StoredInv, [Next]_vars PROVE StoredInv'
  BY Zenon
<1>a. apikey \in [Users -> Requests \cup {None}] /\ age \in [Requests -> 0..KEYTTL]
  BY Zenon DEF TypeInv, TypeOK
<1>1. ASSUME NEW x \in Requests, KeySet(x) \/ LateSet(x) PROVE StoredInv'
  BY <1>1, SetRequests, SetStored, Zenon DEF Settled
<1>2. ASSUME NEW x \in Requests, KeyTold(x) PROVE StoredInv'
  BY <1>2, ToldRequests DEF StoredInv, Settled
<1>3. CASE Tick
  <2> SUFFICES ASSUME NEW u \in Users, NEW r \in Requests, apikey'[u] = r
               PROVE  /\ req'[r].user = u /\ req'[r].pc \in Settled
                      /\ keyTtl'[u] \in 1..KEYTTL /\ age'[r] + keyTtl'[u] = KEYTTL
    BY Zenon DEF StoredInv
  <2>1. r # None /\ apikey[u] = r
    BY <1>3, TickKeys, Zenon
  <2>2. /\ req[r].user = u /\ req[r].pc \in Settled
        /\ keyTtl[u] \in 1..KEYTTL /\ age[r] + keyTtl[u] = KEYTTL /\ age[r] \in 0..KEYTTL
    BY <1>a, <2>1, Zenon DEF StoredInv
  <2>3. /\ keyTtl'[u] = keyTtl[u] - 1 /\ keyTtl[u] # 1 /\ req' = req
        /\ age'[r] = IF age[r] < KEYTTL THEN age[r] + 1 ELSE KEYTTL
    <3>1. req' = req
      BY <1>3, Zenon DEF Tick
    <3> QED
      BY <1>3, <2>1, <3>1, TickKeys, Zenon
  <2> QED
    BY <2>2, <2>3
<1>4. CASE LauncherEnds
  <2>1. UNCHANGED <<apikey, keyTtl, age>>
    BY <1>4, Zenon DEF LauncherEnds
  <2> QED
    BY <1>4, <2>1, EndRequests DEF StoredInv, Settled
<1>5. CASE UNCHANGED keys /\ \A r \in Requests : req[r].pc \in Settled => req'[r] = req[r]
  BY <1>5, Zenon DEF keys, StoredInv
<1> QED
  BY <1>1, <1>2, <1>3, <1>4, <1>5, KeySteps, Zenon

\* StoredInv holds in every state.
LEMMA Stored == Spec => []StoredInv
<1>1. Init => StoredInv
  BY NoneAssumption, Zenon DEF Init, StoredInv
<1> QED
  BY <1>1, StoredStep, Types, PTL DEF Spec

\* A protected route runs only for a user whose own key was presented, less than
\* two hours after its SET (server.js:166-186).
THEOREM ServedFresh == Spec => ServedWithFreshKey
<1>1. TypeInv /\ StoredInv /\ [Next]_vars =>
        [\A r \in Requests : req[r].pc = "check" /\ req'[r].pc = "route" =>
           LET k == req'[r].key IN req[k].user = req[r].user /\ age[k] < KEYTTL]_vars
  <2> SUFFICES ASSUME TypeInv, StoredInv, [Next]_vars,
                      NEW r \in Requests, req[r].pc = "check", req'[r].pc = "route"
               PROVE  req[req'[r].key].user = req[r].user /\ age[req'[r].key] < KEYTTL
    BY Zenon
  <2>1. PICK k \in Requests : req'[r].key = k /\ apikey[req[r].user] = k
    <3>a. req \in [Requests -> Request]
      BY Zenon DEF TypeInv, TypeOK
    <3>b. ASSUME NEW x \in Requests, NEW pc, Goto(x, pc), pc # "route" PROVE FALSE
      BY <3>a, <3>b, Zenon DEF Goto, Request
    <3>c. ASSUME NEW x \in Requests, NEW st, End(x, st) PROVE FALSE
      BY <3>a, <3>c, Zenon DEF End, Request
    <3>1. ASSUME NEW x \in Requests, NEW b \in BOOLEAN,
                 CaptchaCount(x, b) \/ CaptchaVerify(x, b) \/ GetToken(x, b)
          PROVE  FALSE
      BY <3>1, <3>b, <3>c DEF CaptchaCount, CaptchaVerify, GetToken
    <3>2. ASSUME NEW x \in Requests,
                 \/ CaptchaIncr(x) \/ CaptchaExpire(x) \/ RouteDone(x) \/ KeySet(x)
                 \/ KeyTold(x) \/ Throws(x) \/ LateCommand(x)
          PROVE  FALSE
      BY <3>2, <3>b, <3>c DEF CaptchaIncr, CaptchaExpire, RouteDone, KeySet, KeyTold, Throws, LateCommand
    <3>3. ASSUME NEW x \in Requests, CaptchaPassed(x) PROVE FALSE
      <4>1. ASSUME NEW u \in Users, NEW pc \in {"set", "check"},
                   req' = [req EXCEPT ![x].pc = pc, ![x].user = u]
            PROVE  FALSE
        BY <3>a, <4>1, Zenon DEF Request
      <4> QED
        BY <3>3, <3>c, <4>1 DEF CaptchaPassed
    <3>4. ASSUME NEW x \in Requests, NEW route \in Routes, NEW ip \in Ips, Arrive(x, route, ip)
          PROVE  FALSE
      BY <3>4, <3>a, Zenon DEF Arrive, Request
    <3>5. CASE Tick \/ UNCHANGED vars
      BY <3>5, Zenon DEF Tick, vars
    <3>6. CASE LauncherEnds
      <4>1. req'[r] = [req[r] EXCEPT !.pc = AfterEnd(req[r].pc)] /\ req[r] \in Request
        BY <3>6, <3>a, Zenon DEF LauncherEnds
      <4>2. AfterEnd(req[r].pc) # "route"
        BY <4>1, AfterEndPlaces, Zenon DEF Request, Awaiting
      <4> QED
        BY <4>1, <4>2, Zenon DEF Request
    <3>7. ASSUME NEW x \in Requests, NEW k \in Requests, validateApiKey(x, k)
          PROVE  req'[r].key = k /\ apikey[req[r].user] = k
      <4>1. Serve(x, k) /\ apikey[req[x].user] = k
        BY <3>7, <3>c, Zenon DEF validateApiKey
      <4>2. x = r /\ req'[r].key = k
        BY <3>a, <4>1 DEF Serve, Request
      <4> QED
        BY <4>1, <4>2, Zenon
    <3>8. CASE \E x \in Requests : Continue(x)
      BY <3>1, <3>2, <3>3, <3>7, <3>8, Zenon DEF Continue
    <3> QED
      BY <3>4, <3>5, <3>6, <3>8, Zenon DEF Next
  <2>2. req[r].user \in Users
    BY Zenon DEF TypeInv, AllFormed, Formed
  <2>3. req[k].user = req[r].user /\ keyTtl[req[r].user] \in 1..KEYTTL /\ age[k] + keyTtl[req[r].user] = KEYTTL
    BY <2>1, <2>2, Zenon DEF StoredInv
  <2>4. age[k] \in 0..KEYTTL
    BY Zenon DEF TypeInv, TypeOK
  <2> QED
    BY <2>1, <2>3, <2>4, LifetimesAssumption
<1> QED
  BY <1>1, Types, Stored, PTL DEF Spec, ServedWithFreshKey

\* The key of u is a younger one than k: of a request that is gone, or of one that
\* waits for its reply behind place i.
Younger(u, k, i) ==
  \E r \in Requests :
    /\ r # k /\ apikey[u] = r /\ age[r] <= age[k]
    /\ req[r].pc = "gone" \/ \E j \in DOMAIN replies : j > i /\ replies[j] = r

Current(u, k, i) == age[k] < KEYTTL => apikey[u] = k \/ Younger(u, k, i)

\* The replies come in the order of the SETs, so that a key that is about to be
\* told, like one that was told, is stored or followed by a younger one.
ToldInv ==
  /\ \A u \in Users : \A k \in Requests : told[u] = k =>
       req[k].user = u /\ req[k].pc = "ended" /\ Current(u, k, 0)
  /\ \A i \in DOMAIN replies : Current(req[replies[i]].user, replies[i], i)

\* A SET by request x: for its own user x is younger than any other request, and
\* for other users nothing changes.
LEMMA SetCurrent ==
  ASSUME TypeInv, StoredInv, NEW x \in Requests, KeySet(x) \/ LateSet(x),
         NEW u \in Users, NEW k \in Requests, k # x, NEW i \in Nat, i <= Len(replies), Current(u, k, i)
  PROVE  Current(u, k, i)'
<1>a. /\ apikey \in [Users -> Requests \cup {None}] /\ age \in [Requests -> 0..KEYTTL]
      /\ replies \in Seq(Requests)
  BY Zenon DEF TypeInv, TypeOK
<1>b. /\ req[x].user \in Users /\ SET(req[x].user, x) /\ req[x].pc \notin Settled
      /\ \A r \in Requests : r # x => req'[r] = req[r]
      /\ (replies' = Append(replies, x)) \/ (replies' = replies /\ req'[x].pc = "gone")
  BY SetRequests, Zenon
<1>c. age'[x] = 0 /\ \A r \in Requests : r # x => age'[r] = age[r]
  BY <1>a, <1>b, Zenon DEF SET
<1>d. \A j \in DOMAIN replies : j \in DOMAIN replies' /\ replies'[j] = replies[j]
  <2>1. replies \in Seq(Requests) /\ (replies' = Append(replies, x) \/ replies' = replies)
    BY <1>a, <1>b, Zenon
  <2> QED
    BY ONLY x \in Requests, <2>1
<1> SUFFICES ASSUME age[k] < KEYTTL PROVE apikey'[u] = k \/ Younger(u, k, i)'
  BY <1>c, Zenon DEF Current
<1>1. CASE u = req[x].user
  <2>1. apikey'[u] = x
    BY <1>a, <1>b, <1>1, Zenon DEF SET
  <2>2. age'[x] <= age'[k]
    BY <1>a, <1>c
  <2>3. req'[x].pc = "gone" \/ \E j \in DOMAIN replies' : j > i /\ replies'[j] = x
    <3>1. CASE replies' = Append(replies, x)
      <4>1. Len(replies) + 1 \in DOMAIN replies' /\ replies'[Len(replies) + 1] = x /\ Len(replies) + 1 > i
        BY <1>a, <3>1
      <4> QED
        BY <4>1, Zenon
    <3> QED
      BY <1>b, <3>1, Zenon
  <2> QED
    BY <2>1, <2>2, <2>3, Zenon DEF Younger
<1>2. CASE u # req[x].user
  <2>1. apikey'[u] = apikey[u]
    BY <1>b, <1>2, <1>a, Zenon DEF SET
  <2>2. CASE apikey[u] = k
    BY <2>1, <2>2, Zenon
  <2>3. CASE Younger(u, k, i)
    <3>1. PICK r \in Requests : /\ r # k /\ apikey[u] = r /\ age[r] <= age[k]
                                /\ req[r].pc = "gone" \/ \E j \in DOMAIN replies : j > i /\ replies[j] = r
      BY <2>3, Zenon DEF Younger
    <3>2. r # x
      BY <1>b, <3>1, Zenon DEF StoredInv
    <3>3. req'[r] = req[r] /\ age'[r] <= age'[k]
      BY <1>b, <1>c, <3>1, <3>2, Zenon
    <3>4. req'[r].pc = "gone" \/ \E j \in DOMAIN replies' : j > i /\ replies'[j] = r
      BY <1>d, <3>1, <3>3, Zenon
    <3> QED
      BY <2>1, <3>1, <3>3, <3>4, Zenon DEF Younger
  <2> QED
    BY <2>2, <2>3, Zenon DEF Current
<1> QED
  BY <1>1, <1>2, Zenon

\* The clock: the younger key does not expire before the older one.
LEMMA TickCurrent ==
  ASSUME TypeInv, StoredInv, Tick, NEW u \in Users, NEW k \in Requests, NEW i \in Nat, Current(u, k, i)
  PROVE  Current(u, k, i)'
<1> USE LifetimesAssumption, NoneAssumption
<1>a. \A r \in Requests : age[r] \in 0..KEYTTL
  BY Zenon DEF TypeInv, TypeOK
<1>b. /\ \A r \in Requests : age'[r] = IF age[r] < KEYTTL THEN age[r] + 1 ELSE KEYTTL
      /\ \A r \in Requests : apikey[u] = r => (apikey'[u] = None /\ age[r] = KEYTTL - 1) \/ apikey'[u] = r
  BY TickKeys, Zenon
<1>c. UNCHANGED <<req, replies>>
  BY Zenon DEF Tick
<1> SUFFICES ASSUME age'[k] < KEYTTL PROVE apikey'[u] = k \/ Younger(u, k, i)'
  BY Zenon DEF Current
<1>1. age[k] < KEYTTL - 1
  BY <1>a, <1>b
<1>2. CASE apikey[u] = k
  BY <1>a, <1>b, <1>1, <1>2
<1>3. CASE Younger(u, k, i)
  <2>1. PICK r \in Requests : /\ r # k /\ apikey[u] = r /\ age[r] <= age[k]
                              /\ req[r].pc = "gone" \/ \E j \in DOMAIN replies : j > i /\ replies[j] = r
    BY <1>3, Zenon DEF Younger
  <2>2. age[r] # KEYTTL - 1
    BY <1>a, <1>1, <2>1
  <2>3. apikey'[u] = r
    BY <1>b, <2>1, <2>2, Zenon
  <2>4. age'[r] <= age'[k]
    BY <1>a, <1>b, <2>1
  <2> QED
    BY <1>c, <2>1, <2>3, <2>4, Zenon DEF Younger
<1> QED
  BY <1>a, <1>1, <1>2, <1>3 DEF Current

\* Telling the key of x, the first of the replies: the others move up by one.
LEMMA ToldCurrent ==
  ASSUME TypeInv, StoredInv, NEW x \in Requests, KeyTold(x),
         NEW u \in Users, NEW k \in Requests, NEW i \in Nat, Current(u, k, i),
         i > 0 \/ u # req[x].user
  PROVE  Current(u, k, IF i > 0 THEN i - 1 ELSE 0)'
<1>a. replies \in Seq(Requests) /\ replies # <<>> /\ x = Head(replies) /\ replies' = Tail(replies)
  BY Zenon DEF TypeInv, TypeOK, KeyTold
<1>b. /\ req[x].pc = "reply" /\ UNCHANGED <<apikey, age>> /\ \A r \in Requests : r # x => req'[r] = req[r]
  BY ToldRequests, Zenon
<1>c. PICK n \in Nat : n = IF i > 0 THEN i - 1 ELSE 0
  OBVIOUS
<1> SUFFICES ASSUME age[k] < KEYTTL, apikey[u] # k PROVE Younger(u, k, n)'
  BY <1>b, <1>c, Zenon DEF Current
<1>1. PICK r \in Requests : /\ r # k /\ apikey[u] = r /\ age[r] <= age[k]
                            /\ req[r].pc = "gone" \/ \E j \in DOMAIN replies : j > i /\ replies[j] = r
  BY Zenon DEF Current, Younger
<1>2. req[r].pc = "gone" => req'[r].pc = "gone"
  BY <1>b, Zenon
<1>3. ASSUME NEW j \in DOMAIN replies, j > i, replies[j] = r
      PROVE  \E m \in DOMAIN replies' : m > n /\ replies'[m] = r
  <2>1. j \in Nat \ {0} /\ j \in 1 .. Len(replies) /\ Len(replies) \in Nat
    BY <1>a
  <2>2. j # 1
    <3>1. CASE i > 0
      BY <1>3, <2>1, <3>1
    <3>2. CASE u # req[x].user
      <4>1. req[r].user = u
        BY <1>1, Zenon DEF StoredInv
      <4>2. replies[1] = x
        BY <1>a
      <4> QED
        BY <1>3, <3>2, <4>1, <4>2, Zenon
    <3> QED
      BY <3>1, <3>2, Zenon
  <2>3. j - 1 \in 1 .. Len(replies) - 1 /\ j - 1 > n
    BY <1>c, <1>3, <2>1, <2>2
  <2>4. DOMAIN replies' = 1 .. Len(replies) - 1 /\ \A m \in 1 .. Len(replies) - 1 : replies'[m] = replies[m + 1]
    BY <1>a
  <2>5. replies'[j - 1] = r
    <3>1. (j - 1) + 1 = j
      BY <2>1
    <3> QED
      BY <1>3, <2>3, <2>4, <3>1, Zenon
  <2> QED
    BY <2>3, <2>4, <2>5, Zenon
<1> QED
  BY <1>b, <1>1, <1>2, <1>3, Zenon DEF Younger

\* The end of the process: those who wait for a reply are gone.
LEMMA EndCurrent ==
  ASSUME TypeInv, LauncherEnds, NEW u \in Users, NEW k \in Requests, NEW i \in Nat, Current(u, k, i)
  PROVE  Current(u, k, i)'
<1>a. UNCHANGED <<apikey, age>>
  BY Zenon DEF LauncherEnds
<1> SUFFICES ASSUME age[k] < KEYTTL, apikey[u] # k PROVE Younger(u, k, i)'
  BY <1>a, Zenon DEF Current
<1>1. PICK r \in Requests : /\ r # k /\ apikey[u] = r /\ age[r] <= age[k]
                            /\ req[r].pc = "gone" \/ \E j \in DOMAIN replies : j > i /\ replies[j] = r
  BY Zenon DEF Current, Younger
<1>2. req[r].pc \in {"reply", "gone"}
  BY <1>1, Zenon DEF TypeInv, TypeOK
<1>3. req'[r].pc = "gone"
  BY <1>2, EndRequests, Zenon
<1> QED
  BY <1>a, <1>1, <1>3, Zenon DEF Younger

\* Every step keeps ToldInv.
LEMMA ToldStep == TypeInv /\ StoredInv /\ ToldInv /\ [Next]_vars => ToldInv'
<1> USE NoneAssumption
<1> SUFFICES ASSUME TypeInv, StoredInv, ToldInv, [Next]_vars PROVE ToldInv'
  BY Zenon
<1> DEFINE Told(u, k)  == told[u] = k => req[k].user = u /\ req[k].pc = "ended" /\ Current(u, k, 0)
           Waits(i)    == Current(req[replies[i]].user, replies[i], i)
<1>a. /\ replies \in Seq(Requests) /\ told \in [Users -> Requests \cup {None}]
      /\ \A i \in DOMAIN replies : /\ i \in Nat \ {0} /\ i <= Len(replies)
                                   /\ replies[i] \in Requests /\ req[replies[i]].pc = "reply"
  BY DEF TypeInv, TypeOK
<1>b. \A i \in DOMAIN replies : req[replies[i]].user \in Users
  BY <1>a, Zenon DEF TypeInv, AllFormed, Formed
<1>c. /\ \A u \in Users : \A k \in Requests : Told(u, k)
      /\ \A i \in DOMAIN replies : Waits(i)
  BY Zenon DEF ToldInv
<1> SUFFICES /\ \A u \in Users : \A k \in Requests : Told(u, k)'
             /\ \A i \in DOMAIN replies' : Waits(i)'
  BY Zenon DEF ToldInv
<1>1. ASSUME NEW x \in Requests, KeySet(x) \/ LateSet(x)
      PROVE  /\ \A u \in Users : \A k \in Requests : Told(u, k)'
             /\ \A i \in DOMAIN replies' : Waits(i)'
  <2>a. /\ req[x].user \in Users /\ SET(req[x].user, x) /\ told' = told /\ req[x].pc \notin Settled
        /\ req'[x].user = req[x].user /\ \A r \in Requests : r # x => req'[r] = req[r]
        /\ replies' = Append(replies, x) \/ replies' = replies
    BY <1>1, SetRequests, Zenon
  <2>1. ASSUME NEW u \in Users, NEW k \in Requests, told[u] = k
        PROVE  req'[k].user = u /\ req'[k].pc = "ended" /\ Current(u, k, 0)'
    <3>1. req[k].user = u /\ req[k].pc = "ended" /\ Current(u, k, 0) /\ k # x
      BY <1>c, <2>a, <2>1 DEF Settled
    <3>2. 0 \in Nat /\ 0 <= Len(replies)
      BY <1>a
    <3>3. Current(u, k, 0)'
      BY <1>1, <3>1, <3>2, SetCurrent, Zenon
    <3> QED
      BY <2>a, <3>1, <3>3, Zenon
  <2>2. ASSUME NEW i \in DOMAIN replies
        PROVE  Current(req[replies[i]].user, replies[i], i)' /\ replies'[i] = replies[i]
    <3>1. replies[i] # x /\ replies'[i] = replies[i]
      BY <1>a, <2>a DEF Settled
    <3>2. req'[replies[i]] = req[replies[i]]
      BY <1>a, <2>a, <3>1, Zenon
    <3>3. PICK k \in Requests, u \in Users : k = replies[i] /\ u = req[k].user
      BY <1>a, <1>b, Zenon
    <3>4. Current(u, k, i)'
      BY <1>1, <1>a, <1>c, <3>1, <3>3, SetCurrent, Zenon
    <3> QED
      BY <3>1, <3>2, <3>3, <3>4, Zenon
  <2>3. ASSUME NEW i \in DOMAIN replies', i \notin DOMAIN replies
        PROVE  Waits(i)'
    <3>1. replies'[i] = x
      BY <1>a, <2>a, <2>3
    <3>2. apikey'[req[x].user] = x
      BY <2>a, Zenon DEF SET, TypeInv, TypeOK
    <3> QED
      BY <2>a, <3>1, <3>2, Zenon DEF Current
  <2> QED
    BY <2>a, <2>1, <2>2, <2>3, Zenon
<1>2. ASSUME NEW x \in Requests, KeyTold(x)
      PROVE  /\ \A u \in Users : \A k \in Requests : Told(u, k)'
             /\ \A i \in DOMAIN replies' : Waits(i)'
  <2>a. /\ replies # <<>> /\ x = Head(replies) /\ replies' = Tail(replies)
        /\ told' = [told EXCEPT ![req[x].user] = x]
    BY <1>2, Zenon DEF KeyTold
  <2>b. /\ req[x].pc = "reply" /\ req[x].user \in Users /\ req'[x].user = req[x].user
        /\ req'[x].pc = "ended" /\ \A r \in Requests : r # x => req'[r] = req[r]
    BY <1>2, ToldRequests, Zenon
  <2>c. /\ Len(replies) \in Nat \ {0} /\ DOMAIN replies = 1 .. Len(replies) /\ replies[1] = x
        /\ DOMAIN replies' = 1 .. Len(replies) - 1
        /\ \A i \in 1 .. Len(replies) - 1 : replies'[i] = replies[i + 1]
    BY <1>a, <2>a
  <2>1. ASSUME NEW u \in Users, NEW k \in Requests, told'[u] = k, u = req[x].user
        PROVE  req'[k].user = u /\ req'[k].pc = "ended" /\ Current(u, k, 0)'
    <3>1. k = x
      BY <1>a, <2>a, <2>b, <2>1, Zenon
    <3>2. 1 \in DOMAIN replies /\ 1 \in Nat
      BY <2>c
    <3>3. Current(u, x, 1)
      BY <1>c, <2>c, <2>1, <3>2, Zenon
    <3>4. Current(u, x, IF 1 > 0 THEN 1 - 1 ELSE 0)'
      BY <1>2, <3>2, <3>3, ToldCurrent
    <3>5. (IF 1 > 0 THEN 1 - 1 ELSE 0) = 0
      OBVIOUS
    <3> QED
      BY <2>b, <2>1, <3>1, <3>4, <3>5, Zenon
  <2>2. ASSUME NEW u \in Users, NEW k \in Requests, told'[u] = k, u # req[x].user
        PROVE  req'[k].user = u /\ req'[k].pc = "ended" /\ Current(u, k, 0)'
    <3>1. told[u] = k
      BY <1>a, <2>a, <2>2, Zenon
    <3>2. req[k].user = u /\ req[k].pc = "ended" /\ Current(u, k, 0) /\ 0 \in Nat
      BY <1>c, <3>1, Zenon
    <3>3. Current(u, k, IF 0 > 0 THEN 0 - 1 ELSE 0)'
      BY <1>2, <2>2, <3>2, ToldCurrent, Zenon
    <3>4. (IF 0 > 0 THEN 0 - 1 ELSE 0) = 0
      OBVIOUS
    <3> QED
      BY <2>b, <3>2, <3>3, <3>4, Zenon
  <2>3. ASSUME NEW i \in DOMAIN replies' PROVE Waits(i)'
    <3>1. i \in Nat /\ i + 1 \in Nat /\ i + 1 \in DOMAIN replies /\ i + 1 > 0 /\ i + 1 # 1 /\ 1 \in DOMAIN replies
      BY <2>c
    <3>2. PICK k \in Requests, u \in Users : k = replies[i + 1] /\ u = req[k].user
      BY <1>a, <1>b, <3>1, Zenon
    <3>3. k # x
      BY <2>c, <3>1, <3>2, Zenon DEF TypeInv, Distinct
    <3>4. Current(u, k, IF i + 1 > 0 THEN (i + 1) - 1 ELSE 0)'
      <4>1. Current(u, k, i + 1)
        BY <1>c, <3>1, <3>2, Zenon
      <4> QED
        BY <1>2, <3>1, <4>1, ToldCurrent, Zenon
    <3>5. (IF i + 1 > 0 THEN (i + 1) - 1 ELSE 0) = i
      BY <3>1
    <3>6. replies'[i] = k /\ req'[k] = req[k]
      BY <2>b, <2>c, <3>2, <3>3, Zenon
    <3> QED
      BY <3>2, <3>4, <3>5, <3>6, Zenon
  <2> QED
    BY <2>1, <2>2, <2>3, Zenon
<1>3. CASE Tick
  <2>1. UNCHANGED <<req, replies, told>> /\ 0 \in Nat
    BY <1>3, Zenon DEF Tick
  <2>2. ASSUME NEW i \in DOMAIN replies PROVE Waits(i)'
    <3>1. PICK k \in Requests, u \in Users : k = replies[i] /\ u = req[k].user
      BY <1>a, <1>b, Zenon
    <3>2. Current(u, k, i)'
      BY <1>3, <1>a, <1>c, <3>1, TickCurrent, Zenon
    <3> QED
      BY <2>1, <3>1, <3>2, Zenon
  <2> QED
    BY <1>3, <1>c, <2>1, <2>2, TickCurrent, Zenon
<1>4. CASE LauncherEnds
  <2>1. told' = told /\ replies' = <<>> /\ 0 \in Nat
    BY <1>4, Zenon DEF LauncherEnds
  <2>2. ASSUME NEW u \in Users, NEW k \in Requests, told[u] = k
        PROVE  req'[k].user = u /\ req'[k].pc = "ended" /\ Current(u, k, 0)'
    BY <1>4, <1>c, <2>1, <2>2, EndRequests, EndCurrent, Zenon
  <2> QED
    BY <2>1, <2>2
<1>5. CASE UNCHANGED keys /\ \A r \in Requests : req[r].pc \in Settled => req'[r] = req[r]
  <2>1. UNCHANGED <<apikey, keyTtl, replies, told, age>>
    BY <1>5, Zenon DEF keys
  <2>2. ASSUME NEW u \in Users, NEW k \in Requests, NEW i \in Nat, Current(u, k, i)
        PROVE  Current(u, k, i)'
    <3>1. ASSUME NEW r \in Requests, apikey[u] = r PROVE req'[r] = req[r]
      BY <1>5, <3>1, Zenon DEF StoredInv
    <3> QED
      BY <2>1, <2>2, <3>1, Zenon DEF Current, Younger
  <2>3. ASSUME NEW u \in Users, NEW k \in Requests, told[u] = k
        PROVE  req'[k].user = u /\ req'[k].pc = "ended" /\ Current(u, k, 0)'
    <3>1. req[k].user = u /\ req[k].pc = "ended" /\ Current(u, k, 0)
      BY <1>c, <2>3, Zenon
    <3>2. req'[k] = req[k]
      BY <1>5, <3>1, Zenon DEF Settled
    <3> QED
      BY <2>2, <3>1, <3>2, Zenon
  <2>4. ASSUME NEW i \in DOMAIN replies PROVE Waits(i)'
    <3>1. PICK k \in Requests, u \in Users : k = replies[i] /\ u = req[k].user
      BY <1>a, <1>b, Zenon
    <3>2. Current(u, k, i)'
      BY <1>a, <1>c, <2>2, <3>1, Zenon
    <3>3. req'[k] = req[k]
      BY <1>5, <1>a, <3>1, Zenon DEF Settled
    <3> QED
      BY <2>1, <3>1, <3>2, <3>3, Zenon
  <2> QED
    BY <2>1, <2>3, <2>4, Zenon
<1> QED
  BY <1>1, <1>2, <1>3, <1>4, <1>5, KeySteps, Zenon

\* The key a user was told last works for its two hours, unless a later request of
\* the same user has stored another and has not come to tell it (server.js:166-218).
THEOREM ToldWorks == Spec => []ToldKeyWorks
<1>1. Init => ToldInv
  BY NoneAssumption DEF Init, ToldInv
<1>2. TypeInv /\ StoredInv /\ ToldInv => ToldKeyWorks
  <2> SUFFICES ASSUME TypeInv, StoredInv, ToldInv, NEW u \in Users,
                      told[u] # None, age[told[u]] < KEYTTL, apikey[u] # told[u]
               PROVE  \E r \in Requests : /\ r # told[u] /\ apikey[u] = r /\ req[r].user = u
                                          /\ req[r].pc \in {"reply", "gone"}
    BY Zenon DEF ToldKeyWorks
  <2>1. told[u] \in Requests
    BY Zenon DEF TypeInv, TypeOK
  <2>2. Younger(u, told[u], 0)
    BY <2>1, Zenon DEF ToldInv, Current
  <2>3. PICK r \in Requests :
          /\ r # told[u] /\ apikey[u] = r
          /\ req[r].pc = "gone" \/ \E j \in DOMAIN replies : j > 0 /\ replies[j] = r
    BY <2>2, Zenon DEF Younger
  <2>4. req[r].pc \in {"reply", "gone"}
    BY <2>3, Zenon DEF TypeInv, TypeOK
  <2>5. req[r].user = u
    BY <2>3, Zenon DEF StoredInv
  <2> QED
    BY <2>3, <2>4, <2>5, Zenon
<1> QED
  BY <1>1, <1>2, ToldStep, Types, Stored, PTL DEF Spec

-----------------------------------------------------------------------------
(* RequestsEnd, without its fairness *)

\* How many steps a request at place pc still makes, at most.
Steps(pc) ==
  CASE pc = "free"                                  -> 7
    [] pc = "count"                                 -> 6
    [] pc = "verify"                                -> 5
    [] pc \in {"incr", "del"}                       -> 4
    [] pc \in {"expire", "set", "check", "hgetall"} -> 3
    [] pc \in {"reply", "route"}                    -> 2
    [] pc \in Late                                  -> 1
    [] OTHER                                        -> 0

\* Every step of a request leaves it fewer.
StepsLeft == [][\A r \in Requests : req'[r] # req[r] => Steps(req'[r].pc) < Steps(req[r].pc)]_vars

\* The numbers, one by one.
LEMMA StepsAt ==
  /\ Steps("free") = 7 /\ Steps("count") = 6 /\ Steps("verify") = 5 /\ Steps("incr") = 4 /\ Steps("del") = 4
  /\ Steps("expire") = 3 /\ Steps("set") = 3 /\ Steps("check") = 3 /\ Steps("hgetall") = 3
  /\ Steps("reply") = 2 /\ Steps("route") = 2
  /\ Steps("lateIncr") = 1 /\ Steps("lateExpire") = 1 /\ Steps("lateDel") = 1 /\ Steps("lateSet") = 1
  /\ Steps("ended") = 0 /\ Steps("gone") = 0
  BY DEF Steps, Late

\* What a step does to request x: nothing, or it goes on, and a wait for the answer
\* to a SET begins with that SET.
Falls(x) ==
  \/ req'[x] = req[x]
  \/ Steps(req'[x].pc) < Steps(req[x].pc) /\ (req'[x].pc = "reply" => KeySet(x))

\* Every step does one or the other.
LEMMA RequestFalls ==
  ASSUME TypeInv, [Next]_vars, NEW x \in Requests
  PROVE  Falls(x)
<1>a. req \in [Requests -> Request]
  BY Zenon DEF TypeInv, TypeOK
<1>b. ASSUME NEW r \in Requests, NEW pc, Steps(pc) < Steps(req[r].pc), pc = "reply" => KeySet(r),
             req'[r].pc = pc, \A y \in Requests : y # r => req'[y] = req[y]
      PROVE  Falls(x)
  BY <1>b, Zenon DEF Falls
<1>c. ASSUME NEW r \in Requests, NEW pc, Steps(pc) < Steps(req[r].pc), pc = "reply" => KeySet(r), Goto(r, pc)
      PROVE  Falls(x)
  <2>1. req'[r].pc = pc /\ \A y \in Requests : y # r => req'[y] = req[y]
    BY <1>a, <1>c, Zenon DEF Goto, Request
  <2> QED
    BY <1>b, <1>c, <2>1, Zenon
<1>d. ASSUME NEW r \in Requests, NEW n, 0 < Steps(req[r].pc), End(r, n)
      PROVE  Falls(x)
  <2>1. req'[r].pc = "ended" /\ \A y \in Requests : y # r => req'[y] = req[y]
    BY <1>a, <1>d, Zenon DEF End, Request
  <2>2. Steps("ended") < Steps(req[r].pc)
    BY <1>d, StepsAt
  <2> QED
    BY <1>b, <2>1, <2>2, Zenon
<1>e. \A pc \in Awaiting \cup Late : 0 < Steps(pc)
  BY StepsAt DEF Awaiting, Late
<1>1. ASSUME NEW r \in Requests, NEW b \in BOOLEAN, CaptchaCount(r, b) PROVE Falls(x)
  BY <1>1, <1>c, <1>d, StepsAt DEF CaptchaCount
<1>2. ASSUME NEW r \in Requests, NEW b \in BOOLEAN, CaptchaVerify(r, b) PROVE Falls(x)
  BY <1>2, <1>c, StepsAt DEF CaptchaVerify
<1>3. ASSUME NEW r \in Requests, NEW b \in BOOLEAN, GetToken(r, b) PROVE Falls(x)
  BY <1>3, <1>d, StepsAt DEF GetToken
<1>4. ASSUME NEW r \in Requests, CaptchaIncr(r) PROVE Falls(x)
  BY <1>4, <1>c, StepsAt DEF CaptchaIncr
<1>5. ASSUME NEW r \in Requests, CaptchaExpire(r) \/ RouteDone(r) PROVE Falls(x)
  BY <1>5, <1>d, StepsAt DEF CaptchaExpire, RouteDone
<1>6. ASSUME NEW r \in Requests, CaptchaPassed(r) PROVE Falls(x)
  <2>1. req[r].pc = "del" /\ 0 < Steps("del") /\ Steps("set") < Steps("del") /\ Steps("check") < Steps("del")
    BY <1>6, StepsAt DEF CaptchaPassed
  <2>2. ASSUME NEW n \in {400, 403}, End(r, n) PROVE Falls(x)
    BY <1>d, <2>1, <2>2, Zenon
  <2>3. ASSUME NEW u \in Users, NEW pc \in {"set", "check"}, req' = [req EXCEPT ![r].pc = pc, ![r].user = u]
        PROVE  Falls(x)
    <3>1. req'[r].pc = pc /\ \A y \in Requests : y # r => req'[y] = req[y]
      BY <1>a, <2>3, Zenon DEF Request
    <3>2. Steps(pc) < Steps(req[r].pc) /\ pc # "reply"
      BY <2>1, <2>3, Zenon
    <3> QED
      BY <1>b, <3>1, <3>2, Zenon
  <2> QED
    BY <1>6, <2>2, <2>3, ZenonT(60) DEF CaptchaPassed
<1>7. ASSUME NEW r \in Requests, KeySet(r) PROVE Falls(x)
  <2>1. Goto(r, "reply") /\ Steps("reply") < Steps(req[r].pc)
    BY <1>7, StepsAt DEF KeySet
  <2> QED
    BY <1>7, <1>c, <2>1, Zenon
<1>8. ASSUME NEW r \in Requests, KeyTold(r) PROVE Falls(x)
  <2>1. replies \in Seq(Requests) /\ replies # <<>> /\ \A i \in DOMAIN replies : req[replies[i]].pc = "reply"
    BY <1>8, Zenon DEF TypeInv, TypeOK, KeyTold
  <2>2. 1 \in DOMAIN replies /\ r = replies[1]
    BY <1>8, <2>1 DEF KeyTold
  <2>3. 0 < Steps(req[r].pc)
    BY <2>1, <2>2, StepsAt
  <2> QED
    BY <1>8, <1>d, <2>3, Zenon DEF KeyTold
<1>9. ASSUME NEW r \in Requests, NEW k \in Requests, validateApiKey(r, k) PROVE Falls(x)
  <2>1. 0 < Steps(req[r].pc) /\ Steps("route") < Steps(req[r].pc)
    BY <1>9, StepsAt DEF validateApiKey
  <2>2. CASE Serve(r, k)
    <3>1. req'[r].pc = "route" /\ \A y \in Requests : y # r => req'[y] = req[y]
      BY <1>a, <2>2, Zenon DEF Serve, Request
    <3> QED
      BY <1>b, <2>1, <3>1, Zenon
  <2> QED
    BY <1>9, <1>d, <2>1, <2>2, Zenon DEF validateApiKey
<1>10. ASSUME NEW r \in Requests, Throws(r) PROVE Falls(x)
  BY <1>10, <1>d, <1>e, ZenonT(60) DEF Throws
<1>11. ASSUME NEW r \in Requests, LateCommand(r) PROVE Falls(x)
  <2>1. Goto(r, "gone") /\ 0 < Steps(req[r].pc)
    BY <1>11, <1>e, Zenon DEF LateCommand
  <2>2. Steps("gone") < Steps(req[r].pc)
    BY <2>1, StepsAt
  <2> QED
    BY <1>c, <2>1, <2>2, Zenon
<1>12. ASSUME NEW r \in Requests, NEW route \in Routes, NEW ip \in Ips, Arrive(r, route, ip) PROVE Falls(x)
  <2>1. PICK pc \in {"hgetall", "count"} :
          req' = [req EXCEPT ![r].route = route, ![r].ip = ip, ![r].pc = pc]
    BY <1>12, Zenon DEF Arrive
  <2>2. req'[r].pc = pc /\ \A y \in Requests : y # r => req'[y] = req[y]
    BY <1>a, <2>1, Zenon DEF Request
  <2>3. Steps(pc) < Steps(req[r].pc) /\ pc # "reply"
    BY <1>12, StepsAt DEF Arrive
  <2> QED
    BY <1>b, <2>2, <2>3, Zenon
<1>13. CASE LauncherEnds
  <2>1. /\ req[x] \in Request /\ req[x].pc \in Places /\ req'[x] = [req[x] EXCEPT !.pc = AfterEnd(req[x].pc)]
        /\ req'[x].pc = AfterEnd(req[x].pc)
    BY <1>13, <1>a, Zenon DEF LauncherEnds, Request
  <2>2. req'[x].pc # "reply"
    <3>1. AfterEnd(req[x].pc) \notin Awaiting
      BY <2>1, AfterEndPlaces, Zenon
    <3> QED
      BY <2>1, <3>1, Zenon DEF Awaiting
  <2>3. CASE req[x].pc \in Awaiting
    <3>1. \/ AfterEnd(req[x].pc) = "gone"
          \/ AfterEnd(req[x].pc) \in Late /\ req[x].pc \in {"incr", "expire", "del", "set"}
      BY <2>3, Zenon DEF AfterEnd, Late
    <3>2. Steps(AfterEnd(req[x].pc)) < Steps(req[x].pc)
      <4>1. CASE AfterEnd(req[x].pc) = "gone"
        BY <1>e, <2>3, <4>1, StepsAt
      <4>2. CASE AfterEnd(req[x].pc) \in Late /\ req[x].pc \in {"incr", "expire", "del", "set"}
        BY <4>2, StepsAt DEF Late
      <4> QED
        BY <3>1, <4>1, <4>2, Zenon
    <3> QED
      BY <2>1, <2>2, <3>2, Zenon DEF Falls
  <2>4. CASE req[x].pc \notin Awaiting
    <3>1. AfterEnd(req[x].pc) = req[x].pc
      BY <2>4, Zenon DEF AfterEnd, Awaiting
    <3>2. req'[x] = req[x]
      BY <2>1, <3>1 DEF Request
    <3> QED
      BY <3>2, Zenon DEF Falls
  <2> QED
    BY <2>3, <2>4, Zenon
<1>14. CASE Tick \/ UNCHANGED vars
  BY <1>14, Zenon DEF Tick, vars, Falls
<1>15. CASE \E r \in Requests : Continue(r)
  BY <1>1, <1>2, <1>3, <1>4, <1>5, <1>6, <1>7, <1>8, <1>9, <1>10, <1>11, <1>15, Zenon DEF Continue
<1> QED
  BY <1>12, <1>13, <1>14, <1>15, Zenon DEF Next

\* A request makes at most seven steps, however its captcha, its key and its route
\* turn out and whatever other requests do (server.js:138-223): none of its errors
\* leads back to an earlier await.
THEOREM RequestsAreBounded == Spec => StepsLeft
<1>1. TypeInv /\ [Next]_vars =>
        [\A r \in Requests : req'[r] # req[r] => Steps(req'[r].pc) < Steps(req[r].pc)]_vars
  BY RequestFalls, Zenon DEF Falls
<1> QED
  BY <1>1, Types, PTL DEF Spec, StepsLeft

\* No request waits for a reply that is not to come.
RepliesDue == \A r \in Requests : req[r].pc = "reply" => \E i \in DOMAIN replies : replies[i] = r

\* A request that waits for the answer to its SET is in the queue of those that
\* will be told, whatever others join and leave it (server.js:165-169, 213-218): with
\* the process the queue is lost, and so are the requests in it.
THEOREM RepliesCome == Spec => []RepliesDue
<1>1. Init => RepliesDue
  BY DEF Init, RepliesDue
<1>2. TypeInv /\ RepliesDue /\ [Next]_vars => RepliesDue'
  <2> SUFFICES ASSUME TypeInv, RepliesDue, [Next]_vars, NEW x \in Requests, req'[x].pc = "reply"
               PROVE  \E i \in DOMAIN replies' : replies'[i] = x
    BY Zenon DEF RepliesDue
  <2>1. RepliesOK /\ req \in [Requests -> Request]
    BY Zenon DEF TypeInv, TypeOK, RepliesOK
  <2>2. ASSUME NEW r \in Requests, KeySet(r) PROVE \E i \in DOMAIN replies' : replies'[i] = x
    <3>1. /\ replies \in Seq(Requests) /\ DOMAIN replies' = 1 .. Len(replies) + 1
          /\ replies'[Len(replies) + 1] = r /\ DOMAIN replies = 1 .. Len(replies) /\ Len(replies) \in Nat
          /\ \A i \in 1 .. Len(replies) : replies'[i] = replies[i]
      BY <2>1, <2>2 DEF RepliesOK, KeySet
    <3>2. CASE x = r
      BY <3>1, <3>2
    <3>3. CASE x # r
      <4>1. req[x].pc = "reply"
        BY <2>1, <2>2, <3>3, Zenon DEF KeySet, Goto
      <4>2. PICK i \in 1 .. Len(replies) : replies[i] = x
        BY <3>1, <4>1, Zenon DEF RepliesDue
      <4> QED
        BY <3>1, <4>2
    <3> QED
      BY <3>2, <3>3, Zenon
  <2>3. ASSUME NEW r \in Requests, KeyTold(r) PROVE \E i \in DOMAIN replies' : replies'[i] = x
    <3>1. /\ replies \in Seq(Requests) /\ Len(replies) \in Nat \ {0} /\ DOMAIN replies' = 1 .. Len(replies) - 1
          /\ replies[1] = r /\ DOMAIN replies = 1 .. Len(replies)
          /\ \A i \in 1 .. Len(replies) - 1 : replies'[i] = replies[i + 1]
      BY <2>1, <2>3 DEF RepliesOK, KeyTold
    <3>2. x # r /\ req[x].pc = "reply"
      <4>1. req'[r].pc = "ended"
        BY <2>1, <2>3, Zenon DEF KeyTold, End, Request
      <4>2. x # r
        BY <4>1, Zenon
      <4>3. req'[x] = req[x]
        BY <2>1, <2>3, <4>2, Zenon DEF KeyTold, End
      <4> QED
        BY <4>2, <4>3, Zenon
    <3>3. PICK i \in 1 .. Len(replies) : replies[i] = x
      BY <3>1, <3>2, Zenon DEF RepliesDue
    <3>4. i - 1 \in 1 .. Len(replies) - 1 /\ (i - 1) + 1 = i
      BY <3>1, <3>2, <3>3
    <3>5. replies'[i - 1] = x
      BY <3>1, <3>3, <3>4
    <3> QED
      BY <3>1, <3>4, <3>5, Zenon
  <2>4. CASE LauncherEnds
    <3>1. req[x].pc \in Places /\ req'[x].pc = AfterEnd(req[x].pc)
      BY <2>1, <2>4, Zenon DEF LauncherEnds, Request
    <3>2. AfterEnd(req[x].pc) \notin Awaiting
      BY <3>1, AfterEndPlaces, Zenon
    <3> QED
      BY <3>1, <3>2, Zenon DEF Awaiting
  <2>5. ASSUME UNCHANGED replies, req[x].pc = "reply" PROVE \E i \in DOMAIN replies' : replies'[i] = x
    BY <2>5, Zenon DEF RepliesDue
  <2>6. req[x].pc = "reply" \/ KeySet(x)
    BY RequestFalls, <2>4, Zenon DEF Falls
  <2> QED
    BY <2>2, <2>3, <2>4, <2>5, <2>6, KeySteps, Zenon DEF Tick, LateSet, keys
<1> QED
  BY <1>1, <1>2, Types, PTL DEF Spec
=============================================================================
