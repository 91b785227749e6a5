----------------------------- MODULE LauncherApi -----------------------------
(***************************************************************************)
(* The HTTP interface of the launcher (launcher/server.js): the captcha    *)
(* with its counter of failures, the API keys and their check, and what    *)
(* each request ends with.  Behind the check a protected route runs, as in *)
(* module LaunchFlow; here it succeeds or throws.                          *)
(*                                                                         *)
(* Each await is a Redis command, the captcha service or the route itself, *)
(* and a point where other requests run.  The values a request carries     *)
(* (captcha token, user id, API key) are chosen where the code uses them.  *)
(* The key that a request makes is named by that request.                  *)
(***************************************************************************)
EXTENDS Naturals, Sequences

CONSTANTS
  Requests,
  Ips,
  Users,
  FAILTTL,   \* lifetime of captcha:fail:<ip>, in ticks
  KEYTTL,    \* lifetime of apikey:<user>, in ticks
  Never,     \* a key without an expiry
  None       \* no user, no key

ASSUME LifetimesAssumption == FAILTTL \in Nat \ {0} /\ KEYTTL \in Nat \ {0}
ASSUME NoneAssumption      == Never \notin Nat /\ None \notin Requests \cup Users \cup Ips

VARIABLES
  req,       \* [Requests -> Request]
  fails,     \* ip -> captcha:fail:<ip>; 0: no such key
  failTtl,   \* ip -> ticks until it expires, or Never
  apikey,    \* user -> apikey:<user>
  keyTtl,    \* user -> ticks until it expires, or Never
  replies,   \* requests whose SET is done and whose answer is not, in order
  reported,  \* request -> incidents reported to the firewall
  told,      \* user -> the key told last
  age,       \* key -> ticks since its SET, at most KEYTTL
  cut        \* ips with a counter whose EXPIRE did not come

counters == <<fails, failTtl, cut>>
keys     == <<apikey, keyTtl, replies, told, age>>
vars     == <<req, counters, keys, reported>>

Routes   == {"get-api-key", "token", "protected"}
Awaiting == {"count", "verify", "incr", "expire", "del", "set", "reply", "check", "route", "hgetall"}
Late     == {"lateIncr", "lateExpire", "lateDel", "lateSet"}
Places   == {"free", "ended", "gone"} \cup Awaiting \cup Late
Statuses == {0, 200, 400, 403, 404, 429, 500}
Request  == [route: Routes \cup {"none"}, ip: Ips \cup {None}, user: Users \cup {None}, key: Requests \cup {None},
             pc: Places, status: Statuses]

Goto(r, pc) == req' = [req EXCEPT ![r].pc = pc]

End(r, status) == req' = [req EXCEPT ![r].pc = "ended", ![r].status = status]

Report(r, n) == reported' = [reported EXCEPT ![r] = @ + n]

Arrive(r, route, ip) ==
  /\ req[r].pc = "free"
  /\ req' = [req EXCEPT ![r].route = route, ![r].ip = ip,
                        ![r].pc = IF route = "token" THEN "hgetall" ELSE "count"]
  /\ UNCHANGED <<counters, keys, reported>>

-----------------------------------------------------------------------------
(* What Redis does *)

INCR(ip) == fails' = [fails EXCEPT ![ip] = @ + 1] /\ UNCHANGED <<failTtl, cut>>

EXPIRE(ip) ==
  /\ failTtl' = IF fails[ip] = 0 THEN failTtl ELSE [failTtl EXCEPT ![ip] = FAILTTL]
  /\ cut' = IF fails[ip] = 0 THEN cut ELSE cut \ {ip}
  /\ UNCHANGED fails

DEL(ip) ==
  /\ fails' = [fails EXCEPT ![ip] = 0]
  /\ failTtl' = [failTtl EXCEPT ![ip] = Never]
  /\ cut' = cut \ {ip}

\* Faulty: one key for all users.
SETForAll(u, r) ==
  /\ apikey' = [v \in Users |-> r]
  /\ keyTtl' = [v \in Users |-> KEYTTL]
  /\ age' = [age EXCEPT ![r] = 0]

\* Faulty: no EX.
SETForEver(u, r) ==
  /\ apikey' = [apikey EXCEPT ![u] = r]
  /\ keyTtl' = [keyTtl EXCEPT ![u] = Never]
  /\ age' = [age EXCEPT ![r] = 0]

\* SET apikey:<u> with EX 7200.
SET(u, r) ==
  /\ apikey' = [apikey EXCEPT ![u] = r]
  /\ keyTtl' = [keyTtl EXCEPT ![u] = KEYTTL]
  /\ age' = [age EXCEPT ![r] = 0]

\* The clock; the keys whose time is up are gone.
Tick ==
  LET Left(t) == IF t = Never \/ t = 1 THEN Never ELSE t - 1 IN
  /\ \/ \E ip \in Ips : failTtl[ip] # Never
     \/ \E r \in Requests : age[r] < KEYTTL
  /\ fails' = [ip \in Ips |-> IF failTtl[ip] = 1 THEN 0 ELSE fails[ip]]
  /\ failTtl' = [ip \in Ips |-> Left(failTtl[ip])]
  /\ apikey' = [u \in Users |-> IF keyTtl[u] = 1 THEN None ELSE apikey[u]]
  /\ keyTtl' = [u \in Users |-> Left(keyTtl[u])]
  /\ age' = [r \in Requests |-> IF age[r] < KEYTTL THEN age[r] + 1 ELSE KEYTTL]
  /\ UNCHANGED <<req, cut, replies, told, reported>>

-----------------------------------------------------------------------------
(* captchaMiddleware *)

\* The count is only used in the wording of a refusal.
CaptchaCount(r, hasToken) ==
  /\ req[r].pc = "count"
  /\ IF hasToken THEN Goto(r, "verify") ELSE End(r, 429)
  /\ UNCHANGED <<counters, keys, reported>>

CaptchaVerify(r, ok) ==
  /\ req[r].pc = "verify"
  /\ Goto(r, IF ok THEN "del" ELSE "incr")
  /\ UNCHANGED <<counters, keys, reported>>

\* Faulty: the answer does not wait for an expiry, and none is set.
CaptchaIncrOnly(r) ==
  /\ req[r].pc = "incr"
  /\ INCR(req[r].ip)
  /\ End(r, 429)
  /\ UNCHANGED <<keys, reported>>

CaptchaIncr(r) ==
  /\ req[r].pc = "incr"
  /\ INCR(req[r].ip)
  /\ Goto(r, "expire")
  /\ UNCHANGED <<keys, reported>>

CaptchaExpire(r) ==
  /\ req[r].pc = "expire"
  /\ EXPIRE(req[r].ip)
  /\ End(r, 429)
  /\ UNCHANGED <<keys, reported>>

\* The counter is reset; next() runs up to the handler's first await.
CaptchaPassed(r) ==
  /\ req[r].pc = "del"
  /\ DEL(req[r].ip)
  /\ UNCHANGED keys
  /\ \/ /\ req[r].route = "get-api-key"
        /\ End(r, 400) \/ \E u \in Users : req' = [req EXCEPT ![r].pc = "set", ![r].user = u]
        /\ UNCHANGED reported
     \/ /\ req[r].route = "protected"
        /\ \/ End(r, 403) /\ Report(r, 1)
           \/ /\ \E u \in Users : req' = [req EXCEPT ![r].pc = "check", ![r].user = u]
              /\ UNCHANGED reported

-----------------------------------------------------------------------------
(* API keys, and the routes *)

KeySet(r) ==
  /\ req[r].pc = "set"
  /\ SET(req[r].user, r)
  /\ Goto(r, "reply")
  /\ replies' = Append(replies, r)
  /\ UNCHANGED <<counters, told, reported>>

\* The client gives the replies of Redis to those who wait for them in order.
KeyTold(r) ==
  /\ replies # <<>> /\ r = Head(replies)
  /\ replies' = Tail(replies)
  /\ told' = [told EXCEPT ![req[r].user] = r]
  /\ End(r, 200)
  /\ UNCHANGED <<counters, apikey, keyTtl, age, reported>>

Serve(r, k) == req' = [req EXCEPT ![r].pc = "route", ![r].key = k]

\* Faulty: a wrong key is refused and not reported.
ValidateApiKeyQuiet(r, k) ==
  /\ req[r].pc = "check"
  /\ IF apikey[req[r].user] = k THEN Serve(r, k) ELSE End(r, 403)
  /\ UNCHANGED <<counters, keys, reported>>

\* The answer to GET apikey:<user> is compared with the key k of the header.
validateApiKey(r, k) ==
  /\ req[r].pc = "check"
  /\ IF apikey[req[r].user] = k THEN Serve(r, k) /\ UNCHANGED reported
     ELSE End(r, 403) /\ Report(r, 1)
  /\ UNCHANGED <<counters, keys>>

RouteDone(r) ==
  /\ req[r].pc = "route"
  /\ End(r, 200)
  /\ UNCHANGED <<counters, keys, reported>>

GetToken(r, found) ==
  /\ req[r].pc = "hgetall"
  /\ End(r, IF found THEN 200 ELSE 404)
  /\ UNCHANGED <<counters, keys, reported>>

-----------------------------------------------------------------------------
(* Errors and the end of the process *)

\* No EXPIRE comes for the counter any more.
Abandon(ip) == cut' = IF fails'[ip] > 0 /\ failTtl[ip] = Never THEN cut \cup {ip} ELSE cut

\* Faulty: on an error the captcha is begun again.
ThrowsRetried(r) ==
  /\ req[r].pc \in Awaiting \ {"reply"}
  /\ IF req[r].pc = "verify" THEN Goto(r, "count") /\ UNCHANGED reported
     ELSE End(r, 500) /\ Report(r, 1)
  /\ UNCHANGED <<fails, failTtl, keys>>
  /\ IF req[r].pc = "expire" THEN Abandon(req[r].ip) ELSE UNCHANGED cut

\* An await rejects: the catch of the middleware or of the route, or the global
\* error handler, reports it and answers 500.  getUserKP() and generateImage()
\* have reported it once before they throw.
Throws(r) ==
  /\ req[r].pc \in Awaiting \ {"reply"}
  /\ End(r, 500)
  /\ Report(r, 1) \/ (req[r].pc = "route" /\ Report(r, 2))
  /\ UNCHANGED <<fails, failTtl, keys>>
  /\ IF req[r].pc = "expire" THEN Abandon(req[r].ip) ELSE UNCHANGED cut

\* The process ends.  A command on the wire is executed later, or lost.
AfterEnd(pc) ==
  CASE pc = "incr" -> "lateIncr" [] pc = "expire" -> "lateExpire" [] pc = "del" -> "lateDel" [] pc = "set" -> "lateSet"
    [] pc \in Awaiting \ {"incr", "expire", "del", "set"} -> "gone" [] OTHER -> pc

LauncherEnds ==
  /\ req' = [r \in Requests |-> [req[r] EXCEPT !.pc = AfterEnd(@)]]
  /\ replies' = <<>>
  /\ UNCHANGED <<counters, apikey, keyTtl, told, age, reported>>

LateCommand(r) ==
  LET ip == req[r].ip IN
  /\ req[r].pc \in Late
  /\ Goto(r, "gone")
  /\ \/ req[r].pc = "lateIncr" /\ fails' = [fails EXCEPT ![ip] = @ + 1] /\ Abandon(ip) /\ UNCHANGED <<failTtl, keys>>
     \/ req[r].pc = "lateExpire" /\ EXPIRE(ip) /\ UNCHANGED keys
     \/ req[r].pc = "lateDel" /\ DEL(ip) /\ UNCHANGED keys
     \/ req[r].pc = "lateSet" /\ SET(req[r].user, r) /\ UNCHANGED <<counters, replies, told>>
     \/ UNCHANGED <<fails, failTtl, keys>> /\ Abandon(ip)
  /\ UNCHANGED reported

-----------------------------------------------------------------------------
Init ==
  /\ req = [r \in Requests |-> [route |-> "none", ip |-> None, user |-> None, key |-> None, pc |-> "free", status |-> 0]]
  /\ fails = [ip \in Ips |-> 0] /\ failTtl = [ip \in Ips |-> Never] /\ cut = {}
  /\ apikey = [u \in Users |-> None] /\ keyTtl = [u \in Users |-> Never]
  /\ replies = <<>>
  /\ told = [u \in Users |-> None]
  /\ age = [r \in Requests |-> KEYTTL]
  /\ reported = [r \in Requests |-> 0]

Continue(r) ==
  \/ \E hasToken \in BOOLEAN : CaptchaCount(r, hasToken)
  \/ \E ok \in BOOLEAN : CaptchaVerify(r, ok)
  \/ CaptchaIncr(r) \/ CaptchaExpire(r) \/ CaptchaPassed(r)
  \/ KeySet(r) \/ KeyTold(r) \/ RouteDone(r)
  \/ \E k \in Requests : validateApiKey(r, k)
  \/ \E found \in BOOLEAN : GetToken(r, found)
  \/ Throws(r) \/ LateCommand(r)

Next ==
  \/ Tick \/ LauncherEnds
  \/ \E r \in Requests : Continue(r) \/ \E route \in Routes, ip \in Ips : Arrive(r, route, ip)

Spec == Init /\ [][Next]_vars

\* Every await of a request ends, by an answer or an error.
FairSpec == Spec /\ \A r \in Requests : WF_vars(Continue(r))

-----------------------------------------------------------------------------
(* Properties *)

\* Type invariant; Redis keeps an expiry only for a key that is there, and the
\* replies that are waited for are those of requests that wait.
TypeOK ==
  /\ req \in [Requests -> Request]
  /\ fails \in [Ips -> Nat] /\ failTtl \in [Ips -> 1..FAILTTL \cup {Never}] /\ cut \subseteq Ips
  /\ apikey \in [Users -> Requests \cup {None}] /\ keyTtl \in [Users -> 1..KEYTTL \cup {Never}]
  /\ replies \in Seq(Requests) /\ told \in [Users -> Requests \cup {None}]
  /\ age \in [Requests -> 0..KEYTTL] /\ reported \in [Requests -> Nat]
  /\ \A ip \in Ips : failTtl[ip] # Never => fails[ip] > 0
  /\ \A i \in DOMAIN replies : req[replies[i]].pc = "reply"

\* A client is not counted against for ever (server.js:151-152, two commands): a
\* counter has an expiry, or a request is about to set it, or one that counted
\* was stopped between INCR and EXPIRE.
CounterExpires ==
  \A ip \in Ips : fails[ip] > 0 /\ failTtl[ip] = Never =>
    ip \in cut \/ \E r \in Requests : req[r].ip = ip /\ req[r].pc \in {"expire", "lateExpire"}

\* The key a user was told last works for its two hours (`expiresIn`), whatever
\* other users and restarts do, unless a later request of the same user has
\* stored another one and has not come to tell it.
ToldKeyWorks ==
  \A u \in Users : LET k == told[u] IN
    k # None /\ age[k] < KEYTTL /\ apikey[u] # k =>
      \E r \in Requests : r # k /\ apikey[u] = r /\ req[r].user = u /\ req[r].pc \in {"reply", "gone"}

\* A protected route runs only for a user whose own key was presented, within
\* two hours of its SET (validateApiKey, generateApiKey).
ServedWithFreshKey ==
  [][\A r \in Requests : req[r].pc = "check" /\ req'[r].pc = "route" =>
       LET k == req'[r].key IN req[k].user = req[r].user /\ age[k] < KEYTTL]_vars

\* The firewall hears of every refused key and every error, and of nothing else,
\* whichever handler catches it: one incident, or two where a helper of the route
\* has reported it already.
ReportedRight ==
  \A r \in Requests :
    /\ reported[r] > 0 <=> req[r].status \in {403, 500}
    /\ reported[r] <= IF req[r].route = "protected" /\ req[r].status = 500 THEN 2 ELSE 1

\* Every request ends, with a status or with the process, and for good: in the end
\* none is under way.
RequestsEnd == <>[](\A r \in Requests : req[r].pc \in {"free", "ended", "gone"})
=============================================================================
