------------------------------ MODULE Firewall ------------------------------
(***************************************************************************)
(* The bubble firewall (firewall.js) of every process that imports it, and *)
(* the gauge of metrics.js that shows its hit points (HP).                 *)
(*                                                                         *)
(* record() lowers HP, publishes the new value on the Redis channel        *)
(* nexus.events and, when Redis has answered, looks at HP again and ends   *)
(* the process if it is zero.  The connection keeps commands during an     *)
(* outage (redisClient.js, maxRetriesPerRequest: null), so the answer may  *)
(* take longer than the healing interval.                                  *)
(***************************************************************************)
EXTENDS Integers, Sequences

CONSTANTS
  Procs,        \* processes that import firewall.js
  MAX_HP, HEAL_RATE,
  WEIGHTS,      \* HP lost, by type of incident
  AUTO_EXIT,
  PROMPT,       \* TRUE: Redis answers within the healing interval
  MaxIncidents, \* bound on the calls of record()
  None          \* no process

ASSUME HpAssumption   == MAX_HP \in Nat \ {0} /\ HEAL_RATE \in Nat \ {0}
ASSUME WeightsNatural == WEIGHTS \in [DOMAIN WEIGHTS -> Nat \ {0}]
ASSUME FlagAssumption == AUTO_EXIT \in BOOLEAN /\ PROMPT \in BOOLEAN
ASSUME NoProcess      == None \notin Procs

VARIABLES
  up,           \* processes that run
  hp,           \* HP of each process
  quiet,        \* processes whose last incident is a healing interval ago
  publishing,   \* PUBLISH commands without an answer, oldest first
  subscribed,   \* metrics.js listens on the channel
  inbox,        \* HP in the messages it has still to handle
  gauge,        \* the gauge firewall_hp
  heard,        \* process of the latest message sent to this subscriber
  incidents     \* calls of record() so far

metrics == <<subscribed, inbox, gauge, heard>>
vars    == <<up, hp, quiet, publishing, metrics, incidents>>

Event == [hp: 0..MAX_HP, by: {"record", "heal"}]

-----------------------------------------------------------------------------
Lower(n, decay) == IF n > decay THEN n - decay ELSE 0

Raise(n) == IF n + HEAL_RATE < MAX_HP THEN n + HEAL_RATE ELSE MAX_HP

Publish(p, n, by) == publishing' = [publishing EXCEPT ![p] = Append(@, [hp |-> n, by |-> by])]

\* Faulty: the event carries the value before the incident.
RecordOldValue(p, type) ==
  /\ p \in up /\ incidents < MaxIncidents
  /\ hp' = [hp EXCEPT ![p] = Lower(@, WEIGHTS[type])]
  /\ quiet' = quiet \ {p}
  /\ Publish(p, hp[p], "record")
  /\ incidents' = incidents + 1
  /\ UNCHANGED <<up, metrics>>

\* Faulty: the incident does not restart the healing interval.
RecordStaysQuiet(p, type) ==
  /\ p \in up /\ incidents < MaxIncidents
  /\ hp' = [hp EXCEPT ![p] = Lower(@, WEIGHTS[type])]
  /\ Publish(p, hp'[p], "record")
  /\ incidents' = incidents + 1
  /\ UNCHANGED <<up, quiet, metrics>>

Record(p, type) ==
  /\ p \in up /\ incidents < MaxIncidents
  /\ hp' = [hp EXCEPT ![p] = Lower(@, WEIGHTS[type])]
  /\ quiet' = quiet \ {p}
  /\ Publish(p, hp'[p], "record")
  /\ incidents' = incidents + 1
  /\ UNCHANGED <<up, metrics>>

\* FW_HEAL_INTERVAL seconds pass without an incident.
QuietPasses(p) ==
  /\ p \in up \ quiet
  /\ PROMPT => publishing[p] = <<>>
  /\ quiet' = quiet \cup {p}
  /\ UNCHANGED <<up, hp, publishing, metrics, incidents>>

Heal(p) ==
  /\ p \in up \cap quiet /\ hp[p] < MAX_HP
  /\ hp' = [hp EXCEPT ![p] = Raise(@)]
  /\ Publish(p, hp'[p], "heal")
  /\ UNCHANGED <<up, quiet, metrics, incidents>>

-----------------------------------------------------------------------------
\* Faulty: HP is not looked at again.
PopsNever(p) == FALSE

\* record() looks at HP again once its PUBLISH is answered.
Pops(p) == p \in up /\ Head(publishing[p]).by = "record" /\ hp[p] = 0 /\ AUTO_EXIT

\* Redis executes the oldest command of a process, even one that has ended.
RedisPublish(p) ==
  /\ publishing[p] # <<>>
  /\ publishing' = [publishing EXCEPT ![p] = Tail(@)]
  /\ IF subscribed
     THEN inbox' = Append(inbox, Head(publishing[p]).hp) /\ heard' = p
     ELSE UNCHANGED <<inbox, heard>>
  /\ up' = IF Pops(p) THEN up \ {p} ELSE up
  /\ UNCHANGED <<hp, quiet, subscribed, gauge, incidents>>

Crash(p) ==
  /\ p \in up
  /\ up' = up \ {p}
  /\ UNCHANGED <<hp, quiet, publishing, metrics, incidents>>

\* A new process starts with full HP and publishes nothing.
Restart(p) ==
  /\ p \in Procs \ up
  /\ up' = up \cup {p}
  /\ hp' = [hp EXCEPT ![p] = MAX_HP]
  /\ quiet' = quiet \ {p}
  /\ publishing' = [publishing EXCEPT ![p] = <<>>]
  /\ heard' = IF heard = p THEN None ELSE heard
  /\ UNCHANGED <<subscribed, inbox, gauge, incidents>>

-----------------------------------------------------------------------------
(* metrics.js *)

Subscribe ==
  /\ ~subscribed
  /\ subscribed' = TRUE
  /\ UNCHANGED <<up, hp, quiet, publishing, inbox, gauge, heard, incidents>>

OnMessage ==
  /\ inbox # <<>>
  /\ gauge' = Head(inbox)
  /\ inbox' = Tail(inbox)
  /\ UNCHANGED <<up, hp, quiet, publishing, subscribed, heard, incidents>>

MetricsEnds ==
  /\ subscribed
  /\ subscribed' = FALSE /\ inbox' = <<>> /\ gauge' = 0 /\ heard' = None
  /\ UNCHANGED <<up, hp, quiet, publishing, incidents>>

-----------------------------------------------------------------------------
Init ==
  /\ up = Procs
  /\ hp = [p \in Procs |-> MAX_HP]
  /\ quiet = {}
  /\ publishing = [p \in Procs |-> <<>>]
  /\ subscribed = FALSE /\ inbox = <<>> /\ gauge = 0 /\ heard = None
  /\ incidents = 0

Next ==
  \/ Subscribe \/ OnMessage \/ MetricsEnds
  \/ \E p \in Procs :
       \/ \E type \in DOMAIN WEIGHTS : Record(p, type)
       \/ QuietPasses(p) \/ Heal(p) \/ RedisPublish(p) \/ Crash(p) \/ Restart(p)

Spec == Init /\ [][Next]_vars

\* Redis answers in the end.
FairSpec == Spec /\ \A p \in Procs : WF_vars(RedisPublish(p))

-----------------------------------------------------------------------------
(* Properties *)

\* Type invariant; HP stays between zero and MAX_HP.
TypeOK ==
  /\ up \subseteq Procs /\ quiet \subseteq Procs
  /\ hp \in [Procs -> 0..MAX_HP]
  /\ publishing \in [Procs -> Seq(Event)]
  /\ subscribed \in BOOLEAN
  /\ inbox \in Seq(0..MAX_HP) /\ gauge \in 0..MAX_HP
  /\ heard \in Procs \cup {None}
  /\ incidents \in Nat

\* No process stays at zero HP with nothing left that would end it: as long as
\* it runs with none, a record() still awaits its answer (firewall.js:32-37).
NoIdleAtZero ==
  AUTO_EXIT => \A p \in up : hp[p] = 0 =>
    \E i \in DOMAIN publishing[p] : publishing[p][i].by = "record"

\* The gauge is exact for the process heard last: once its events and the
\* messages have been handled, the gauge shows its HP.  (record() and the timer
\* build the event in the step that changes HP; one connection keeps the order.)
GaugeIsExact ==
  heard # None /\ inbox = <<>> =>
    (publishing[heard] = <<>> => gauge = hp[heard])

\* Zero HP is final when Redis answers within the healing interval: no timer
\* lifts the HP of a process that is about to end (firewall.js:33, 42).
ZeroIsFinal ==
  [][AUTO_EXIT /\ PROMPT => \A p \in up \cap up' : hp[p] = 0 => hp'[p] = 0]_vars

\* README.md:599, "process exits at 0 HP (FW_AUTO_EXIT=true)".  It holds when
\* Redis answers within the healing interval; otherwise the timer may lift HP
\* from zero before record() looks at it again.
PoppedExits ==
  \A p \in Procs : AUTO_EXIT /\ p \in up /\ hp[p] = 0 ~> p \notin up

-----------------------------------------------------------------------------
\* For the proof of GaugeIsExact: the last event waiting carries the HP of its
\* process, and so does the last message when no event of the process heard
\* last is waiting.  Only a subscriber has heard anything.
LastIsCurrent ==
  /\ heard # None => subscribed
  /\ \A p \in Procs : publishing[p] # <<>> => publishing[p][Len(publishing[p])].hp = hp[p]
  /\ heard # None /\ publishing[heard] = <<>> =>
       IF inbox = <<>> THEN gauge = hp[heard] ELSE inbox[Len(inbox)] = hp[heard]
=============================================================================
