--------------------------- MODULE FirewallProofs ---------------------------
(***************************************************************************)
(* Proofs about the firewall, for any processes, weights and number of     *)
(* incidents, and whether or not Redis answers in time.                    *)
(***************************************************************************)
EXTENDS Firewall, TLAPS

\* What Tail and Append do to a sequence, as the proofs below need it.
LEMMA TailFacts ==
  ASSUME NEW S, NEW q \in Seq(S), q # <<>>
  PROVE  /\ Tail(q) \in Seq(S) /\ Head(q) \in S
         /\ Len(Tail(q)) = Len(q) - 1
         /\ \A i \in 1..Len(q) - 1 : Tail(q)[i] = q[i + 1]
         /\ Tail(q) # <<>> => Tail(q)[Len(Tail(q))] = q[Len(q)]
         /\ Tail(q) = <<>> => Head(q) = q[Len(q)]
<1>1. Tail(q) \in Seq(S) /\ Head(q) \in S /\ Len(Tail(q)) = Len(q) - 1 /\ Len(q) \in Nat \ {0}
  OBVIOUS
<1>2. \A i \in 1..Len(q) - 1 : Tail(q)[i] = q[i + 1]
  OBVIOUS
<1>3. Tail(q) # <<>> => Tail(q)[Len(Tail(q))] = q[Len(q)]
  <2>1. Tail(q) # <<>> => Len(Tail(q)) \in 1..Len(q) - 1
    BY <1>1
  <2> QED
    BY <1>1, <1>2, <2>1
<1>4. Tail(q) = <<>> => Head(q) = q[Len(q)]
  <2>1. Tail(q) = <<>> => Len(q) = 1
    BY <1>1
  <2> QED
    BY <2>1
<1> QED
  BY <1>1, <1>2, <1>3, <1>4

\* The same for Append.
LEMMA AppendFacts ==
  ASSUME NEW S, NEW q \in Seq(S), NEW e \in S
  PROVE  /\ Append(q, e) \in Seq(S) /\ Append(q, e) # <<>>
         /\ Len(Append(q, e)) = Len(q) + 1
         /\ Append(q, e)[Len(Append(q, e))] = e
         /\ \A i \in 1..Len(q) : Append(q, e)[i] = q[i]
  OBVIOUS

\* Losing and gaining HP stays within 0..MAX_HP (firewall.js:28, 43).
LEMMA HpRange ==
  ASSUME NEW n \in 0..MAX_HP
  PROVE  /\ \A type \in DOMAIN WEIGHTS : Lower(n, WEIGHTS[type]) \in 0..MAX_HP
         /\ Raise(n) \in 0..MAX_HP
<1>1. \A type \in DOMAIN WEIGHTS : WEIGHTS[type] \in Nat
  BY WeightsNatural
<1>2. \A type \in DOMAIN WEIGHTS : Lower(n, WEIGHTS[type]) \in 0..MAX_HP
  BY <1>1, HpAssumption DEF Lower
<1>3. Raise(n) \in 0..MAX_HP
  BY HpAssumption DEF Raise
<1> QED
  BY <1>2, <1>3

\* The type invariant holds in every state: HP never leaves 0..MAX_HP.
THEOREM TypeCorrect == Spec => []TypeOK
<1>1. Init => TypeOK
  <2> SUFFICES ASSUME Init PROVE TypeOK
    OBVIOUS
  <2>1. hp \in [Procs -> 0..MAX_HP] /\ gauge \in 0..MAX_HP
    BY HpAssumption DEF Init
  <2>2. publishing \in [Procs -> Seq(Event)] /\ inbox \in Seq(0..MAX_HP)
    BY DEF Init
  <2> QED
    BY <2>1, <2>2, Zenon DEF Init, TypeOK
<1>2. TypeOK /\ [Next]_vars => TypeOK'
  <2> SUFFICES ASSUME TypeOK, [Next]_vars PROVE TypeOK'
    OBVIOUS
  <2>1. ASSUME NEW p \in Procs, NEW n \in 0..MAX_HP, NEW by \in {"record", "heal"}, Publish(p, n, by)
        PROVE  publishing' \in [Procs -> Seq(Event)]
    <3>1. publishing[p] \in Seq(Event) /\ [hp |-> n, by |-> by] \in Event
      BY Zenon DEF TypeOK, Event
    <3>2. Append(publishing[p], [hp |-> n, by |-> by]) \in Seq(Event)
      BY <3>1, AppendFacts
    <3> QED
      BY <2>1, <3>2 DEF Publish, TypeOK
  <2>2. ASSUME NEW p \in Procs, NEW type \in DOMAIN WEIGHTS, Record(p, type)
        PROVE  TypeOK'
    <3>1. Lower(hp[p], WEIGHTS[type]) \in 0..MAX_HP
      BY HpRange DEF TypeOK
    <3>2. hp' \in [Procs -> 0..MAX_HP] /\ hp'[p] \in 0..MAX_HP
      BY <2>2, <3>1 DEF Record, TypeOK
    <3>3. publishing' \in [Procs -> Seq(Event)]
      BY <2>1, <2>2, <3>2 DEF Record
    <3> QED
      BY <2>2, <3>2, <3>3 DEF Record, TypeOK, metrics
  <2>3. ASSUME NEW p \in Procs, Heal(p)
        PROVE  TypeOK'
    <3>1. Raise(hp[p]) \in 0..MAX_HP
      BY HpRange DEF TypeOK
    <3>2. hp' \in [Procs -> 0..MAX_HP] /\ hp'[p] \in 0..MAX_HP
      BY <2>3, <3>1 DEF Heal, TypeOK
    <3>3. publishing' \in [Procs -> Seq(Event)]
      BY <2>1, <2>3, <3>2 DEF Heal
    <3> QED
      BY <2>3, <3>2, <3>3 DEF Heal, TypeOK, metrics
  <2>4. ASSUME NEW p \in Procs, QuietPasses(p) \/ Crash(p)
        PROVE  TypeOK'
    BY <2>4 DEF QuietPasses, Crash, TypeOK, metrics
  <2>5. ASSUME NEW p \in Procs, RedisPublish(p)
        PROVE  TypeOK'
    <3>1. publishing[p] \in Seq(Event) /\ publishing[p] # <<>>
      BY <2>5 DEF RedisPublish, TypeOK
    <3>2. Tail(publishing[p]) \in Seq(Event) /\ Head(publishing[p]) \in Event
      BY <3>1, TailFacts
    <3>3. publishing' \in [Procs -> Seq(Event)]
      BY <2>5, <3>2 DEF RedisPublish, TypeOK
    <3>4. Head(publishing[p]).hp \in 0..MAX_HP
      BY <3>2 DEF Event
    <3>5. inbox' \in Seq(0..MAX_HP) /\ heard' \in Procs \cup {None}
      <4>1. inbox \in Seq(0..MAX_HP) /\ heard \in Procs \cup {None}
        BY DEF TypeOK
      <4>2. Append(inbox, Head(publishing[p]).hp) \in Seq(0..MAX_HP)
        BY <3>4, <4>1, AppendFacts
      <4> QED
        BY <2>5, <4>1, <4>2, Zenon DEF RedisPublish
    <3> QED
      BY <2>5, <3>3, <3>5 DEF RedisPublish, TypeOK
  <2>6. ASSUME NEW p \in Procs, Restart(p)
        PROVE  TypeOK'
    BY <2>6, HpAssumption DEF Restart, TypeOK
  <2>7. CASE Subscribe
    BY <2>7 DEF Subscribe, TypeOK
  <2>10. CASE MetricsEnds
    <3>1. inbox' \in Seq(0..MAX_HP)
      BY <2>10 DEF MetricsEnds
    <3>2. gauge' \in 0..MAX_HP
      BY <2>10, HpAssumption DEF MetricsEnds
    <3> QED
      BY <2>10, <3>1, <3>2, Zenon DEF MetricsEnds, TypeOK
  <2>8. CASE OnMessage
    BY <2>8, TailFacts, Zenon DEF OnMessage, TypeOK
  <2>9. CASE UNCHANGED vars
    BY <2>9 DEF vars, metrics, TypeOK
  <2> QED
    BY <2>2, <2>3, <2>4, <2>5, <2>6, <2>7, <2>8, <2>9, <2>10 DEF Next
<1> QED
  BY <1>1, <1>2, PTL DEF Spec

\* No process stays at zero HP with nothing left that would end it: whenever HP
\* is zero, a record() has still to look at it (firewall.js:32-37).
THEOREM NeverIdle == Spec => []NoIdleAtZero
<1> DEFINE Waits(p) == \E i \in DOMAIN publishing[p] : publishing[p][i].by = "record"
<1>1. Init => NoIdleAtZero
  BY HpAssumption DEF Init, NoIdleAtZero
<1>2. TypeOK /\ NoIdleAtZero /\ [Next]_vars => NoIdleAtZero'
  <2> SUFFICES ASSUME TypeOK, NoIdleAtZero, [Next]_vars PROVE NoIdleAtZero'
    OBVIOUS
  <2>a. up' \subseteq Procs
    BY DEF TypeOK, Next, vars, Record, QuietPasses, Heal, RedisPublish, Crash, Restart, Subscribe, OnMessage, MetricsEnds
  <2> SUFFICES ASSUME AUTO_EXIT, NEW p \in Procs, p \in up', hp'[p] = 0
               PROVE  Waits(p)'
    BY <2>a DEF NoIdleAtZero
  <2>0. publishing[p] \in Seq(Event) /\ hp[p] \in 0..MAX_HP
    BY DEF TypeOK
  <2>1. ASSUME UNCHANGED <<hp, publishing>>, up' \subseteq up
        PROVE  Waits(p)'
    BY <2>1 DEF NoIdleAtZero
  <2>2. ASSUME NEW q \in Procs, NEW n \in 0..MAX_HP, NEW by \in {"record", "heal"}, Publish(q, n, by),
               q = p => by = "record" \/ Waits(p), q # p => Waits(p)
        PROVE  Waits(p)'
    <3>1. CASE q # p
      <4>1. publishing'[p] = publishing[p]
        BY <2>2, <3>1 DEF Publish, TypeOK
      <4> QED
        BY <2>2, <3>1, <4>1
    <3>2. CASE q = p
      <4> DEFINE e == [hp |-> n, by |-> by]
      <4>1. e \in Event
        BY DEF Event
      <4>2. publishing'[p] = Append(publishing[p], e)
        BY <2>2, <3>2 DEF Publish, TypeOK
      <4>3. /\ publishing'[p] \in Seq(Event) /\ Len(publishing'[p]) = Len(publishing[p]) + 1
            /\ publishing'[p][Len(publishing'[p])] = e
            /\ \A i \in 1..Len(publishing[p]) : publishing'[p][i] = publishing[p][i]
        BY <2>0, <4>1, <4>2, AppendFacts
      <4>4. CASE by = "record"
        <5>1. Len(publishing'[p]) \in DOMAIN publishing'[p]
          BY <2>0, <4>3
        <5> QED
          BY <4>3, <4>4, <5>1
      <4>5. CASE Waits(p)
        <5>1. \A i \in DOMAIN publishing[p] : i \in DOMAIN publishing'[p] /\ publishing'[p][i] = publishing[p][i]
          BY <2>0, <4>3
        <5> QED
          BY <4>5, <5>1
      <4> QED
        BY <2>2, <3>2, <4>4, <4>5
    <3> QED
      BY <3>1, <3>2
  <2>3. ASSUME NEW q \in Procs, NEW type \in DOMAIN WEIGHTS, Record(q, type)
        PROVE  Waits(p)'
    <3>1. hp'[q] \in 0..MAX_HP
      BY <2>3, HpRange DEF Record, TypeOK
    <3>2. q # p => Waits(p)
      BY <2>3 DEF Record, TypeOK, NoIdleAtZero
    <3> QED
      BY <2>2, <2>3, <3>1, <3>2 DEF Record
  <2>4. ASSUME NEW q \in Procs, Heal(q)
        PROVE  Waits(p)'
    <3>1. hp'[q] \in 0..MAX_HP
      BY <2>4, HpRange DEF Heal, TypeOK
    <3>2. q # p
      <4>1. q = p => Raise(hp[p]) = 0
        BY <2>4 DEF Heal, TypeOK
      <4>2. Raise(hp[p]) # 0
        BY <2>0, HpAssumption DEF Raise
      <4> QED
        BY <4>1, <4>2
    <3>3. Waits(p)
      BY <2>4, <3>2 DEF Heal, TypeOK, NoIdleAtZero
    <3> QED
      BY <2>2, <2>4, <3>1, <3>3 DEF Heal
  <2>5. ASSUME NEW q \in Procs, QuietPasses(q) \/ Crash(q)
        PROVE  Waits(p)'
    BY <2>1, <2>5 DEF QuietPasses, Crash
  <2>6. ASSUME NEW q \in Procs, RedisPublish(q)
        PROVE  Waits(p)'
    <3>1. hp' = hp /\ p \in up /\ (q = p => ~Pops(p)) /\ publishing[q] # <<>>
      BY <2>6 DEF RedisPublish
    <3>2. Waits(p)
      BY <3>1 DEF NoIdleAtZero
    <3>3. CASE q # p
      <4>1. publishing'[p] = publishing[p]
        BY <2>6, <3>3 DEF RedisPublish, TypeOK
      <4> QED
        BY <3>2, <4>1
    <3>4. CASE q = p
      <4>1. publishing'[p] = Tail(publishing[p])
        BY <2>6, <3>4 DEF RedisPublish, TypeOK
      <4>2. publishing[p][1].by # "record"
        <5>1. Head(publishing[p]).by # "record"
          BY <3>1, <3>4 DEF Pops
        <5> QED
          BY <2>0, <3>1, <3>4, <5>1
      <4>3. PICK i \in DOMAIN publishing[p] : publishing[p][i].by = "record"
        BY <3>2
      <4>4. i - 1 \in DOMAIN Tail(publishing[p]) /\ Tail(publishing[p])[i - 1] = publishing[p][i]
        <5>1. i \in 2..Len(publishing[p])
          BY <2>0, <4>2, <4>3
        <5>2. i - 1 \in 1..Len(publishing[p]) - 1 /\ (i - 1) + 1 = i
          BY <2>0, <5>1
        <5> QED
          BY <2>0, <3>1, <3>4, <5>2, TailFacts
      <4> QED
        BY <4>1, <4>3, <4>4
    <3> QED
      BY <3>3, <3>4
  <2>7. ASSUME NEW q \in Procs, Restart(q)
        PROVE  Waits(p)'
    <3>1. q # p
      BY <2>7, HpAssumption DEF Restart, TypeOK
    <3> QED
      BY <2>7, <3>1 DEF Restart, TypeOK, NoIdleAtZero
  <2>8. CASE Subscribe \/ OnMessage \/ MetricsEnds \/ UNCHANGED vars
    BY <2>1, <2>8 DEF Subscribe, OnMessage, MetricsEnds, vars
  <2> QED
    BY <2>3, <2>4, <2>5, <2>6, <2>7, <2>8 DEF Next
<1> QED
  BY <1>1, <1>2, TypeCorrect, PTL DEF Spec

\* When Redis answers within the healing interval, the timer never lifts HP from
\* zero: the incident restarted the interval, and it cannot pass while record()
\* awaits its answer, which NeverIdle says it does (firewall.js:29, 42).
THEOREM FinalZero == Spec => ZeroIsFinal
<1> DEFINE Hurt == AUTO_EXIT /\ PROMPT => \A p \in up : hp[p] = 0 => p \notin quiet
<1>1. Init => Hurt
  BY DEF Init
<1>2. TypeOK /\ NoIdleAtZero /\ Hurt /\ [Next]_vars => Hurt'
  <2> SUFFICES ASSUME TypeOK, NoIdleAtZero, Hurt, [Next]_vars, AUTO_EXIT, PROMPT,
                      NEW p, p \in up', hp'[p] = 0
               PROVE  p \notin quiet'
    OBVIOUS
  <2>1. ASSUME NEW q \in Procs, NEW type \in DOMAIN WEIGHTS, Record(q, type)
        PROVE  p \notin quiet'
    BY <2>1 DEF Record, TypeOK
  <2>2. ASSUME NEW q \in Procs, QuietPasses(q)
        PROVE  p \notin quiet'
    BY <2>2 DEF QuietPasses, NoIdleAtZero
  <2>3. ASSUME NEW q \in Procs, Heal(q)
        PROVE  p \notin quiet'
    <3>1. q \in up /\ q \in quiet /\ hp' = [hp EXCEPT ![q] = Raise(@)] /\ UNCHANGED <<up, quiet>>
      BY <2>3 DEF Heal
    <3>2. hp[q] \in 0..MAX_HP /\ Raise(hp[q]) # 0
      BY HpAssumption DEF TypeOK, Raise
    <3>3. p # q
      BY <3>1, <3>2 DEF TypeOK
    <3> QED
      BY <3>1, <3>3 DEF TypeOK
  <2>4. ASSUME NEW q \in Procs, RedisPublish(q) \/ Crash(q)
        PROVE  p \notin quiet'
    BY <2>4 DEF RedisPublish, Crash
  <2>5. ASSUME NEW q \in Procs, Restart(q)
        PROVE  p \notin quiet'
    BY <2>5 DEF Restart, TypeOK
  <2>6. CASE Subscribe \/ OnMessage \/ MetricsEnds \/ UNCHANGED vars
    BY <2>6 DEF Subscribe, OnMessage, MetricsEnds, vars
  <2> QED
    BY <2>1, <2>2, <2>3, <2>4, <2>5, <2>6 DEF Next
<1>3. TypeOK /\ Hurt /\ [Next]_vars =>
        [AUTO_EXIT /\ PROMPT => \A p \in up \cap up' : hp[p] = 0 => hp'[p] = 0]_vars
  <2> SUFFICES ASSUME TypeOK, Hurt, Next, AUTO_EXIT, PROMPT, NEW p, p \in up, p \in up', hp[p] = 0
               PROVE  hp'[p] = 0
    OBVIOUS
  <2>1. ASSUME NEW q \in Procs, NEW type \in DOMAIN WEIGHTS, Record(q, type)
        PROVE  hp'[p] = 0
    <3>1. WEIGHTS[type] \in Nat
      BY WeightsNatural
    <3>2. Lower(0, WEIGHTS[type]) = 0
      BY <3>1 DEF Lower
    <3> QED
      BY <2>1, <3>2 DEF Record, TypeOK
  <2>2. ASSUME NEW q \in Procs, Heal(q) \/ Restart(q)
        PROVE  hp'[p] = 0
    BY <2>2 DEF Heal, Restart, TypeOK
  <2>3. ASSUME NEW q \in Procs, QuietPasses(q) \/ RedisPublish(q) \/ Crash(q)
        PROVE  hp'[p] = 0
    BY <2>3 DEF QuietPasses, RedisPublish, Crash
  <2>4. CASE Subscribe \/ OnMessage \/ MetricsEnds
    BY <2>4 DEF Subscribe, OnMessage, MetricsEnds
  <2> QED
    BY <2>1, <2>2, <2>3, <2>4 DEF Next
<1> QED
  BY <1>1, <1>2, <1>3, TypeCorrect, NeverIdle, PTL DEF Spec, ZeroIsFinal

\* Publishing the HP that a process now has keeps LastIsCurrent: the new event
\* is the last one of that process, and no other queue changes.
LEMMA PublishKeeps ==
  ASSUME TypeOK, LastIsCurrent, NEW q \in Procs, NEW n \in 0..MAX_HP, NEW by \in {"record", "heal"},
         hp' = [hp EXCEPT ![q] = n], Publish(q, n, by), UNCHANGED <<subscribed, inbox, gauge, heard>>
  PROVE  LastIsCurrent'
<1>1. PICK e \in Event : e = [hp |-> n, by |-> by]
  BY Zenon DEF Event
<1>2. publishing' = [publishing EXCEPT ![q] = Append(@, e)] /\ e.hp = n
  BY <1>1 DEF Publish
<1>3. publishing'[q] # <<>> /\ publishing'[q][Len(publishing'[q])] = e
  <2>1. publishing[q] \in Seq(Event) /\ publishing'[q] = Append(publishing[q], e)
    BY <1>2 DEF TypeOK
  <2> QED
    BY <2>1, AppendFacts
<1>4. hp'[q] = n /\ \A p \in Procs \ {q} : hp'[p] = hp[p] /\ publishing'[p] = publishing[p]
  BY <1>2 DEF TypeOK
<1>5. \A p \in Procs : publishing'[p] # <<>> => publishing'[p][Len(publishing'[p])].hp = hp'[p]
  BY <1>2, <1>3, <1>4 DEF LastIsCurrent
<1>6. heard # None /\ publishing'[heard] = <<>> => heard \in Procs \ {q}
  BY <1>3 DEF TypeOK
<1> QED
  BY <1>4, <1>5, <1>6 DEF LastIsCurrent

\* The gauge is exact for the process heard last, once its events and messages
\* have been handled (firewall.js:32, metrics.js:84-93).
THEOREM ExactGauge == Spec => []GaugeIsExact
<1>1. Init => LastIsCurrent
  BY DEF Init, LastIsCurrent
<1>2. TypeOK /\ LastIsCurrent /\ [Next]_vars => LastIsCurrent'
  <2> SUFFICES ASSUME TypeOK, LastIsCurrent, [Next]_vars PROVE LastIsCurrent'
    OBVIOUS
  <2>1. ASSUME UNCHANGED <<hp, publishing, metrics>>
        PROVE  LastIsCurrent'
    BY <2>1 DEF LastIsCurrent, metrics
  <2>2. ASSUME NEW q \in Procs, NEW type \in DOMAIN WEIGHTS, Record(q, type)
        PROVE  LastIsCurrent'
    <3>1. PICK n \in 0..MAX_HP : n = Lower(hp[q], WEIGHTS[type])
      BY HpRange DEF TypeOK
    <3>2. hp' = [hp EXCEPT ![q] = n] /\ hp'[q] = n
      BY <2>2, <3>1 DEF Record, TypeOK
    <3> QED
      BY <2>2, <3>2, PublishKeeps, Zenon DEF Record, metrics
  <2>3. ASSUME NEW q \in Procs, Heal(q)
        PROVE  LastIsCurrent'
    <3>1. PICK n \in 0..MAX_HP : n = Raise(hp[q])
      BY HpRange DEF TypeOK
    <3>2. hp' = [hp EXCEPT ![q] = n] /\ hp'[q] = n
      BY <2>3, <3>1 DEF Heal, TypeOK
    <3> QED
      BY <2>3, <3>2, PublishKeeps, Zenon DEF Heal, metrics
  <2>4. ASSUME NEW q \in Procs, QuietPasses(q) \/ Crash(q)
        PROVE  LastIsCurrent'
    BY <2>1, <2>4 DEF QuietPasses, Crash, metrics
  <2>5. ASSUME NEW q \in Procs, RedisPublish(q)
        PROVE  LastIsCurrent'
    <3>1. publishing[q] \in Seq(Event) /\ publishing[q] # <<>>
      BY <2>5 DEF RedisPublish, TypeOK
    <3>2. publishing'[q] = Tail(publishing[q]) /\ \A p \in Procs \ {q} : publishing'[p] = publishing[p]
      BY <2>5 DEF RedisPublish, TypeOK
    <3>3. publishing[q][Len(publishing[q])].hp = hp[q]
      BY <3>1 DEF LastIsCurrent
    <3>4. /\ publishing'[q] # <<>> => publishing'[q][Len(publishing'[q])].hp = hp[q]
          /\ publishing'[q] = <<>> => Head(publishing[q]).hp = hp[q]
      BY <3>1, <3>2, <3>3, TailFacts
    <3>5. \A p \in Procs : publishing'[p] # <<>> => publishing'[p][Len(publishing'[p])].hp = hp'[p]
      BY <2>5, <3>2, <3>4 DEF RedisPublish, LastIsCurrent
    <3>6. CASE subscribed
      <4>1. inbox' = Append(inbox, Head(publishing[q]).hp) /\ heard' = q /\ hp' = hp
        BY <2>5, <3>6 DEF RedisPublish
      <4>2. inbox \in Seq(0..MAX_HP) /\ Head(publishing[q]).hp \in 0..MAX_HP
        <5>1. Head(publishing[q]) \in Event
          BY <3>1, TailFacts
        <5> QED
          BY <5>1 DEF TypeOK, Event
      <4>3. inbox' # <<>> /\ inbox'[Len(inbox')] = Head(publishing[q]).hp
        BY <4>1, <4>2, AppendFacts
      <4>4. subscribed'
        BY <2>5, <3>6 DEF RedisPublish
      <4> QED
        BY <3>4, <3>5, <4>1, <4>3, <4>4 DEF LastIsCurrent
    <3>7. CASE ~subscribed
      <4>2. heard = None
        BY <3>7 DEF LastIsCurrent
      <4> QED
        BY <2>5, <3>5, <3>7, <4>2 DEF RedisPublish, LastIsCurrent
    <3> QED
      BY <3>6, <3>7
  <2>6. ASSUME NEW q \in Procs, Restart(q)
        PROVE  LastIsCurrent'
    <3>1. publishing'[q] = <<>> /\ \A p \in Procs \ {q} : publishing'[p] = publishing[p] /\ hp'[p] = hp[p]
      BY <2>6 DEF Restart, TypeOK
    <3>2. heard' # None => heard' = heard /\ heard \in Procs \ {q}
      BY <2>6 DEF Restart, TypeOK
    <3> QED
      BY <2>6, <3>1, <3>2 DEF Restart, LastIsCurrent
  <2>7. CASE OnMessage
    <3>1. inbox \in Seq(0..MAX_HP) /\ inbox # <<>> /\ inbox' = Tail(inbox) /\ gauge' = Head(inbox)
      BY <2>7 DEF OnMessage, TypeOK
    <3>2. /\ inbox' # <<>> => inbox'[Len(inbox')] = inbox[Len(inbox)]
          /\ inbox' = <<>> => gauge' = inbox[Len(inbox)]
      BY <3>1, TailFacts
    <3> QED
      BY <2>7, <3>1, <3>2 DEF OnMessage, LastIsCurrent
  <2>8. CASE Subscribe
    BY <2>8 DEF Subscribe, LastIsCurrent
  <2>9. CASE MetricsEnds
    BY <2>9 DEF MetricsEnds, LastIsCurrent
  <2>10. CASE UNCHANGED vars
    BY <2>1, <2>10 DEF vars, metrics
  <2> QED
    BY <2>2, <2>3, <2>4, <2>5, <2>6, <2>7, <2>8, <2>9, <2>10 DEF Next
<1>3. LastIsCurrent => GaugeIsExact
  BY DEF LastIsCurrent, GaugeIsExact
<1> QED
  BY <1>1, <1>2, <1>3, TypeCorrect, PTL DEF Spec
=============================================================================
