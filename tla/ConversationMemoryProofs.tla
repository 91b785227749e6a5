---------------------- MODULE ConversationMemoryProofs ----------------------
(***************************************************************************)
(* Proofs about the conversation memory, for any number of turns and users,*)
(* any expiry and any length of the history.  The last part is what        *)
(* TurnsEnd and Forgotten rest on besides fairness.                        *)
(***************************************************************************)
EXTENDS ConversationMemory, TLAPS

\* A turn that has begun is one of a user.
OfUsers == \A t \in Turns : turn[t].pc # "free" => turn[t].h \in Handles

TypeInv == TypeOK /\ OfUsers

\* The entries of a stream are numbered without a gap, from the first that has
\* not expired to the last ever added.
Numbered ==
  \A h \in Handles : /\ last[h] = lost[h] + Len(stream[h])
                     /\ \A i \in 1 .. Len(stream[h]) : stream[h][i] = lost[h] + i

\* What recall() returns is as long as the stream, up to the limit, and ends with
\* the newest entry.
LEMMA NewestEntries ==
  ASSUME NEW s \in Seq(Nat)
  PROVE  /\ Newest(s) \in Seq(Nat)
         /\ Len(Newest(s)) = IF Len(s) > LIMIT THEN LIMIT ELSE Len(s)
         /\ \A i \in 1 .. Len(Newest(s)) : Newest(s)[i] = s[Len(s) - Len(Newest(s)) + i]
<1>1. PICK m : m = IF Len(s) > LIMIT THEN Len(s) - LIMIT + 1 ELSE 1
  BY Zenon
<1>2. Newest(s) = SubSeq(s, m, Len(s))
  BY <1>1, Zenon DEF Newest
<1>3. m \in Nat \ {0} /\ m <= Len(s) + 1
  BY <1>1, NumbersAssumption
<1>4. Newest(s) \in Seq(Nat) /\ Len(Newest(s)) = Len(s) - m + 1
  BY <1>2, <1>3
<1>5. ASSUME NEW i \in 1 .. Len(s) - m + 1
      PROVE  Newest(s)[i] = s[m + i - 1]
  BY <1>2, <1>3
<1>6. ASSUME NEW i \in 1 .. Len(Newest(s))
      PROVE  Newest(s)[i] = s[Len(s) - Len(Newest(s)) + i]
  <2>1. m + i - 1 = Len(s) - Len(Newest(s)) + i /\ i \in 1 .. Len(s) - m + 1
    BY <1>4, <1>3
  <2> QED
    BY <1>5, <2>1, Zenon
<1>7. Len(Newest(s)) = IF Len(s) > LIMIT THEN LIMIT ELSE Len(s)
  BY <1>1, <1>4, <1>3, NumbersAssumption
<1> QED
  BY <1>4, <1>6, <1>7, Zenon

\* One turn becomes r.
LEMMA TurnTypes ==
  ASSUME TypeInv, NEW t \in Turns, NEW r \in Turn, turn' = [turn EXCEPT ![t] = r],
         r.h \in Handles, Len(r.history) <= LIMIT
  PROVE  /\ turn' \in [Turns -> Turn] /\ OfUsers'
         /\ \A u \in Turns : Len(turn'[u].history) <= LIMIT
  BY Zenon DEF TypeInv, TypeOK, OfUsers

\* One turn goes on to pc.
LEMMA GotoTypes ==
  ASSUME TypeInv, NEW t \in Turns, NEW pc \in Waiting \cup Late \cup Ended, Goto(t, pc),
         turn[t].h \in Handles
  PROVE  /\ turn' \in [Turns -> Turn] /\ OfUsers'
         /\ \A u \in Turns : Len(turn'[u].history) <= LIMIT
<1>1. turn[t] \in Turn /\ Len(turn[t].history) <= LIMIT
  BY Zenon DEF TypeInv, TypeOK
<1>2. PICK r : r = [turn[t] EXCEPT !.pc = pc]
  BY Zenon
<1>3. r \in Turn /\ r.h = turn[t].h /\ r.history = turn[t].history
  BY <1>1, <1>2, Zenon DEF Turn
<1>4. turn' = [turn EXCEPT ![t] = r]
  BY <1>2, Zenon DEF Goto
<1> QED
  BY <1>1, <1>3, <1>4, TurnTypes, Zenon

-----------------------------------------------------------------------------
(* Types *)

\* XADD keeps the types of the stream and its counter.
LEMMA XaddTypes ==
  ASSUME TypeOK, NEW h \in Handles, XADD(h)
  PROVE  /\ stream' \in [Handles -> Seq(Nat)] /\ last' \in [Handles -> Nat]
         /\ \A g \in Handles : stream[g] # <<>> => stream'[g] # <<>>
<1>1. last[h] + 1 \in Nat /\ stream[h] \in Seq(Nat)
  BY DEF TypeOK
<1>2. Append(stream[h], last[h] + 1) \in Seq(Nat) /\ Append(stream[h], last[h] + 1) # <<>>
  BY <1>1
<1> QED
  BY <1>1, <1>2, Zenon DEF XADD, TypeOK

\* EXPIRE keeps the types of the expiry; it acts on a stream that is there.
LEMMA ExpireTypes ==
  ASSUME TypeOK, NEW h \in Handles, EXPIRE(h), stream' = stream
  PROVE  /\ ttl' \in [Handles -> 1..TTL \cup {Never}]
         /\ cut' \subseteq Handles
         /\ \A g \in Handles : ttl'[g] # Never => stream'[g] # <<>>
<1>1. TTL \in 1..TTL
  BY NumbersAssumption
<1> QED
  BY <1>1, Zenon DEF EXPIRE, TypeOK

\* The types, and that a turn under way is one of a user, hold in every state.
LEMMA TypeStep == TypeInv /\ [Next]_vars => TypeInv'
<1> USE NumbersAssumption, NeverAssumption
<1> SUFFICES ASSUME TypeInv, [Next]_vars PROVE TypeInv'
  BY Zenon
<1> USE DEF TypeInv
<1>1. ASSUME NEW t \in Turns, RememberXadd(t) PROVE TypeInv'
  <2> DEFINE h == turn[t].h
  <2>1. h \in Handles
    BY <1>1, Zenon DEF RememberXadd, OfUsers
  <2>2. XADD(h) /\ UNCHANGED <<ttl, resends, lost, cut>>
    BY <1>1, Zenon DEF RememberXadd
  <2>3. /\ stream' \in [Handles -> Seq(Nat)] /\ last' \in [Handles -> Nat]
        /\ \A g \in Handles : stream[g] # <<>> => stream'[g] # <<>>
    BY <2>1, <2>2, XaddTypes, Zenon
  <2>4. /\ turn' \in [Turns -> Turn] /\ OfUsers'
        /\ \A u \in Turns : Len(turn'[u].history) <= LIMIT
    <3>1. PICK n \in Nat : n = IF turn[t].saying = "text" THEN last'[h] ELSE turn[t].own
      BY <2>1, <2>3, Zenon DEF TypeOK, Turn
    <3>2. PICK r : r = [turn[t] EXCEPT !.pc = "expire", !.own = n]
      BY Zenon
    <3>3. turn[t] \in Turn /\ Len(turn[t].history) <= LIMIT
      BY Zenon DEF TypeOK
    <3>4. r \in Turn /\ r.h = h /\ r.history = turn[t].history
      BY <3>2, <3>3, Zenon DEF Turn, Waiting
    <3>5. turn' = [turn EXCEPT ![t] = r]
      BY <1>1, <3>1, <3>2, Zenon DEF RememberXadd
    <3> QED
      BY <2>1, <3>3, <3>4, <3>5, TurnTypes, Zenon
  <2> QED
    BY <2>2, <2>3, <2>4, Zenon DEF TypeOK
<1>2. ASSUME NEW t \in Turns, RememberExpire(t) PROVE TypeInv'
  <2>1. turn[t].h \in Handles /\ EXPIRE(turn[t].h) /\ UNCHANGED <<stream, resends, last, lost>>
    BY <1>2, Zenon DEF RememberExpire, OfUsers
  <2>2. /\ turn' \in [Turns -> Turn] /\ OfUsers'
        /\ \A u \in Turns : Len(turn'[u].history) <= LIMIT
    BY <1>2, <2>1, GotoTypes, Zenon DEF RememberExpire, AfterRemember, Waiting, Ended
  <2> QED
    BY <2>1, <2>2, ExpireTypes, Zenon DEF TypeOK
<1>3. ASSUME NEW t \in Turns, Recall(t) PROVE TypeInv'
  <2>1. turn[t].h \in Handles /\ stream[turn[t].h] \in Seq(Nat)
    BY <1>3, Zenon DEF Recall, OfUsers, TypeOK
  <2> DEFINE r == Recalled(stream[turn[t].h])
  <2>2. r \in Seq(Nat) /\ Len(r) <= LIMIT
    BY <2>1, NewestEntries DEF Recalled
  <2> HIDE DEF r
  <2>3. turn' = [turn EXCEPT ![t].pc = "ask", ![t].history = r]
    BY <1>3, Zenon DEF Recall, r
  <2>4. turn' \in [Turns -> Turn] /\ OfUsers' /\ \A u \in Turns : Len(turn'[u].history) <= LIMIT
    <3>1. PICK q : q = [turn[t] EXCEPT !.pc = "ask", !.history = r]
      BY Zenon
    <3>2. q \in Turn /\ q.h = turn[t].h /\ q.history = r
      <4>1. turn[t] \in Turn
        BY Zenon DEF TypeOK
      <4> QED
        BY <2>2, <3>1, <4>1, Zenon DEF Turn, Waiting
    <3>3. turn' = [turn EXCEPT ![t] = q]
      BY <2>3, <3>1, Zenon
    <3> QED
      BY <2>1, <2>2, <3>2, <3>3, TurnTypes, Zenon
  <2> QED
    BY <1>3, <2>4, Zenon DEF Recall, TypeOK
<1>4. ASSUME NEW t \in Turns, Answered(t) PROVE TypeInv'
  <2>1. PICK q : q = [turn[t] EXCEPT !.pc = "xadd", !.saying = "answer"]
    BY Zenon
  <2>2. turn[t] \in Turn /\ turn[t].h \in Handles /\ Len(turn[t].history) <= LIMIT
    BY <1>4, Zenon DEF Answered, OfUsers, TypeOK
  <2>3. q \in Turn /\ q.h = turn[t].h /\ q.history = turn[t].history
    BY <2>1, <2>2, Zenon DEF Turn, Waiting
  <2>4. turn' = [turn EXCEPT ![t] = q]
    BY <1>4, <2>1, Zenon DEF Answered
  <2> QED
    BY <1>4, <2>2, <2>3, <2>4, TurnTypes, Zenon DEF Answered, TypeOK
<1>5. ASSUME NEW t \in Turns, Fails(t) PROVE TypeInv'
  <2>1. /\ turn' \in [Turns -> Turn] /\ OfUsers'
        /\ \A u \in Turns : Len(turn'[u].history) <= LIMIT
    <3>1. turn[t].h \in Handles /\ Goto(t, "failed")
      BY <1>5, Zenon DEF Fails, OfUsers, Waiting
    <3> QED
      BY <3>1, GotoTypes, Zenon DEF Ended
  <2>2. cut' \subseteq Handles
    BY <1>5 DEF Fails, Abandon, TypeOK, OfUsers, Waiting
  <2> QED
    BY <1>5, <2>1, <2>2, Zenon DEF Fails, TypeOK
<1>6. ASSUME NEW t \in Turns, LateCommand(t) PROVE TypeInv'
  <2>1. turn[t].h \in Handles /\ UNCHANGED <<resends, lost>>
    BY <1>6, Zenon DEF LateCommand, OfUsers, Late
  <2>2. /\ turn' \in [Turns -> Turn] /\ OfUsers'
        /\ \A u \in Turns : Len(turn'[u].history) <= LIMIT
    BY <1>6, <2>1, GotoTypes, Zenon DEF LateCommand, Ended
  <2>3. CASE XADD(turn[t].h) /\ Abandon(turn[t].h) /\ UNCHANGED ttl
    BY <2>1, <2>2, <2>3, XaddTypes, Zenon DEF Abandon, TypeOK
  <2>4. CASE EXPIRE(turn[t].h) /\ UNCHANGED <<stream, last>>
    BY <2>1, <2>2, <2>4, ExpireTypes, Zenon DEF TypeOK
  <2>5. CASE UNCHANGED <<stream, ttl, last>> /\ Abandon(turn[t].h)
    BY <2>1, <2>2, <2>5, Zenon DEF Abandon, TypeOK
  <2> QED
    BY <1>6, <2>3, <2>4, <2>5, Zenon DEF LateCommand
<1>7. ASSUME NEW t \in Turns, SentAgain(t) PROVE TypeInv'
  <2>1. turn[t].h \in Handles /\ UNCHANGED <<turn, lost>> /\ resends' \in 0..MaxResends
    BY <1>7 DEF SentAgain, OfUsers, TypeOK
  <2>2. CASE XADD(turn[t].h) /\ UNCHANGED <<ttl, cut>>
    BY <2>1, <2>2, XaddTypes, Zenon DEF TypeOK, OfUsers
  <2>3. CASE EXPIRE(turn[t].h) /\ UNCHANGED <<stream, last>>
    BY <2>1, <2>3, ExpireTypes, Zenon DEF TypeOK, OfUsers
  <2> QED
    BY <1>7, <2>2, <2>3, Zenon DEF SentAgain
<1>8. ASSUME NEW t \in Turns, NEW h \in Handles, Say(t, h) PROVE TypeInv'
  <2>1. PICK q : q = [turn[t] EXCEPT !.h = h, !.pc = "xadd"]
    BY Zenon
  <2>2. turn[t] \in Turn /\ Len(turn[t].history) <= LIMIT
    BY Zenon DEF TypeOK
  <2>3. q \in Turn /\ q.h = h /\ q.history = turn[t].history
    BY <2>1, <2>2, Zenon DEF Turn, Waiting
  <2>4. turn' = [turn EXCEPT ![t] = q]
    BY <1>8, <2>1, Zenon DEF Say
  <2> QED
    BY <1>8, <2>2, <2>3, <2>4, TurnTypes, Zenon DEF Say, TypeOK
<1>9. CASE Tick
  <2>1. ttl' \in [Handles -> 1..TTL \cup {Never}]
    <3>1. ASSUME NEW h \in Handles
          PROVE  (IF ttl[h] = Never \/ Due(h) THEN Never ELSE ttl[h] - 1) \in 1..TTL \cup {Never}
      <4>1. ttl[h] \in 1..TTL \cup {Never}
        BY Zenon DEF TypeOK
      <4>2. CASE ttl[h] = Never
        BY <4>1, <4>2
      <4>3. CASE ttl[h] \in 1..TTL
        BY <4>1, <4>3 DEF Due
      <4> QED
        BY <4>1, <4>2, <4>3, Zenon
    <3> QED
      BY <1>9, <3>1, Zenon DEF Tick
  <2>2. stream' \in [Handles -> Seq(Nat)] /\ lost' \in [Handles -> Nat]
    BY <1>9 DEF Tick, TypeOK
  <2>3. \A h \in Handles : ttl'[h] # Never => stream'[h] # <<>>
    BY <1>9, Zenon DEF Tick, TypeOK
  <2> QED
    BY <1>9, <2>1, <2>2, <2>3, Zenon DEF Tick, TypeOK, OfUsers
<1>10. CASE AgentEnds
  <2>1. \A t \in Turns : /\ turn'[t] = [turn[t] EXCEPT !.pc = AfterEnd(turn[t].pc)]
                         /\ turn[t] \in Turn
    BY <1>10, Zenon DEF AgentEnds, TypeOK
  <2>2. ASSUME NEW t \in Turns
        PROVE  /\ turn'[t] \in Turn /\ turn'[t].history = turn[t].history
               /\ turn'[t].h = turn[t].h /\ (turn'[t].pc = "free" <=> turn[t].pc = "free")
    <3>1. turn[t] \in Turn /\ turn'[t] = [turn[t] EXCEPT !.pc = AfterEnd(turn[t].pc)]
      BY <2>1, Zenon
    <3>2. turn[t].pc \in {"free"} \cup Waiting \cup Late \cup Ended
      BY <3>1, Zenon DEF Turn
    <3>3. PICK pc \in {"free"} \cup Waiting \cup Late \cup Ended :
            pc = AfterEnd(turn[t].pc) /\ (pc = "free" <=> turn[t].pc = "free")
      BY <3>2 DEF AfterEnd, Waiting, Late, Ended
    <3> QED
      BY <3>1, <3>3, Zenon DEF Turn
  <2>3. turn' \in [Turns -> Turn]
    BY <1>10, <2>2, Zenon DEF AgentEnds
  <2> QED
    BY <1>10, <2>2, <2>3, Zenon DEF AgentEnds, TypeOK, OfUsers
<1>11. CASE UNCHANGED vars
  BY <1>11, Zenon DEF vars, TypeOK, OfUsers
<1> QED
  BY <1>1, <1>2, <1>3, <1>4, <1>5, <1>6, <1>7, <1>8, <1>9, <1>10, <1>11, Zenon DEF Next, Continue

\* The invariant of the lemma above, from the initial state on.
LEMMA Types == Spec => []TypeInv
<1>1. Init => TypeInv
  BY NumbersAssumption, NeverAssumption DEF Init, TypeInv, TypeOK, OfUsers, Turn
<1> QED
  BY <1>1, TypeStep, PTL DEF Spec

\* The types; recall() returns no more than was asked for, and Redis keeps an
\* expiry only for a stream that is there (memory.js:15-31).
THEOREM TypeCorrect == Spec => []TypeOK
<1>1. TypeInv => TypeOK
  BY Zenon DEF TypeInv
<1> QED
  BY <1>1, Types, PTL

-----------------------------------------------------------------------------
(* The expiry *)

\* Every step keeps ExpiryUnlessCut: Coming(h) says that a remember() for h is
\* under way.
LEMMA ExpiryStep == TypeInv /\ ExpiryUnlessCut /\ [Next]_vars => ExpiryUnlessCut'
<1> USE NumbersAssumption, NeverAssumption
<1> DEFINE Pending == {"xadd", "expire"} \cup Late
<1> DEFINE Coming(h) == \E t \in Turns : turn[t].h = h /\ turn[t].pc \in Pending
<1> SUFFICES ASSUME TypeInv, ExpiryUnlessCut, [Next]_vars,
                    NEW h \in Handles, stream'[h] # <<>>, ttl'[h] = Never
             PROVE  h \in cut' \/ Coming(h)'
  BY Zenon DEF ExpiryUnlessCut
<1>a. turn \in [Turns -> Turn] /\ ttl \in [Handles -> 1..TTL \cup {Never}] /\ TTL # Never
  BY Zenon DEF TypeInv, TypeOK
<1>b. stream[h] # <<>> /\ ttl[h] = Never => h \in cut \/ Coming(h)
  BY Zenon DEF ExpiryUnlessCut
\* An EXPIRE leaves no stream without an expiry but those of others.
<1>c. ASSUME NEW t \in Turns, EXPIRE(turn[t].h), stream' = stream
      PROVE  turn[t].h # h /\ ttl[h] = Never /\ (h \in cut => h \in cut')
  BY <1>a, <1>c, Zenon DEF EXPIRE
<1>1. ASSUME NEW t \in Turns, RememberXadd(t) PROVE h \in cut' \/ Coming(h)'
  <2>1. turn'[t].h = turn[t].h /\ turn'[t].pc = "expire" /\ cut' = cut /\ ttl' = ttl
    BY <1>1, <1>a DEF RememberXadd
  <2>2. \A u \in Turns : u # t => turn'[u] = turn[u]
    BY <1>1, <1>a, Zenon DEF RememberXadd
  <2>3. turn[t].h # h => stream'[h] = stream[h]
    BY <1>1, Zenon DEF RememberXadd, XADD, TypeInv, TypeOK
  <2> QED
    BY <1>b, <2>1, <2>2, <2>3, Zenon
<1>2. ASSUME NEW t \in Turns, RememberExpire(t) PROVE h \in cut' \/ Coming(h)'
  <2>1. turn[t].h # h /\ ttl[h] = Never /\ (h \in cut => h \in cut') /\ stream' = stream
    BY <1>2, <1>c, Zenon DEF RememberExpire
  <2>2. \A u \in Turns : u # t => turn'[u] = turn[u]
    BY <1>2, <1>a, Zenon DEF RememberExpire, Goto
  <2> QED
    BY <1>b, <2>1, <2>2, Zenon
<1>3. ASSUME NEW t \in Turns, Recall(t) \/ Answered(t) PROVE h \in cut' \/ Coming(h)'
  <2>1. turn[t].pc \notin Pending /\ UNCHANGED <<stream, ttl, cut>>
    BY <1>3, Zenon DEF Recall, Answered, Late
  <2>2. \A u \in Turns : u # t => turn'[u] = turn[u]
    BY <1>3, <1>a, Zenon DEF Recall, Answered
  <2> QED
    BY <1>b, <2>1, <2>2, Zenon
<1>4. ASSUME NEW t \in Turns, Fails(t) PROVE h \in cut' \/ Coming(h)'
  <2>1. UNCHANGED <<stream, ttl>> /\ \A u \in Turns : u # t => turn'[u] = turn[u]
    BY <1>4, <1>a, Zenon DEF Fails, Goto
  <2>2. (h \in cut => h \in cut')
        /\ (turn[t].pc \in {"xadd", "expire"} /\ turn[t].h = h => h \in cut')
    BY <1>4, <2>1, Zenon DEF Fails, Abandon
  <2>3. turn[t].pc \notin Late
    BY <1>4, Zenon DEF Fails, Waiting, Late
  <2> QED
    BY <1>b, <2>1, <2>2, <2>3, Zenon
<1>5. ASSUME NEW t \in Turns, LateCommand(t) PROVE h \in cut' \/ Coming(h)'
  <2>1. \A u \in Turns : u # t => turn'[u] = turn[u]
    BY <1>5, <1>a, Zenon DEF LateCommand, Goto
  <2>2. CASE XADD(turn[t].h) /\ Abandon(turn[t].h) /\ UNCHANGED ttl
    <3>1. turn[t].h # h => stream'[h] = stream[h]
      BY <2>2, Zenon DEF XADD, TypeInv, TypeOK
    <3>2. (turn[t].h = h => h \in cut') /\ (h \in cut => h \in cut')
      BY <2>2, Zenon DEF Abandon
    <3> QED
      BY <1>b, <2>1, <2>2, <3>1, <3>2, Zenon
  <2>3. CASE EXPIRE(turn[t].h) /\ UNCHANGED <<stream, last>>
    <3>1. turn[t].h # h /\ ttl[h] = Never /\ (h \in cut => h \in cut')
      BY <2>3, <1>c, Zenon
    <3> QED
      BY <1>b, <2>1, <2>3, <3>1, Zenon
  <2>4. CASE UNCHANGED <<stream, ttl, last>> /\ Abandon(turn[t].h)
    <3>1. (turn[t].h = h => h \in cut') /\ (h \in cut => h \in cut')
      BY <2>4, Zenon DEF Abandon
    <3> QED
      BY <1>b, <2>1, <2>4, <3>1, Zenon
  <2> QED
    BY <1>5, <2>2, <2>3, <2>4, Zenon DEF LateCommand
<1>6. ASSUME NEW t \in Turns, SentAgain(t) PROVE h \in cut' \/ Coming(h)'
  <2>1. turn' = turn
    BY <1>6, Zenon DEF SentAgain
  <2>2. CASE turn[t].pc = "xadd" /\ XADD(turn[t].h) /\ UNCHANGED <<ttl, cut>>
    <3>1. turn[t].h # h => stream'[h] = stream[h]
      BY <2>2, Zenon DEF XADD, TypeInv, TypeOK
    <3> QED
      BY <1>b, <2>1, <2>2, <3>1, Zenon
  <2>3. CASE EXPIRE(turn[t].h) /\ UNCHANGED <<stream, last>>
    <3>1. turn[t].h # h /\ ttl[h] = Never /\ (h \in cut => h \in cut')
      BY <2>3, <1>c, Zenon
    <3> QED
      BY <1>b, <2>1, <2>3, <3>1, Zenon
  <2> QED
    BY <1>6, <2>2, <2>3, Zenon DEF SentAgain
<1>7. ASSUME NEW t \in Turns, NEW g \in Handles, Say(t, g) PROVE h \in cut' \/ Coming(h)'
  <2>1. turn[t].pc = "free" /\ UNCHANGED <<stream, ttl, cut>>
    BY <1>7, Zenon DEF Say
  <2>2. \A u \in Turns : u # t => turn'[u] = turn[u]
    BY <1>7, <1>a, Zenon DEF Say
  <2> QED
    BY <1>b, <2>1, <2>2, Zenon DEF Late
<1>8. CASE Tick
  <2>1. stream'[h] = stream[h] /\ ttl[h] = Never /\ UNCHANGED <<turn, cut>>
    BY <1>8, <1>a DEF Tick, Due
  <2> QED
    BY <1>b, <2>1, Zenon
<1>9. CASE AgentEnds
  <2>1. UNCHANGED <<stream, ttl, cut>>
    BY <1>9, Zenon DEF AgentEnds
  <2>2. ASSUME NEW t \in Turns, turn[t].h = h, turn[t].pc \in Pending
        PROVE  turn'[t].h = h /\ turn'[t].pc \in Pending
    BY <1>9, <1>a, <2>2 DEF AgentEnds, AfterEnd, Late, Turn
  <2> QED
    BY <1>b, <2>1, <2>2, Zenon
<1>10. CASE UNCHANGED vars
  BY <1>10, <1>b, Zenon DEF vars
<1> QED
  BY <1>1, <1>2, <1>3, <1>4, <1>5, <1>6, <1>7, <1>8, <1>9, <1>10, Zenon DEF Next, Continue

\* A stream without an expiry has a remember() under way, or was left by one that
\* was stopped between its two commands (memory.js:17-18).
THEOREM NoneForEver == Spec => []ExpiryUnlessCut
<1>1. Init => ExpiryUnlessCut
  BY Zenon DEF Init, ExpiryUnlessCut
<1> QED
  BY <1>1, ExpiryStep, Types, PTL DEF Spec

\* What a step does to the stream of h: the clock, or at most one new entry and at
\* most one new expiry.
LEMMA StreamSteps ==
  ASSUME TypeInv, [Next]_vars, NEW h \in Handles
  PROVE  \/ Tick
         \/ /\ lost' = lost
            /\ \/ stream'[h] = stream[h] /\ last'[h] = last[h]
               \/ stream'[h] = Append(stream[h], last[h] + 1) /\ last'[h] = last[h] + 1
            /\ ttl'[h] = ttl[h] \/ ttl'[h] = TTL
<1> DEFINE Same  == stream'[h] = stream[h] /\ last'[h] = last[h]
           Added == stream'[h] = Append(stream[h], last[h] + 1) /\ last'[h] = last[h] + 1
           Still == ttl'[h] = ttl[h]
           Anew  == ttl'[h] = TTL
<1>a. ASSUME NEW g, XADD(g) PROVE Same \/ Added
  BY <1>a, Zenon DEF XADD, TypeInv, TypeOK
<1>b. ASSUME NEW g, EXPIRE(g) PROVE Still \/ Anew
  BY <1>b, Zenon DEF EXPIRE, TypeInv, TypeOK
<1>1. ASSUME NEW t \in Turns, Continue(t)
      PROVE  lost' = lost /\ (Same \/ Added) /\ (Still \/ Anew)
  <2>1. CASE RememberXadd(t)
    BY <2>1, <1>a, Zenon DEF RememberXadd
  <2>2. CASE RememberExpire(t)
    BY <2>2, <1>b, Zenon DEF RememberExpire
  <2>3. CASE Recall(t) \/ Answered(t) \/ Fails(t)
    BY <2>3, Zenon DEF Recall, Answered, Fails
  <2>4. CASE LateCommand(t)
    BY <2>4, <1>a, <1>b, Zenon DEF LateCommand
  <2> QED
    BY <1>1, <2>1, <2>2, <2>3, <2>4, Zenon DEF Continue
<1>2. ASSUME NEW t \in Turns, SentAgain(t)
      PROVE  lost' = lost /\ (Same \/ Added) /\ (Still \/ Anew)
  BY <1>2, <1>a, <1>b, Zenon DEF SentAgain
<1>3. ASSUME NEW t \in Turns, NEW g \in Handles, Say(t, g)
      PROVE  lost' = lost /\ Same /\ Still
  BY <1>3, Zenon DEF Say
<1>4. CASE AgentEnds
  BY <1>4, Zenon DEF AgentEnds
<1>5. CASE UNCHANGED vars
  BY <1>5, Zenon DEF vars
<1> QED
  BY <1>1, <1>2, <1>3, <1>4, <1>5, Zenon DEF Next

-----------------------------------------------------------------------------
(* The history of a turn *)

\* The user's own text is among the entries ever added.
OwnAdded == \A t \in Turns : IF turn[t].pc = "free" THEN turn[t].own = 0
                             ELSE turn[t].own <= last[turn[t].h]

\* The numbers of a stream stay without a gap.
LEMMA NumberedStep == TypeInv /\ Numbered /\ [Next]_vars => Numbered'
<1> SUFFICES ASSUME TypeInv, Numbered, [Next]_vars, NEW h \in Handles
             PROVE  /\ last'[h] = lost'[h] + Len(stream'[h])
                    /\ \A i \in 1 .. Len(stream'[h]) : stream'[h][i] = lost'[h] + i
  BY Zenon DEF Numbered
<1>1. stream[h] \in Seq(Nat) /\ last[h] \in Nat /\ lost[h] \in Nat
  BY Zenon DEF TypeInv, TypeOK
<1>2. /\ last[h] = lost[h] + Len(stream[h])
      /\ \A i \in 1 .. Len(stream[h]) : stream[h][i] = lost[h] + i
  BY Zenon DEF Numbered
<1>3. CASE Tick
  <2>1. last'[h] = last[h]
        /\ \/ stream'[h] = <<>> /\ lost'[h] = last[h]
           \/ stream'[h] = stream[h] /\ lost'[h] = lost[h]
    BY <1>3, Zenon DEF Tick
  <2> QED
    BY <1>1, <1>2, <2>1
<1>4. CASE lost' = lost /\ stream'[h] = stream[h] /\ last'[h] = last[h]
  BY <1>2, <1>4, Zenon
<1>5. CASE lost' = lost /\ stream'[h] = Append(stream[h], last[h] + 1) /\ last'[h] = last[h] + 1
  <2>1. /\ Len(stream[h]) \in Nat /\ Len(stream'[h]) = Len(stream[h]) + 1
        /\ stream'[h][Len(stream[h]) + 1] = last[h] + 1
        /\ \A i \in 1 .. Len(stream[h]) : stream'[h][i] = stream[h][i]
    BY <1>1, <1>5
  <2>2. last'[h] = lost'[h] + Len(stream'[h])
    <3>1. last[h] + 1 = lost[h] + (Len(stream[h]) + 1)
      BY ONLY <1>1, <1>2, <2>1
    <3> QED
      BY <1>5, <2>1, <3>1, Zenon
  <2>3. ASSUME NEW i \in 1 .. Len(stream'[h]) PROVE stream'[h][i] = lost'[h] + i
    <3>1. CASE i = Len(stream[h]) + 1
      <4>1. stream'[h][i] = last'[h]
        BY <1>5, <2>1, <3>1, Zenon
      <4>2. Len(stream'[h]) = i
        BY <2>1, <3>1, Zenon
      <4> QED
        BY <2>2, <4>1, <4>2, Zenon
    <3>2. CASE i \in 1 .. Len(stream[h])
      BY <1>2, <1>5, <2>1, <3>2, Zenon
    <3> QED
      BY <2>1, <2>3, <3>1, <3>2
  <2> QED
    BY <2>2, <2>3, Zenon
<1> QED
  BY <1>3, <1>4, <1>5, StreamSteps, Zenon

\* What a step does to turn u: the user's text, its XADD, recall(), or nothing that
\* concerns its history.
LEMMA TurnSteps ==
  ASSUME TypeInv, [Next]_vars, NEW u \in Turns
  PROVE  \/ /\ turn[u].pc = "free" /\ turn'[u].pc = "xadd" /\ turn'[u].h \in Handles
            /\ turn'[u].own = turn[u].own /\ turn'[u].history = turn[u].history
         \/ /\ turn[u].pc = "xadd" /\ turn'[u].pc = "expire" /\ turn'[u].h = turn[u].h
            /\ turn'[u].own \in {turn[u].own, last'[turn[u].h]}
            /\ turn'[u].history = turn[u].history
         \/ /\ turn[u].pc = "recall" /\ turn'[u].pc = "ask" /\ turn'[u].h = turn[u].h
            /\ turn'[u].own = turn[u].own /\ turn'[u].history = Newest(stream[turn[u].h])
            /\ UNCHANGED <<stream, last, lost>>
         \/ /\ turn'[u].h = turn[u].h /\ turn'[u].own = turn[u].own
            /\ turn'[u].history = turn[u].history
            /\ turn'[u].pc = "free" <=> turn[u].pc = "free"
            /\ turn'[u].pc = "ask" => turn[u].pc = "ask"
<1> DEFINE Other == /\ turn'[u].h = turn[u].h /\ turn'[u].own = turn[u].own
                    /\ turn'[u].history = turn[u].history
                    /\ turn'[u].pc = "free" <=> turn[u].pc = "free"
                    /\ turn'[u].pc = "ask" => turn[u].pc = "ask"
<1>a. turn \in [Turns -> Turn] /\ turn[u] \in Turn
  BY Zenon DEF TypeInv, TypeOK
<1>b. ASSUME NEW t \in Turns, NEW pc, Goto(t, pc), pc \notin {"free", "ask"}, turn[t].pc # "free"
      PROVE  Other
  BY <1>a, <1>b, Zenon DEF Goto, Turn
<1>1. ASSUME NEW t \in Turns, RememberXadd(t), t = u
      PROVE  /\ turn[u].pc = "xadd" /\ turn'[u].pc = "expire" /\ turn'[u].h = turn[u].h
             /\ turn'[u].own \in {turn[u].own, last'[turn[u].h]}
             /\ turn'[u].history = turn[u].history
  BY <1>a, <1>1, Zenon DEF RememberXadd, Turn
<1>2. ASSUME NEW t \in Turns, Recall(t), t = u
      PROVE  /\ turn[u].pc = "recall" /\ turn'[u].pc = "ask" /\ turn'[u].h = turn[u].h
             /\ turn'[u].own = turn[u].own /\ turn'[u].history = Newest(stream[turn[u].h])
             /\ UNCHANGED <<stream, last, lost>>
  BY <1>a, <1>2, Zenon DEF Recall, Recalled, Turn
<1>3. ASSUME NEW t \in Turns, NEW h \in Handles, Say(t, h), t = u
      PROVE  /\ turn[u].pc = "free" /\ turn'[u].pc = "xadd" /\ turn'[u].h \in Handles
             /\ turn'[u].own = turn[u].own /\ turn'[u].history = turn[u].history
  BY <1>a, <1>3, Zenon DEF Say, Turn
<1>4. ASSUME NEW t \in Turns, RememberXadd(t) \/ Recall(t) \/ (\E h \in Handles : Say(t, h)), t # u
      PROVE  Other
  <2>1. turn'[u] = turn[u]
    BY <1>a, <1>4, Zenon DEF RememberXadd, Recall, Say
  <2> QED
    BY <2>1, Zenon
<1>5. ASSUME NEW t \in Turns, RememberExpire(t)
      PROVE  Other
  BY <1>5, <1>b, Zenon DEF RememberExpire, AfterRemember
<1>6. ASSUME NEW t \in Turns, Answered(t)
      PROVE  Other
  BY <1>a, <1>6, Zenon DEF Answered, Turn
<1>7. ASSUME NEW t \in Turns, Fails(t) \/ LateCommand(t)
      PROVE  Other
  BY <1>7, <1>b, Zenon DEF Fails, LateCommand, Waiting, Late
<1>8. ASSUME NEW t \in Turns, SentAgain(t)
      PROVE  Other
  BY <1>8, Zenon DEF SentAgain
<1>9. CASE Tick \/ UNCHANGED vars
  BY <1>9, Zenon DEF Tick, vars
<1>10. CASE AgentEnds
  <2>1. turn'[u] = [turn[u] EXCEPT !.pc = AfterEnd(turn[u].pc)]
    BY <1>10, Zenon DEF AgentEnds
  <2>2. /\ AfterEnd(turn[u].pc) = "free" <=> turn[u].pc = "free"
        /\ AfterEnd(turn[u].pc) = "ask" => turn[u].pc = "ask"
    BY Zenon DEF AfterEnd
  <2> QED
    BY <1>a, <2>1, <2>2, Zenon DEF Turn
<1> QED
  BY <1>1, <1>2, <1>3, <1>4, <1>5, <1>6, <1>7, <1>8, <1>9, <1>10, Zenon DEF Next, Continue

\* The invariant of the two theorems below.
HistoryInv == TypeInv /\ Numbered /\ OwnAdded /\ HistoryInOrder /\ OwnTextRecalled

\* The counters of a stream only grow.
LEMMA CountersGrow ==
  ASSUME TypeInv, Numbered, [Next]_vars, NEW h \in Handles
  PROVE  last'[h] >= last[h] /\ lost'[h] >= lost[h]
<1>1. last[h] \in Nat /\ lost[h] \in Nat /\ Len(stream[h]) \in Nat
  BY DEF TypeInv, TypeOK
<1>2. last[h] >= lost[h]
  BY <1>1 DEF Numbered
<1>3. CASE Tick
  BY <1>1, <1>2, <1>3 DEF Tick
<1> QED
  BY <1>1, <1>3, StreamSteps

\* What recall() reads from a stream without a gap: consecutive numbers, which
\* include every entry that is not expired, or only newer ones.
LEMMA RecalledRight ==
  ASSUME TypeInv, Numbered, NEW h \in Handles, NEW own \in Nat, own <= last[h],
         NEW r, r = Newest(stream[h])
  PROVE  /\ \A i \in 1 .. Len(r) - 1 : r[i + 1] = r[i] + 1
         /\ \/ \E i \in DOMAIN r : r[i] = own
            \/ own <= lost[h]
            \/ Len(r) = LIMIT /\ r[1] > own
<1> USE NumbersAssumption
<1>1. stream[h] \in Seq(Nat) /\ last[h] \in Nat /\ lost[h] \in Nat
  BY Zenon DEF TypeInv, TypeOK
<1>2. /\ last[h] = lost[h] + Len(stream[h])
      /\ \A i \in 1 .. Len(stream[h]) : stream[h][i] = lost[h] + i
  BY Zenon DEF Numbered
<1>3. /\ r \in Seq(Nat) /\ Len(r) = (IF Len(stream[h]) > LIMIT THEN LIMIT ELSE Len(stream[h]))
      /\ \A i \in 1 .. Len(r) : r[i] = stream[h][Len(stream[h]) - Len(r) + i]
  BY <1>1, NewestEntries, Zenon
<1>4. PICK n \in Nat, k \in Nat : n = Len(r) /\ k = Len(stream[h]) /\ n <= k /\ (n = LIMIT \/ n = k)
  BY <1>1, <1>3
<1>5. n \in Nat /\ k \in Nat /\ n <= k /\ last[h] = lost[h] + k
  BY <1>2, <1>4, Zenon
<1>6. ASSUME NEW i \in 1 .. n
      PROVE  r[i] = last[h] - n + i
  <2>1. k - n + i \in 1 .. k /\ i \in Nat
    BY ONLY <1>5, i \in 1 .. n
  <2>2. r[i] = stream[h][k - n + i]
    BY <1>3, <1>4, Zenon
  <2>3. stream[h][k - n + i] = lost[h] + (k - n + i)
    BY <1>2, <1>4, <2>1, Zenon
  <2>4. lost[h] + (k - n + i) = last[h] - n + i
    BY ONLY <1>1, <1>5, <2>1
  <2> QED
    BY <2>2, <2>3, <2>4, Zenon
<1>7. \A i \in 1 .. n - 1 : r[i + 1] = r[i] + 1
  <2> SUFFICES ASSUME NEW i \in 1 .. n - 1 PROVE r[i + 1] = r[i] + 1
    BY Zenon
  <2>1. r[i] = last[h] - n + i
    BY <1>4, <1>6
  <2>2. i + 1 \in 1 .. n
    BY <1>4
  <2>3. r[i + 1] = last[h] - n + (i + 1)
    BY <1>6, <2>2, Zenon
  <2> QED
    <3>1. PICK a \in Nat : a = last[h] - n
      BY <1>1, <1>5
    <3>2. r[i] = a + i /\ r[i + 1] = a + (i + 1) /\ i \in Nat
      BY <2>1, <2>3, <3>1
    <3>3. a + (i + 1) = (a + i) + 1
      BY <3>2
    <3> QED
      BY ONLY <3>2, <3>3, Zenon
<1>8. CASE own > last[h] - n
  <2>1. own - (last[h] - n) \in 1 .. n
    BY <1>1, <1>4, <1>8
  <2>2. r[own - (last[h] - n)] = own
    BY <1>1, <1>4, <1>6, <2>1
  <2>3. DOMAIN r = 1 .. n
    BY <1>3, <1>4
  <2> QED
    BY <1>4, <1>7, <2>1, <2>2, <2>3, Zenon
<1>9. CASE own <= last[h] - n
  <2>1. CASE n = k
    BY <1>1, <1>2, <1>4, <1>7, <1>9, <2>1
  <2>2. CASE n = LIMIT
    <3>1. r[1] = last[h] - n + 1
      BY <1>4, <1>6, <2>2
    <3> QED
      BY <1>1, <1>4, <1>7, <1>9, <2>2, <3>1
  <2> QED
    BY <1>4, <2>1, <2>2, Zenon
<1> QED
  BY <1>1, <1>4, <1>8, <1>9

\* Each step keeps HistoryInv, turn by turn.
LEMMA HistoryStep == HistoryInv /\ [Next]_vars => HistoryInv'
<1> SUFFICES ASSUME HistoryInv, [Next]_vars PROVE HistoryInv'
  BY Zenon
<1>1. TypeInv /\ TypeInv' /\ Numbered /\ Numbered'
  BY TypeStep, NumberedStep, Zenon DEF HistoryInv
<1> DEFINE Own(t)     == IF turn[t].pc = "free" THEN turn[t].own = 0
                         ELSE turn[t].own <= last[turn[t].h]
           InOrder(t) == \A i \in 1 .. Len(turn[t].history) - 1 :
                           turn[t].history[i + 1] = turn[t].history[i] + 1
           HasOwn(t)  == turn[t].pc = "ask" =>
                           LET H == turn[t].history IN
                           \/ \E i \in DOMAIN H : H[i] = turn[t].own
                           \/ turn[t].own <= lost[turn[t].h]
                           \/ Len(H) = LIMIT /\ H[1] > turn[t].own
<1>2. ASSUME NEW u \in Turns
      PROVE  Own(u)' /\ InOrder(u)' /\ HasOwn(u)'
  <2>1. Own(u) /\ InOrder(u) /\ HasOwn(u)
    BY Zenon DEF HistoryInv, OwnAdded, HistoryInOrder, OwnTextRecalled
  <2>2. turn[u].own \in Nat /\ (turn[u].pc # "free" => turn[u].h \in Handles)
    BY <1>1, Zenon DEF TypeInv, TypeOK, OfUsers, Turn
  <2>3. /\ \A h \in Handles : last'[h] >= last[h] /\ lost'[h] >= lost[h]
        /\ \A h \in Handles : /\ last[h] \in Nat /\ last'[h] \in Nat
                              /\ lost[h] \in Nat /\ lost'[h] \in Nat
    BY <1>1, CountersGrow, Zenon DEF TypeInv, TypeOK
  <2>4. CASE /\ turn[u].pc = "free" /\ turn'[u].pc = "xadd" /\ turn'[u].h \in Handles
             /\ turn'[u].own = turn[u].own /\ turn'[u].history = turn[u].history
    BY <2>1, <2>3, <2>4
  <2>5. CASE /\ turn[u].pc = "xadd" /\ turn'[u].pc = "expire" /\ turn'[u].h = turn[u].h
             /\ turn'[u].own \in {turn[u].own, last'[turn[u].h]}
             /\ turn'[u].history = turn[u].history
    <3>1. turn[u].own <= last[turn[u].h] /\ turn[u].h \in Handles
      BY <2>1, <2>2, <2>5, Zenon
    <3>2. turn'[u].own <= last'[turn'[u].h]
      BY <2>2, <2>3, <2>5, <3>1
    <3> QED
      BY <2>1, <2>5, <3>2, Zenon
  <2>6. CASE /\ turn[u].pc = "recall" /\ turn'[u].pc = "ask" /\ turn'[u].h = turn[u].h
             /\ turn'[u].own = turn[u].own /\ turn'[u].history = Newest(stream[turn[u].h])
             /\ UNCHANGED <<stream, last, lost>>
    <3>1. turn[u].own <= last[turn[u].h] /\ turn[u].h \in Handles
      BY <2>1, <2>2, <2>6, Zenon
    <3>2. Own(u)'
      BY <2>6, <3>1, Zenon
    <3>3. PICK r : r = Newest(stream[turn[u].h])
      BY Zenon
    <3>4. /\ \A i \in 1 .. Len(r) - 1 : r[i + 1] = r[i] + 1
          /\ \/ \E i \in DOMAIN r : r[i] = turn[u].own
             \/ turn[u].own <= lost[turn[u].h]
             \/ Len(r) = LIMIT /\ r[1] > turn[u].own
      <4>1. PICK h \in Handles, own \in Nat : h = turn[u].h /\ own = turn[u].own
        BY <2>2, <3>1, Zenon
      <4>2. own <= last[h] /\ r = Newest(stream[h])
        BY <3>1, <3>3, <4>1, Zenon
      <4>3. /\ \A i \in 1 .. Len(r) - 1 : r[i + 1] = r[i] + 1
            /\ \/ \E i \in DOMAIN r : r[i] = own
               \/ own <= lost[h]
               \/ Len(r) = LIMIT /\ r[1] > own
        BY ONLY <1>1, h \in Handles, own \in Nat, <4>2, RecalledRight, Zenon
      <4> QED
        BY <4>1, <4>3, Zenon
    <3>5. turn'[u].history = r /\ lost' = lost
      BY <2>6, <3>3, Zenon
    <3> QED
      BY <2>6, <3>2, <3>4, <3>5, Zenon
  <2>7. CASE /\ turn'[u].h = turn[u].h /\ turn'[u].own = turn[u].own
             /\ turn'[u].history = turn[u].history
             /\ turn'[u].pc = "free" <=> turn[u].pc = "free"
             /\ turn'[u].pc = "ask" => turn[u].pc = "ask"
    <3>1. Own(u)'
      BY <2>1, <2>2, <2>3, <2>7
    <3>2. InOrder(u)'
      BY <2>1, <2>7, Zenon
    <3>3. turn[u].own <= lost[turn[u].h] /\ turn[u].h \in Handles => turn[u].own <= lost'[turn[u].h]
      BY <2>2, <2>3
    <3>4. HasOwn(u)'
      BY <2>1, <2>2, <2>7, <3>3, Zenon
    <3> QED
      BY <3>1, <3>2, <3>4, Zenon
  <2> QED
    BY <1>1, <2>4, <2>5, <2>6, <2>7, TurnSteps, Zenon
<1>3. OwnAdded'
  BY <1>2, Zenon DEF OwnAdded
<1>4. HistoryInOrder'
  BY <1>2, Zenon DEF HistoryInOrder
<1>5. OwnTextRecalled'
  BY <1>2, Zenon DEF OwnTextRecalled
<1> QED
  BY <1>1, <1>3, <1>4, <1>5, Zenon DEF HistoryInv

\* HistoryInv holds in every state.
LEMMA History == Spec => []HistoryInv
<1>1. Init => HistoryInv
  <2>1. Init => TypeInv
    BY NumbersAssumption, NeverAssumption DEF Init, TypeInv, TypeOK, OfUsers, Turn
  <2>2. Init => Numbered /\ OwnAdded /\ OwnTextRecalled
    BY DEF Init, Numbered, OwnAdded, OwnTextRecalled
  <2>3. Init => HistoryInOrder
    BY DEF Init, HistoryInOrder
  <2> QED
    BY <2>1, <2>2, <2>3, Zenon DEF HistoryInv
<1> QED
  BY <1>1, HistoryStep, PTL DEF Spec

\* recall() returns consecutive entries, the oldest first, whatever commands of
\* other turns and of an earlier process come between (memory.js:21-31).
THEOREM OldestFirst == Spec => []HistoryInOrder
<1>1. HistoryInv => HistoryInOrder
  BY Zenon DEF HistoryInv
<1> QED
  BY <1>1, History, PTL

\* The history that a turn puts into its prompt contains the user's text, unless
\* it has expired or other turns have filled the history (commands.js:263-265).
THEOREM OwnText == Spec => []OwnTextRecalled
<1>1. HistoryInv => OwnTextRecalled
  BY Zenon DEF HistoryInv
<1> QED
  BY <1>1, History, PTL

-----------------------------------------------------------------------------
(* TurnsEnd and Forgotten, without their fairness *)

\* How many steps a turn at place pc still makes, at most: its two remember() are
\* two steps each, with recall() and the model's answer between them.
Steps(pc, saying) ==
  CASE pc = "free"   -> 8
    [] pc = "xadd"   -> IF saying = "text" THEN 7 ELSE 3
    [] pc = "expire" -> IF saying = "text" THEN 6 ELSE 2
    [] pc = "recall" -> 5
    [] pc = "ask"    -> 4
    [] pc \in Late   -> 1
    [] OTHER         -> 0

\* Turn t goes on, and fewer are left.
Goes(t) == Steps(turn'[t].pc, turn'[t].saying) < Steps(turn[t].pc, turn[t].saying)

\* Every step of every turn does.
StepsLeft == [][\A t \in Turns : turn'[t] # turn[t] => Goes(t)]_vars

\* The numbers, one by one.
LEMMA StepsAt ==
  /\ \A s : Steps("free", s) = 8 /\ Steps("recall", s) = 5 /\ Steps("ask", s) = 4
  /\ \A s : Steps("lateXadd", s) = 1 /\ Steps("lateExpire", s) = 1
  /\ \A s : Steps("done", s) = 0 /\ Steps("failed", s) = 0 /\ Steps("gone", s) = 0
  /\ Steps("xadd", "text") = 7 /\ Steps("expire", "text") = 6
  /\ Steps("xadd", "answer") = 3 /\ Steps("expire", "answer") = 2
  BY DEF Steps, Late

\* A turn makes at most eight steps, whatever is sent again or comes late and
\* whatever other turns add to the conversation (commands.js:263-291,
\* memory.js:15-32): no error leads back to an earlier await.
THEOREM TurnsAreBounded == Spec => StepsLeft
<1>1. ASSUME TypeInv, [Next]_vars, NEW x \in Turns, turn'[x] # turn[x]
      PROVE  Goes(x)
  <2>1. turn \in [Turns -> Turn] /\ turn[x] \in Turn /\ turn[x].saying \in {"text", "answer"}
    BY <1>1 DEF TypeInv, TypeOK, Turn
  <2>2. ASSUME NEW t \in Turns, NEW pc, Goto(t, pc)
        PROVE  t = x /\ turn'[x].pc = pc /\ turn'[x].saying = turn[x].saying
    BY <1>1, <2>1, <2>2 DEF Goto, Turn
  <2>3. ASSUME NEW t \in Turns, NEW h \in Handles, Say(t, h) PROVE Goes(x)
    <3>1. t = x /\ turn'[x].pc = "xadd" /\ turn'[x].saying = turn[x].saying /\ turn[x].pc = "free"
      BY <1>1, <2>1, <2>3 DEF Say, Turn
    <3> QED
      BY <2>1, <3>1, StepsAt DEF Goes
  <2>4. ASSUME NEW t \in Turns, RememberXadd(t) PROVE Goes(x)
    <3>1. t = x /\ turn'[x].pc = "expire" /\ turn'[x].saying = turn[x].saying /\ turn[x].pc = "xadd"
      BY <1>1, <2>1, <2>4 DEF RememberXadd, Turn
    <3> QED
      BY <2>1, <3>1, StepsAt DEF Goes
  <2>5. ASSUME NEW t \in Turns, RememberExpire(t) PROVE Goes(x)
    <3>1. /\ t = x /\ turn'[x].pc = AfterRemember(x) /\ turn'[x].saying = turn[x].saying
          /\ turn[x].pc = "expire"
      BY <2>2, <2>5 DEF RememberExpire
    <3> QED
      BY <2>1, <3>1, StepsAt DEF Goes, AfterRemember
  <2>6. ASSUME NEW t \in Turns, Recall(t) PROVE Goes(x)
    <3>1. t = x /\ turn'[x].pc = "ask" /\ turn[x].pc = "recall"
      BY <1>1, <2>1, <2>6 DEF Recall, Turn
    <3> QED
      BY <3>1, StepsAt DEF Goes
  <2>7. ASSUME NEW t \in Turns, Answered(t) PROVE Goes(x)
    <3>1. t = x /\ turn'[x].pc = "xadd" /\ turn'[x].saying = "answer" /\ turn[x].pc = "ask"
      BY <1>1, <2>1, <2>7 DEF Answered, Turn
    <3> QED
      BY <3>1, StepsAt DEF Goes
  <2>8. ASSUME NEW t \in Turns, Fails(t) PROVE Goes(x)
    <3>1. t = x /\ turn'[x].pc = "failed" /\ turn[x].pc \in Waiting
      BY <2>2, <2>8, Zenon DEF Fails
    <3> QED
      BY <2>1, <3>1, StepsAt DEF Goes, Waiting
  <2>9. ASSUME NEW t \in Turns, LateCommand(t) PROVE Goes(x)
    <3>1. t = x /\ turn'[x].pc = "gone" /\ turn[x].pc \in Late
      BY <2>2, <2>9, Zenon DEF LateCommand
    <3> QED
      BY <3>1, StepsAt DEF Goes, Late
  <2>10. CASE AgentEnds
    <3>1. /\ turn'[x] = [turn[x] EXCEPT !.pc = AfterEnd(turn[x].pc)]
          /\ turn'[x].pc = AfterEnd(turn[x].pc) /\ turn'[x].saying = turn[x].saying
      BY <2>1, <2>10, Zenon DEF AgentEnds, Turn
    <3>2. AfterEnd(turn[x].pc) # turn[x].pc
      BY <1>1, <2>1, <3>1 DEF Turn
    <3>3. turn[x].pc \in Waiting
      BY <3>2, Zenon DEF AfterEnd, Waiting
    <3>4. turn'[x].pc = AfterEnd(turn[x].pc) /\ turn'[x].pc \in Late \cup {"gone"}
      BY <3>1, <3>3, Zenon DEF AfterEnd, Waiting, Late
    <3> QED
      BY <2>1, <3>3, <3>4, StepsAt DEF Goes, Waiting, Late
  <2>11. turn' # turn
    BY <1>1, Zenon
  <2>12. CASE \E t \in Turns : Continue(t)
    BY <2>4, <2>5, <2>6, <2>7, <2>8, <2>9, <2>12, Zenon DEF Continue
  <2> QED
    BY <1>1, <2>3, <2>10, <2>11, <2>12, Zenon DEF Next, Tick, SentAgain, vars
<1>2. TypeInv /\ [Next]_vars => [\A t \in Turns : turn'[t] # turn[t] => Goes(t)]_vars
  BY <1>1, Zenon
<1> QED
  BY <1>2, Types, PTL DEF Spec, StepsLeft

\* No turn of user h is under way.
Silent(h) == \A t \in Turns : turn[t].h = h => turn[t].pc \in Ended

\* While user h says nothing, the clock brings the end of the conversation nearer:
\* at most TTL ticks are left, each leaves one less, and the last removes it.
Fades ==
  [][\A h \in Handles : Silent(h) /\ h \notin cut /\ stream[h] # <<>> =>
       /\ ttl[h] \in 1..TTL
       /\ Tick => IF ttl[h] = 1 THEN stream'[h] = <<>> ELSE ttl'[h] = ttl[h] - 1]_vars

\* Once the turns of a user have ended, nothing but the clock is needed to forget
\* the conversation (memory.js:17-18), whatever others do and whatever was sent
\* again or late, unless its last EXPIRE never came.
THEOREM SilentFade == Spec => Fades
<1>1. ASSUME TypeInv, ExpiryUnlessCut, NEW h \in Handles, Silent(h), h \notin cut, stream[h] # <<>>
      PROVE  /\ ttl[h] \in 1..TTL
             /\ Tick => IF ttl[h] = 1 THEN stream'[h] = <<>> ELSE ttl'[h] = ttl[h] - 1
  <2>1. ttl[h] \in 1..TTL \cup {Never}
    BY <1>1, Zenon DEF TypeInv, TypeOK
  <2>2. ASSUME NEW t \in Turns, turn[t].h = h PROVE turn[t].pc \notin {"xadd", "expire"} \cup Late
    BY <1>1, <2>2, Zenon DEF Silent, Ended, Late
  <2>3. ttl[h] # Never
    BY <1>1, <2>2, Zenon DEF ExpiryUnlessCut
  <2>4. Tick => IF ttl[h] = 1 THEN stream'[h] = <<>> ELSE ttl'[h] = ttl[h] - 1
    BY <1>1, <2>3, Zenon DEF Tick, Due
  <2> QED
    BY <2>1, <2>3, <2>4, Zenon
<1>2. TypeInv /\ ExpiryUnlessCut =>
        [\A h \in Handles : Silent(h) /\ h \notin cut /\ stream[h] # <<>> =>
           /\ ttl[h] \in 1..TTL
           /\ Tick => IF ttl[h] = 1 THEN stream'[h] = <<>> ELSE ttl'[h] = ttl[h] - 1]_vars
  BY <1>1, Zenon
<1> QED
  BY <1>2, Types, NoneForEver, PTL DEF Spec, Fades
=============================================================================
