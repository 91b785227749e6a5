-------------------------- MODULE ConversationMemory --------------------------
(***************************************************************************)
(* The agent's memory of conversations: remember() and recall() of         *)
(* memory.js over one Redis stream per user, as dispatchAI() of            *)
(* commands.js uses them.                                                  *)
(*                                                                         *)
(* A turn is one run of dispatchAI() that reaches the language model: it   *)
(* remembers the text, recalls the history, asks, and remembers the        *)
(* answer.  remember() is two Redis commands, XADD and EXPIRE; between     *)
(* them, as at every await, other turns of the same user run, time         *)
(* passes, and the turn or the process may end.                            *)
(***************************************************************************)
EXTENDS Naturals, Sequences

CONSTANTS
  Turns,       \* runs of dispatchAI
  Handles,     \* users
  TTL,         \* MEMORY_TTL, in ticks
  LIMIT,       \* entries recall() asks for
  MaxResends,  \* bound on commands that are sent again
  Never,       \* a key without an expiry
  None         \* no user

ASSUME NumbersAssumption == TTL \in Nat \ {0} /\ LIMIT \in Nat \ {0} /\ MaxResends \in Nat
ASSUME NeverAssumption   == Never \notin Nat /\ None \notin Handles

VARIABLES
  turn,        \* [Turns -> Turn]
  stream,      \* handle -> entries of memory:<handle>, by number; empty: no key
  ttl,         \* handle -> ticks until the key expires, or Never
  resends,     \* commands sent again so far
  last,        \* handle -> number of the last entry ever added
  lost,        \* handle -> number of the last entry that expired
  cut          \* handles with a key whose EXPIRE did not come

vars == <<turn, stream, ttl, resends, last, lost, cut>>

Waiting == {"xadd", "expire", "recall", "ask"}
Late    == {"lateXadd", "lateExpire"}
Ended   == {"done", "failed", "gone"}
Turn    == [h: Handles \cup {None}, pc: {"free"} \cup Waiting \cup Late \cup Ended,
            saying: {"text", "answer"}, own: Nat, history: Seq(Nat)]

\* A text that is no command and asks for neither price nor portfolio.
Say(t, h) ==
  /\ turn[t].pc = "free"
  /\ turn' = [turn EXCEPT ![t].h = h, ![t].pc = "xadd"]
  /\ UNCHANGED <<stream, ttl, resends, last, lost, cut>>

Goto(t, pc) == turn' = [turn EXCEPT ![t].pc = pc]

-----------------------------------------------------------------------------
(* What Redis does *)

XADD(h) ==
  /\ last' = [last EXCEPT ![h] = @ + 1]
  /\ stream' = [stream EXCEPT ![h] = Append(@, last[h] + 1)]

\* EXPIRE of a key that is not there does nothing.
EXPIRE(h) ==
  IF stream[h] = <<>> THEN UNCHANGED <<ttl, cut>>
  ELSE /\ ttl' = [ttl EXCEPT ![h] = TTL]
       /\ cut' = cut \ {h}

\* Nothing more comes for key h: it stays as it is, perhaps without an expiry.
Abandon(h) == cut' = IF stream'[h] # <<>> /\ ttl[h] = Never THEN cut \cup {h} ELSE cut

Due(h) == ttl[h] = 1

\* The clock; the keys whose time is up are gone.
Tick ==
  /\ \E h \in Handles : ttl[h] # Never
  /\ stream' = [h \in Handles |-> IF Due(h) THEN <<>> ELSE stream[h]]
  /\ lost' = [h \in Handles |-> IF Due(h) THEN last[h] ELSE lost[h]]
  /\ ttl' = [h \in Handles |-> IF ttl[h] = Never \/ Due(h) THEN Never ELSE ttl[h] - 1]
  /\ UNCHANGED <<turn, resends, last, cut>>

-----------------------------------------------------------------------------
(* remember() *)

RememberXadd(t) ==
  /\ turn[t].pc = "xadd"
  /\ XADD(turn[t].h)
  /\ turn' = [turn EXCEPT ![t].pc = "expire",
                          ![t].own = IF turn[t].saying = "text" THEN last'[turn[t].h] ELSE @]
  /\ UNCHANGED <<ttl, resends, lost, cut>>

AfterRemember(t) == IF turn[t].saying = "text" THEN "recall" ELSE "done"

\* Faulty: only what the user said gets an expiry.
RememberExpireText(t) ==
  /\ turn[t].pc = "expire"
  /\ IF turn[t].saying = "text" THEN EXPIRE(turn[t].h) ELSE UNCHANGED <<ttl, cut>>
  /\ Goto(t, AfterRemember(t))
  /\ UNCHANGED <<stream, resends, last, lost>>

RememberExpire(t) ==
  /\ turn[t].pc = "expire"
  /\ EXPIRE(turn[t].h)
  /\ Goto(t, AfterRemember(t))
  /\ UNCHANGED <<stream, resends, last, lost>>

\* The connection breaks between a command and its reply; ioredis connects
\* again and sends the command again, an XADD of the same text for one.
SentAgain(t) ==
  /\ resends < MaxResends
  /\ resends' = resends + 1
  /\ \/ turn[t].pc = "xadd" /\ XADD(turn[t].h) /\ UNCHANGED <<ttl, cut>>
     \/ turn[t].pc = "expire" /\ EXPIRE(turn[t].h) /\ UNCHANGED <<stream, last>>
  /\ UNCHANGED <<turn, lost>>

-----------------------------------------------------------------------------
(* recall(), the answer of the model, errors *)

Newest(s) == SubSeq(s, IF Len(s) > LIMIT THEN Len(s) - LIMIT + 1 ELSE 1, Len(s))

\* Faulty: as XREVRANGE has it, the newest entry first.
RecalledAsRead(s) == LET r == Newest(s) IN [i \in 1..Len(r) |-> r[Len(r) + 1 - i]]

\* Faulty: XRANGE, the oldest entries.
RecalledOldest(s) == SubSeq(s, 1, IF Len(s) > LIMIT THEN LIMIT ELSE Len(s))

\* XREVRANGE + - COUNT limit, and reverse().
Recalled(s) == Newest(s)

Recall(t) ==
  /\ turn[t].pc = "recall"
  /\ turn' = [turn EXCEPT ![t].pc = "ask", ![t].history = Recalled(stream[turn[t].h])]
  /\ UNCHANGED <<stream, ttl, resends, last, lost, cut>>

\* Price, portfolio and the model have answered; the answer is sent and remembered.
Answered(t) ==
  /\ turn[t].pc = "ask"
  /\ turn' = [turn EXCEPT ![t].pc = "xadd", ![t].saying = "answer"]
  /\ UNCHANGED <<stream, ttl, resends, last, lost, cut>>

\* Faulty: when the model does not answer, the history is read again.
FailsRetries(t) ==
  /\ turn[t].pc = "ask"
  /\ Goto(t, "recall")
  /\ UNCHANGED <<stream, ttl, resends, last, lost, cut>>

\* An await rejects: the turn apologises and ends.
Fails(t) ==
  /\ turn[t].pc \in Waiting
  /\ Goto(t, "failed")
  /\ UNCHANGED <<stream, ttl, resends, last, lost>>
  /\ IF turn[t].pc \in {"xadd", "expire"} THEN Abandon(turn[t].h) ELSE UNCHANGED cut

\* The process ends.  A command on the wire is executed later, or lost.
AfterEnd(pc) ==
  CASE pc = "xadd" -> "lateXadd" [] pc = "expire" -> "lateExpire" [] pc \in {"recall", "ask"} -> "gone" [] OTHER -> pc

AgentEnds ==
  /\ turn' = [t \in Turns |-> [turn[t] EXCEPT !.pc = AfterEnd(@)]]
  /\ UNCHANGED <<stream, ttl, resends, last, lost, cut>>

LateCommand(t) ==
  LET h == turn[t].h IN
  /\ turn[t].pc \in Late
  /\ Goto(t, "gone")
  /\ \/ turn[t].pc = "lateXadd" /\ XADD(h) /\ Abandon(h) /\ UNCHANGED ttl
     \/ turn[t].pc = "lateExpire" /\ EXPIRE(h) /\ UNCHANGED <<stream, last>>
     \/ UNCHANGED <<stream, ttl, last>> /\ Abandon(h)
  /\ UNCHANGED <<resends, lost>>

-----------------------------------------------------------------------------
Init ==
  /\ turn = [t \in Turns |-> [h |-> None, pc |-> "free", saying |-> "text", own |-> 0, history |-> <<>>]]
  /\ stream = [h \in Handles |-> <<>>]
  /\ ttl = [h \in Handles |-> Never]
  /\ last = [h \in Handles |-> 0] /\ lost = [h \in Handles |-> 0]
  /\ resends = 0 /\ cut = {}

Continue(t) == RememberXadd(t) \/ RememberExpire(t) \/ Recall(t) \/ Answered(t) \/ Fails(t) \/ LateCommand(t)

Next ==
  \/ Tick \/ AgentEnds
  \/ \E t \in Turns : Continue(t) \/ SentAgain(t) \/ \E h \in Handles : Say(t, h)

Spec == Init /\ [][Next]_vars

\* Time passes, and every await of a turn ends, by an answer or an error.
FairSpec == Spec /\ WF_vars(Tick) /\ \A t \in Turns : WF_vars(Continue(t))

-----------------------------------------------------------------------------
(* Properties *)

\* Type invariant; recall() returns no more than was asked for, and Redis keeps
\* an expiry only for a key that is there.
TypeOK ==
  /\ turn \in [Turns -> Turn]
  /\ stream \in [Handles -> Seq(Nat)]
  /\ ttl \in [Handles -> 1..TTL \cup {Never}]
  /\ last \in [Handles -> Nat] /\ lost \in [Handles -> Nat] /\ resends \in 0..MaxResends
  /\ cut \subseteq Handles
  /\ \A t \in Turns : Len(turn[t].history) <= LIMIT
  /\ \A h \in Handles : ttl[h] # Never => stream[h] # <<>>

\* No conversation is kept for ever by accident (memory.js:17-18, two commands): a
\* stream has an expiry, or a remember() is under way that will set it, or one
\* that created the stream was stopped before its EXPIRE.
ExpiryUnlessCut ==
  \A h \in Handles : stream[h] # <<>> /\ ttl[h] = Never =>
    h \in cut \/ \E t \in Turns : turn[t].h = h /\ turn[t].pc \in {"xadd", "expire"} \cup Late

\* The prompt has the conversation in order: what recall() returns is a run of
\* consecutive entries, the oldest first, whatever other turns, repeated commands
\* and late commands of an earlier process have added in between.
HistoryInOrder ==
  \A t \in Turns : \A i \in 1 .. Len(turn[t].history) - 1 :
    turn[t].history[i + 1] = turn[t].history[i] + 1

\* The history of a turn contains the user's text itself (which was remembered
\* before), unless it has expired in between or other turns of the user have
\* added as many entries as recall() returns.
OwnTextRecalled ==
  \A t \in Turns : turn[t].pc = "ask" =>
    LET H == turn[t].history IN
    \/ \E i \in DOMAIN H : H[i] = turn[t].own
    \/ turn[t].own <= lost[turn[t].h]
    \/ Len(H) = LIMIT /\ H[1] > turn[t].own

\* Every turn ends, for good, with an answer or an apology, or with the process.
TurnsEnd == <>[](\A t \in Turns : turn[t].pc \in Ended \cup {"free"})

\* When a user says nothing more, the conversation is forgotten, unless its last
\* EXPIRE never came (README.md:368, "with automatic TTL").
Forgotten == \A h \in Handles : <>[](stream[h] = <<>> \/ h \in cut)
=============================================================================
