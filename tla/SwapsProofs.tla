----------------------------- MODULE SwapsProofs -----------------------------
(***************************************************************************)
(* For any number of calls, attempts, amounts and any percentage: the      *)
(* invariants of Swaps, and that a call can take a bounded number of steps *)
(* only.                                                                   *)
(***************************************************************************)
EXTENDS Swaps, FiniteSetTheorems, TLAPS

-----------------------------------------------------------------------------
(* Sums of amounts *)

\* The function by which MapThenFoldSet adds up a set, element by element.
Unfolds(S, f) ==
  f = [s \in SUBSET S |-> IF s = {} THEN 0
                          ELSE (CHOOSE x \in s : TRUE).amount + f[s \ {CHOOSE x \in s : TRUE}]]

\* It exists for a set of at most two elements.
LEMMA SumUnfolds ==
  ASSUME NEW a, NEW b, NEW S, S \subseteq {a, b}
  PROVE  \E f : Amounts(S) = f[S] /\ Unfolds(S, f)
<1> DEFINE ch(s)  == CHOOSE x \in s : TRUE
           Fn(f)  == [s \in SUBSET S |-> IF s = {} THEN 0 ELSE ch(s).amount + f[s \ {ch(s)}]]
           iter   == CHOOSE f : f = Fn(f)
           one(s) == IF s = {} THEN 0 ELSE ch(s).amount + 0
           two(s) == IF s = {} THEN 0 ELSE ch(s).amount + one(s \ {ch(s)})
           g      == [s \in SUBSET S |-> two(s)]
<1>1. Amounts(S) = iter[S]
  BY DEF Amounts, MapThenSumSet, MapThenFoldSet
<1>2. ASSUME NEW s \in SUBSET S, s # {} PROVE ch(s) \in s
  BY <1>2, Zenon
<1>3. ASSUME NEW s \in SUBSET S, s # {}
      PROVE  two(s \ {ch(s)}) = one(s \ {ch(s)})
  <2> DEFINE r == s \ {ch(s)}
  <2>1. CASE r = {}
    BY <2>1, Zenon
  <2>2. CASE r # {}
    <3>1. ch(r) \in r /\ ch(s) \in s /\ r \subseteq s
      BY <2>2, <1>2, <1>3
    <3>2. r \ {ch(r)} = {}
      <4> HIDE DEF ch
      <4> QED
        BY <3>1, <1>3
    <3>3. two(r) = one(r)
      <4> HIDE DEF r, ch
      <4> QED
        BY <3>2
    <3> QED
      BY <3>3, Zenon
  <2> QED
    BY <2>1, <2>2
<1>4. g = Fn(g)
  <2> DEFINE value(s) == IF s = {} THEN 0 ELSE ch(s).amount + g[s \ {ch(s)}]
  <2>1. ASSUME NEW s \in SUBSET S PROVE two(s) = value(s)
    <3>1. g[s \ {ch(s)}] = two(s \ {ch(s)})
      <4> HIDE DEF two, ch
      <4> QED
        OBVIOUS
    <3>2. two(s) = IF s = {} THEN 0 ELSE ch(s).amount + one(s \ {ch(s)})
      OBVIOUS
    <3> HIDE DEF g, two, one, ch
    <3> QED
      BY <3>1, <3>2, <1>3, Zenon
  <2>2. [s \in SUBSET S |-> two(s)] = [s \in SUBSET S |-> value(s)]
    <3> HIDE DEF two, value
    <3> QED
      BY <2>1, Zenon
  <2> QED
    BY <2>2, Zenon
<1>5. iter = Fn(iter)
  <2> HIDE DEF g, Fn
  <2> QED
    BY <1>4, Zenon
<1>6. Unfolds(S, iter)
  BY <1>5, Zenon DEF Unfolds
<1> QED
  <2> HIDE DEF iter
  <2> QED
    BY <1>1, <1>6, Zenon

\* So that the sum of two amounts is their sum.
LEMMA SumOfTwo ==
  ASSUME NEW a, NEW b, a.amount \in Nat, b.amount \in Nat
  PROVE  /\ Amounts({}) = 0
         /\ Amounts({a}) = a.amount
         /\ a # b => Amounts({a, b}) = a.amount + b.amount
<1> DEFINE ch(s) == CHOOSE x \in s : TRUE
<1>1. ASSUME NEW S, S \subseteq {a, b}
      PROVE  \E f : /\ Amounts(S) = f[S] /\ f[{}] = 0
                    /\ \A s \in SUBSET S : s # {} => f[s] = ch(s).amount + f[s \ {ch(s)}]
  <2>1. PICK f : Amounts(S) = f[S] /\ Unfolds(S, f)
    BY <1>1, SumUnfolds, Zenon
  <2>2. \A s \in SUBSET S : f[s] = IF s = {} THEN 0 ELSE ch(s).amount + f[s \ {ch(s)}]
    <3>1. f = [s \in SUBSET S |-> IF s = {} THEN 0 ELSE ch(s).amount + f[s \ {ch(s)}]]
      BY <2>1, Zenon DEF Unfolds
    <3> HIDE DEF ch
    <3> QED
      BY <3>1, Zenon
  <2>3. f[{}] = 0
    BY <2>2, Zenon
  <2> HIDE DEF ch
  <2> QED
    BY <2>1, <2>2, <2>3, Zenon
<1>5. \A s : s # {} => ch(s) \in s
  BY Zenon
<1>6. \A t : ch({t}) = t /\ {t} \ {t} = {}
  <2> HIDE DEF ch
  <2>1. \A t : {t} # {} /\ {t} \ {t} = {}
    OBVIOUS
  <2> QED
    BY <1>5, <2>1
<1> HIDE DEF ch
<1>2. Amounts({}) = 0
  BY <1>1, Zenon
<1>3. ASSUME NEW t \in {a, b} PROVE Amounts({t}) = t.amount
  <2>1. PICK f : /\ Amounts({t}) = f[{t}] /\ f[{}] = 0
                 /\ \A s \in SUBSET {t} : s # {} => f[s] = ch(s).amount + f[s \ {ch(s)}]
    BY <1>1, Zenon
  <2>2. f[{t}] = t.amount + f[{}]
    BY <2>1, <1>6, Zenon
  <2> QED
    BY <2>1, <2>2
<1>4. ASSUME a # b PROVE Amounts({a, b}) = a.amount + b.amount
  <2>1. PICK f : /\ Amounts({a, b}) = f[{a, b}] /\ f[{}] = 0
                 /\ \A s \in SUBSET {a, b} : s # {} => f[s] = ch(s).amount + f[s \ {ch(s)}]
    BY <1>1, Zenon
  <2>2. ASSUME NEW t \in {a, b} PROVE f[{t}] = t.amount
    <3>1. f[{t}] = t.amount + f[{}]
      BY <2>1, <1>6, Zenon
    <3> QED
      BY <2>1, <3>1
  <2>3. f[{a, b}] = ch({a, b}).amount + f[{a, b} \ {ch({a, b})}] /\ ch({a, b}) \in {a, b}
    BY <2>1, <1>5, Zenon
  <2>4. CASE ch({a, b}) = a
    <3>1. {a, b} \ {a} = {b}
      BY <1>4, Zenon
    <3>2. f[{b}] = b.amount /\ f[{a, b}] = a.amount + f[{b}]
      BY <2>2, <2>3, <2>4, <3>1, Zenon
    <3> QED
      BY <2>1, <3>2
  <2>5. CASE ch({a, b}) = b
    <3>1. {a, b} \ {b} = {a}
      BY <1>4, Zenon
    <3>2. f[{a}] = a.amount /\ f[{a, b}] = b.amount + f[{a}]
      BY <2>2, <2>3, <2>5, <3>1, Zenon
    <3> QED
      BY <2>1, <3>2
  <2> QED
    BY <2>3, <2>4, <2>5
<1> QED
  BY <1>2, <1>3, <1>4

-----------------------------------------------------------------------------
(* Calls and transactions *)

\* burnAndDev splits an amount into two natural numbers.
LEMMA PartType ==
  ASSUME NEW leg \in Legs, NEW lamports \in Nat
  PROVE  Part(leg, lamports) \in Nat
<1>1. PICK x : x = lamports * PCT
  OBVIOUS
<1>2. x \in Nat /\ x <= lamports * 100
  BY <1>1, PctAssumption
<1>3. x \div 100 \in Nat /\ x \div 100 <= lamports
  BY <1>2
<1> QED
  BY <1>1, <1>3 DEF Part, Legs

\* The transaction of a call is one, with the call's own leg and amount; only a
\* swap's carries the number of the attempt.
LEMMA CurrentTxType ==
  ASSUME TypeOK, NEW c \in Calls
  PROVE  /\ CurrentTx(c) \in Tx
         /\ CurrentTx(c).call = c /\ CurrentTx(c).leg = call[c].leg
         /\ CurrentTx(c).leg # "swap" => CurrentTx(c).n = 0
         /\ CurrentTx(c).amount = Part(call[c].leg, call[c].lamports)
<1>1. call[c] \in Call
  BY DEF TypeOK
<1>2. call[c].leg \in Legs /\ call[c].lamports \in Nat /\ call[c].n \in 0..ATTEMPTS - 1
  <2>1. call[c].leg \in Legs /\ call[c].lamports \in Lamports \cup {0} /\ call[c].n \in 0..ATTEMPTS - 1
    BY <1>1 DEF Call
  <2>2. \A x \in Lamports \cup {0} : x \in Nat
    BY LamportsAssumption
  <2>3. call[c].lamports \in Nat
    BY <2>1, <2>2, Zenon
  <2> QED
    BY <2>1, <2>3, Zenon
<1>3. Part(call[c].leg, call[c].lamports) \in Nat
  BY <1>2, PartType
<1>4. 0 \in 0..ATTEMPTS - 1
  BY AttemptsAssumption
<1> QED
  BY <1>2, <1>3, <1>4 DEF CurrentTx, Tx

\* What every step keeps of a call: once it has started, its amount and whether it
\* is a swap; its leg becomes "dev" only when the burn is confirmed, and it
\* succeeds only when its last transaction is.
Kept(c) ==
  /\ call'[c] \in Call
  /\ call[c].pc # "idle" => call'[c].pc # "idle" /\ call'[c].lamports = call[c].lamports
  /\ call'[c].leg = "dev" => call[c].leg = "dev" \/ (call[c].leg = "burn" /\ Confirms(c))
  /\ call[c].pc # "idle" \/ call'[c].leg = "swap" => (call[c].leg = "swap" <=> call'[c].leg = "swap")
  /\ call'[c].leg = "swap" => call'[c].lamports = call[c].lamports
  /\ call'[c].pc = "ok" => \/ call[c].pc = "ok" /\ call'[c] = call[c]
                           \/ /\ call[c].pc = "confirm" /\ call[c].leg # "burn" /\ Confirms(c)
                              /\ call'[c].leg = call[c].leg /\ call'[c].n = call[c].n

\* Every step of Next keeps that of every call.
LEMMA CallsKept ==
  ASSUME TypeOK, [Next]_vars
  PROVE  /\ call' \in [Calls -> Call]
         /\ \A c \in Calls : Kept(c)
<1> USE AttemptsAssumption
<1>1. call \in [Calls -> Call] /\ 0 \in 0..ATTEMPTS - 1
  BY DEF TypeOK
<1>2. ASSUME NEW d \in Calls, Start(d)
      PROVE  call' \in [Calls -> Call] /\ \A c \in Calls : Kept(c)
  BY <1>1, <1>2 DEF Start, executeSwap, burnAndDev, Call, States, Legs, Kept
<1>3. ASSUME NEW d \in Calls, Prepare(d)
      PROVE  call' \in [Calls -> Call] /\ \A c \in Calls : Kept(c)
  BY <1>1, <1>3 DEF Prepare, Goto, Call, States, Kept
<1>4. ASSUME NEW d \in Calls, Send(d)
      PROVE  call' \in [Calls -> Call] /\ \A c \in Calls : Kept(c)
  BY <1>1, <1>4 DEF Send, Goto, Call, States, Kept
<1>5. ASSUME NEW d \in Calls, Confirm(d)
      PROVE  call' \in [Calls -> Call] /\ \A c \in Calls : Kept(c)
  BY <1>1, <1>5 DEF Confirm, Goto, Call, States, Legs, Kept
<1>6. ASSUME NEW d \in Calls, AttemptFails(d)
      PROVE  call' \in [Calls -> Call] /\ \A c \in Calls : Kept(c)
  BY <1>1, <1>6 DEF AttemptFails, Goto, Call, States, Kept
<1>7. ASSUME NEW d \in Calls, Resume(d)
      PROVE  call' \in [Calls -> Call] /\ \A c \in Calls : Kept(c)
  BY <1>1, <1>7 DEF Resume, Retry, Goto, Call, States, Kept
<1>8. ASSUME NEW d \in Calls, Published(d)
      PROVE  call' \in [Calls -> Call] /\ \A c \in Calls : Kept(c)
  BY <1>1, <1>8 DEF Published, Rethrow, Goto, Call, States, Kept
<1>9. CASE Crash
  BY <1>1, <1>9 DEF Crash, Call, States, Kept
<1>10. ASSUME UNCHANGED call
       PROVE  call' \in [Calls -> Call] /\ \A c \in Calls : Kept(c)
  BY <1>1, <1>10 DEF Kept
<1> QED
  BY <1>2, <1>3, <1>4, <1>5, <1>6, <1>7, <1>8, <1>9, <1>10
  DEF Next, Step, Land, Expire, vars

Sent == inflight \cup landed \cup expired

\* What a step does to the transactions: nothing leaves the chain, and only the
\* current transaction of a call that has started is new.
LEMMA SentKept ==
  ASSUME TypeOK, [Next]_vars
  PROVE  /\ landed \subseteq landed' /\ landed' \subseteq Sent'
         /\ \A t \in Sent' : t \in Sent \/ \E c \in Calls : call[c].pc = "try" /\ t = CurrentTx(c)
<1>1. ASSUME NEW c \in Calls, Send(c)
      PROVE  /\ landed \subseteq landed'
             /\ \A t \in Sent' : t \in Sent \/ (call[c].pc = "try" /\ t = CurrentTx(c))
  BY <1>1 DEF Send, Sent
<1>2. ASSUME NEW t \in inflight, Land(t) \/ Expire(t)
      PROVE  landed \subseteq landed' /\ Sent' \subseteq Sent
  BY <1>2 DEF Land, Expire, Sent
<1>3. ASSUME UNCHANGED <<inflight, landed, expired>>
      PROVE  landed \subseteq landed' /\ Sent' \subseteq Sent
  BY <1>3 DEF Sent
<1>4. landed' \subseteq Sent'
  BY DEF Sent
<1>5. CASE \E c \in Calls : Send(c)
  BY <1>1, <1>4, <1>5
<1>6. CASE \E t \in inflight : Land(t) \/ Expire(t)
  BY <1>2, <1>4, <1>6
<1>7. CASE UNCHANGED <<inflight, landed, expired>>
  BY <1>3, <1>4, <1>7
<1> QED
  BY <1>5, <1>6, <1>7, Zenon
  DEF Next, Start, executeSwap, burnAndDev, Step, Prepare, Confirm, AttemptFails, Resume,
      Published, Crash, vars

Burnt(c) == \E s \in landed : s.call = c /\ s.leg = "burn"

\* The inductive invariant: a transaction belongs to a call that has started and
\* has the amount of that call; all transactions of a transfer are the same one;
\* neither a call nor a transaction is about the dev wallet before the burn has
\* landed; a swap makes no transfers; and a call that returned has its last
\* transaction on the chain.
IInv ==
  /\ \A t \in Sent :
       /\ call[t.call].pc # "idle"
       /\ t.amount = Part(t.leg, call[t.call].lamports)
       /\ t.leg # "swap" => t.n = 0
       /\ t.leg = "dev" => Burnt(t.call)
       /\ t.leg = "swap" <=> call[t.call].leg = "swap"
  /\ \A c \in Calls :
       /\ call[c].leg = "dev" => Burnt(c)
       /\ call[c].leg = "swap" => call[c].lamports = 0
       /\ call[c].pc = "ok" => call[c].leg # "burn" /\ CurrentTx(c) \in landed

\* Both invariants are inductive.
LEMMA Inductive == Spec => [](TypeOK /\ IInv)
<1>1. Init => TypeOK /\ IInv
  <2> SUFFICES ASSUME Init PROVE TypeOK /\ IInv
    OBVIOUS
  <2>1. [pc |-> "idle", leg |-> "swap", n |-> 0, lamports |-> 0] \in Call
    BY AttemptsAssumption DEF Call, States, Legs
  <2>2. TypeOK
    BY <2>1 DEF Init, TypeOK
  <2>3. IInv
    BY DEF Init, IInv, Sent
  <2> QED
    BY <2>2, <2>3
<1>2. TypeOK /\ IInv /\ [Next]_vars => TypeOK' /\ IInv'
  <2> SUFFICES ASSUME TypeOK, IInv, [Next]_vars PROVE TypeOK' /\ IInv'
    OBVIOUS
  <2>1. /\ call' \in [Calls -> Call] /\ \A c \in Calls : Kept(c)
        /\ landed \subseteq landed' /\ landed' \subseteq Sent'
    BY CallsKept, SentKept
  <2>2. \A t \in Sent' : t \in Sent \/ \E c \in Calls : call[c].pc = "try" /\ t = CurrentTx(c)
    BY SentKept
  <2>3. Sent' \subseteq Tx
    BY <2>2, CurrentTxType DEF TypeOK, Sent
  <2>4. TypeOK'
    BY <2>1, <2>3 DEF TypeOK, Sent
  <2>5. ASSUME NEW c, Burnt(c) PROVE Burnt(c)'
    BY <2>1, <2>5 DEF Burnt
  <2>6. ASSUME NEW c \in Calls, call'[c].leg = "dev" PROVE Burnt(c)'
    <3>1. CASE call[c].leg = "dev"
      BY <3>1, <2>5 DEF IInv
    <3>2. CASE call[c].leg = "burn" /\ Confirms(c)
      <4>1. CurrentTx(c) \in landed /\ CurrentTx(c).call = c /\ CurrentTx(c).leg = "burn"
        BY <3>2, CurrentTxType DEF Confirms
      <4> QED
        BY <4>1, <2>5 DEF Burnt
    <3> QED
      BY <2>1, <2>6, <3>1, <3>2 DEF Kept
  <2>7. ASSUME NEW t \in Sent'
        PROVE  /\ call'[t.call].pc # "idle"
               /\ t.amount = Part(t.leg, call'[t.call].lamports)
               /\ t.leg # "swap" => t.n = 0
               /\ t.leg = "dev" => Burnt(t.call)'
               /\ t.leg = "swap" <=> call'[t.call].leg = "swap"
    <3>0. t.call \in Calls
      BY <2>3 DEF Tx
    <3>1. CASE t \in Sent
      BY <2>1, <2>5, <3>0, <3>1 DEF IInv, Kept
    <3>2. ASSUME NEW c \in Calls, call[c].pc = "try", t = CurrentTx(c)
          PROVE  /\ call'[t.call].pc # "idle"
                 /\ t.amount = Part(t.leg, call'[t.call].lamports)
                 /\ t.leg # "swap" => t.n = 0
                 /\ t.leg = "dev" => Burnt(t.call)'
                 /\ t.leg = "swap" <=> call'[t.call].leg = "swap"
      <4>1. /\ t.call = c /\ t.leg = call[c].leg /\ (t.leg # "swap" => t.n = 0)
            /\ t.amount = Part(call[c].leg, call[c].lamports)
        BY <3>2, CurrentTxType
      <4> QED
        BY <2>1, <2>5, <3>2, <4>1 DEF IInv, Kept
    <3> QED
      BY <2>2, <3>1, <3>2
  <2>8. ASSUME NEW c \in Calls, call'[c].leg = "swap" PROVE call'[c].lamports = 0
    BY <2>1, <2>8 DEF IInv, Kept
  <2>9. ASSUME NEW c \in Calls, call'[c].pc = "ok"
        PROVE  call'[c].leg # "burn" /\ CurrentTx(c)' \in landed'
    <3>1. call[c].leg # "burn" /\ CurrentTx(c) \in landed
      BY <2>1, <2>9 DEF IInv, Kept, Confirms
    <3>2. call'[c].leg = call[c].leg /\ call'[c].n = call[c].n /\ call'[c].lamports = call[c].lamports
      BY <2>1, <2>9 DEF Kept
    <3>3. CurrentTx(c)' = CurrentTx(c)
      BY <3>2 DEF CurrentTx
    <3> QED
      BY <2>1, <3>1, <3>2, <3>3
  <2> QED
    BY <2>4, <2>6, <2>7, <2>8, <2>9 DEF IInv
<1> QED
  BY <1>1, <1>2, PTL DEF Spec

\* The type invariant.
THEOREM TypeCorrect == Spec => []TypeOK
BY Inductive, PTL

\* A transfer moves its amount at most once (utils-solana.js:127-134).
THEOREM TransfersOnce == Spec => []TransferOnce
<1>1. TypeOK /\ IInv => TransferOnce
  <2> SUFFICES ASSUME TypeOK, IInv, NEW s \in landed, NEW t \in landed,
                      s.call = t.call, s.leg = t.leg, s.leg # "swap"
               PROVE  s = t
    BY DEF TransferOnce
  <2>1. s.n = t.n /\ s.amount = t.amount
    BY DEF IInv, Sent
  <2>2. s \in Tx /\ t \in Tx
    BY DEF TypeOK
  <2> QED
    BY <2>1, <2>2 DEF Tx
<1> QED
  BY <1>1, Inductive, PTL

\* The dev wallet is paid only after the burn has landed (utils-solana.js:156).
THEOREM BurnsFirst == Spec => []BurnBeforeDev
<1>1. IInv => BurnBeforeDev
  BY DEF IInv, BurnBeforeDev, Sent, Burnt
<1> QED
  BY <1>1, Inductive, PTL

\* A swap is executed at most ATTEMPTS times (utils-solana.js:92-96, retry.js:8-15):
\* the transactions of one call differ in the number of the attempt only.
THEOREM SwapsAreBounded == Spec => []SwapsBounded
<1>1. TypeOK /\ IInv => SwapsBounded
  <2> SUFFICES ASSUME TypeOK, IInv, NEW c \in Calls
               PROVE  Cardinality({t \in landed : t.call = c /\ t.leg = "swap"}) <= ATTEMPTS
    BY DEF SwapsBounded
  <2> DEFINE S == {t \in landed : t.call = c /\ t.leg = "swap"}
             f == [t \in S |-> t.n]
  <2>1. ASSUME NEW s \in S, NEW t \in S, s.n = t.n PROVE s = t
    <3>1. s \in Tx /\ t \in Tx
      BY DEF TypeOK
    <3>2. s.call = t.call /\ s.leg = t.leg /\ s.amount = t.amount
      BY DEF IInv, Sent
    <3> QED
      BY <2>1, <3>1, <3>2 DEF Tx
  <2>2. \A t \in S : t.n \in 0..ATTEMPTS - 1
    BY DEF TypeOK, Tx
  <2>3. f \in Injection(S, 0..ATTEMPTS - 1)
    <3> HIDE DEF S
    <3> QED
      BY <2>1, <2>2 DEF Injection, IsInjective
  <2>4. IsFiniteSet(0..ATTEMPTS - 1) /\ Cardinality(0..ATTEMPTS - 1) = ATTEMPTS
    BY AttemptsAssumption, FS_Interval
  <2> HIDE DEF S, f
  <2>5. Cardinality(S) <= Cardinality(0..ATTEMPTS - 1)
    BY <2>3, <2>4, FS_Injection, Zenon
  <2> QED
    BY <2>4, <2>5 DEF S
<1> QED
  BY <1>1, Inductive, PTL

\* burnAndDev never moves more than it was called with, and exactly that when it
\* returns; a swap that returns has been executed (utils-solana.js:148-162).
THEOREM PaysExactly == Spec => []PaidExactly
<1>1. TypeOK /\ IInv => PaidExactly
  <2> SUFFICES ASSUME TypeOK, IInv, NEW c \in Calls
               PROVE  /\ Amounts(Transfers(c)) <= call[c].lamports
                      /\ call[c].pc = "ok" => Amounts(Transfers(c)) = call[c].lamports
                      /\ call[c].pc = "ok" /\ call[c].leg = "swap" => \E t \in landed : t.call = c
    BY DEF PaidExactly
  <2> DEFINE lam == call[c].lamports
             L(leg) == {t \in landed : t.call = c /\ t.leg = leg}
  <2>1. lam \in Nat /\ call[c].leg \in Legs
    <3>1. call[c].lamports \in Lamports \cup {0} /\ call[c].leg \in Legs
      BY DEF TypeOK, Call
    <3>2. \A x \in Lamports \cup {0} : x \in Nat
      BY LamportsAssumption
    <3> QED
      BY <3>1, <3>2, Zenon
  <2>2. /\ Part("burn", lam) \in Nat /\ Part("dev", lam) \in Nat
        /\ Part("burn", lam) + Part("dev", lam) = lam
    BY <2>1, PartType DEF Part, Legs
  <2>3. ASSUME NEW leg \in {"burn", "dev"}, NEW s \in L(leg), NEW t \in L(leg)
        PROVE  s = t
    <3>1. s \in Tx /\ t \in Tx
      BY DEF TypeOK
    <3>2. s.call = t.call /\ s.leg = t.leg /\ s.amount = t.amount /\ s.n = t.n
      BY DEF IInv, Sent
    <3> QED
      BY <3>1, <3>2 DEF Tx
  <2>4. ASSUME NEW leg \in {"burn", "dev"}, NEW t \in L(leg)
        PROVE  t.amount = Part(leg, lam)
    BY DEF IInv, Sent
  <2>5. Transfers(c) = L("burn") \cup L("dev")
    BY DEF Transfers, TypeOK, Tx, Legs
  <2>6. L("dev") # {} => L("burn") # {}
    BY DEF IInv, Sent, Burnt
  <2>7. ASSUME call[c].pc = "ok"
        PROVE  /\ \/ call[c].leg = "dev" /\ L("burn") # {} /\ L("dev") # {}
                  \/ call[c].leg = "swap" /\ L("burn") = {} /\ lam = 0
               /\ \E t \in landed : t.call = c
    <3>1. /\ CurrentTx(c) \in landed /\ call[c].leg # "burn"
          /\ CurrentTx(c).call = c /\ CurrentTx(c).leg = call[c].leg
      BY <2>7, CurrentTxType DEF IInv
    <3>2. CASE call[c].leg = "dev"
      <4>1. CurrentTx(c) \in L("dev")
        BY <3>1, <3>2, Zenon
      <4> QED
        BY <3>1, <3>2, <4>1, <2>6, Zenon
    <3>3. CASE call[c].leg = "swap"
      BY <3>1, <3>3 DEF IInv, Sent
    <3> QED
      BY <2>1, <3>1, <3>2, <3>3 DEF Legs
  <2>8. Amounts({}) = 0
    <3> DEFINE z == [amount |-> 0]
    <3>1. z.amount \in Nat
      OBVIOUS
    <3> HIDE DEF z
    <3> QED
      BY <3>1, SumOfTwo, Zenon
  <2>9. CASE L("burn") = {}
    <3>1. Transfers(c) = {}
      BY <2>5, <2>6, <2>9, Zenon
    <3> QED
      BY <2>1, <2>7, <2>8, <2>9, <3>1
  <2>10. ASSUME NEW b \in L("burn"), L("dev") = {}
         PROVE  Amounts(Transfers(c)) = Part("burn", lam)
    <3>1. Transfers(c) = {b}
      BY <2>3, <2>5, <2>10
    <3>2. b.amount = Part("burn", lam)
      BY <2>4
    <3> QED
      BY <2>2, <3>1, <3>2, SumOfTwo, Zenon
  <2>11. ASSUME NEW b \in L("burn"), NEW d \in L("dev")
         PROVE  Amounts(Transfers(c)) = lam
    <3>1. Transfers(c) = {b, d}
      BY <2>3, <2>5
    <3>2. b.amount = Part("burn", lam) /\ d.amount = Part("dev", lam) /\ b # d
      BY <2>4
    <3>3. Amounts({b, d}) = b.amount + d.amount
      BY <2>2, <3>2, SumOfTwo, Zenon
    <3> QED
      BY <2>2, <3>1, <3>2, <3>3
  <2> HIDE DEF L, lam
  <2>12. CASE L("burn") # {} /\ L("dev") = {}
    BY <2>1, <2>2, <2>7, <2>10, <2>12 DEF lam
  <2>13. CASE L("burn") # {} /\ L("dev") # {}
    BY <2>1, <2>7, <2>11, <2>13 DEF lam
  <2> QED
    BY <2>9, <2>12, <2>13
<1> QED
  BY <1>1, Inductive, PTL

\* What a call has left: three steps per attempt and one for a failure, for each
\* of its legs.
Rank(c) ==
  LET left == 3 * (ATTEMPTS - call[c].n) + IF call[c].leg = "burn" THEN 3 * ATTEMPTS + 3 ELSE 0
  IN CASE call[c].pc = "idle"    -> 6 * ATTEMPTS + 6
       [] call[c].pc = "prepare" -> left + 2
       [] call[c].pc = "try"     -> left + 1
       [] call[c].pc = "confirm" -> left
       [] call[c].pc = "pause"   -> left - 1
       [] call[c].pc = "publish" -> 1
       [] OTHER                  -> 0

\* Every step of a call leaves it fewer, and there are at most 6 * ATTEMPTS + 6.
StepsLeft ==
  /\ [](\A c \in Calls : Rank(c) \in 0..6 * ATTEMPTS + 6)
  /\ [][\A c \in Calls : call'[c] # call[c] => Rank(c)' < Rank(c)]_vars

\* The number of steps is within its bounds.
LEMMA RankType ==
  ASSUME TypeOK, NEW c \in Calls
  PROVE  Rank(c) \in 0..6 * ATTEMPTS + 6
<1>1. call[c].n \in 0..ATTEMPTS - 1 /\ call[c].pc \in States
  BY DEF TypeOK, Call
<1>2. ATTEMPTS \in Nat \ {0}
  BY AttemptsAssumption
<1> QED
  BY <1>1, <1>2 DEF Rank, States

\* A call takes at most 6 * ATTEMPTS + 6 steps, however its attempts end and
\* whatever the chain and the other calls do (retry.js:6-16): it never goes back
\* to an earlier attempt, nor from the transfer to dev to the burn.
THEOREM CallsAreBounded == Spec => StepsLeft
<1>1. TypeOK => \A c \in Calls : Rank(c) \in 0..6 * ATTEMPTS + 6
  BY RankType
<1>2. ASSUME TypeOK, [Next]_vars, NEW c \in Calls, call'[c] # call[c]
      PROVE  Rank(c)' < Rank(c)
  <2>1. /\ call[c].n \in 0..ATTEMPTS - 1 /\ call[c].pc \in States /\ ATTEMPTS \in Nat \ {0}
        /\ call \in [Calls -> Call]
    <3>1. call[c].n \in 0..ATTEMPTS - 1 /\ call[c].pc \in States /\ call \in [Calls -> Call]
      BY <1>2 DEF TypeOK, Call
    <3> QED
      BY <3>1, AttemptsAssumption, Zenon
  <2>2. ASSUME NEW d \in Calls, Start(d) PROVE Rank(c)' < Rank(c)
    BY <1>2, <2>1, <2>2 DEF Start, executeSwap, burnAndDev, Rank, Call
  <2>3. ASSUME NEW d \in Calls, Prepare(d) PROVE Rank(c)' < Rank(c)
    BY <1>2, <2>1, <2>3 DEF Prepare, Goto, Rank, Call
  <2>4. ASSUME NEW d \in Calls, Send(d) PROVE Rank(c)' < Rank(c)
    BY <1>2, <2>1, <2>4 DEF Send, Goto, Rank, Call
  <2>5. ASSUME NEW d \in Calls, Confirm(d) PROVE Rank(c)' < Rank(c)
    BY <1>2, <2>1, <2>5 DEF Confirm, Goto, Rank, Call
  <2>6. ASSUME NEW d \in Calls, AttemptFails(d) PROVE Rank(c)' < Rank(c)
    BY <1>2, <2>1, <2>6 DEF AttemptFails, Goto, Rank, Call
  <2>7. ASSUME NEW d \in Calls, Resume(d) PROVE Rank(c)' < Rank(c)
    BY <1>2, <2>1, <2>7 DEF Resume, Retry, Goto, Rank, Call
  <2>8. ASSUME NEW d \in Calls, Published(d) PROVE Rank(c)' < Rank(c)
    BY <1>2, <2>1, <2>8 DEF Published, Rethrow, Goto, Rank, Call
  <2>9. CASE Crash
    BY <1>2, <2>1, <2>9 DEF Crash, Rank, Call, States, Ended
  <2> QED
    BY <1>2, <2>2, <2>3, <2>4, <2>5, <2>6, <2>7, <2>8, <2>9
    DEF Next, Step, Land, Expire, vars
<1>3. TypeOK /\ [Next]_vars => [\A c \in Calls : call'[c] # call[c] => Rank(c)' < Rank(c)]_vars
  BY <1>2
<1> QED
  BY <1>1, <1>3, TypeCorrect, PTL DEF Spec, StepsLeft
=============================================================================
