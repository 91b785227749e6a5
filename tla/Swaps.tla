-------------------------------- MODULE Swaps --------------------------------
(***************************************************************************)
(* Swaps and transfers on Solana (utils-solana.js) and their retries       *)
(* (retry.js).  executeSwap() asks for a new transaction on every attempt; *)
(* transfer() signs one and sends that one again; burnAndDev() makes two   *)
(* transfers, the second after the first is confirmed.                     *)
(*                                                                         *)
(* Sending and confirming are two steps with the network between them: a   *)
(* transaction that was sent may land or expire at any time, also after    *)
(* the attempt that sent it has failed.  An attempt may fail before the    *)
(* send (no answer of Jupiter, a refused send) or after it (a timeout, the *)
(* transaction already processed, an error on the chain).                  *)
(***************************************************************************)
EXTENDS Integers, FiniteSets, FiniteSetsExt

CONSTANTS
  Calls,      \* identities of calls of executeSwap and burnAndDev
  ATTEMPTS,   \* `attempts` of withRetry: 3 in both callers
  PCT,        \* NXR_BURN_PCT in percent
  Lamports    \* amounts that burnAndDev is called with

ASSUME AttemptsAssumption == ATTEMPTS \in Nat \ {0}
ASSUME PctAssumption      == PCT \in 0..100
ASSUME LamportsAssumption == Lamports \subseteq Nat

VARIABLES
  call,       \* [Calls -> Call], the state of each call
  inflight,   \* transactions sent, neither landed nor expired
  landed,     \* transactions executed on the chain
  expired     \* transactions whose blockhash is too old

vars == <<call, inflight, landed, expired>>

Legs == {"swap", "burn", "dev"}

\* "try": about to send; "confirm": sent, waiting; "pause": the back-off of
\* withRetry; "publish": the failure is being published; "none" is a swap
\* without a route, which returns at once; "gone" ended with its process.
States == {"idle", "prepare", "try", "confirm", "pause", "publish", "ok", "failed", "none", "gone"}
Ended  == {"ok", "failed", "none", "gone"}

Call == [pc: States, leg: Legs, n: 0..ATTEMPTS - 1, lamports: Lamports \cup {0}]
Tx   == [call: Calls, leg: Legs, n: 0..ATTEMPTS - 1, amount: Nat]

-----------------------------------------------------------------------------
\* What each transfer of burnAndDev moves.
Part(leg, lamports) ==
  LET burnLam == (lamports * PCT) \div 100
  IN CASE leg = "burn" -> burnLam
       [] leg = "dev"  -> lamports - burnLam
       [] OTHER        -> 0

\* Faulty: transfer() signs anew on every attempt.
CurrentTxResigned(c) ==
  [call |-> c, leg |-> call[c].leg, n |-> call[c].n,
   amount |-> Part(call[c].leg, call[c].lamports)]

\* The transaction an attempt sends: of a swap, its own; of a transfer, the one
\* that was signed before the first attempt.
CurrentTx(c) ==
  [call |-> c, leg |-> call[c].leg, n |-> IF call[c].leg = "swap" THEN call[c].n ELSE 0,
   amount |-> Part(call[c].leg, call[c].lamports)]

Goto(c, pc) == call' = [call EXCEPT ![c].pc = pc]

-----------------------------------------------------------------------------
executeSwap(c, route) ==
  /\ call[c].pc = "idle"
  /\ call' = [call EXCEPT ![c].pc = IF route THEN "try" ELSE "none"]
  /\ UNCHANGED <<inflight, landed, expired>>

burnAndDev(c, lamports) ==
  /\ call[c].pc = "idle"
  /\ call' = [call EXCEPT ![c] = [pc |-> "prepare", leg |-> "burn", n |-> 0, lamports |-> lamports]]
  /\ UNCHANGED <<inflight, landed, expired>>

\* transfer() up to tx.sign: the decimals and the blockhash.  An error there is
\* outside withRetry: it is neither retried nor published.
Prepare(c) ==
  /\ call[c].pc = "prepare"
  /\ \/ Goto(c, "try")
     \/ Goto(c, "failed")
  /\ UNCHANGED <<inflight, landed, expired>>

Send(c) ==
  /\ call[c].pc = "try"
  /\ Goto(c, "confirm")
  /\ inflight' = inflight \cup ({CurrentTx(c)} \ (landed \cup expired))
  /\ UNCHANGED <<landed, expired>>

\* Faulty: the attempt succeeds as soon as the transaction is sent.
ConfirmsUnseen(c) == TRUE

\* The condition for sendAndConfirmRawTransaction() to return.
Confirms(c) == CurrentTx(c) \in landed

\* What follows a confirmed transaction: after the burn, the transfer to dev.
Confirm(c) ==
  /\ call[c].pc = "confirm"
  /\ Confirms(c)
  /\ IF call[c].leg = "burn"
     THEN call' = [call EXCEPT ![c].pc = "prepare", ![c].leg = "dev", ![c].n = 0]
     ELSE Goto(c, "ok")
  /\ UNCHANGED <<inflight, landed, expired>>

AttemptFails(c) ==
  /\ call[c].pc \in {"try", "confirm"}
  /\ Goto(c, "pause")
  /\ UNCHANGED <<inflight, landed, expired>>

\* Faulty: one attempt too many.
RetryOnceMore(c) ==
  IF call[c].n < ATTEMPTS
  THEN call' = [call EXCEPT ![c].pc = "try", ![c].n = @ + 1]
  ELSE Goto(c, "publish")

\* Faulty: attempts are not counted.
RetryForever(c) == Goto(c, "try")

\* withRetry after its pause, which it makes after the last attempt as well.
\* Out of attempts, the caller's catch records an RPC failure and publishes it.
Retry(c) ==
  IF call[c].n + 1 < ATTEMPTS
  THEN call' = [call EXCEPT ![c].pc = "try", ![c].n = @ + 1]
  ELSE Goto(c, "publish")

Resume(c) ==
  /\ call[c].pc = "pause"
  /\ Retry(c)
  /\ UNCHANGED <<inflight, landed, expired>>

\* Faulty: burnAndDev goes on to the second transfer when the first failed.
RethrowSwallowed(c) ==
  IF call[c].leg = "burn"
  THEN call' = [call EXCEPT ![c].pc = "prepare", ![c].leg = "dev", ![c].n = 0]
  ELSE Goto(c, "failed")

\* The error reaches the caller, after PUBLISH or with its error.
Rethrow(c) == Goto(c, "failed")

Published(c) ==
  /\ call[c].pc = "publish"
  /\ Rethrow(c)
  /\ UNCHANGED <<inflight, landed, expired>>

-----------------------------------------------------------------------------
\* The chain executes a transaction at most once.
Land(t) ==
  /\ inflight' = inflight \ {t}
  /\ landed' = landed \cup {t}
  /\ UNCHANGED <<call, expired>>

Expire(t) ==
  /\ inflight' = inflight \ {t}
  /\ expired' = expired \cup {t}
  /\ UNCHANGED <<call, landed>>

\* The process ends: its calls end with it, its transactions do not.
Crash ==
  /\ \E c \in Calls : call[c].pc \notin Ended \cup {"idle"}
  /\ call' = [c \in Calls |-> IF call[c].pc \in Ended \cup {"idle"} THEN call[c]
                              ELSE [call[c] EXCEPT !.pc = "gone"]]
  /\ UNCHANGED <<inflight, landed, expired>>

-----------------------------------------------------------------------------
Init ==
  /\ call = [c \in Calls |-> [pc |-> "idle", leg |-> "swap", n |-> 0, lamports |-> 0]]
  /\ inflight = {} /\ landed = {} /\ expired = {}

Start(c) ==
  \/ \E route \in BOOLEAN : executeSwap(c, route)
  \/ \E lamports \in Lamports : burnAndDev(c, lamports)

Step(c) == Prepare(c) \/ Send(c) \/ Confirm(c) \/ AttemptFails(c) \/ Resume(c) \/ Published(c)

Next ==
  \/ \E c \in Calls : Start(c) \/ Step(c)
  \/ \E t \in inflight : Land(t) \/ Expire(t)
  \/ Crash

Spec == Init /\ [][Next]_vars

\* Every await ends: the RPC calls answer or time out, the timers fire and Redis
\* answers PUBLISH in the end.
FairSpec == Spec /\ \A c \in Calls : WF_vars(Step(c))

-----------------------------------------------------------------------------
(* Properties *)

\* Type invariant.
TypeOK ==
  /\ call \in [Calls -> Call]
  /\ inflight \subseteq Tx /\ landed \subseteq Tx /\ expired \subseteq Tx

Transfers(c) == {t \in landed : t.call = c /\ t.leg # "swap"}

Amounts(txs) == MapThenSumSet(LAMBDA t : t.amount, txs)

\* However its attempts end and whatever lands late, a transfer moves its amount
\* at most once: transfer() sends the same signed transaction again.
TransferOnce ==
  \A s, t \in landed : s.call = t.call /\ s.leg = t.leg /\ s.leg # "swap" => s = t

\* A swap is rebuilt on each attempt, so that several may be executed; but never
\* more than withRetry has attempts.
SwapsBounded ==
  \A c \in Calls : Cardinality({t \in landed : t.call = c /\ t.leg = "swap"}) <= ATTEMPTS

\* The dev wallet is paid only after the burn is on the chain, whatever fails or
\* arrives late in between (burnAndDev awaits the first transfer).
BurnBeforeDev ==
  \A t \in landed : t.leg = "dev" => \E s \in landed : s.call = t.call /\ s.leg = "burn"

\* The two parts of burnAndDev never move more than it was called with, and
\* exactly that when it returns; a swap that returns has been executed.
PaidExactly ==
  \A c \in Calls :
    LET paid == Amounts(Transfers(c))
    IN /\ paid <= call[c].lamports
       /\ call[c].pc = "ok" => paid = call[c].lamports
       /\ call[c].pc = "ok" /\ call[c].leg = "swap" => \E t \in landed : t.call = c

\* Every call that starts comes to an end, for good: withRetry gives up.
CallsEnd == <>[](\A c \in Calls : call[c].pc \in Ended \cup {"idle"})
=============================================================================
