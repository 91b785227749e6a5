------------------------------ MODULE TradeJobs ------------------------------
(***************************************************************************)
(* The trade jobs: dispatchTrade() and the deposit watcher put a job into  *)
(* the BullMQ queue `trades` (jobQueue.js), and two processes take jobs    *)
(* from it (worker.js, metrics.js).                                        *)
(*                                                                         *)
(* Either processor begins with getUser(), which has removed the wallet    *)
(* from what it returns, and parses that wallet: with a hash or without,   *)
(* the job ends there.  The steps after it (fuel, trade, balances,         *)
(* message) are not reached; the functions they call are in module Swaps.  *)
(* BullMQ is modelled by how it is used: jobs are added without options,   *)
(* so that one failed run is the last, and a job whose process ended is    *)
(* given out again once (its maxStalledCount).                             *)
(***************************************************************************)
EXTENDS Naturals, FiniteSets

CONSTANTS
  Jobs,       \* identities of jobs
  Handles,    \* users a job may name; "undefined" stands for a button's job
  Members     \* handles that have a hash in Redis

Consumers == {"worker", "metrics"}

VARIABLES
  job,        \* [Jobs -> Job]
  failures    \* trade_jobs_total{status="failure"}, in the metrics process

vars == <<job, failures>>

Job == [status: {"new", "wait", "active", "failed"},
        handle: Handles \cup {"undefined"}, by: Consumers \cup {"none"},
        runs: Nat, stalls: 0..1, error: {"none", "not found", "no key", "stalled"}]

-----------------------------------------------------------------------------
\* A button's call of handleMessage() carries no handle.
enqueueTrade(j, h) ==
  /\ job[j].status = "new"
  /\ job' = [job EXCEPT ![j].status = "wait", ![j].handle = h]
  /\ UNCHANGED failures

\* A Worker takes a waiting job.  metrics.js:19 hands BullMQ a client of another
\* library, so that its Worker may never take one; the model lets it.
Take(w, j) ==
  /\ job[j].status = "wait"
  /\ job' = [job EXCEPT ![j].status = "active", ![j].by = w, ![j].runs = @ + 1]
  /\ UNCHANGED failures

\* The processor throws: there is no hash, or there is one and JSON.parse() gets
\* the wallet that getUser() has removed.  In metrics.js withMetrics counts it.
Throws(j) ==
  /\ job[j].status = "active"
  /\ job' = [job EXCEPT ![j].status = "failed",
                        ![j].error = IF job[j].handle \in Members THEN "no key" ELSE "not found"]
  /\ failures' = IF job[j].by = "metrics" THEN failures + 1 ELSE failures

\* The process of a job ends: the job is given out again, the second time failed.
ConsumerEnds(w) ==
  /\ \E j \in Jobs : job[j].status = "active" /\ job[j].by = w
  /\ job' = [j \in Jobs |->
       IF job[j].status # "active" \/ job[j].by # w THEN job[j]
       ELSE IF job[j].stalls = 0 THEN [job[j] EXCEPT !.status = "wait", !.by = "none", !.stalls = 1]
       ELSE [job[j] EXCEPT !.status = "failed", !.error = "stalled"]]
  /\ failures' = IF w = "metrics" THEN 0 ELSE failures

Init ==
  /\ job = [j \in Jobs |-> [status |-> "new", handle |-> "undefined", by |-> "none",
                            runs |-> 0, stalls |-> 0, error |-> "none"]]
  /\ failures = 0

Next ==
  \/ \E j \in Jobs :
       \/ \E h \in Handles \cup {"undefined"} : enqueueTrade(j, h)
       \/ \E w \in Consumers : Take(w, j)
       \/ Throws(j)
  \/ \E w \in Consumers : ConsumerEnds(w)

Spec == Init /\ [][Next]_vars

-----------------------------------------------------------------------------
(* What the documentation says and the code does not do *)

\* README.md:354, "Automatic retry, back-off and dead-letter handling for failed
\* jobs": a job whose processor threw is failed for good only after another run.
FailedJobsRetried ==
  \A j \in Jobs : job[j].status = "failed" /\ job[j].error # "stalled" => job[j].runs > 1
=============================================================================
