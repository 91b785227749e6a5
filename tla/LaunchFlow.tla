------------------------------ MODULE LaunchFlow ------------------------------
(***************************************************************************)
(* The launch of a token: the Telegram dialogue that leads to it           *)
(* (telegram-client.js: AICFG, LAUNCH_CONF, MANUAL and the text that       *)
(* answers it), the protected routes of the launcher (launcher/server.js)  *)
(* and the steps all of them make (launchTokenInternal in                  *)
(* utils-launcher.js).                                                     *)
(*                                                                         *)
(* A task is one run of a handler, for one button press, message or        *)
(* request; each await is a point where other tasks run.  A configuration  *)
(* is named by the task that made it: the AICFG handler that had it        *)
(* generated, or the handler of the message or request that contains it.   *)
(***************************************************************************)
EXTENDS Naturals, Sequences, FiniteSets

CONSTANTS
  Tasks,      \* handler runs
  Users,      \* handles
  Keyed,      \* those with a key under wallet:<handle> in Redis
  MaxPosts,   \* bound on requests to the launcher
  None        \* no configuration

ASSUME KeyedAssumption == Keyed \subseteq Users
ASSUME PostsAssumption == MaxPosts \in Nat
ASSUME NoneAssumption  == None \notin Tasks \cup Users

VARIABLES
  task,            \* [Tasks -> Task]
  lastConfigs,     \* handle -> configuration, in the agent
  awaitingManual,  \* handles whose next text is a configuration, in the agent
  made             \* [Tasks -> SUBSET Effects]: what a launch has left behind

vars == <<task, lastConfigs, awaitingManual, made>>

\* The steps of a handler, in order: the user's key; the mint, the token account
\* and the supply on the chain; the picture; the metadata in Redis; the pool; or
\* a trade with the pool.  /buy-token and /sell-token differ in the trade alone.
CreateToken         == <<"key", "mint", "account", "supply", "image", "meta">>
CreatePool          == <<"key", "pool">>
TradeToken          == <<"key", "account", "trade">>
launchTokenInternal == <<"key", "mint", "account", "supply", "image", "meta", "pool">>

\* POST /launch-token makes the steps of launchTokenInternal() itself.
Order(kind) ==
  CASE kind = "create-token" -> CreateToken
    [] kind = "create-pool"  -> CreatePool
    [] kind = "trade-token"  -> TradeToken
    [] OTHER                 -> launchTokenInternal

Steps(kind) == {Order(kind)[i] : i \in 1..Len(Order(kind))}

\* The steps that leave something behind.
Effects == {"mint", "account", "supply", "meta", "pool", "trade"}
Step    == Effects \cup {"key", "image"}

AgentKinds == {"aicfg", "conf", "manual", "text"}
ApiKinds   == {"launch-token", "create-token", "create-pool", "trade-token"}
Launching  == {"conf", "text"} \cup ApiKinds

Waiting == {"generating", "previewing", "asking"}
Ended   == {"shown", "asked", "refused", "launched", "failed", "gone"}

Kinds   == AgentKinds \cup ApiKinds \cup {"none"}
Places  == {"free"} \cup Waiting \cup Step \cup Ended

Task == [kind: Kinds, user: Users \cup {None}, cfg: Tasks \cup {None}, pc: Places]

Goto(k, pc) == task' = [task EXCEPT ![k].pc = pc]

\* Handler run k begins, at pc, with the configuration cfg.
Begin(k, kind, u, pc, cfg) ==
  /\ task[k].pc = "free"
  /\ task' = [task EXCEPT ![k] = [kind |-> kind, user |-> u, cfg |-> cfg, pc |-> pc]]

-----------------------------------------------------------------------------
(* The dialogue *)

\* The button "AI Launch".
AICFG(k, u) ==
  /\ Begin(k, "aicfg", u, "generating", None)
  /\ UNCHANGED <<lastConfigs, awaitingManual, made>>

\* Faulty: one configuration for all users.
RememberForAll(k) == [u \in Users |-> k]

Remember(k) == [lastConfigs EXCEPT ![task[k].user] = k]

\* generateLaunchConfig() has answered.  The configuration is kept before its
\* picture is there, and stays when there will be none.
Generated(k) ==
  /\ task[k].pc = "generating"
  /\ \/ lastConfigs' = Remember(k) /\ Goto(k, "previewing")
     \/ UNCHANGED lastConfigs /\ Goto(k, "failed")
  /\ UNCHANGED <<awaitingManual, made>>

\* previewImage() has answered; the configuration is shown with a button to
\* confirm it.
Previewed(k) ==
  /\ task[k].pc = "previewing"
  /\ Goto(k, "shown") \/ Goto(k, "failed")
  /\ UNCHANGED <<lastConfigs, awaitingManual, made>>

FirstStep(cfg) == IF cfg = None THEN "refused" ELSE "key"

\* The button "Confirm & Launch", under whichever message.
LAUNCH_CONF(k, u) ==
  /\ Begin(k, "conf", u, FirstStep(lastConfigs[u]), lastConfigs[u])
  /\ UNCHANGED <<lastConfigs, awaitingManual, made>>

\* The button "Manual Launch", and the end of its message.
MANUAL(k, u) ==
  /\ Begin(k, "manual", u, "asking", None)
  /\ UNCHANGED <<lastConfigs, awaitingManual, made>>

Asked(k) ==
  /\ task[k].pc = "asking"
  /\ Goto(k, "asked")
  /\ awaitingManual' = awaitingManual \cup {task[k].user}
  /\ UNCHANGED <<lastConfigs, made>>

\* Faulty: the request for a configuration stays until one has been launched.
AnswerKept(u) == UNCHANGED awaitingManual

Answer(u) == awaitingManual' = awaitingManual \ {u}

\* A text of a user who was asked for a configuration; it may not be JSON.
Text(k, u, isJson) ==
  /\ u \in awaitingManual
  /\ Answer(u)
  /\ Begin(k, "text", u, IF isJson THEN "key" ELSE "refused", k)
  /\ UNCHANGED <<lastConfigs, made>>

\* A request to a protected route, past the captcha and the API key.
Post(k, u, route) ==
  /\ Cardinality({j \in Tasks : task[j].kind \in ApiKinds}) < MaxPosts
  /\ Begin(k, route, u, "key", k)
  /\ UNCHANGED <<lastConfigs, awaitingManual, made>>

-----------------------------------------------------------------------------
(* The launch *)

\* Faulty: the pool comes before the metadata.
FollowingSwapped(k) ==
  CASE task[k].pc = "image" -> "pool"
    [] task[k].pc = "pool"  -> "meta"
    [] task[k].pc = "meta"  -> "launched"
    [] task[k].pc \in Step \ {"image", "pool", "meta"} ->
         LET steps == Order("launch-token")
             i == CHOOSE j \in 1..Len(steps) : steps[j] = task[k].pc
         IN steps[i + 1]

\* What follows the step of task k.
Following(k) ==
  LET steps == Order(task[k].kind)
      i == CHOOSE j \in 1..Len(steps) : steps[j] = task[k].pc
  IN IF i = Len(steps) THEN "launched" ELSE steps[i + 1]

Leave(k) == made' = [made EXCEPT ![k] = @ \cup ({task[k].pc} \cap Effects)]

StepDone(k) ==
  /\ task[k].pc \in Step
  /\ task[k].pc = "key" => task[k].user \in Keyed
  /\ Goto(k, Following(k))
  /\ Leave(k)
  /\ UNCHANGED <<lastConfigs, awaitingManual>>

\* Faulty: a step is tried again for as long as it throws.
OnErrorRetries(k) == UNCHANGED task

OnError(k) == Goto(k, "failed")

\* A step throws: the key is missing, or its answer does not arrive, in which case
\* the step may have been made all the same.
StepThrows(k) ==
  /\ task[k].pc \in Step
  /\ OnError(k)
  /\ UNCHANGED made \/ Leave(k)
  /\ UNCHANGED <<lastConfigs, awaitingManual>>

-----------------------------------------------------------------------------
\* A process ends: the handlers of these kinds are gone.  A step under way may
\* have been made.
End(kinds) ==
  LET hit == {k \in Tasks : task[k].kind \in kinds /\ task[k].pc \in Waiting \cup Step}
  IN /\ task' = [k \in Tasks |-> IF k \in hit THEN [task[k] EXCEPT !.pc = "gone"] ELSE task[k]]
     /\ \E late \in SUBSET hit :
          made' = [k \in Tasks |-> IF k \in late THEN made[k] \cup ({task[k].pc} \cap Effects)
                                   ELSE made[k]]

\* The agent is started again without what the dialogue had kept.  A reply that
\* Telegram refuses ends it as well: no handler catches that error.
AgentEnds ==
  /\ End(AgentKinds)
  /\ lastConfigs' = [u \in Users |-> None]
  /\ awaitingManual' = {}

LauncherEnds ==
  /\ End(ApiKinds)
  /\ UNCHANGED <<lastConfigs, awaitingManual>>

Init ==
  /\ task = [k \in Tasks |-> [kind |-> "none", user |-> None, cfg |-> None, pc |-> "free"]]
  /\ lastConfigs = [u \in Users |-> None]
  /\ awaitingManual = {}
  /\ made = [k \in Tasks |-> {}]

Arrive(k, u) ==
  \/ AICFG(k, u) \/ LAUNCH_CONF(k, u) \/ MANUAL(k, u)
  \/ \E isJson \in BOOLEAN : Text(k, u, isJson)
  \/ \E route \in ApiKinds : Post(k, u, route)

Continue(k) == Generated(k) \/ Previewed(k) \/ Asked(k) \/ StepDone(k) \/ StepThrows(k)

Next ==
  \/ \E k \in Tasks : Continue(k) \/ \E u \in Users : Arrive(k, u)
  \/ AgentEnds \/ LauncherEnds

Spec == Init /\ [][Next]_vars

\* Every await of a handler ends: the chain, Redis, Ollama and the image service
\* answer or time out.
FairSpec == Spec /\ \A k \in Tasks : WF_vars(Continue(k))

-----------------------------------------------------------------------------
(* Properties *)

\* Type invariant; a launch has a configuration.
TypeOK ==
  /\ task \in [Tasks -> Task]
  /\ lastConfigs \in [Users -> Tasks \cup {None}]
  /\ awaitingManual \subseteq Users
  /\ made \in [Tasks -> SUBSET Effects]
  /\ \A k \in Tasks : task[k].pc \in Step => task[k].kind \in Launching /\ task[k].cfg # None

\* A launch is made from the front: wherever it stops, by an error or the end of
\* the process, what it has left behind is a pool only with metadata, metadata
\* only with a supply, a trade only with a token account, and all that the
\* handler makes when it reports success.
MadeInOrder ==
  \A k \in Tasks : LET steps == Order(task[k].kind) IN
    /\ \A i, j \in 1..Len(steps) :
         i < j /\ steps[j] \in made[k] /\ steps[i] \in Effects => steps[i] \in made[k]
    /\ task[k].pc = "launched" => made[k] = Steps(task[k].kind) \cap Effects

\* Of the configurations that concurrent dialogues generate, a confirmed launch
\* uses one generated for the same user (lastConfigs is by handle).
OwnConfig ==
  \A k \in Tasks : task[k].kind = "conf" /\ task[k].cfg # None =>
    task[task[k].cfg].kind = "aicfg" /\ task[task[k].cfg].user = task[k].user

\* Each press of "Manual Launch" leads to at most one launch: of several texts
\* that arrive together, one is taken as the configuration.
ManualOnce ==
  \A u \in Users :
    Cardinality({k \in Tasks : task[k].kind = "text" /\ task[k].user = u})
      <= Cardinality({k \in Tasks : task[k].kind = "manual" /\ task[k].user = u})

\* Every handler run comes to an end, for good.
TasksEnd == <>[](\A k \in Tasks : task[k].pc \in Ended \cup {"free"})
=============================================================================
