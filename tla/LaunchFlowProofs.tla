-------------------------- MODULE LaunchFlowProofs ---------------------------
(***************************************************************************)
(* Proofs about LaunchFlow: types, the order in which a launch makes its   *)
(* steps, whose configuration it uses, one launch for each request for a   *)
(* manual one, and a bound on the steps of a handler.                      *)
(***************************************************************************)
EXTENDS LaunchFlow, FiniteSetTheorems, TLAPS

USE NoneAssumption

\* What the place of a task says about its handler.
Placed(t) ==
  /\ t.pc = "free" <=> t.kind = "none"
  /\ t.kind # "none" => t.user \in Users
  /\ t.pc \in {"generating", "previewing"} => t.kind = "aicfg"
  /\ t.pc \in {"asking", "asked"} => t.kind = "manual"
  /\ t.pc \in Step => t.kind \in Launching /\ t.cfg # None /\ t.pc \in Steps(t.kind)

TypeInv == TypeOK /\ \A k \in Tasks : Placed(task[k])

\* Every handler starts with the key, and makes no step twice.
LEMMA OrderFacts ==
  ASSUME NEW kind
  PROVE  /\ Order(kind) \in Seq(Step) /\ Len(Order(kind)) \in Nat \ {0} /\ Order(kind)[1] = "key"
         /\ \A i, j \in 1..Len(Order(kind)) : Order(kind)[i] = Order(kind)[j] => i = j
  <1>1. CASE kind = "create-token"
    BY <1>1 DEF Order, CreateToken, Step, Effects
  <1>2. CASE kind = "create-pool"
    BY <1>2 DEF Order, CreatePool, Step, Effects
  <1>3. CASE kind = "trade-token"
    BY <1>3 DEF Order, TradeToken, Step, Effects
  <1>4. CASE kind \notin {"create-token", "create-pool", "trade-token"}
    <2> DEFINE s == <<"key", "mint", "account", "supply", "image", "meta", "pool">>
    <2>1. Order(kind) = s
      BY <1>4, Zenon DEF Order, launchTokenInternal
    <2>2. s \in Seq(Step) /\ Len(s) = 7 /\ s[1] = "key"
      BY DEF Step, Effects
    <2>3. \A i, j \in 1..7 : s[i] = s[j] => i = j
      OBVIOUS
    <2> QED
      BY <2>1, <2>2, <2>3
  <1> QED
    BY <1>1, <1>2, <1>3, <1>4, Zenon

\* What follows step number n of a handler.
LEMMA FollowingStep ==
  ASSUME NEW k, NEW n \in 1..Len(Order(task[k].kind)), task[k].pc = Order(task[k].kind)[n]
  PROVE  Following(k) = IF n = Len(Order(task[k].kind)) THEN "launched" ELSE Order(task[k].kind)[n + 1]
  <1> DEFINE s == Order(task[k].kind)
             i == CHOOSE j \in 1..Len(s) : s[j] = task[k].pc
  <1>1. i \in 1..Len(s) /\ s[i] = task[k].pc
    BY Zenon
  <1>2. i = n
    BY <1>1, OrderFacts, Zenon
  <1> QED
    BY <1>2, Zenon DEF Following

-----------------------------------------------------------------------------
(* The steps of a task, and types *)

\* Task k goes from its place to pc, and nothing else about the tasks changes.
Moves(k, pc) ==
  /\ task'[k] \in Task /\ task'[k].pc = pc
  /\ task'[k].kind = task[k].kind /\ task'[k].user = task[k].user /\ task'[k].cfg = task[k].cfg
  /\ \A j \in Tasks : j # k => task'[j] = task[j]
  /\ task' \in [Tasks -> Task]

\* Task k, free so far, becomes t.
Begins(k, t) ==
  /\ task[k].pc = "free" /\ t.kind # "none" /\ task'[k] = t
  /\ \A j \in Tasks : j # k => task'[j] = task[j]
  /\ task' \in [Tasks -> Task]

\* A move to a place keeps the other fields of the task.
LEMMA GotoMoves ==
  ASSUME TypeInv, NEW k \in Tasks, NEW pc \in Places, Goto(k, pc)
  PROVE  Moves(k, pc)
  <1>1. task \in [Tasks -> Task] /\ task' = [task EXCEPT ![k].pc = pc]
    BY Zenon DEF TypeInv, TypeOK, Goto
  <1> QED
    BY <1>1, Zenon DEF Moves, Task

\* Where a handler may go when its await ends.
Leads(t, pc) ==
  /\ t.pc # "free" /\ pc \in Places \ {"free", "generating", "asking"}
  /\ pc = "previewing" => t.pc = "generating"
  /\ pc = "asked" => t.pc = "asking"
  /\ pc \in Step => t.pc \in Step /\ pc \in Steps(t.kind)

\* What follows a step is a later step of the same handler, or success.
LEMMA StepLeads ==
  ASSUME TypeInv, NEW k \in Tasks, task[k].pc \in Step
  PROVE  Leads(task[k], Following(k)) /\ Following(k) \in Places
  <1> DEFINE s == Order(task[k].kind)
  <1>1. PICK n \in 1..Len(s) : task[k].pc = s[n]
    BY Zenon DEF TypeInv, Placed, Steps
  <1>2. CASE n = Len(s)
    <2>1. Following(k) = "launched"
      BY <1>1, <1>2, FollowingStep, Zenon
    <2> QED
      BY <2>1, Zenon DEF Leads, Places, Ended, Step, Effects
  <1>3. CASE n # Len(s)
    <2>1. Following(k) = s[n + 1]
      BY <1>1, <1>3, FollowingStep, Zenon
    <2>2. n + 1 \in 1..Len(s)
      BY <1>3, OrderFacts
    <2>3. s[n + 1] \in Step /\ s[n + 1] \in Steps(task[k].kind)
      BY <2>2, OrderFacts DEF Steps
    <2> QED
      BY <2>1, <2>3, Zenon DEF Leads, Places, Step, Effects
  <1> QED
    BY <1>2, <1>3, Zenon

\* An await that ends moves its task to a place its handler may go to.
LEMMA ContinueMoves ==
  ASSUME TypeInv, NEW k \in Tasks, Continue(k)
  PROVE  \E pc \in Places : Moves(k, pc) /\ Leads(task[k], pc)
  <1> DEFINE Ok(pc) == pc \in Places /\ Leads(task[k], pc)
  <1>a. ASSUME NEW pc, Ok(pc), Goto(k, pc) PROVE \E q \in Places : Moves(k, q) /\ Leads(task[k], q)
    BY <1>a, GotoMoves, Zenon
  <1>b. task[k].pc # "free" => Ok("failed")
    BY Zenon DEF Leads, Places, Ended, Step, Effects
  <1>1. CASE Generated(k)
    <2>1. Ok("previewing") /\ Ok("failed")
      BY <1>1, <1>b, Zenon DEF Generated, Leads, Places, Waiting, Step, Effects
    <2> QED
      BY <1>1, <1>a, <2>1, Zenon DEF Generated
  <1>2. CASE Previewed(k)
    <2>1. Ok("shown") /\ Ok("failed")
      BY <1>2, <1>b, Zenon DEF Previewed, Leads, Places, Ended, Step, Effects
    <2> QED
      BY <1>2, <1>a, <2>1, Zenon DEF Previewed
  <1>3. CASE Asked(k)
    <2>1. Ok("asked")
      BY <1>3, Zenon DEF Asked, Leads, Places, Ended, Step, Effects
    <2> QED
      BY <1>3, <1>a, <2>1, Zenon DEF Asked
  <1>4. CASE StepDone(k)
    BY <1>4, <1>a, StepLeads, Zenon DEF StepDone
  <1>5. CASE StepThrows(k)
    <2>1. task[k].pc # "free"
      BY <1>5, Zenon DEF StepThrows, Step, Effects
    <2> QED
      BY <1>5, <1>a, <1>b, <2>1, Zenon DEF StepThrows, OnError
  <1> QED
    BY <1>1, <1>2, <1>3, <1>4, <1>5, Zenon DEF Continue

\* A press, a text or a request begins one task, at the key or before the launch.
LEMMA ArriveBegins ==
  ASSUME TypeInv, NEW k \in Tasks, NEW u \in Users, Arrive(k, u)
  PROVE  \E t \in Task : /\ Begins(k, t) /\ Placed(t) /\ t.user = u
                         /\ t.pc \in Step => t.pc = "key"
                         /\ t.pc # "launched" /\ t.pc # "asked"
  <1> DEFINE New(kind, pc, cfg) == [kind |-> kind, user |-> u, cfg |-> cfg, pc |-> pc]
  <1>a. ASSUME NEW kind \in Kinds \ {"none"}, NEW pc \in Places, NEW cfg \in Tasks \cup {None},
               Begin(k, kind, u, pc, cfg), Placed(New(kind, pc, cfg)),
               pc \in {"generating", "asking", "refused", "key"}
        PROVE  \E t \in Task : /\ Begins(k, t) /\ Placed(t) /\ t.user = u
                               /\ t.pc \in Step => t.pc = "key"
                               /\ t.pc # "launched" /\ t.pc # "asked"
    <2>1. New(kind, pc, cfg) \in Task
      BY Zenon DEF Task
    <2>2. Begins(k, New(kind, pc, cfg))
      BY <1>a, <2>1, Zenon DEF Begin, Begins, TypeInv, TypeOK
    <2> QED
      BY <1>a, <2>1, <2>2, Zenon DEF Step, Effects
  <1>b. ASSUME NEW kind \in Launching, NEW cfg \in Tasks
        PROVE  Placed(New(kind, "key", cfg)) /\ kind \in Kinds \ {"none"}
    <2>1. 1 \in 1..Len(Order(kind)) /\ Order(kind)[1] = "key"
      BY OrderFacts
    <2>2. "key" \in Steps(kind)
      BY <2>1, Zenon DEF Steps
    <2> QED
      BY <2>2, Zenon DEF Placed, Launching, Kinds, AgentKinds, ApiKinds
  <1>c. {"generating", "asking", "refused", "key"} \subseteq Places
    BY Zenon DEF Places, Waiting, Ended, Step
  <1>1. CASE AICFG(k, u)
    <2>1. Placed(New("aicfg", "generating", None)) /\ "aicfg" \in Kinds \ {"none"}
      BY Zenon DEF Placed, Step, Effects, Kinds, AgentKinds
    <2> QED
      BY <1>1, <1>a, <1>c, <2>1, Zenon DEF AICFG
  <1>2. CASE LAUNCH_CONF(k, u)
    <2>1. lastConfigs[u] \in Tasks \cup {None}
      BY Zenon DEF TypeInv, TypeOK
    <2>2. CASE lastConfigs[u] = None
      <3>1. Placed(New("conf", "refused", None)) /\ "conf" \in Kinds \ {"none"}
        BY Zenon DEF Placed, Step, Effects, Kinds, AgentKinds
      <3> QED
        BY <1>2, <1>a, <1>c, <2>2, <3>1, Zenon DEF LAUNCH_CONF, FirstStep
    <2>3. CASE lastConfigs[u] # None
      <3>1. "conf" \in Launching
        BY Zenon DEF Launching
      <3> QED
        BY <1>2, <1>a, <1>b, <1>c, <2>1, <2>3, <3>1, Zenon DEF LAUNCH_CONF, FirstStep
    <2> QED
      BY <2>2, <2>3, Zenon
  <1>3. CASE MANUAL(k, u)
    <2>1. Placed(New("manual", "asking", None)) /\ "manual" \in Kinds \ {"none"}
      BY Zenon DEF Placed, Step, Effects, Kinds, AgentKinds
    <2> QED
      BY <1>3, <1>a, <1>c, <2>1, Zenon DEF MANUAL
  <1>4. ASSUME NEW isJson \in BOOLEAN, Text(k, u, isJson)
        PROVE  \E t \in Task : /\ Begins(k, t) /\ Placed(t) /\ t.user = u
                               /\ t.pc \in Step => t.pc = "key"
                               /\ t.pc # "launched" /\ t.pc # "asked"
    <2>1. "text" \in Launching
      BY Zenon DEF Launching
    <2>2. Placed(New("text", "refused", k)) /\ "text" \in Kinds \ {"none"}
      BY Zenon DEF Placed, Step, Effects, Kinds, AgentKinds
    <2> QED
      BY <1>4, <1>a, <1>b, <1>c, <2>1, <2>2, Zenon DEF Text
  <1>5. ASSUME NEW route \in ApiKinds, Post(k, u, route)
        PROVE  \E t \in Task : /\ Begins(k, t) /\ Placed(t) /\ t.user = u
                               /\ t.pc \in Step => t.pc = "key"
                               /\ t.pc # "launched" /\ t.pc # "asked"
    <2>1. route \in Launching
      BY Zenon DEF Launching
    <2> QED
      BY <1>5, <1>a, <1>b, <1>c, <2>1, Zenon DEF Post
  <1> QED
    BY <1>1, <1>2, <1>3, <1>4, <1>5, Zenon DEF Arrive

\* A process ends: each task stays, or is gone and may have made its step.
LEMMA EndTasks ==
  ASSUME TypeInv, NEW kinds, End(kinds)
  PROVE  /\ task' \in [Tasks -> Task] /\ made' \in [Tasks -> SUBSET Effects]
         /\ \A k \in Tasks :
              \/ task'[k] = task[k] /\ made'[k] = made[k]
              \/ /\ task[k].pc \in Waiting \cup Step /\ task'[k].pc = "gone"
                 /\ task'[k].kind = task[k].kind /\ task'[k].user = task[k].user /\ task'[k].cfg = task[k].cfg
                 /\ \/ made'[k] = made[k]
                    \/ made'[k] = made[k] \cup ({task[k].pc} \cap Effects)
  <1> DEFINE hit == {k \in Tasks : task[k].kind \in kinds /\ task[k].pc \in Waiting \cup Step}
  <1>1. PICK late \in SUBSET hit :
          /\ task' = [k \in Tasks |-> IF k \in hit THEN [task[k] EXCEPT !.pc = "gone"] ELSE task[k]]
          /\ made' = [k \in Tasks |-> IF k \in late THEN made[k] \cup ({task[k].pc} \cap Effects)
                                      ELSE made[k]]
    BY Zenon DEF End
  <1>2. task \in [Tasks -> Task] /\ made \in [Tasks -> SUBSET Effects] /\ "gone" \in Places
    BY Zenon DEF TypeInv, TypeOK, Places, Ended
  <1>3. \A t \in Task : LET g == [t EXCEPT !.pc = "gone"] IN
          g \in Task /\ g.pc = "gone" /\ g.kind = t.kind /\ g.user = t.user /\ g.cfg = t.cfg
    BY <1>2, Zenon DEF Task
  <1>4. \A k \in hit : task[k].pc \in Waiting \cup Step
    BY Zenon
  <1> HIDE DEF hit
  <1>5. task' \in [Tasks -> Task]
    BY <1>1, <1>2, <1>3, Zenon
  <1>6. made' \in [Tasks -> SUBSET Effects]
    BY <1>1, <1>2, Zenon
  <1>7. ASSUME NEW k \in Tasks, k \notin hit PROVE task'[k] = task[k] /\ made'[k] = made[k]
    BY <1>1, <1>7, Zenon
  <1>8. ASSUME NEW k \in Tasks, k \in hit
        PROVE  /\ task'[k].pc = "gone" /\ task'[k].kind = task[k].kind
               /\ task'[k].user = task[k].user /\ task'[k].cfg = task[k].cfg
               /\ made'[k] = made[k] \/ made'[k] = made[k] \cup ({task[k].pc} \cap Effects)
    BY <1>1, <1>2, <1>3, <1>8, Zenon
  <1> QED
    BY <1>4, <1>5, <1>6, <1>7, <1>8, Zenon

\* The other variables keep their types.
LEMMA OtherTypes ==
  ASSUME TypeInv, [Next]_vars
  PROVE  /\ lastConfigs' \in [Users -> Tasks \cup {None}]
         /\ awaitingManual' \subseteq Users /\ made' \in [Tasks -> SUBSET Effects]
  <1> USE DEF TypeInv, TypeOK
  <1>1. ASSUME NEW k \in Tasks, NEW u \in Users, Arrive(k, u)
        PROVE  /\ lastConfigs' = lastConfigs /\ made' = made /\ awaitingManual' \subseteq awaitingManual
    BY <1>1, Zenon DEF Arrive, AICFG, LAUNCH_CONF, MANUAL, Text, Answer, Post
  <1>2. ASSUME NEW k \in Tasks, Generated(k) \/ Previewed(k) \/ Asked(k)
        PROVE  /\ lastConfigs' \in [Users -> Tasks \cup {None}]
               /\ awaitingManual' \subseteq Users /\ made' = made
    <2>1. task[k].pc # "free" => task[k].user \in Users
      BY Zenon DEF Placed
    <2> QED
      BY <1>2, <2>1 DEF Generated, Remember, Previewed, Asked
  <1>3. ASSUME NEW k \in Tasks, StepDone(k) \/ StepThrows(k)
        PROVE  /\ lastConfigs' = lastConfigs /\ awaitingManual' = awaitingManual
               /\ made' \in [Tasks -> SUBSET Effects]
    BY <1>3, Zenon DEF StepDone, StepThrows, Leave
  <1>4. CASE AgentEnds
    BY <1>4, EndTasks, Zenon DEF AgentEnds
  <1>5. CASE LauncherEnds
    BY <1>5, EndTasks, Zenon DEF LauncherEnds
  <1>6. CASE UNCHANGED vars
    BY <1>6, Zenon DEF vars
  <1> QED
    BY <1>1, <1>2, <1>3, <1>4, <1>5, <1>6, Zenon DEF Next, Continue

\* Every step keeps the types and what the places say.
LEMMA TypeStep == TypeInv /\ [Next]_vars => TypeInv'
  <1> SUFFICES ASSUME TypeInv, [Next]_vars PROVE TypeInv'
    BY Zenon
  <1>a. ASSUME task' \in [Tasks -> Task], \A k \in Tasks : Placed(task'[k]) PROVE TypeInv'
    BY <1>a, OtherTypes, Zenon DEF TypeInv, TypeOK, Placed
  <1>b. task \in [Tasks -> Task] /\ \A k \in Tasks : Placed(task[k])
    BY Zenon DEF TypeInv, TypeOK
  <1>1. ASSUME NEW k \in Tasks, Continue(k) PROVE TypeInv'
    <2>1. PICK pc \in Places : Moves(k, pc) /\ Leads(task[k], pc)
      BY <1>1, ContinueMoves, Zenon
    <2>2. Placed(task'[k])
      BY <1>b, <2>1, Zenon DEF Moves, Leads, Placed
    <2> QED
      BY <1>a, <1>b, <2>1, <2>2, Zenon DEF Moves
  <1>2. ASSUME NEW k \in Tasks, NEW u \in Users, Arrive(k, u) PROVE TypeInv'
    <2>1. PICK t \in Task : Begins(k, t) /\ Placed(t)
      BY <1>2, ArriveBegins, Zenon
    <2> QED
      BY <1>a, <1>b, <2>1, Zenon DEF Begins
  <1>3. ASSUME NEW kinds, End(kinds) PROVE TypeInv'
    <2>1. ASSUME NEW k \in Tasks PROVE Placed(task'[k])
      BY <1>3, <1>b, EndTasks DEF Placed, Waiting, Step, Effects
    <2> QED
      BY <1>3, <1>a, <2>1, EndTasks, Zenon
  <1>4. CASE UNCHANGED vars
    BY <1>4, <1>a, <1>b, Zenon DEF vars
  <1> QED
    BY <1>1, <1>2, <1>3, <1>4, Zenon DEF Next, AgentEnds, LauncherEnds

\* At first no handler has begun.
LEMMA InitTypes == Init => TypeInv
  <1>1. SUFFICES ASSUME Init PROVE TypeInv
    BY Zenon
  <1>2. [kind |-> "none", user |-> None, cfg |-> None, pc |-> "free"] \in Task
    BY Zenon DEF Task, Kinds, Places
  <1>3. Placed([kind |-> "none", user |-> None, cfg |-> None, pc |-> "free"])
    BY Zenon DEF Placed, Step, Effects
  <1> QED
    BY <1>1, <1>2, <1>3, Zenon DEF Init, TypeInv, TypeOK, Placed

\* In every state a handler that is at a step of a launch is one that launches and
\* has a configuration (telegram-client.js:257-260 refuses without one).
THEOREM TypeCorrect == Spec => []TypeOK
  <1>1. TypeInv => TypeOK
    BY Zenon DEF TypeInv
  <1> QED
    BY <1>1, InitTypes, TypeStep, PTL DEF Spec

-----------------------------------------------------------------------------
(* A launch is made from the front *)

\* What the first n steps of a handler leave behind.
Prefix(kind, n) == {Order(kind)[i] : i \in 1..n} \cap Effects

\* A handler t that has made its first n steps, and left m behind.
HasMade(t, m, n) ==
  /\ n \in 0..Len(Order(t.kind)) /\ m = Prefix(t.kind, n)
  /\ t.pc \in Step => n < Len(Order(t.kind)) /\ t.pc = Order(t.kind)[n + 1]
  /\ t.pc = "launched" => n = Len(Order(t.kind))
  /\ t.pc = "free" => n = 0

\* The effects of every handler are those of its first steps, up to its place.
ProgressInv == \A k \in Tasks : \E n \in Nat : HasMade(task[k], made[k], n)

\* One step more adds its effect.
LEMMA PrefixGrows ==
  ASSUME NEW kind, NEW n \in 0..Len(Order(kind)), n < Len(Order(kind))
  PROVE  Prefix(kind, n) \cup ({Order(kind)[n + 1]} \cap Effects) = Prefix(kind, n + 1)
  <1>1. n \in Nat /\ 1..(n + 1) = 1..n \cup {n + 1}
    BY OrderFacts
  <1> QED
    BY <1>1, Zenon DEF Prefix

\* What the first steps leave behind has no gap.
LEMMA PrefixInOrder ==
  ASSUME NEW kind, NEW n \in 0..Len(Order(kind)), NEW i \in 1..Len(Order(kind)),
         NEW j \in 1..Len(Order(kind)), i < j,
         Order(kind)[j] \in Prefix(kind, n), Order(kind)[i] \in Effects
  PROVE  Order(kind)[i] \in Prefix(kind, n)
  <1>1. PICK l \in 1..n : Order(kind)[j] = Order(kind)[l]
    BY Zenon DEF Prefix
  <1>2. l \in 1..Len(Order(kind)) /\ n \in Nat /\ i \in Nat /\ j \in Nat
    BY OrderFacts
  <1>3. j = l
    BY <1>1, <1>2, OrderFacts, Zenon
  <1>4. i \in 1..n
    BY <1>2, <1>3
  <1> QED
    BY <1>4, Zenon DEF Prefix

\* A step that was made, whatever became of its handler: failed, gone, or on to
\* the following step.
LEMMA MadeStep ==
  ASSUME NEW t, NEW m, NEW n, HasMade(t, m, n), t.pc \in Step
  PROVE  /\ n \in Nat /\ n + 1 \in 1..Len(Order(t.kind)) /\ t.pc = Order(t.kind)[n + 1]
         /\ m \cup ({t.pc} \cap Effects) = Prefix(t.kind, n + 1)
  BY PrefixGrows, OrderFacts DEF HasMade

\* Every step, error and end of a process keeps the effects those of the first steps.
LEMMA ProgressStep == TypeInv /\ ProgressInv /\ [Next]_vars => ProgressInv'
  <1> SUFFICES ASSUME TypeInv, ProgressInv, [Next]_vars,
                      NEW j \in Tasks, NEW n \in Nat, HasMade(task[j], made[j], n)
               PROVE  \E q \in Nat : HasMade(task'[j], made'[j], q)
    BY Zenon DEF ProgressInv
  <1> DEFINE Goal == \E q \in Nat : HasMade(task'[j], made'[j], q)
  <1>a. ASSUME task'[j] = task[j], made'[j] = made[j] PROVE Goal
    BY <1>a, Zenon
  \* A task that stops, with or without the effect of the step it was at.
  <1>b. ASSUME task'[j].kind = task[j].kind, task'[j].pc \notin Step \cup {"launched", "free"},
               \/ made'[j] = made[j]
               \/ made'[j] = made[j] \cup ({task[j].pc} \cap Effects)
        PROVE  Goal
    <2>1. CASE made'[j] = made[j]
      BY <1>b, <2>1, Zenon DEF HasMade
    <2>2. CASE made'[j] # made[j]
      <3>1. task[j].pc \in Step
        BY <1>b, <2>2, Zenon DEF Step
      <3>2. /\ n + 1 \in 1..Len(Order(task[j].kind))
            /\ made[j] \cup ({task[j].pc} \cap Effects) = Prefix(task[j].kind, n + 1)
        BY <3>1, MadeStep, Zenon
      <3>3. n + 1 \in Nat /\ n + 1 \in 0..Len(Order(task[j].kind))
        BY <3>2, OrderFacts
      <3> QED
        BY <1>b, <2>2, <3>2, <3>3, Zenon DEF HasMade
    <2> QED
      BY <2>1, <2>2, Zenon
  <1>1. ASSUME NEW k \in Tasks, NEW u \in Users, Arrive(k, u) PROVE Goal
    <2>1. PICK t \in Task : /\ Begins(k, t) /\ Placed(t)
                            /\ t.pc \in Step => t.pc = "key"
                            /\ t.pc # "launched"
      BY <1>1, ArriveBegins, Zenon
    <2>2. made' = made
      BY <1>1, Zenon DEF Arrive, AICFG, LAUNCH_CONF, MANUAL, Text, Post
    <2>3. CASE j = k
      <3>1. task[j].pc = "free" /\ task'[j] = t /\ t.kind # "none" /\ t.pc # "free"
        BY <2>1, <2>3, Zenon DEF Begins, Placed
      <3>2. \A kind : Prefix(kind, 0) = {}
        BY DEF Prefix
      <3>3. made'[j] = Prefix(t.kind, 0)
        BY <2>2, <3>1, <3>2, Zenon DEF HasMade
      <3>4. /\ 0 \in 0..Len(Order(t.kind)) /\ 0 < Len(Order(t.kind))
            /\ Order(t.kind)[0 + 1] = "key"
        BY OrderFacts
      <3>5. HasMade(t, made'[j], 0)
        BY <2>1, <3>1, <3>3, <3>4, Zenon DEF HasMade
      <3> QED
        BY <3>1, <3>5, Zenon
    <2>4. CASE j # k
      BY <1>a, <2>1, <2>2, <2>4, Zenon DEF Begins
    <2> QED
      BY <2>3, <2>4, Zenon
  <1>2. ASSUME NEW k \in Tasks, Generated(k) \/ Previewed(k) \/ Asked(k) PROVE Goal
    <2>1. /\ Goto(k, "previewing") \/ Goto(k, "failed") \/ Goto(k, "shown") \/ Goto(k, "asked")
          /\ made' = made
      BY <1>2, Zenon DEF Generated, Previewed, Asked
    <2>2. PICK pc \in {"previewing", "failed", "shown", "asked"} : Goto(k, pc)
      BY <2>1, Zenon
    <2>3. pc \in Places /\ pc \notin Step \cup {"launched", "free"}
      BY Zenon DEF Places, Waiting, Ended, Step, Effects
    <2>4. Moves(k, pc)
      BY <2>2, <2>3, GotoMoves, Zenon
    <2> QED
      BY <1>a, <1>b, <2>1, <2>3, <2>4, Zenon DEF Moves
  <1>3. ASSUME NEW k \in Tasks, StepThrows(k) PROVE Goal
    <2>1. "failed" \in Places /\ "failed" \notin Step \cup {"launched", "free"}
      BY Zenon DEF Places, Ended, Step, Effects
    <2>2. Moves(k, "failed")
      BY <1>3, <2>1, GotoMoves, Zenon DEF StepThrows, OnError
    <2>3. made \in [Tasks -> SUBSET Effects]
      BY Zenon DEF TypeInv, TypeOK
    <2>4. /\ made'[k] = made[k] \/ made'[k] = made[k] \cup ({task[k].pc} \cap Effects)
          /\ j # k => made'[j] = made[j]
      BY <1>3, <2>3, Zenon DEF StepThrows, Leave
    <2> QED
      BY <1>a, <1>b, <2>1, <2>2, <2>4, Zenon DEF Moves
  <1>4. ASSUME NEW k \in Tasks, StepDone(k) PROVE Goal
    <2>1. Moves(k, Following(k)) /\ task[k].pc \in Step
      BY <1>4, StepLeads, GotoMoves, Zenon DEF StepDone
    <2>2. made \in [Tasks -> SUBSET Effects]
      BY Zenon DEF TypeInv, TypeOK
    <2>3. /\ made'[k] = made[k] \cup ({task[k].pc} \cap Effects)
          /\ j # k => made'[j] = made[j]
      BY <1>4, <2>2, Zenon DEF StepDone, Leave
    <2>4. CASE j = k
      <3> DEFINE s == Order(task[k].kind)
                 l == n + 1
      <3>1. n \in Nat /\ l \in 1..Len(s) /\ task[k].pc = s[l] /\ made'[k] = Prefix(task[k].kind, l)
        BY <2>1, <2>3, <2>4, MadeStep
      <3>2. Following(k) = IF l = Len(s) THEN "launched" ELSE s[l + 1]
        BY <3>1, FollowingStep, Zenon
      <3>3. l \in Nat /\ Len(s) \in Nat /\ task'[k].kind = task[k].kind /\ task'[k].pc = Following(k)
        BY <2>1, <3>1, OrderFacts DEF Moves
      <3> HIDE DEF l
      <3>4. CASE l = Len(s)
        BY <2>4, <3>1, <3>2, <3>3, <3>4 DEF HasMade, Step, Effects
      <3>5. CASE l # Len(s)
        <4>1. s[l + 1] \in Step /\ l < Len(s)
          BY <3>1, <3>3, <3>5, OrderFacts
        <4>2. s[l + 1] # "launched" /\ s[l + 1] # "free"
          BY <4>1, Zenon DEF Step, Effects
        <4> QED
          BY <2>4, <3>1, <3>2, <3>3, <3>5, <4>1, <4>2 DEF HasMade
      <3> QED
        BY <3>4, <3>5, Zenon
    <2> QED
      BY <1>a, <2>1, <2>3, <2>4, Zenon DEF Moves
  <1>5. ASSUME NEW kinds, End(kinds) PROVE Goal
    <2>1. "gone" \notin Step \cup {"launched", "free"}
      BY Zenon DEF Step, Effects
    <2> QED
      BY <1>5, <1>a, <1>b, <2>1, EndTasks, Zenon
  <1>6. CASE UNCHANGED vars
    BY <1>6, <1>a, Zenon DEF vars
  <1> QED
    BY <1>1, <1>2, <1>3, <1>4, <1>5, <1>6, Zenon DEF Next, Continue, AgentEnds, LauncherEnds

\* Whatever number of handlers run and wherever one stops, what a launch has left
\* behind is made from the front of its steps (launchTokenInternal and the routes
\* of launcher/server.js), and is complete when it reports success.
THEOREM FromTheFront == Spec => []MadeInOrder
  <1>1. Init => ProgressInv
    <2>1. \A kind : Prefix(kind, 0) = {} /\ 0 \in 0..Len(Order(kind))
      BY OrderFacts DEF Prefix
    <2>2. HasMade([kind |-> "none", user |-> None, cfg |-> None, pc |-> "free"], {}, 0)
      BY <2>1, Zenon DEF HasMade, Step, Effects
    <2> QED
      BY <2>2, Zenon DEF Init, ProgressInv
  <1>2. ProgressInv => MadeInOrder
    <2> SUFFICES ASSUME ProgressInv, NEW k \in Tasks
                 PROVE  LET steps == Order(task[k].kind) IN
                          /\ \A i, j \in 1..Len(steps) :
                               i < j /\ steps[j] \in made[k] /\ steps[i] \in Effects => steps[i] \in made[k]
                          /\ task[k].pc = "launched" => made[k] = Steps(task[k].kind) \cap Effects
      BY Zenon DEF MadeInOrder
    <2>1. PICK n \in Nat : HasMade(task[k], made[k], n)
      BY Zenon DEF ProgressInv
    <2>2. ASSUME NEW i \in 1..Len(Order(task[k].kind)), NEW j \in 1..Len(Order(task[k].kind)), i < j,
                 Order(task[k].kind)[j] \in made[k], Order(task[k].kind)[i] \in Effects
          PROVE  Order(task[k].kind)[i] \in made[k]
      BY <2>1, <2>2, PrefixInOrder DEF HasMade
    <2>3. task[k].pc = "launched" => made[k] = Steps(task[k].kind) \cap Effects
      BY <2>1, Zenon DEF HasMade, Prefix, Steps
    <2> QED
      BY <2>2, <2>3, Zenon
  <1> QED
    BY <1>1, <1>2, InitTypes, TypeStep, ProgressStep, PTL DEF Spec

-----------------------------------------------------------------------------
(* Whose configuration a launch uses *)

\* The configuration kept for a user was generated for that user.
KeptOwn == \A u \in Users : lastConfigs[u] # None =>
             task[lastConfigs[u]].kind = "aicfg" /\ task[lastConfigs[u]].user = u

OwnInv == KeptOwn /\ OwnConfig

\* A handler that has begun keeps its kind, user and configuration; one that begins
\* to launch a kept configuration takes that of its user.
LEMMA TasksStay ==
  ASSUME TypeInv, [Next]_vars, NEW j \in Tasks
  PROVE  /\ task[j].kind # "none" =>
              task'[j].kind = task[j].kind /\ task'[j].user = task[j].user /\ task'[j].cfg = task[j].cfg
         /\ task[j].kind = "none" /\ task'[j].kind = "conf" =>
              task'[j].user \in Users /\ task'[j].cfg = lastConfigs[task'[j].user] /\ lastConfigs' = lastConfigs
  <1> DEFINE Same == task'[j].kind = task[j].kind /\ task'[j].user = task[j].user /\ task'[j].cfg = task[j].cfg
  <1>1. ASSUME NEW k \in Tasks, Continue(k) PROVE Same
    BY <1>1, ContinueMoves, Zenon DEF Moves
  <1>2. ASSUME NEW k \in Tasks, NEW u \in Users, Arrive(k, u), j # k PROVE Same
    BY <1>2, ArriveBegins DEF Begins
  <1>3. ASSUME NEW u \in Users, Arrive(j, u)
        PROVE  /\ task[j].kind = "none"
               /\ task'[j].kind = "conf" => task'[j].user = u /\ task'[j].cfg = lastConfigs[u] /\ lastConfigs' = lastConfigs
    <2>1. task[j].pc = "free" /\ task \in [Tasks -> Task]
      BY <1>3, ArriveBegins, Zenon DEF Begins, TypeInv, TypeOK
    <2>2. task[j].kind = "none"
      BY <2>1, Zenon DEF TypeInv, Placed
    <2>3. ASSUME NEW kind, NEW pc, NEW cfg, Begin(j, kind, u, pc, cfg)
          PROVE  task'[j].kind = kind /\ task'[j].user = u /\ task'[j].cfg = cfg
      BY <2>1, <2>3, Zenon DEF Begin
    <2>4. CASE LAUNCH_CONF(j, u)
      BY <2>2, <2>3, <2>4, Zenon DEF LAUNCH_CONF
    <2>5. CASE ~LAUNCH_CONF(j, u)
      <3>1. task'[j].kind # "conf"
        BY <1>3, <2>3, <2>5 DEF Arrive, AICFG, MANUAL, Text, Post, ApiKinds
      <3> QED
        BY <2>2, <3>1, Zenon
    <2> QED
      BY <2>4, <2>5, Zenon
  <1>4. ASSUME NEW kinds, End(kinds) PROVE Same
    BY <1>4, EndTasks, Zenon
  <1>5. CASE UNCHANGED vars
    BY <1>5, Zenon DEF vars
  <1> QED
    BY <1>1, <1>2, <1>3, <1>4, <1>5, Zenon DEF Next, AgentEnds, LauncherEnds

\* A configuration is kept by the handler that had it generated, for its user.
LEMMA KeptStep ==
  ASSUME TypeInv, [Next]_vars, NEW u \in Users
  PROVE  \/ lastConfigs'[u] = lastConfigs[u] \/ lastConfigs'[u] = None
         \/ \E k \in Tasks : lastConfigs'[u] = k /\ task[k].kind = "aicfg" /\ task[k].user = u
  <1>a. lastConfigs \in [Users -> Tasks \cup {None}]
    BY Zenon DEF TypeInv, TypeOK
  <1>1. ASSUME NEW k \in Tasks, Generated(k)
        PROVE  \/ lastConfigs'[u] = lastConfigs[u]
               \/ lastConfigs'[u] = k /\ task[k].kind = "aicfg" /\ task[k].user = u
    <2>1. task[k].kind = "aicfg" /\ task[k].user \in Users
      BY <1>1, Zenon DEF Generated, TypeInv, Placed
    <2> QED
      BY <1>1, <1>a, <2>1, Zenon DEF Generated, Remember
  <1>2. ASSUME NEW k \in Tasks, Continue(k), ~Generated(k) PROVE lastConfigs' = lastConfigs
    BY <1>2, Zenon DEF Continue, Previewed, Asked, StepDone, StepThrows
  <1>3. ASSUME NEW k \in Tasks, NEW v \in Users, Arrive(k, v) PROVE lastConfigs' = lastConfigs
    BY <1>3, Zenon DEF Arrive, AICFG, LAUNCH_CONF, MANUAL, Text, Post
  <1>4. CASE AgentEnds
    BY <1>4, Zenon DEF AgentEnds
  <1>5. CASE LauncherEnds \/ UNCHANGED vars
    BY <1>5, Zenon DEF LauncherEnds, vars
  <1> QED
    BY <1>1, <1>2, <1>3, <1>4, <1>5, Zenon DEF Next

\* Every step keeps the configurations with their users.
LEMMA OwnStep == TypeInv /\ OwnInv /\ [Next]_vars => OwnInv'
  <1> SUFFICES ASSUME TypeInv, OwnInv, [Next]_vars PROVE OwnInv'
    BY Zenon
  <1>a. lastConfigs \in [Users -> Tasks \cup {None}] /\ task \in [Tasks -> Task]
    BY Zenon DEF TypeInv, TypeOK
  \* What was generated for a user stays so.
  <1>b. ASSUME NEW c \in Tasks, NEW v, task[c].kind = "aicfg" /\ task[c].user = v
        PROVE  task'[c].kind = "aicfg" /\ task'[c].user = v
    BY <1>b, TasksStay, Zenon
  <1>1. KeptOwn'
    <2> SUFFICES ASSUME NEW u \in Users, lastConfigs'[u] # None
                 PROVE  task'[lastConfigs'[u]].kind = "aicfg" /\ task'[lastConfigs'[u]].user = u
      BY Zenon DEF KeptOwn
    <2>1. /\ lastConfigs'[u] \in Tasks
          /\ task[lastConfigs'[u]].kind = "aicfg" /\ task[lastConfigs'[u]].user = u
      BY <1>a, KeptStep DEF OwnInv, KeptOwn
    <2> QED
      BY <1>b, <2>1, Zenon
  <1>2. OwnConfig'
    <2> SUFFICES ASSUME NEW k \in Tasks, task'[k].kind = "conf", task'[k].cfg # None
                 PROVE  task'[task'[k].cfg].kind = "aicfg" /\ task'[task'[k].cfg].user = task'[k].user
      BY Zenon DEF OwnConfig
    <2>1. CASE task[k].kind # "none"
      <3>1. /\ task[k].kind = "conf" /\ task'[k].cfg = task[k].cfg /\ task'[k].user = task[k].user
            /\ task[k].cfg \in Tasks
        BY <1>a, <2>1, TasksStay, Zenon DEF Task
      <3> QED
        BY <1>b, <3>1 DEF OwnInv, OwnConfig
    <2>2. CASE task[k].kind = "none"
      <3>1. task'[k].user \in Users /\ task'[k].cfg = lastConfigs[task'[k].user]
        BY <2>2, TasksStay, Zenon
      <3>2. lastConfigs[task'[k].user] \in Tasks
        BY <1>a, <3>1, Zenon
      <3> QED
        BY <1>b, <3>1, <3>2 DEF OwnInv, KeptOwn
    <2> QED
      BY <2>1, <2>2, Zenon
  <1> QED
    BY <1>1, <1>2, Zenon DEF OwnInv

\* However many dialogues of however many users interleave, a confirmed launch uses
\* a configuration generated for the same user (telegram-client.js:221, 257).
THEOREM OwnConfigs == Spec => []OwnConfig
  <1>1. Init => OwnInv
    BY DEF Init, OwnInv, KeptOwn, OwnConfig
  <1>2. OwnInv => OwnConfig
    BY Zenon DEF OwnInv
  <1> QED
    BY <1>1, <1>2, InitTypes, TypeStep, OwnStep, PTL DEF Spec

-----------------------------------------------------------------------------
(* One text for each request for a configuration *)

Started     == {k \in Tasks : task[k].kind # "none"}
Texts(u)    == {k \in Tasks : task[k].kind = "text" /\ task[k].user = u}
Manuals(u)  == {k \in Tasks : task[k].kind = "manual" /\ task[k].user = u}
AskedFor(u) == {k \in Manuals(u) : task[k].pc = "asked"}
Awaited(u)  == IF u \in awaitingManual THEN 1 ELSE 0

\* The texts taken, and the one still awaited, are no more than the messages sent.
AskedInv ==
  /\ IsFiniteSet(Started)
  /\ \A u \in Users : Cardinality(Texts(u)) + Awaited(u) <= Cardinality(AskedFor(u))

\* The sets counted are finite.
LEMMA CountedFinite ==
  ASSUME AskedInv, NEW u
  PROVE  /\ IsFiniteSet(Texts(u)) /\ IsFiniteSet(Manuals(u)) /\ IsFiniteSet(AskedFor(u))
         /\ Cardinality(Texts(u)) \in Nat /\ Cardinality(Manuals(u)) \in Nat /\ Cardinality(AskedFor(u)) \in Nat
         /\ Cardinality(AskedFor(u)) <= Cardinality(Manuals(u))
  <1>1. Texts(u) \in SUBSET Started /\ Manuals(u) \in SUBSET Started /\ AskedFor(u) \in SUBSET Manuals(u)
    BY Zenon DEF Texts, Manuals, AskedFor, Started
  <1>2. IsFiniteSet(Texts(u)) /\ IsFiniteSet(Manuals(u))
    BY <1>1, FS_Subset, Zenon DEF AskedInv
  <1>3. IsFiniteSet(AskedFor(u)) /\ Cardinality(AskedFor(u)) <= Cardinality(Manuals(u))
    BY <1>1, <1>2, FS_Subset, Zenon
  <1> QED
    BY <1>2, <1>3, FS_CardinalityType, Zenon

\* At most one more handler has begun.
LEMMA StartedStep ==
  ASSUME TypeInv, [Next]_vars, IsFiniteSet(Started)
  PROVE  IsFiniteSet(Started')
  <1>1. ASSUME NEW k \in Tasks, NEW u \in Users, Arrive(k, u) PROVE Started' \in SUBSET (Started \cup {k})
    BY <1>1, ArriveBegins DEF Begins, Started
  <1>2. ASSUME NEW k \in Tasks, Continue(k) PROVE Started' = Started
    BY <1>2, ContinueMoves, Zenon DEF Moves, Started
  <1>3. ASSUME NEW kinds, End(kinds) PROVE Started' = Started
    BY <1>3, EndTasks, Zenon DEF Started
  <1>4. CASE UNCHANGED vars
    BY <1>4, Zenon DEF vars, Started
  <1>5. \A k : IsFiniteSet(Started \cup {k})
    BY FS_AddElement, Zenon
  <1>6. ASSUME NEW k, Started' \in SUBSET (Started \cup {k}) PROVE IsFiniteSet(Started')
    BY <1>5, <1>6, FS_Subset, Zenon
  <1> QED
    BY <1>1, <1>2, <1>3, <1>4, <1>6, Zenon DEF Next, AgentEnds, LauncherEnds

\* How a step changes what is counted: not at all, or a text is taken that was
\* awaited, or a message has been sent and a text is awaited.
LEMMA CountSteps ==
  ASSUME TypeInv, [Next]_vars, NEW u \in Users
  PROVE  \/ Texts(u)' = Texts(u) /\ AskedFor(u)' = AskedFor(u) /\ Awaited(u)' <= Awaited(u)
         \/ \E k \in Tasks : /\ Texts(u)' = Texts(u) \cup {k} /\ AskedFor(u)' = AskedFor(u)
                             /\ Awaited(u) = 1 /\ Awaited(u)' = 0
         \/ \E k \in Tasks \ AskedFor(u) : /\ Texts(u)' = Texts(u) /\ AskedFor(u)' = AskedFor(u) \cup {k}
                                           /\ Awaited(u)' = 1
  <1> DEFINE Quiet == Texts(u)' = Texts(u) /\ AskedFor(u)' = AskedFor(u) /\ Awaited(u)' <= Awaited(u)
             Takes == \E k \in Tasks : /\ Texts(u)' = Texts(u) \cup {k} /\ AskedFor(u)' = AskedFor(u)
                                       /\ Awaited(u) = 1 /\ Awaited(u)' = 0
             Asks  == \E k \in Tasks \ AskedFor(u) :
                        /\ Texts(u)' = Texts(u) /\ AskedFor(u)' = AskedFor(u) \cup {k} /\ Awaited(u)' = 1
  <1>a. ASSUME NEW A \in SUBSET awaitingManual, awaitingManual' = A PROVE Awaited(u)' <= Awaited(u)
    BY <1>a DEF Awaited
  <1>1. ASSUME NEW k \in Tasks, NEW v \in Users, Arrive(k, v) PROVE Quiet \/ Takes
    <2>1. PICK t \in Task : Begins(k, t) /\ t.user = v /\ t.pc # "asked"
      BY <1>1, ArriveBegins, Zenon
    <2>2. task[k].kind = "none" /\ task[k].pc = "free" /\ task'[k] = t /\ \A j \in Tasks : j # k => task'[j] = task[j]
      BY <2>1, Zenon DEF Begins, TypeInv, Placed
    <2>3. AskedFor(u)' = AskedFor(u)
      BY <2>1, <2>2, Zenon DEF AskedFor, Manuals
    <2>4. CASE t.kind = "text" /\ v = u
      <3>1. Texts(u)' = Texts(u) \cup {k}
        BY <2>1, <2>2, <2>4, Zenon DEF Texts
      <3>2. task \in [Tasks -> Task]
        BY Zenon DEF TypeInv, TypeOK
      <3>3. \E isJson \in BOOLEAN : Text(k, v, isJson)
        <4>1. ASSUME NEW kind, NEW pc, NEW cfg, Begin(k, kind, v, pc, cfg) PROVE kind = "text"
          BY <2>2, <2>4, <3>2, <4>1, Zenon DEF Begin
        <4> QED
          BY <1>1, <4>1, Zenon DEF Arrive, AICFG, LAUNCH_CONF, MANUAL, Post, ApiKinds
      <3>4. u \in awaitingManual /\ awaitingManual' = awaitingManual \ {u}
        BY <2>4, <3>3, Zenon DEF Text, Answer
      <3> QED
        BY <2>3, <3>1, <3>4, Zenon DEF Awaited
    <2>5. CASE ~(t.kind = "text" /\ v = u)
      <3>1. Texts(u)' = Texts(u)
        BY <2>1, <2>2, <2>5, Zenon DEF Texts
      <3>2. awaitingManual' \in SUBSET awaitingManual
        BY <1>1, Zenon DEF Arrive, AICFG, LAUNCH_CONF, MANUAL, Text, Answer, Post
      <3> QED
        BY <1>a, <2>3, <3>1, <3>2, Zenon
    <2> QED
      BY <2>4, <2>5, Zenon
  <1>2. ASSUME NEW k \in Tasks, Continue(k), ~Asked(k) PROVE Quiet
    <2>1. PICK pc \in Places : Moves(k, pc) /\ Leads(task[k], pc)
      BY <1>2, ContinueMoves, Zenon
    <2>2. task[k].pc \in {"generating", "previewing"} \cup Step /\ awaitingManual' = awaitingManual
      BY <1>2, Zenon DEF Continue, Generated, Previewed, StepDone, StepThrows
    <2>3. task[k].pc # "asked" /\ pc # "asked"
      BY <2>1, <2>2, Zenon DEF Leads, Step, Effects
    <2>4. Texts(u)' = Texts(u) /\ AskedFor(u)' = AskedFor(u)
      BY <2>1, <2>3 DEF Moves, Texts, AskedFor, Manuals
    <2> QED
      BY <1>a, <2>2, <2>4, Zenon
  <1>3. ASSUME NEW k \in Tasks, Asked(k) PROVE Quiet \/ Asks
    <2>1. Moves(k, "asked") /\ task[k].pc = "asking" /\ awaitingManual' = awaitingManual \cup {task[k].user}
      BY <1>3, GotoMoves, Zenon DEF Asked, Places, Ended
    <2>2. task[k].kind = "manual"
      BY <2>1, Zenon DEF TypeInv, Placed
    <2>3. Texts(u)' = Texts(u)
      BY <2>1, Zenon DEF Moves, Texts
    <2>4. CASE task[k].user = u
      <3>1. AskedFor(u)' = AskedFor(u) \cup {k} /\ k \notin AskedFor(u)
        BY <2>1, <2>2, <2>4, Zenon DEF Moves, AskedFor, Manuals
      <3> QED
        BY <2>1, <2>3, <2>4, <3>1, Zenon DEF Awaited
    <2>5. CASE task[k].user # u
      <3>1. AskedFor(u)' = AskedFor(u)
        BY <2>1, <2>2, <2>5, Zenon DEF Moves, AskedFor, Manuals
      <3> QED
        BY <2>1, <2>3, <2>5, <3>1 DEF Awaited
    <2> QED
      BY <2>4, <2>5, Zenon
  <1>4. CASE AgentEnds \/ LauncherEnds
    <2>1. Texts(u)' = Texts(u) /\ AskedFor(u)' = AskedFor(u)
      <3>1. PICK kinds : End(kinds)
        BY <1>4, Zenon DEF AgentEnds, LauncherEnds
      <3> QED
        BY <3>1, EndTasks DEF Texts, AskedFor, Manuals, Waiting, Step, Effects
    <2>2. awaitingManual' \in SUBSET awaitingManual
      BY <1>4, Zenon DEF AgentEnds, LauncherEnds
    <2> QED
      BY <1>a, <2>1, <2>2, Zenon
  <1>5. CASE UNCHANGED vars
    BY <1>5 DEF vars, Texts, AskedFor, Manuals, Awaited
  <1> QED
    BY <1>1, <1>2, <1>3, <1>4, <1>5, Zenon DEF Next

\* Every step keeps the texts within the messages sent.
LEMMA AskedStep == TypeInv /\ AskedInv /\ [Next]_vars => AskedInv'
  <1> SUFFICES ASSUME TypeInv, AskedInv, [Next]_vars, NEW u \in Users
               PROVE  Cardinality(Texts(u)') + Awaited(u)' <= Cardinality(AskedFor(u)')
    BY StartedStep, Zenon DEF AskedInv
  <1>1. /\ IsFiniteSet(Texts(u)) /\ IsFiniteSet(AskedFor(u))
        /\ Cardinality(Texts(u)) \in Nat /\ Cardinality(AskedFor(u)) \in Nat
    BY CountedFinite, Zenon
  <1>2. Awaited(u) \in 0..1 /\ Awaited(u)' \in 0..1
    BY DEF Awaited
  <1>3. Cardinality(Texts(u)) + Awaited(u) <= Cardinality(AskedFor(u))
    BY Zenon DEF AskedInv
  <1>4. CASE Texts(u)' = Texts(u) /\ AskedFor(u)' = AskedFor(u) /\ Awaited(u)' <= Awaited(u)
    BY <1>1, <1>2, <1>3, <1>4
  <1>5. ASSUME NEW k \in Tasks, Texts(u)' = Texts(u) \cup {k}, AskedFor(u)' = AskedFor(u),
               Awaited(u) = 1, Awaited(u)' = 0
        PROVE  Cardinality(Texts(u)') + Awaited(u)' <= Cardinality(AskedFor(u)')
    <2>1. Cardinality(Texts(u) \cup {k}) = IF k \in Texts(u) THEN Cardinality(Texts(u)) ELSE Cardinality(Texts(u)) + 1
      BY <1>1, FS_AddElement, Zenon
    <2> QED
      BY <1>1, <1>3, <1>5, <2>1
  <1>6. ASSUME NEW k \in Tasks \ AskedFor(u), Texts(u)' = Texts(u), AskedFor(u)' = AskedFor(u) \cup {k},
               Awaited(u)' = 1
        PROVE  Cardinality(Texts(u)') + Awaited(u)' <= Cardinality(AskedFor(u)')
    <2>1. Cardinality(AskedFor(u) \cup {k}) = Cardinality(AskedFor(u)) + 1
      BY <1>1, FS_AddElement, Zenon
    <2> QED
      BY <1>1, <1>2, <1>3, <1>6, <2>1
  <1> QED
    BY <1>4, <1>5, <1>6, CountSteps, Zenon

\* However many texts arrive together, each request for a manual configuration
\* leads to at most one launch (telegram-client.js:282-284, 296-297).
THEOREM OneTextEach == Spec => []ManualOnce
  <1>1. Init => AskedInv
    <2> SUFFICES ASSUME Init PROVE AskedInv
      BY Zenon
    <2>1. Started = {} /\ \A u \in Users : Texts(u) = {} /\ AskedFor(u) = {} /\ Awaited(u) = 0
      BY Zenon DEF Init, Started, Texts, AskedFor, Manuals, Awaited
    <2> QED
      BY <2>1, FS_EmptySet DEF AskedInv
  <1>2. AskedInv => ManualOnce
    <2> SUFFICES ASSUME AskedInv, NEW u \in Users
                 PROVE  Cardinality(Texts(u)) <= Cardinality(Manuals(u))
      BY Zenon DEF ManualOnce, Texts, Manuals
    <2>1. Awaited(u) \in 0..1
      BY DEF Awaited
    <2> QED
      BY <2>1, CountedFinite DEF AskedInv
  <1> QED
    BY <1>1, <1>2, InitTypes, TypeStep, AskedStep, PTL DEF Spec

-----------------------------------------------------------------------------
(* TasksEnd, without its fairness *)

\* How many steps a handler at place pc still makes, at most.
Left(pc) ==
  CASE pc = "free"                                      -> 8
    [] pc = "key"                                       -> 7
    [] pc = "mint"                                      -> 6
    [] pc = "account"                                   -> 5
    [] pc = "supply"                                    -> 4
    [] pc = "image"                                     -> 3
    [] pc \in {"meta", "generating"}                    -> 2
    [] pc \in {"pool", "trade", "previewing", "asking"} -> 1
    [] OTHER                                            -> 0

\* Every step of a handler leaves it fewer.
StepsLeft == [][\A k \in Tasks : task'[k] # task[k] => Left(task'[k].pc) < Left(task[k].pc)]_vars

\* The numbers, one by one.
LEMMA LeftAt ==
  /\ Left("free") = 8 /\ Left("key") = 7 /\ Left("mint") = 6 /\ Left("account") = 5 /\ Left("supply") = 4
  /\ Left("image") = 3 /\ Left("meta") = 2 /\ Left("pool") = 1 /\ Left("trade") = 1
  /\ Left("generating") = 2 /\ Left("previewing") = 1 /\ Left("asking") = 1
  /\ \A pc \in Ended : Left(pc) = 0
  <1>1. /\ Left("free") = 8 /\ Left("key") = 7 /\ Left("mint") = 6 /\ Left("account") = 5 /\ Left("supply") = 4
        /\ Left("image") = 3 /\ Left("meta") = 2 /\ Left("pool") = 1 /\ Left("trade") = 1
        /\ Left("generating") = 2 /\ Left("previewing") = 1 /\ Left("asking") = 1
    BY DEF Left
  <1>2. \A pc \in Ended : Left(pc) = 0
    BY DEF Left, Ended
  <1> QED
    BY <1>1, <1>2, Zenon

\* What follows a step of a handler is a step with fewer left, or the end.
LEMMA FollowingLeft ==
  ASSUME TypeInv, NEW k \in Tasks, task[k].pc \in Step
  PROVE  Left(Following(k)) < Left(task[k].pc)
  <1> DEFINE s == Order(task[k].kind)
  <1>1. PICK n \in 1..Len(s) : task[k].pc = s[n]
    BY Zenon DEF TypeInv, Placed, Steps
  <1>2. CASE n = Len(s)
    <2>1. Following(k) = "launched"
      BY <1>1, <1>2, FollowingStep, Zenon
    <2>2. "launched" \in Ended
      BY Zenon DEF Ended
    <2>3. Left("launched") = 0
      BY <2>2, LeftAt, Zenon
    <2> QED
      BY <2>1, <2>3, LeftAt DEF Step, Effects
  <1>3. CASE n # Len(s)
    <2>1. Following(k) = s[n + 1]
      BY <1>1, <1>3, FollowingStep, Zenon
    <2>2. CASE task[k].kind = "create-token"
      BY <1>1, <1>3, <2>1, <2>2, LeftAt DEF Order, CreateToken
    <2>3. CASE task[k].kind = "create-pool"
      BY <1>1, <1>3, <2>1, <2>3, LeftAt DEF Order, CreatePool
    <2>4. CASE task[k].kind = "trade-token"
      BY <1>1, <1>3, <2>1, <2>4, LeftAt DEF Order, TradeToken
    <2>5. CASE task[k].kind \notin {"create-token", "create-pool", "trade-token"}
      <3>1. s = <<"key", "mint", "account", "supply", "image", "meta", "pool">>
        BY <2>5, Zenon DEF Order, launchTokenInternal
      <3> QED
        BY <1>1, <1>3, <2>1, <3>1, LeftAt
    <2> QED
      BY <2>2, <2>3, <2>4, <2>5, Zenon
  <1> QED
    BY <1>2, <1>3, Zenon

\* A handler makes at most eight steps, whatever the chain, Redis and the image
\* service answer (telegram-client.js:213-300, server.js:244-470,
\* utils-launcher.js): no error leads back to an earlier await.
THEOREM TasksAreBounded == Spec => StepsLeft
  <1>1. ASSUME TypeInv, [Next]_vars, NEW x \in Tasks, task'[x] # task[x]
        PROVE  Left(task'[x].pc) < Left(task[x].pc)
    <2>1. task \in [Tasks -> Task]
      BY <1>1, Zenon DEF TypeInv, TypeOK
    <2>2. ASSUME NEW k \in Tasks, NEW pc \in Places, Goto(k, pc) PROVE k = x /\ task'[x].pc = pc
      <3>1. Moves(k, pc)
        BY <1>1, <2>2, GotoMoves, Zenon
      <3> QED
        BY <1>1, <3>1, Zenon DEF Moves
    <2>3. ASSUME NEW k \in Tasks, task[k].pc \in Waiting \cup Step,
                 Goto(k, "failed") \/ Goto(k, "shown") \/ Goto(k, "asked")
          PROVE  Left(task'[x].pc) < Left(task[x].pc)
      <3>1. k = x /\ task'[x].pc \in Ended
        BY <2>2, <2>3, Zenon DEF Places, Ended
      <3>2. Left(task'[x].pc) = 0
        BY <3>1, LeftAt, Zenon
      <3> QED
        BY <2>3, <3>1, <3>2, LeftAt DEF Waiting, Step, Effects
    <2>4. ASSUME NEW k \in Tasks, Continue(k) PROVE Left(task'[x].pc) < Left(task[x].pc)
      <3>1. CASE Generated(k) /\ Goto(k, "previewing")
        <4>1. k = x /\ task'[x].pc = "previewing" /\ task[x].pc = "generating"
          BY <2>2, <3>1, Zenon DEF Generated, Places, Waiting
        <4> QED
          BY <4>1, LeftAt
      <3>2. CASE StepDone(k)
        <4>1. task[k].pc \in Step /\ Goto(k, Following(k))
          BY <3>2, Zenon DEF StepDone
        <4>2. Following(k) \in Places
          BY <1>1, <4>1, StepLeads, Zenon
        <4>3. k = x /\ task'[x].pc = Following(k)
          BY <2>2, <4>1, <4>2, Zenon
        <4> QED
          BY <1>1, <4>1, <4>3, FollowingLeft, Zenon
      <3>3. CASE (Generated(k) /\ Goto(k, "failed")) \/ Previewed(k) \/ Asked(k)
        BY <2>3, <3>3, Zenon DEF Generated, Previewed, Asked, Waiting
      <3>4. CASE StepThrows(k)
        BY <2>3, <3>4, Zenon DEF StepThrows, OnError
      <3> QED
        BY <2>4, <3>1, <3>2, <3>3, <3>4, Zenon DEF Continue, Generated
    <2>5. ASSUME NEW k \in Tasks, NEW u \in Users, Arrive(k, u) PROVE Left(task'[x].pc) < Left(task[x].pc)
      <3>1. PICK t \in Task : Begins(k, t) /\ Placed(t) /\ (t.pc \in Step => t.pc = "key")
        BY <1>1, <2>5, ArriveBegins, Zenon
      <3>2. k = x /\ task'[x] = t /\ task[x].pc = "free"
        BY <1>1, <3>1, Zenon DEF Begins
      <3>3. t.pc # "free" /\ t.pc \in Waiting \cup Step \cup Ended
        BY <3>1, Zenon DEF Begins, Placed, Task, Places
      <3>4. Left(t.pc) < 8
        <4>1. CASE t.pc \in Ended
          BY <4>1, LeftAt
        <4>2. CASE t.pc \in Waiting
          BY <4>2, LeftAt DEF Waiting
        <4>3. CASE t.pc = "key"
          BY <4>3, LeftAt
        <4> QED
          BY <3>1, <3>3, <4>1, <4>2, <4>3, Zenon
      <3> QED
        BY <3>2, <3>4, LeftAt, Zenon
    <2>6. ASSUME NEW kinds, End(kinds) PROVE Left(task'[x].pc) < Left(task[x].pc)
      <3>1. task[x].pc \in Waiting \cup Step /\ task'[x].pc = "gone"
        BY <1>1, <2>6, EndTasks, Zenon
      <3>2. Left(task'[x].pc) = 0
        BY <3>1, LeftAt, Zenon DEF Ended
      <3> QED
        BY <3>1, <3>2, LeftAt DEF Waiting, Step, Effects
    <2>7. task' # task
      BY <1>1, Zenon
    <2> QED
      BY <1>1, <2>4, <2>5, <2>6, <2>7, Zenon DEF Next, AgentEnds, LauncherEnds, vars
  <1>2. TypeInv /\ [Next]_vars => [\A k \in Tasks : task'[k] # task[k] => Left(task'[k].pc) < Left(task[k].pc)]_vars
    BY <1>1, Zenon
  <1> QED
    BY <1>2, InitTypes, TypeStep, PTL DEF Spec, StepsLeft
=============================================================================
