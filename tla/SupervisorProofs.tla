-------------------------- MODULE SupervisorProofs ---------------------------
(***************************************************************************)
(* Proofs about Supervisor, for any number of deaths: every service has    *)
(* one process or one timer, the launcher's port is not lost, and what is  *)
(* left of SettlesDown without fairness: the steps come to an end, and     *)
(* they end nowhere but where all services run.                            *)
(***************************************************************************)
EXTENDS Supervisor, TLAPS

USE DeathsAssumption, NoneAssumption

\* The commands run together, and one that ended takes the container down.
CommandsInv ==
  /\ container = "up" => running = Commands
  /\ container = "down" => running = {} /\ script = 1 /\ alive = None0 /\ timers = None0 /\ port = None /\ tried = {}

\* No service before index.js, one process or timer with it, none too many after it.
ServicesInv ==
  /\ "agent" \in running /\ script < 3 => alive = None0 /\ timers = None0
  /\ "agent" \in running /\ script = 3 => \A c \in Children : alive[c] + timers[c] = 1
  /\ \A c \in Children : alive[c] + timers[c] <= 1

\* Who has tried to listen is running.
PortInv == PortNotLost /\ \A l \in tried : Up(l)

SupervisorInv == TypeOK /\ CommandsInv /\ ServicesInv /\ PortInv

\* The agent's command has three scripts, and the third is index.js.
LEMMA ScriptFacts == Len(Scripts) = 3 /\ Scripts[1] # "index" /\ Scripts[2] # "index" /\ Scripts[3] = "index"
  BY DEF Scripts

\* At first nothing runs.
LEMMA InitInv == Init => SupervisorInv
  <1> USE DEF Init, None0
  <1>1. Init => TypeOK
    BY ScriptFacts DEF TypeOK
  <1>2. Init => CommandsInv /\ ServicesInv
    BY DEF CommandsInv, ServicesInv
  <1>3. Init => PortInv
    BY DEF PortInv, PortNotLost
  <1> QED
    BY <1>1, <1>2, <1>3 DEF SupervisorInv

\* What is counted stays within its bounds in every step.
LEMMA TypeStep == ASSUME SupervisorInv, [Next]_vars PROVE TypeOK'
  <1> USE ScriptFacts DEF SupervisorInv, TypeOK
  <1>1. CASE DockerStarts
    BY <1>1 DEF DockerStarts
  <1>2. CASE NextScript
    BY <1>2 DEF NextScript
  <1>3. CASE ContainerStops
    BY <1>3 DEF ContainerStops, None0
  <1>4. ASSUME NEW p \in Commands, CommandEnds(p) PROVE TypeOK'
    BY <1>4 DEF CommandEnds, Release
  <1>5. ASSUME NEW p \in Commands, KillOther(p) PROVE TypeOK'
    BY <1>5 DEF KillOther, Release
  <1>6. ASSUME NEW c \in Children, ChildEnds(c) PROVE TypeOK'
    <2>1. alive[c] = 1 /\ timers[c] = 0
      BY <1>6 DEF ChildEnds, ServicesInv
    <2>2. alive' \in [Children -> 0..1] /\ timers' \in [Children -> 0..1]
      BY <1>6, <2>1 DEF ChildEnds
    <2> QED
      BY <1>6, <2>2 DEF ChildEnds, Release
  <1>7. ASSUME NEW c \in Children, StartAgain(c) PROVE TypeOK'
    <2>1. alive[c] = 0 /\ timers[c] = 1
      BY <1>7 DEF StartAgain, ServicesInv
    <2> QED
      BY <1>7, <2>1 DEF StartAgain
  <1>8. ASSUME NEW l \in Launchers, Listen(l) PROVE TypeOK'
    BY <1>8 DEF Listen
  <1>9. CASE UNCHANGED vars
    BY <1>9 DEF vars
  <1> QED
    BY <1>1, <1>2, <1>3, <1>4, <1>5, <1>6, <1>7, <1>8, <1>9 DEF Next

\* Commands start together, and a container that is down has nothing in it.
LEMMA CommandsStep == ASSUME SupervisorInv, [Next]_vars PROVE CommandsInv'
  <1> USE DEF SupervisorInv, CommandsInv
  <1>1. CASE DockerStarts
    BY <1>1 DEF DockerStarts
  <1>2. CASE NextScript
    BY <1>2 DEF NextScript
  <1>3. CASE ContainerStops
    BY <1>3 DEF ContainerStops
  <1>4. ASSUME NEW p \in Commands, CommandEnds(p) \/ KillOther(p) PROVE CommandsInv'
    BY <1>4 DEF CommandEnds, KillOther
  <1>5. ASSUME NEW c \in Children, ChildEnds(c) \/ StartAgain(c) PROVE CommandsInv'
    BY <1>5 DEF ChildEnds, StartAgain, None0
  <1>6. ASSUME NEW l \in Launchers, Listen(l) PROVE CommandsInv'
    <2>1. l \in Commands \cup Children
      BY DEF Launchers, Commands, Children
    <2>2. container = "down" => ~Up(l)
      BY <2>1 DEF Up, None0
    <2> QED
      BY <1>6, <2>2 DEF Listen
  <1>7. CASE UNCHANGED vars
    BY <1>7 DEF vars
  <1> QED
    BY <1>1, <1>2, <1>3, <1>4, <1>5, <1>6, <1>7 DEF Next

\* A service is spawned once by index.js, and a timer stands for each that ended.
LEMMA ServicesStep == ASSUME SupervisorInv, [Next]_vars PROVE ServicesInv'
  <1> USE DEF SupervisorInv, ServicesInv
  <1>a. alive \in [Children -> 0..1] /\ timers \in [Children -> 0..1] /\ script \in 1..3
    BY ScriptFacts DEF TypeOK
  <1>1. CASE DockerStarts
    BY <1>1, <1>a DEF DockerStarts, CommandsInv, None0
  <1>2. CASE NextScript
    BY <1>2, <1>a, ScriptFacts DEF NextScript, None0
  <1>3. CASE ContainerStops
    BY <1>3 DEF ContainerStops, None0
  <1>4. ASSUME NEW p \in Commands, CommandEnds(p) \/ KillOther(p) PROVE ServicesInv'
    BY <1>4 DEF CommandEnds, KillOther
  <1>5. ASSUME NEW c \in Children, ChildEnds(c) PROVE ServicesInv'
    BY <1>5, <1>a DEF ChildEnds, None0
  <1>6. ASSUME NEW c \in Children, StartAgain(c) PROVE ServicesInv'
    BY <1>6, <1>a DEF StartAgain, None0
  <1>7. ASSUME NEW l \in Launchers, Listen(l) PROVE ServicesInv'
    BY <1>7 DEF Listen
  <1>8. CASE UNCHANGED vars
    BY <1>8 DEF vars
  <1> QED
    BY <1>1, <1>2, <1>3, <1>4, <1>5, <1>6, <1>7, <1>8 DEF Next

\* The port is free only while a launcher is still to try.
LEMMA PortStep == ASSUME SupervisorInv, [Next]_vars PROVE PortInv'
  <1> USE DEF SupervisorInv, PortInv, PortNotLost, Up
  <1>a. /\ alive \in [Children -> 0..1] /\ timers \in [Children -> 0..1] /\ script \in 1..3
        /\ tried \subseteq Launchers /\ port \in Launchers \cup {None} /\ running \subseteq Commands
    BY ScriptFacts DEF TypeOK
  <1>b. /\ "launcher" \in Commands /\ "launcher" \notin Children /\ "Launcher" \in Children
        /\ "Launcher" \notin Commands /\ Launchers = {"launcher", "Launcher"} /\ "agent" \in Commands
        /\ Commands \cap Children = {}
    BY DEF Commands, Children, Launchers
  <1>1. CASE DockerStarts
    BY <1>1, <1>a, <1>b, Zenon DEF DockerStarts, CommandsInv
  <1>2. CASE NextScript
    <2>1. alive = None0 /\ timers = None0 /\ "agent" \in running
      BY <1>2, <1>a, ScriptFacts DEF NextScript, ServicesInv
    <2>2. /\ \A c \in Children : alive'[c] \in Nat /\ alive'[c] >= alive[c]
          /\ running' = running /\ timers' = timers /\ port' = port /\ tried' = tried /\ container' = container
      BY <1>2, <1>a, <2>1 DEF NextScript, None0
    <2>3. \A l \in Launchers : Up(l) => Up(l)'
      BY <1>a, <1>b, <2>2
    <2> QED
      BY <1>a, <2>2, <2>3
  <1>3. CASE ContainerStops
    BY <1>3 DEF ContainerStops
  <1>4. ASSUME NEW p \in Commands, CommandEnds(p) \/ KillOther(p) PROVE PortInv'
    BY <1>4, <1>a, <1>b, Zenon DEF CommandEnds, KillOther, Release
  <1>5. ASSUME NEW c \in Children, ChildEnds(c) PROVE PortInv'
    <2>1. alive[c] = 1 /\ timers[c] = 0
      BY <1>5, <1>a DEF ChildEnds, ServicesInv
    <2>2. container = "up" => timers'[c] = 1
      BY <1>5, <1>a, <1>b, <2>1 DEF ChildEnds, CommandsInv
    <2>3. /\ tried' = tried \ {c} /\ port' = (IF port = c THEN None ELSE port) /\ running' = running
          /\ container' = container
          /\ \A d \in Children : d # c => alive'[d] = alive[d] /\ timers'[d] = timers[d]
      BY <1>5, <1>a DEF ChildEnds, Release
    <2> HIDE DEF PortNotLost
    <2>4. \A l \in tried' : Up(l)'
      BY <1>a, <1>b, <2>3
    <2>5. port' # None => Up(port)' /\ port' \in tried'
      BY <1>a, <1>b, <2>3 DEF PortNotLost
    <2>6. ASSUME port' = None, container' = "up"
          PROVE  \E l \in Launchers : (Up(l)' /\ l \notin tried') \/ (l \in Children /\ timers'[l] > 0)
      <3>1. CASE c = "Launcher"
        BY <1>b, <2>2, <2>3, <2>6, <3>1
      <3>2. CASE c # "Launcher"
        BY <1>a, <1>b, <2>3, <2>6, <3>2, ZenonT(60) DEF PortNotLost
      <3> QED
        BY <3>1, <3>2
    <2> QED
      BY <2>4, <2>5, <2>6 DEF PortNotLost
  <1>6. ASSUME NEW c \in Children, StartAgain(c) PROVE PortInv'
    <2>1. alive[c] = 0 /\ timers[c] = 1
      BY <1>6, <1>a DEF StartAgain, ServicesInv
    <2>2. ~Up(c)
      BY <1>b, <2>1
    <2>3. c \notin tried
      BY <2>2
    <2>4. /\ tried' = tried /\ port' = port /\ running' = running /\ container' = container /\ alive'[c] = 1
          /\ \A d \in Children : d # c => alive'[d] = alive[d] /\ timers'[d] = timers[d]
      BY <1>6, <1>a, <2>1 DEF StartAgain
    <2>5. Up(c)' /\ \A l \in Launchers : Up(l) => Up(l)'
      <3>1. Up(c)'
        BY <1>b, <2>4
      <3>2. ASSUME NEW l \in Launchers, l # c, Up(l) PROVE Up(l)'
        BY <1>b, <2>4, <3>2
      <3> QED
        BY <3>1, <3>2
    <2>6. ASSUME port' = None, container' = "up"
          PROVE  \E l \in Launchers : (Up(l)' /\ l \notin tried') \/ (l \in Children /\ timers'[l] > 0)
      <3>1. PICK l \in Launchers : (Up(l) /\ l \notin tried) \/ (l \in Children /\ timers[l] > 0)
        BY <2>4, <2>6
      <3>2. CASE l = c
        BY <2>3, <2>4, <2>5, <3>2
      <3>3. CASE l # c
        BY <2>4, <2>5, <3>1, <3>3
      <3> QED
        BY <3>2, <3>3
    <2>7. /\ port' # None => Up(port)' /\ port' \in tried'
          /\ \A l \in tried' : Up(l)'
      BY <1>a, <2>4, <2>5
    <2> QED
      BY <2>6, <2>7
  <1>7. ASSUME NEW l \in Launchers, Listen(l) PROVE PortInv'
    BY <1>7, <1>a, <1>b DEF Listen
  <1>8. CASE UNCHANGED vars
    BY <1>8 DEF vars
  <1> QED
    BY <1>1, <1>2, <1>3, <1>4, <1>5, <1>6, <1>7, <1>8 DEF Next

\* The three invariants hold in every state.
LEMMA Always == Spec => []SupervisorInv
  <1>1. SupervisorInv /\ [Next]_vars => SupervisorInv'
    BY TypeStep, CommandsStep, ServicesStep, PortStep DEF SupervisorInv
  <1> QED
    BY <1>1, InitInv, PTL DEF Spec

\* A service never has two processes or two timers (index.js:25-36), after however
\* many deaths.
THEOREM TypeCorrect == Spec => []TypeOK
  <1>1. SupervisorInv => TypeOK
    BY DEF SupervisorInv
  <1> QED
    BY <1>1, Always, PTL

\* While index.js runs, each service has exactly one process or one timer that will
\* start it (index.js:25-36).
THEOREM AlwaysSupervised == Spec => []Supervised
  <1>1. SupervisorInv => Supervised
    BY ScriptFacts DEF SupervisorInv, ServicesInv, TypeOK, Supervised
  <1> QED
    BY <1>1, Always, PTL

\* Of two launchers on one port, whichever order they and the others end in, one has
\* the port or is still to try (index.js:40, package.json:11-12, launcher/server.js:471).
THEOREM PortKept == Spec => []PortNotLost
  <1>1. SupervisorInv => PortNotLost
    BY DEF SupervisorInv, PortInv
  <1> QED
    BY <1>1, Always, PTL

-----------------------------------------------------------------------------
(* SettlesDown, without its fairness *)

\* No start, restart, kill or listen is due: all that can still happen is a death.
AtRest ==
  /\ container = "up"
  /\ ~("agent" \in running /\ script < Len(Scripts))
  /\ \A c \in Children : ~(timers[c] > 0 /\ "agent" \in running)
  /\ \A l \in Launchers : ~(Up(l) /\ l \notin tried)

\* When nothing is due any more, every service runs and a launcher has the port:
\* the restarts of index.js, concurrently and Docker do not end halfway, and the
\* two launchers do not wait for each other (index.js:25-40, package.json:11-12).
THEOREM RestsInService == Spec => [](AtRest => AllServe)
<1>1. ASSUME SupervisorInv, AtRest PROVE AllServe
  <2>1. running = Commands /\ "agent" \in running /\ container = "up"
    BY <1>1 DEF AtRest, SupervisorInv, CommandsInv, Commands
  <2>2. script = 3 /\ alive \in [Children -> 0..1] /\ timers \in [Children -> 0..1]
    BY <1>1, <2>1, ScriptFacts DEF AtRest, SupervisorInv, TypeOK
  <2>3. \A c \in Children : timers[c] = 0 /\ alive[c] > 0
    BY <1>1, <2>1, <2>2 DEF AtRest, SupervisorInv, ServicesInv
  <2>4. port # None
    BY <1>1, <2>1, <2>3 DEF AtRest, SupervisorInv, PortInv, PortNotLost
  <2> QED
    BY <2>1, <2>3, <2>4 DEF AllServe
<1> QED
  BY <1>1, Always, PTL

\* One or zero, to add up.
One(b) == IF b THEN 1 ELSE 0

\* What is left to do before the next death: timers that are to fire, calls of
\* listen, commands that are to be killed, the stop and the start of the container.
DueTimers  == timers["Metrics"] + timers["Worker"] + timers["Launcher"]
DueListens == One("launcher" \notin tried) + One("Launcher" \notin tried)
DueKills   == One("agent" \in running) + One("api" \in running) + One("launcher" \in running)
DueTurns   == IF container = "up" THEN 0 ELSE IF container = "down" THEN 7 ELSE 18

\* Taken together with the scripts that are to run.  A command that is killed may
\* be a launcher that will listen again, and a start has all of them to kill.
Due == 4 * (3 - script) + DueTimers + DueListens + 2 * DueKills + DueTurns

\* How much is left to do, deaths included.
Work == 40 * (MaxDeaths - deaths) + Due

\* Every step, of whichever process, leaves less to do.
WorkEnds == [](Work \in Nat) /\ [][Work' < Work]_vars

DueOK ==
  /\ script \in 1..3 /\ DueTimers \in 0..3 /\ DueListens \in 0..2 /\ DueKills \in 0..3 /\ DueTurns \in 0..18
  /\ Due \in 0..37

\* What is due between two deaths is less than what a death costs.
LEMMA DueType == TypeOK => DueOK
<1> SUFFICES ASSUME TypeOK PROVE DueOK
  OBVIOUS
<1>1. script \in 1..3 /\ timers["Metrics"] \in 0..1 /\ timers["Worker"] \in 0..1 /\ timers["Launcher"] \in 0..1
  BY ScriptFacts DEF TypeOK, Children
<1>2. DueTimers \in 0..3
  BY <1>1 DEF DueTimers
<1>3. DueListens \in 0..2 /\ DueKills \in 0..3
  BY DEF DueListens, DueKills, One
<1>4. DueTurns \in 0..18
  BY DEF DueTurns
<1>5. Due \in 0..37
  BY <1>1, <1>2, <1>3, <1>4 DEF Due
<1> QED
  BY <1>1, <1>2, <1>3, <1>4, <1>5 DEF DueOK

\* After any death the processes are started again in a bounded number of steps, at
\* most 37 until the next death: no two of them restart each other for ever
\* (index.js:25-36, package.json:11-12, docker-compose.yml:40).
THEOREM WorkIsBounded == Spec => WorkEnds
<1>1. ASSUME SupervisorInv PROVE Work \in Nat
  <2>1. deaths \in 0..MaxDeaths /\ TypeOK
    BY <1>1 DEF SupervisorInv, TypeOK
  <2>2. Due \in 0..37
    BY <2>1, DueType DEF DueOK
  <2> QED
    BY <2>1, <2>2 DEF Work
<1>2. ASSUME SupervisorInv, SupervisorInv', Next PROVE Work' < Work
  <2>1. /\ script \in 1..3 /\ timers \in [Children -> 0..1] /\ deaths \in 0..MaxDeaths /\ TypeOK /\ TypeOK'
        /\ tried \subseteq Launchers /\ running \subseteq Commands
    BY <1>2, ScriptFacts DEF SupervisorInv, TypeOK
  <2>a. DueOK /\ DueOK'
    BY <2>1, DueType, PTL
  <2>b. /\ script \in 1..3 /\ DueTimers \in 0..3 /\ DueListens \in 0..2 /\ DueKills \in 0..3 /\ DueTurns \in 0..18
        /\ Due \in 0..37
        /\ script' \in 1..3 /\ DueTimers' \in 0..3 /\ DueListens' \in 0..2 /\ DueKills' \in 0..3
        /\ DueTurns' \in 0..18 /\ Due' \in 0..37
    BY <2>a DEF DueOK
  <2>3. ASSUME deaths' = deaths + 1 PROVE Work' < Work
    <3>1. \A d \in 0..MaxDeaths, x, y \in 0..37 : 40 * (MaxDeaths - (d + 1)) + x < 40 * (MaxDeaths - d) + y
      OBVIOUS
    <3> QED
      BY <2>1, <2>b, <2>3, <3>1, Zenon DEF Work
  <2>4. ASSUME deaths' = deaths, Due' < Due PROVE Work' < Work
    <3>1. \A d \in 0..MaxDeaths, x, y \in 0..37 : x < y => 40 * (MaxDeaths - d) + x < 40 * (MaxDeaths - d) + y
      OBVIOUS
    <3> QED
      BY <2>1, <2>b, <2>4, <3>1, Zenon DEF Work
  <2>5. CASE DockerStarts
    <3>1. /\ DueTimers' = DueTimers /\ DueListens' = DueListens /\ deaths' = deaths /\ DueTurns = 7 /\ DueTurns' = 0
          /\ script' = 1
      BY <2>5 DEF DockerStarts, DueTimers, DueListens, DueTurns
    <3>2. DueKills = 0 /\ script = 1
      BY <1>2, <2>5 DEF DockerStarts, SupervisorInv, CommandsInv, DueKills, One
    <3>3. \A t \in 0..3, l \in 0..2, k \in 0..3 : 4 * (3 - 1) + t + l + 2 * k + 0 < 4 * (3 - 1) + t + l + 2 * 0 + 7
      OBVIOUS
    <3>4. Due' < Due
      BY <2>b, <3>1, <3>2, <3>3, Zenon DEF Due
    <3> QED
      BY <2>4, <3>1, <3>4
  <2>6. CASE NextScript
    <3>1. /\ DueTimers' = DueTimers /\ DueListens' = DueListens /\ DueKills' = DueKills /\ DueTurns' = DueTurns
          /\ deaths' = deaths /\ script' = script + 1
      BY <2>6 DEF NextScript, DueTimers, DueListens, DueKills, DueTurns
    <3>2. Due' < Due
      BY <2>b, <3>1 DEF Due
    <3> QED
      BY <2>4, <3>1, <3>2
  <2>7. CASE ContainerStops
    <3>1. DueKills = 0 /\ DueKills' = 0 /\ DueTurns = 18 /\ DueTurns' = 7 /\ deaths' = deaths /\ script' = 1
      BY <2>7 DEF ContainerStops, DueKills, DueTurns, One
    <3>2. DueTimers' = 0
      BY <2>7 DEF ContainerStops, DueTimers, None0, Children
    <3>3. \A s \in 1..3, t \in 0..3, l, m \in 0..2 :
            4 * (3 - 1) + 0 + m + 2 * 0 + 7 < 4 * (3 - s) + t + l + 2 * 0 + 18
      OBVIOUS
    <3>4. Due' < Due
      BY <2>b, <3>1, <3>2, <3>3, Zenon DEF Due
    <3> QED
      BY <2>4, <3>1, <3>4
  <2>8. ASSUME NEW p \in Commands, KillOther(p) PROVE Work' < Work
    <3>1. /\ DueTimers' = DueTimers /\ DueTurns' = DueTurns /\ deaths' = deaths /\ script' = script
      BY <2>8 DEF KillOther, DueTimers, DueTurns
    <3>2. DueKills' = DueKills - 1
      BY <2>8 DEF KillOther, DueKills, One, Commands
    <3>3. DueListens' <= DueListens + 1
      BY <2>8 DEF KillOther, Release, DueListens, One, Commands
    <3>4. \A s \in 1..3, t \in 0..3, l, m \in 0..2, k \in 0..3, u \in 0..18 :
            m <= l + 1 => 4 * (3 - s) + t + m + 2 * (k - 1) + u < 4 * (3 - s) + t + l + 2 * k + u
      OBVIOUS
    <3>5. Due' < Due
      BY <2>b, <3>1, <3>2, <3>3, <3>4, Zenon DEF Due
    <3> QED
      BY <2>4, <3>1, <3>5
  <2>9. ASSUME NEW c \in Children, StartAgain(c) PROVE Work' < Work
    <3>1. /\ DueListens' = DueListens /\ DueKills' = DueKills /\ DueTurns' = DueTurns /\ deaths' = deaths
          /\ script' = script
      BY <2>9 DEF StartAgain, DueListens, DueKills, DueTurns
    <3>2. DueTimers' = DueTimers - 1
      BY <2>1, <2>9 DEF StartAgain, DueTimers, Children
    <3>3. Due' < Due
      BY <2>b, <3>1, <3>2 DEF Due
    <3> QED
      BY <2>4, <3>1, <3>3
  <2>10. ASSUME NEW l \in Launchers, Listen(l) PROVE Work' < Work
    <3>1. /\ DueTimers' = DueTimers /\ DueKills' = DueKills /\ DueTurns' = DueTurns /\ deaths' = deaths
          /\ script' = script
      BY <2>10 DEF Listen, DueTimers, DueKills, DueTurns
    <3>2. DueListens' = DueListens - 1
      BY <2>10 DEF Listen, DueListens, One, Launchers
    <3>3. Due' < Due
      BY <2>b, <3>1, <3>2 DEF Due
    <3> QED
      BY <2>4, <3>1, <3>3
  <2>11. ASSUME NEW p \in Commands, CommandEnds(p) PROVE Work' < Work
    BY <2>3, <2>11 DEF CommandEnds
  <2>12. ASSUME NEW c \in Children, ChildEnds(c) PROVE Work' < Work
    BY <2>3, <2>12 DEF ChildEnds
  <2> QED
    BY <1>2, <2>5, <2>6, <2>7, <2>8, <2>9, <2>10, <2>11, <2>12 DEF Next
<1>3. SupervisorInv /\ SupervisorInv' /\ [Next]_vars => [Work' < Work]_vars
  BY <1>2
<1> QED
  BY <1>1, <1>3, Always, PTL DEF Spec, WorkEnds
=============================================================================
