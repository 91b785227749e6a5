------------------------------ MODULE Supervisor ------------------------------
(***************************************************************************)
(* What starts the processes and starts them again: Docker runs `npm       *)
(* start`, which runs the agent, the API and a launcher side by side       *)
(* (package.json: concurrently -k); the agent's command is three scripts   *)
(* in a row, and the last, index.js, spawns metrics, worker and a second   *)
(* launcher and starts each again five seconds after it has ended          *)
(* (startService).                                                         *)
(*                                                                         *)
(* When one of the three commands ends, concurrently ends the others and   *)
(* then itself, and Docker starts the container again.  Both launchers     *)
(* listen on one port.  The one that comes second is told so in the        *)
(* callback of app.listen (Express 5), which does not look: it lives on    *)
(* without the port and does not try again.                                *)
(***************************************************************************)
EXTENDS Naturals, Sequences

CONSTANTS
  MaxDeaths,  \* bound on processes that end
  None        \* nobody has the port

ASSUME DeathsAssumption == MaxDeaths \in Nat

Commands  == {"agent", "api", "launcher"}
Children  == {"Metrics", "Worker", "Launcher"}
Launchers == {"launcher", "Launcher"}
Scripts   == <<"ensure-deps", "check-env", "index">>

ASSUME NoneAssumption == None \notin Launchers

VARIABLES
  container,  \* "down", "up" or "stopping"
  running,    \* commands of concurrently that have not ended
  script,     \* place in Scripts of the agent's command
  alive,      \* child -> its processes
  timers,     \* child -> its timers in index.js
  port,       \* the launcher that has the port
  tried,      \* launchers that have called listen
  deaths      \* processes that have ended so far

vars == <<container, running, script, alive, timers, port, tried, deaths>>

None0 == [c \in Children |-> 0]

Up(p) == IF p \in Commands THEN p \in running ELSE alive[p] > 0

-----------------------------------------------------------------------------
\* restart: unless-stopped; concurrently spawns its three commands, once the
\* prestart script of package.json:8 has found the Redis server it starts.
DockerStarts ==
  /\ container = "down"
  /\ container' = "up" /\ running' = Commands /\ script' = 1
  /\ UNCHANGED <<alive, timers, port, tried, deaths>>

\* The next script of the agent's command; index.js spawns its services.
NextScript ==
  /\ "agent" \in running /\ script < Len(Scripts)
  /\ script' = script + 1
  /\ alive' = IF Scripts[script'] = "index" THEN [c \in Children |-> 1] ELSE alive
  /\ UNCHANGED <<container, running, timers, port, tried, deaths>>

\* Faulty: as before Express 5, a port in use is an error that nothing catches.
ListenThrows(l) ==
  /\ Up(l) /\ l \notin tried
  /\ tried' = IF port = None THEN tried \cup {l} ELSE tried
  /\ IF port = None THEN port' = l /\ UNCHANGED <<container, running, alive, timers>>
     ELSE /\ UNCHANGED port
          /\ IF l \in Commands
             THEN container' = "stopping" /\ running' = running \ {l} /\ UNCHANGED <<alive, timers>>
             ELSE /\ alive' = [alive EXCEPT ![l] = @ - 1] /\ timers' = [timers EXCEPT ![l] = @ + 1]
                  /\ UNCHANGED <<container, running>>
  /\ UNCHANGED <<script, deaths>>

Listen(l) ==
  /\ Up(l) /\ l \notin tried
  /\ tried' = tried \cup {l}
  /\ port' = IF port = None THEN l ELSE port
  /\ UNCHANGED <<container, running, script, alive, timers, deaths>>

Release(p) ==
  /\ port' = IF port = p THEN None ELSE port
  /\ tried' = tried \ {p}

-----------------------------------------------------------------------------
(* A process ends, whatever the reason and the exit code *)

\* Faulty: without -k, the other commands go on.
CommandEndsAlone(p) ==
  /\ p \in running /\ container = "up" /\ deaths < MaxDeaths
  /\ deaths' = deaths + 1
  /\ running' = running \ {p}
  /\ Release(p)
  /\ UNCHANGED <<container, script, alive, timers>>

CommandEnds(p) ==
  /\ p \in running /\ container = "up" /\ deaths < MaxDeaths
  /\ deaths' = deaths + 1
  /\ running' = running \ {p}
  /\ container' = "stopping"
  /\ Release(p)
  /\ UNCHANGED <<script, alive, timers>>

\* Faulty: only a failure is followed by a restart.
ChildEndsQuietly(c) ==
  /\ alive[c] > 0 /\ deaths < MaxDeaths
  /\ deaths' = deaths + 1
  /\ alive' = [alive EXCEPT ![c] = @ - 1]
  /\ timers' = timers \/ timers' = [timers EXCEPT ![c] = @ + 1]
  /\ Release(c)
  /\ UNCHANGED <<container, running, script>>

\* The exit handler of startService sets a timer, if index.js is there to hear it.
ChildEnds(c) ==
  /\ alive[c] > 0 /\ deaths < MaxDeaths
  /\ deaths' = deaths + 1
  /\ alive' = [alive EXCEPT ![c] = @ - 1]
  /\ timers' = IF "agent" \in running THEN [timers EXCEPT ![c] = @ + 1] ELSE timers
  /\ Release(c)
  /\ UNCHANGED <<container, running, script>>

\* The five seconds are over.
StartAgain(c) ==
  /\ timers[c] > 0 /\ "agent" \in running
  /\ timers' = [timers EXCEPT ![c] = @ - 1]
  /\ alive' = [alive EXCEPT ![c] = @ + 1]
  /\ UNCHANGED <<container, running, script, port, tried, deaths>>

\* concurrently -k ends the other commands, one after the other.
KillOther(p) ==
  /\ container = "stopping" /\ p \in running
  /\ running' = running \ {p}
  /\ Release(p)
  /\ UNCHANGED <<container, script, alive, timers, deaths>>

\* The first process of the container has ended, and all others with it.
ContainerStops ==
  /\ container = "stopping" /\ running = {}
  /\ container' = "down" /\ script' = 1
  /\ alive' = None0 /\ timers' = None0 /\ port' = None /\ tried' = {}
  /\ UNCHANGED <<running, deaths>>

-----------------------------------------------------------------------------
Init ==
  /\ container = "down" /\ running = {} /\ script = 1
  /\ alive = None0 /\ timers = None0
  /\ port = None /\ tried = {} /\ deaths = 0

Next ==
  \/ DockerStarts \/ NextScript \/ ContainerStops
  \/ \E p \in Commands : CommandEnds(p) \/ KillOther(p)
  \/ \E c \in Children : ChildEnds(c) \/ StartAgain(c)
  \/ \E l \in Launchers : Listen(l)

Spec == Init /\ [][Next]_vars

\* Everything is started in the end; nothing has to end by itself.
FairSpec ==
  /\ Spec
  /\ WF_vars(DockerStarts) /\ WF_vars(NextScript) /\ WF_vars(ContainerStops)
  /\ \A p \in Commands : WF_vars(KillOther(p))
  /\ \A c \in Children : WF_vars(StartAgain(c))
  /\ \A l \in Launchers : WF_vars(Listen(l))

-----------------------------------------------------------------------------
(* Properties *)

\* Type invariant; a service of index.js has at most one process and at most one
\* timer that will start it.
TypeOK ==
  /\ container \in {"down", "up", "stopping"} /\ running \subseteq Commands
  /\ script \in 1..Len(Scripts)
  /\ alive \in [Children -> 0..1] /\ timers \in [Children -> 0..1]
  /\ port \in Launchers \cup {None} /\ tried \subseteq Launchers
  /\ deaths \in 0..MaxDeaths

\* Each service of index.js is running or about to be started again, and not
\* both (index.js:25-36): two workers would take turns on one queue, and one
\* without a timer would never come back.
Supervised ==
  "agent" \in running /\ Scripts[script] = "index" =>
    \A c \in Children : alive[c] + timers[c] = 1

\* The port of the launcher is not lost to the spare one: who has it is running,
\* and while nobody has it, a launcher that has not tried yet is running or will
\* be started.
PortNotLost ==
  /\ port # None => Up(port) /\ port \in tried
  /\ port = None /\ container = "up" =>
       \E l \in Launchers : (Up(l) /\ l \notin tried) \/ (l \in Children /\ timers[l] > 0)

AllServe == container = "up" /\ running = Commands /\ (\A c \in Children : alive[c] > 0) /\ port # None

\* However many processes end, in whatever order, all services run again and the
\* launcher is reached on its port; in particular the two launchers do not keep
\* each other from it.
SettlesDown == <>[]AllServe
=============================================================================
