---------------------------- MODULE Orchestrator ----------------------------
(***************************************************************************)
(* e2core/backend/satbackend: the loop that keeps sat processes running    *)
(* for a module, its watcher and the processes it launches.                *)
(*                                                                         *)
(* The loop runs once a second: it buries the dead, polls the metrics of   *)
(* every instance, launches or terminates one and counts the ports that    *)
(* did not answer.  A launch is a goroutine that starts the process, then  *)
(* a goroutine that waits for its end, and only then adds the instance to  *)
(* the watcher.  The map of instances has no lock.                         *)
(***************************************************************************)
EXTENDS Integers, FiniteSets

CONSTANTS
  Launches,     \* launches that may be under way or running at one time
  Ports,        \* what modStartCommand may choose from
  MaxInstances, \* runtime.NumCPU()
  FailLimit,    \* how often a port may fail (5)
  MaxMishaps,   \* bound: launches that fail, processes that end by themselves, and
                \* ports drawn that are in use
  None

ASSUME LimitsAssumption == {MaxInstances, FailLimit, MaxMishaps} \subseteq Nat
ASSUME NoneAssumption == None \notin Launches \cup Ports
ASSUME FiniteAssumption == IsFiniteSet(Ports) /\ IsFiniteSet(Launches)

VARIABLES
  launch,     \* where each launch is, and its port
  proc,       \* its process
  cancelled,  \* launches whose context has been cancelled
  instances,  \* w.instances: port to launch
  deadList,   \* w.deadList
  running,    \* w.instancesRunning
  failCount,  \* o.failedPortCounts
  loop,       \* Start and reconcileConstellation
  shutdown,   \* the caller of Shutdown
  crashes,    \* launches that have failed and processes that have ended by themselves
  collisions, \* launches that have drawn a port in use
  overwritten \* history: launches whose entry in the map another one has replaced

portVars == <<collisions, overwritten>>
vars == <<launch, proc, cancelled, instances, deadList, running, failCount, loop,
          shutdown, crashes, portVars>>

Watched == {p \in Ports : instances[p] # None}
Alive(l) == proc[l] \in {"booting", "serving"}

LaunchType == [st : {"free", "flying", "started", "counted", "added"}, port : Ports \cup {None}]
LoopType == [pc : {"idle", "report", "count", "decide", "failed", "terminate", "wait", "over"},
             failed : SUBSET Ports, count : Nat]

TypeOK ==
  /\ launch \in [Launches -> LaunchType]
  /\ proc \in [Launches -> {"none", "booting", "serving", "exited"}]
  /\ cancelled \subseteq Launches
  /\ instances \in [Ports -> Launches \cup {None}]
  /\ deadList \subseteq Ports
  /\ running \in Nat
  /\ failCount \in [Ports -> 0 .. FailLimit + 1]
  /\ loop \in LoopType
  /\ shutdown \in {"none", "sending", "waiting", "done"}
  /\ crashes \in 0 .. MaxMishaps
  /\ collisions \in 0 .. MaxMishaps
  /\ overwritten \subseteq Launches

Init ==
  /\ launch = [l \in Launches |-> [st |-> "free", port |-> None]]
  /\ proc = [l \in Launches |-> "none"]
  /\ cancelled = {}
  /\ instances = [p \in Ports |-> None]
  /\ deadList = {}
  /\ running = 0
  /\ failCount = [p \in Ports |-> 0]
  /\ loop = [pc |-> "idle", failed |-> {}, count |-> 0]
  /\ shutdown = "none"
  /\ crashes = 0
  /\ collisions = 0
  /\ overwritten = {}

-----------------------------------------------------------------------------
(* The watcher *)

\* Fault: the wait group keeps counting the instance.
TerminatedUncounted(ps) ==
  /\ cancelled' = cancelled \cup {instances[p] : p \in ps}
  /\ instances' = [p \in Ports |-> IF p \in ps THEN None ELSE instances[p]]
  /\ UNCHANGED running

\* cxl, delete and instancesRunning.Add(-1), for the instances on some ports.
Terminated(ps) ==
  /\ cancelled' = cancelled \cup {instances[p] : p \in ps}
  /\ instances' = [p \in Ports |-> IF p \in ps THEN None ELSE instances[p]]
  /\ running' = running - Cardinality(ps)

NothingTerminated == UNCHANGED <<cancelled, instances, running>>

-----------------------------------------------------------------------------
(* A launch *)

\* go launch().  The model drops a launch for which it has no name left.
Launched ==
  IF \A l \in Launches : launch[l].st # "free" THEN UNCHANGED launch
  ELSE \E l \in Launches :
         /\ launch[l].st = "free"
         /\ launch' = [launch EXCEPT ![l].st = "flying"]

PortsInUse == Watched \cup deadList \cup {launch[l].port : l \in Launches}

\* modStartCommand, which draws any port, and exec.Run, which may fail.
Run(l) ==
  /\ launch[l].st = "flying"
  /\ \/ \E p \in Ports :
          /\ \/ p \notin PortsInUse /\ UNCHANGED collisions
             \/ p \in PortsInUse /\ crashes + collisions < MaxMishaps /\ collisions' = collisions + 1
          /\ launch' = [launch EXCEPT ![l] = [st |-> "started", port |-> p]]
          /\ proc' = [proc EXCEPT ![l] = "booting"]
          /\ UNCHANGED crashes
     \/ /\ crashes + collisions < MaxMishaps /\ crashes' = crashes + 1
        /\ launch' = [launch EXCEPT ![l].st = "free"]
        /\ UNCHANGED <<proc, collisions>>
  /\ UNCHANGED <<cancelled, instances, deadList, running, failCount, loop, shutdown, overwritten>>

\* watcher.add, the last step of a launch: instancesRunning.Add(1) ...
addCounts(l) ==
  /\ launch[l].st = "started"
  /\ launch' = [launch EXCEPT ![l].st = "counted"]
  /\ running' = running + 1
  /\ UNCHANGED <<proc, cancelled, instances, deadList, failCount, loop, shutdown, crashes, portVars>>

\* ... and w.instances[port], which replaces what the port has.
add(l) ==
  /\ launch[l].st = "counted"
  /\ launch' = [launch EXCEPT ![l].st = "added"]
  /\ instances' = [instances EXCEPT ![launch[l].port] = l]
  /\ overwritten' = overwritten \cup ({instances[launch[l].port]} \ {None})
  /\ UNCHANGED <<proc, cancelled, deadList, running, failCount, loop, shutdown, crashes, collisions>>

\* The sat serves its metrics, unless another process has its port.
Serves(l) ==
  /\ proc[l] = "booting"
  /\ \A k \in Launches : proc[k] = "serving" => launch[k].port # launch[l].port
  /\ proc' = [proc EXCEPT ![l] = "serving"]
  /\ UNCHANGED <<launch, cancelled, instances, deadList, running, failCount, loop, shutdown,
                 crashes, portVars>>

Over(l) ==
  /\ Alive(l)
  /\ proc' = [proc EXCEPT ![l] = "exited"]
  /\ UNCHANGED <<launch, cancelled, instances, deadList, running, failCount, loop, shutdown, portVars>>

\* The goroutine of exec.CommandContext kills a process that was cancelled.
Killed(l) == l \in cancelled /\ Over(l) /\ UNCHANGED crashes

\* A process ends by itself, or because it finds its port taken.
Exits(l) ==
  /\ Over(l)
  /\ \/ l \notin cancelled /\ crashes + collisions < MaxMishaps /\ crashes' = crashes + 1
     \/ /\ proc[l] = "booting" /\ UNCHANGED crashes
        /\ \E k \in Launches : proc[k] = "serving" /\ launch[k].port = launch[l].port

\* wait returns and the port goes to the dead list, before or after add.
addToDead(l) ==
  /\ proc[l] = "exited"
  /\ proc' = [proc EXCEPT ![l] = "none"]
  /\ deadList' = deadList \cup {launch[l].port}
  /\ UNCHANGED <<launch, cancelled, instances, running, failCount, loop, shutdown, crashes, portVars>>

\* Nothing is left of a launch: its name can be used again.
Recycle(l) ==
  /\ launch[l].st = "added" /\ proc[l] = "none" /\ l \notin overwritten /\ \A p \in Ports : instances[p] # l
  /\ launch' = [launch EXCEPT ![l] = [st |-> "free", port |-> None]]
  /\ cancelled' = cancelled \ {l}
  /\ UNCHANGED <<proc, instances, deadList, running, failCount, loop, shutdown, crashes, portVars>>

-----------------------------------------------------------------------------
(* reconcileConstellation *)

\* The tick: the instances on the dead list are terminated, the list is emptied.
BuryDead ==
  /\ loop.pc = "idle"
  /\ loop' = [loop EXCEPT !.pc = "report"]
  /\ Terminated(deadList \cap Watched)
  /\ deadList' = {}
  /\ UNCHANGED <<launch, proc, failCount, shutdown, crashes, portVars>>

\* Something answers on the port, whichever process it is.
Answers(p) == \E l \in Launches : launch[l].port = p /\ proc[l] = "serving"

\* report asks every instance for its metrics; one that boots does not answer.
\* Without instances there is no report.
report ==
  /\ loop.pc = "report"
  /\ loop' = IF Watched = {} THEN [loop EXCEPT !.pc = "decide"]
             ELSE [loop EXCEPT !.pc = "count", !.failed = {p \in Watched : ~Answers(p)}]
  /\ UNCHANGED <<launch, proc, cancelled, instances, deadList, running, failCount, shutdown,
                 crashes, portVars>>

\* Fault: instances that do not answer are counted too.
CountAll ==
  /\ loop.pc = "count"
  /\ loop' = [loop EXCEPT !.pc = "decide", !.failed = {}, !.count = Cardinality(Watched)]
  /\ UNCHANGED <<launch, proc, cancelled, instances, deadList, running, failCount, shutdown,
                 crashes, portVars>>

\* The polling takes time: what was added meanwhile is counted as answering.
CountInstances ==
  /\ loop.pc = "count"
  /\ loop' = [loop EXCEPT !.pc = "decide",
                          !.count = Cardinality(Watched) - Cardinality(loop.failed)]
  /\ UNCHANGED <<launch, proc, cancelled, instances, deadList, running, failCount, shutdown,
                 crashes, portVars>>

\* The threads of the instances may be above or below the threshold.
LaunchFirst == loop.count = 0 /\ Launched /\ NothingTerminated
LaunchMore ==
  /\ loop.count > 0
  /\ IF loop.count >= MaxInstances THEN UNCHANGED launch ELSE Launched
  /\ NothingTerminated
scaleDown ==
  /\ loop.count > 0
  /\ IF loop.count = 1 \/ Watched = {} THEN NothingTerminated
     ELSE \E p \in Watched : Terminated({p})
  /\ UNCHANGED launch

Decide ==
  /\ loop.pc = "decide"
  /\ LaunchFirst \/ LaunchMore \/ scaleDown
  /\ loop' = [loop EXCEPT !.pc = "failed"]
  /\ UNCHANGED <<proc, deadList, failCount, shutdown, crashes, portVars>>

\* Every port that did not answer is counted, and terminated at the limit.
CountFailed ==
  LET over == {p \in loop.failed : failCount[p] > FailLimit} IN
  /\ loop.pc = "failed"
  /\ Terminated(over \cap Watched)
  /\ failCount' = [p \in Ports |-> IF p \in over THEN 0
                                   ELSE IF p \in loop.failed THEN failCount[p] + 1
                                   ELSE failCount[p]]
  /\ loop' = [pc |-> "idle", failed |-> {}, count |-> 0]
  /\ UNCHANGED <<launch, proc, deadList, shutdown, crashes, portVars>>

-----------------------------------------------------------------------------
(* Shutdown *)

Shutdown ==
  /\ shutdown = "none"
  /\ shutdown' = "sending"
  /\ UNCHANGED <<launch, proc, cancelled, instances, deadList, running, failCount, loop, crashes, portVars>>

\* The loop takes the signal between two ticks and leaves.
Signalled ==
  /\ loop.pc = "idle" /\ shutdown = "sending"
  /\ shutdown' = "waiting"
  /\ loop' = [loop EXCEPT !.pc = "terminate"]
  /\ UNCHANGED <<launch, proc, cancelled, instances, deadList, running, failCount, crashes, portVars>>

\* watcher.terminate
terminate ==
  /\ loop.pc = "terminate"
  /\ Terminated(Watched)
  /\ loop' = [loop EXCEPT !.pc = "wait"]
  /\ UNCHANGED <<launch, proc, deadList, failCount, shutdown, crashes, portVars>>

\* Fault: o.wg.Done is forgotten.
WaitedNotDone ==
  /\ loop.pc = "wait" /\ running = 0
  /\ loop' = [loop EXCEPT !.pc = "over"]
  /\ UNCHANGED <<launch, proc, cancelled, instances, deadList, running, failCount, shutdown, crashes, portVars>>

\* instancesRunning.Wait returns, and o.wg lets Shutdown return.
Waited ==
  /\ loop.pc = "wait" /\ running = 0
  /\ loop' = [loop EXCEPT !.pc = "over"]
  /\ shutdown' = "done"
  /\ UNCHANGED <<launch, proc, cancelled, instances, deadList, running, failCount, crashes, portVars>>

-----------------------------------------------------------------------------

LaunchStep(l) == Run(l) \/ addCounts(l) \/ add(l)
ProcessStep(l) == Serves(l) \/ Killed(l) \/ addToDead(l) \/ Recycle(l)
LoopStep == BuryDead \/ report \/ CountInstances \/ Decide \/ CountFailed \/ terminate \/ Waited

Next ==
  \/ \E l \in Launches : LaunchStep(l) \/ ProcessStep(l) \/ Exits(l)
  \/ LoopStep \/ Shutdown \/ Signalled

Spec == Init /\ [][Next]_vars

-----------------------------------------------------------------------------
(* Properties *)

Counted == {l \in Launches : launch[l].st = "counted"}

\* watcher.add counts before it writes the map, which has no lock: the wait group
\* counts the instances of the map, the launches in between, and the entries that
\* a launch on the same port has replaced, which nobody will ever take off.
WaitGroupMatches ==
  running = Cardinality(Watched) + Cardinality(Counted) + Cardinality(overwritten)

\* A process that is running is in the map once its launch is over, or it has
\* been told to end: nothing runs that scaleDown and terminate cannot reach, but
\* for a process whose entry was replaced ("something already exists on this port").
NoOrphanProcess ==
  \A l \in Launches :
    launch[l].st = "added" /\ Alive(l) /\ l \notin cancelled \cup overwritten
      => instances[launch[l].port] = l

\* A port that is drawn twice is the only way to lose an entry of the map.
LossIsCollision == Cardinality(overwritten) <= collisions

\* add, scaleDown, terminate and terminateInstance keep wait group and map in
\* step and every running process in reach, but for what drawing a port in use
\* costs: one entry, at most, for each time.
InstancesInvariant == TypeOK /\ WaitGroupMatches /\ NoOrphanProcess /\ LossIsCollision
=============================================================================
