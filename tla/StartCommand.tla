---------------------------- MODULE StartCommand ----------------------------
(***************************************************************************)
(* `e2core start` (e2core/command/start.go): it starts the source server,  *)
(* the backend (Orchestrator, which first starts the syncer) and the e2core*)
(* server in a goroutine each, and waits for an error of one of them or for*)
(* a signal.  On a signal it shuts down the server, the source server and  *)
(* the backend, in this order, and returns at the first error.             *)
(***************************************************************************)
EXTENDS Orchestrator

VARIABLES
  cmd,        \* the function of the command
  backend,    \* Orchestrator.Start: in syncer.Start, in its loop, or returned
  late        \* history: launches under way as terminate went through the map

cmdVars == <<cmd, backend, late>>
startVars == <<vars, cmdVars>>

Ended == cmd \in {"exited", "failed", "panicked"}

StartTypeOK ==
  /\ cmd \in {"select", "closing", "backend", "exited", "failed", "panicked"}
  /\ backend \in {"starting", "running", "failed"}
  /\ late \subseteq Launches

StartInit ==
  /\ Init
  /\ cmd = "select"
  /\ backend = "starting"
  /\ late = {}

\* Orchestrator.Start: the syncer is started, from the bundle when no control plane
\* is set, so also after the servers have been closed; then the loop begins.
SyncerStarts ==
  /\ backend = "starting" /\ ~Ended
  /\ backend' = "running"
  /\ UNCHANGED <<vars, cmd, late>>

\* o.syncer.Start() fails: its source has gone, or does not answer.
SyncerFails ==
  /\ backend = "starting" /\ ~Ended
  /\ backend' = "failed"
  /\ UNCHANGED <<vars, cmd, late>>

\* case err := <-serverErrors: of the backend, or of a server that cannot listen.
ServerError ==
  /\ cmd = "select"
  /\ cmd' = "failed"
  /\ UNCHANGED <<vars, backend, late>>

\* case sig := <-shutdown
Signal ==
  /\ cmd = "select"
  /\ cmd' = "closing"
  /\ UNCHANGED <<vars, backend, late>>

\* Fault: the backend is left to the operating system.
CloseServersOnly ==
  /\ cmd = "closing"
  /\ cmd' \in {"exited", "failed"}
  /\ UNCHANGED <<vars, backend, late>>

\* srv.Shutdown and sourceSrv.Shutdown: requests that do not end in three seconds
\* make either fail; with a control plane elsewhere sourceSrv is nil, and its method
\* panics (nothing before depends on which it is).  Otherwise backend.Shutdown.
CloseServers ==
  /\ cmd = "closing"
  /\ \/ cmd' \in {"failed", "panicked"} /\ UNCHANGED vars
     \/ cmd' = "backend" /\ Shutdown
  /\ UNCHANGED <<backend, late>>

\* backend.Shutdown returns.
Returns ==
  /\ cmd = "backend" /\ shutdown = "done"
  /\ cmd' = "exited"
  /\ UNCHANGED <<vars, backend, late>>

CommandStep ==
  CloseServers \/ Returns \/ (backend = "failed" /\ ServerError)

\* The goroutines and the children are followed until the command returns.
InCommand == ~Ended /\ UNCHANGED cmdVars

UnderWay == {l \in Launches : launch[l].st \in {"flying", "started", "counted"}}

BackendStep ==
  /\ backend = "running" /\ ~Ended
  /\ LoopStep \/ Signalled
  /\ late' = IF loop.pc = "terminate" THEN UnderWay ELSE late
  /\ UNCHANGED <<cmd, backend>>

StartNext ==
  \/ (\E l \in Launches : LaunchStep(l) \/ ProcessStep(l) \/ Exits(l)) /\ InCommand
  \/ BackendStep
  \/ SyncerStarts \/ SyncerFails \/ ServerError \/ Signal \/ CommandStep

StartSpec == StartInit /\ [][StartNext]_startVars

\* Goroutines go on, a cancelled process is killed, and a sat that is launched
\* again and again boots at some time within the ticks that FailLimit gives it.
\* The tick and the signal are chosen from by select, which is fair between
\* channels that are both ready.  Nothing makes the signal come.
StartFairness ==
  /\ \A l \in Launches : WF_startVars(LaunchStep(l) /\ InCommand)
                         /\ WF_startVars(ProcessStep(l) /\ InCommand)
                         /\ SF_startVars(Serves(l) /\ InCommand)
  /\ WF_startVars(BackendStep /\ LoopStep)
  /\ SF_startVars(BackendStep /\ Signalled)
  /\ WF_startVars(SyncerStarts \/ SyncerFails)
  /\ WF_startVars(CommandStep)

FairStartSpec == StartSpec /\ StartFairness

-----------------------------------------------------------------------------
(* Properties *)

\* Start's RunE: when the command returns without an error, every process that it
\* has launched and that is alive had its context cancelled, but for launches that
\* were under way as the loop went through the map.  It need not have ended: the
\* kill is left to a goroutine of os/exec, for which nobody waits.
AllCancelled ==
  /\ StartTypeOK
  /\ cmd = "exited" =>
       \A l \in Launches : Alive(l) => l \in cancelled \cup late

\* A module without a serving instance gets one, whatever crashed, unless the
\* command is signalled or returns, or its backend has failed.
DeadIsReplaced ==
  (\A l \in Launches : proc[l] # "serving")
    ~> ((\E l \in Launches : proc[l] = "serving") \/ cmd # "select")

\* RunE: a signalled command ends (it returns, or it panics when the control plane
\* is elsewhere), also if the signal comes while the backend starts, unless the
\* backend fails to start, so that nobody receives from signalChan, a launch was
\* under way as terminate went through the map, so that the wait group may count
\* what nobody terminates, or an entry of the map was replaced, which it counts
\* for ever.
CommandReturns ==
  cmd = "closing" ~> (Ended \/ backend = "failed" \/ late # {} \/ overwritten # {})
=============================================================================
