----------------------------- MODULE SatProcess -----------------------------
(***************************************************************************)
(* The life of a process that runs one module: the sat binary (sat/main.go *)
(* and monitor.go, which watches the file that describes the process) and  *)
(* `e2core mod start`, around Sat (sat/sat/sat.go) and its connections     *)
(* (Hub).  main waits for an error of one of its goroutines or for a       *)
(* signal.  Only the signal leads to Shutdown, which leaves the mesh,      *)
(* deletes the file and closes the server.                                 *)
(***************************************************************************)
EXTENDS Hub

VARIABLES
  transport,  \* ControlPlaneUrl is set: the sat joins the mesh
  main,       \* start, and Sat.Shutdown when it comes to that
  monitor,    \* ProcFileMonitor.Start; "none" for mod start
  server,     \* the echo server, in a goroutine of Sat.Start
  bus,        \* s.bus, set by setupBus in another one
  file        \* the process file: "removed" by somebody else, "deleted" by Shutdown

satVars == <<transport, main, monitor, server, bus, file>>
procVars == <<vars, satVars>>

Ended == main \in {"exited", "failed", "panicked"}

SatTypeOK ==
  /\ transport \in BOOLEAN
  /\ main \in {"select", "stopping", "shutdown", "withdrawing", "deleting", "closing",
               "exited", "failed", "panicked"}
  /\ monitor \in {"none", "looking", "spinning", "gone", "stopped"}
  /\ server \in {"starting", "serving", "failed", "closed"}
  /\ bus \in {"nil", "up"}
  /\ file \in {"none", "present", "removed", "deleted"}

\* New has made the Sat, and NewMonitor has written the file.
SatInit ==
  /\ Init
  /\ transport \in BOOLEAN
  /\ main = "select"
  /\ server = "starting"
  /\ bus = "nil"
  /\ \/ monitor = "looking" /\ file = "present"
     \/ monitor = "none" /\ file = "none"

-----------------------------------------------------------------------------
(* The goroutines *)

\* Sat.Start: the server listens, or the port is taken and Start returns.
ServerStarts ==
  /\ server = "starting" /\ ~Ended
  /\ server' \in {"serving", "failed"}
  /\ UNCHANGED <<vars, transport, main, monitor, bus, file>>

\* setupBus, which starts discovery and connects the pods of the sat.
setupBus ==
  /\ transport /\ bus = "nil" /\ ~Ended
  /\ bus' = "up"
  /\ UNCHANGED <<vars, transport, main, monitor, server, file>>

\* ProcFileMonitor.Start: process.Find fails, as it does when the file is gone and
\* may do when it is not (no directory, a read error, a file that does not parse).
MonitorFinds ==
  /\ monitor = "looking" /\ ~Ended
  /\ monitor' = "gone"
  /\ UNCHANGED <<vars, transport, main, server, bus, file>>

\* After five seconds the break leaves the select, not the loop: the monitor only
\* waits to be stopped.
MonitorExpires ==
  /\ monitor = "looking" /\ ~Ended
  /\ monitor' = "spinning"
  /\ UNCHANGED <<vars, transport, main, server, bus, file>>

\* Somebody removes the file to make the process end.
FileRemoved ==
  /\ file = "present" /\ ~Ended
  /\ file' = "removed"
  /\ UNCHANGED <<vars, transport, main, monitor, server, bus>>

-----------------------------------------------------------------------------
(* main *)

\* case err := <-serverErrors
ServerError ==
  /\ main = "select"
  /\ server = "failed" \/ monitor = "gone"
  /\ main' = "failed"
  /\ UNCHANGED <<vars, transport, monitor, server, bus, file>>

\* case sig := <-shutdownChan
Signal ==
  /\ main = "select"
  /\ main' = IF monitor = "none" THEN "shutdown" ELSE "stopping"
  /\ UNCHANGED <<vars, transport, monitor, server, bus, file>>

\* monitor.Stop(), which waits for the monitor to receive.
Stop ==
  /\ main = "stopping" /\ monitor \in {"looking", "spinning"}
  /\ main' = "shutdown"
  /\ monitor' = "stopped"
  /\ UNCHANGED <<vars, transport, server, bus, file>>

\* Shutdown: s.bus.Withdraw(), when there is a transport.  s.bus may not be set yet.
ShutdownBegins ==
  /\ main = "shutdown"
  /\ \/ /\ ~transport
        /\ main' = "deleting" /\ UNCHANGED vars
     \/ /\ transport /\ bus = "nil"
        /\ main' = "panicked" /\ UNCHANGED vars
     \/ /\ transport /\ bus = "up"
        /\ main' = "withdrawing" /\ LockToWithdraw
  /\ UNCHANGED <<transport, monitor, server, bus, file>>

\* Fault: bus.Stop is left out.
StopsBusNot ==
  /\ main = "withdrawing" /\ leave.pc \in {"done", "timeout"}
  /\ main' = "deleting"
  /\ UNCHANGED <<vars, transport, monitor, server, bus, file>>

\* Shutdown: Withdraw has returned; three seconds later s.bus.Stop().
StopsBus ==
  /\ main = "withdrawing" /\ stop
  /\ main' = "deleting"
  /\ UNCHANGED <<transport, monitor, server, bus, file>>

\* Shutdown: process.Delete, which may fail: the error is logged, the file stays.
Delete ==
  /\ main = "deleting"
  /\ main' = "closing"
  /\ UNCHANGED file \/ (file = "present" /\ file' = "deleted")
  /\ UNCHANGED <<vars, transport, monitor, server, bus>>

\* Shutdown: server.Shutdown, which gives requests one second.
CloseServer ==
  /\ main = "closing"
  /\ server' = "closed"
  /\ main' = "exited" \/ (server = "serving" /\ main' = "failed")
  /\ UNCHANGED <<vars, transport, monitor, bus, file>>

MainStep == ServerError \/ Stop \/ ShutdownBegins \/ StopsBus \/ Delete \/ CloseServer

-----------------------------------------------------------------------------

\* The hub lives from setupBus to the end of the process.
Alive == bus = "up" /\ ~Ended /\ UNCHANGED satVars

\* Results are broadcast to all peers, the next step of a sequence is tunnelled.
HubStep ==
  \/ \E c \in Conns : Discovered(c) \/ WireBreaks(c) \/ ReadWithdraw(c) \/ SetupStep(c)
                         \/ ReadFails(c) \/ ListenerSends(c)
  \/ \E c \in Conns : server = "serving" /\ Incoming(c)
  \/ \E m \in Broadcasts : CastBegins(m) \/ CastStep(m)
  \/ \E t \in Tunnels : TunnelBegins(t) \/ TunnelStep(t)
  \/ ScanStep
  \/ LeaveStep

SatNext ==
  \/ HubStep /\ Alive
  \/ ServerStarts \/ setupBus \/ MonitorFinds \/ MonitorExpires \/ FileRemoved
  \/ Signal \/ MainStep

SatSpec == SatInit /\ [][SatNext]_procVars

\* Goroutines that can go on do so.  The loop of the scanner runs forever, and the
\* three seconds of withdraw end.  Nothing makes the signal come or the file go.
SatFairness ==
  /\ \A c \in Conns : WF_procVars(SetupStep(c) /\ Alive) /\ WF_procVars(ReadFails(c) /\ Alive)
                      /\ WF_procVars(ListenerSends(c) /\ Alive)
  /\ \A m \in Broadcasts : WF_procVars(CastStep(m) /\ Alive)
  /\ \A t \in Tunnels : WF_procVars(TunnelStep(t) /\ Alive)
  /\ WF_procVars(ScanStep /\ Alive) /\ WF_procVars(LeaveStep /\ Alive)
  /\ WF_procVars(ServerStarts) /\ WF_procVars(setupBus)
  /\ WF_procVars(MonitorFinds /\ file # "present")
  /\ WF_procVars(MainStep)

FairSatSpec == SatSpec /\ SatFairness

-----------------------------------------------------------------------------
(* Properties *)

\* The deadlock of sending and scanning: a broadcast holds the read lock and waits
\* for the scanner to take its error, while the scanner, which has taken another
\* error, waits for the write lock to remove that connection.
CastJammed == scan.pc = "remove" /\ \E m \in Broadcasts : cast[m].pc = "posting"

\* "s.server.Shutdown isn't called until all connections are ready to close [...]
\* this is needed to ensure a safe withdraw from the constellation/mesh" (sat.go
\* line 130): when the server closes, every connection that Withdraw found is
\* closed, whatever failed, was sent, scanned or came up in between, but for one
\* that raced with a duplicate (which may have taken its place in the map); and
\* unless Withdraw timed out, each of them had sent its withdraw message or had
\* its error taken.  The monitor has stopped before Shutdown deletes the file, so
\* that it never takes that for a removal by somebody else.  Map and balancer stay
\* in step all the while.
ExitIsOrderly ==
  /\ SatTypeOK /\ MeshInvariant
  /\ transport /\ main \in {"closing", "exited"} =>
       /\ leave.pc \in {"stopped", "cutoff"}
       /\ \A c \in leave.awaited : conn[c].wire = "closed" \/ conn[c].raced
       /\ leave.pc = "stopped" => \A c \in leave.awaited : conn[c].done
  /\ file = "deleted" => monitor = "stopped"

\* scanFailedMeshConnections is there to "constantly check for failed connections
\* and clean them up": a connection that failed, or whose peer has withdrawn, is
\* removed, unless this node is leaving, its process has ended, or scanner and
\* broadcast wait for each other.
FailedIsRemoved ==
  \A c \in Conns :
    (mesh[PeerOf[c]] = c /\ (conn[c].wire = "broken" \/ conn[c].peer))
      ~> (mesh[PeerOf[c]] # c \/ conn[c].self \/ Ended \/ CastJammed)

\* "the withdraw attempt will time out after 3 seconds" (hub.go): a process that is
\* signalled ends, unless its monitor had returned as the signal was taken, which
\* leaves Stop waiting, or scanner and broadcast wait for each other, which leaves
\* withdraw waiting for the lock before its three seconds begin; and a process
\* whose file is removed ends, unless the monitor has stopped to look.
ProcessEnds ==
  /\ main \in {"stopping", "shutdown"} ~> (Ended \/ monitor = "gone" \/ CastJammed)
  /\ (file = "removed" /\ main = "select") ~> (main # "select" \/ monitor = "spinning")
=============================================================================
