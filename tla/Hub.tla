-------------------------------- MODULE Hub ---------------------------------
(***************************************************************************)
(* foundation/bus/bus/hub.go with connectionhandler.go, withdraw and the   *)
(* websocket connection: the mesh connections of one node.                 *)
(*                                                                         *)
(* A connection is dialled or accepted, shaken hands over, checked against *)
(* meshConnections and added, each in a goroutine of its own.  A handler   *)
(* then has a reader and a withdraw listener.  Whoever meets an error on   *)
(* the connection pushes it into the unbuffered ErrChan of the handler,    *)
(* where only scanFailedMeshConnections takes it.  The lock is an RWMutex: *)
(* a pending Lock keeps out readers that come after it.                    *)
(***************************************************************************)
EXTENDS Integers, FiniteSets

CONSTANTS
  Peers,        \* nodes, by UUID; all of them advertise the one capability
  Conns,        \* connections that may come up
  PeerOf,       \* the peer at the other end of each
  Dialled,      \* those that start with discovery; the others come in
  Broadcasts,   \* messages that reach the pod of the hub
  Tunnels,      \* calls of sendTunneledMessage
  RetryCount,   \* tunnelRetryCount
  Breaks,       \* TRUE: connections may fail
  PeersLeave,   \* TRUE: peers may withdraw
  None          \* no connection

ASSUME PeerOfAssumption == PeerOf \in [Conns -> Peers] /\ None \notin Conns
ASSUME ConnsAssumption == IsFiniteSet(Conns)
ASSUME DialledAssumption == Dialled \subseteq Conns
ASSUME RetryCountAssumption == RetryCount \in Nat
ASSUME SwitchesAssumption == {Breaks, PeersLeave} \subseteq BOOLEAN

VARIABLES
  conn,      \* every connection with its handler; raced is history: it was past the
             \* duplicate check at the same time as another one to its peer
  mesh,      \* h.meshConnections
  len, uuids, index, turns,   \* h.capabilityBalancers[capability]
  balanced,  \* that balancer exists
  cast,      \* the runs of messageHandler
  tunnel,    \* the runs of sendTunneledMessage
  scan,      \* scanFailedMeshConnections
  leave      \* withdraw and stop

lbVars == <<len, uuids, index, turns, balanced>>
vars == <<conn, mesh, lbVars, cast, tunnel, scan, leave>>

LB == INSTANCE Balancer WITH UUIDs <- Peers, MaxLen <- Cardinality(Conns)

Present == {p \in Peers : mesh[p] # None}

ConnType ==
  [setup : {"new", "dialling", "handshake", "shaken", "checked", "adding", "up",
            "refused"},
   wire : {"open", "broken", "closed"},
   reader : {"off", "reading", "posting", "done"},
   listener : {"off", "waiting", "posting", "done"},
   self : BOOLEAN, peer : BOOLEAN, done : BOOLEAN, raced : BOOLEAN]

CastType == [pc : {"new", "next", "write", "posting", "over"},
             todo : SUBSET Peers, at : Conns \cup {None}]
TunnelType == [pc : {"new", "pick", "check", "write", "posting", "sent", "failed"},
               tries : 0 .. RetryCount, at : Conns \cup {None}]
ScanType == [pc : {"idle", "loop", "remove"}, must : SUBSET Peers,
             seen : SUBSET Peers, gone : SUBSET Peers]
LeaveType == [pc : {"idle", "locking", "waiting", "done", "timeout", "stopped", "cutoff"},
              awaited : SUBSET Conns]

TypeOK ==
  /\ conn \in [Conns -> ConnType]
  /\ mesh \in [Peers -> Conns \cup {None}]
  /\ LB!TypeOK
  /\ balanced \in BOOLEAN
  /\ cast \in [Broadcasts -> CastType] /\ tunnel \in [Tunnels -> TunnelType]
  /\ scan \in ScanType /\ leave \in LeaveType

Init ==
  /\ conn = [c \in Conns |-> [setup |-> "new", wire |-> "open", reader |-> "off",
                              listener |-> "off", self |-> FALSE, peer |-> FALSE,
                              done |-> FALSE, raced |-> FALSE]]
  /\ mesh = [p \in Peers |-> None]
  /\ LB!Init
  /\ balanced = FALSE
  /\ cast = [m \in Broadcasts |-> [pc |-> "new", todo |-> {}, at |-> None]]
  /\ tunnel = [t \in Tunnels |-> [pc |-> "new", tries |-> 0, at |-> None]]
  /\ scan = [pc |-> "idle", must |-> {}, seen |-> {}, gone |-> {}]
  /\ leave = [pc |-> "idle", awaited |-> {}]

-----------------------------------------------------------------------------
(* The lock.  messageHandler holds it for reading while it sends, withdraw    *)
(* holds it for writing while it waits; the other sections are single steps.  *)

Reading == {m \in Broadcasts : cast[m].pc \in {"next", "write", "posting"}}

LockPending ==
  \/ \E c \in Conns : conn[c].setup = "adding"
  \/ scan.pc = "remove"
  \/ leave.pc = "locking"

CanRLock == ~LockPending /\ leave.pc # "waiting"
CanLock == Reading = {} /\ leave.pc # "waiting"

-----------------------------------------------------------------------------
(* Setting up a connection *)

connectionExists(c) == mesh[PeerOf[c]] # None

\* Conn.Close, in whatever state the connection is.
Closed(c) == [conn EXCEPT ![c].wire = "closed"]
Refused(c) == [conn EXCEPT ![c].setup = "refused", ![c].wire = "closed"]

\* SendMsg and SendWithdraw: a write succeeds while the connection is up.
Writes(c) == conn[c].wire = "open"

\* discoveryHandler, for a peer that is not this node.
Discovered(c) ==
  /\ c \in Dialled /\ conn[c].setup = "new" /\ CanRLock
  /\ conn' = [conn EXCEPT ![c].setup = IF connectionExists(c) THEN "refused" ELSE "dialling"]
  /\ UNCHANGED <<mesh, lbVars, cast, tunnel, scan, leave>>

\* connectEndpoint: Connect dials the peer, or fails.
Connect(c) ==
  /\ conn[c].setup = "dialling"
  /\ conn' = Refused(c) \/ conn' = [conn EXCEPT ![c].setup = "handshake"]
  /\ UNCHANGED <<mesh, lbVars, cast, tunnel, scan, leave>>

\* HTTPHandlerFunc hands a new connection to handleIncomingConnection.
Incoming(c) ==
  /\ c \notin Dialled /\ conn[c].setup = "new"
  /\ conn' = [conn EXCEPT ![c].setup = "handshake"]
  /\ UNCHANGED <<mesh, lbVars, cast, tunnel, scan, leave>>

\* setupOutgoingConnection: the handshake fails, is not accepted or is answered
\* by another node than discovery said, and Close; or the connection goes on.
OutgoingHandshake(c) ==
  /\ c \in Dialled /\ conn[c].setup = "handshake"
  /\ conn' = Refused(c) \/ conn' = [conn EXCEPT ![c].setup = "shaken"]
  /\ UNCHANGED <<mesh, lbVars, cast, tunnel, scan, leave>>

\* handleIncomingConnection: the handshake fails, names nobody or belongs to
\* somebody else, and Close; or the connection goes on.
IncomingHandshake(c) ==
  /\ c \notin Dialled /\ conn[c].setup = "handshake"
  /\ conn' = Refused(c) \/ conn' = [conn EXCEPT ![c].setup = "shaken"]
  /\ UNCHANGED <<mesh, lbVars, cast, tunnel, scan, leave>>

\* Connections to the same peer that have passed the check and are not yet added.
Rivals(c) == {d \in Conns \ {c} : PeerOf[d] = PeerOf[c] /\ conn[d].setup \in {"checked", "adding"}}

Passed(c) ==
  [d \in Conns |->
     IF d = c THEN [conn[c] EXCEPT !.setup = "checked", !.raced = @ \/ Rivals(c) # {}]
     ELSE [conn[d] EXCEPT !.raced = @ \/ d \in Rivals(c)]]

\* Fault: no look for a duplicate.
setupAnyConnection(c) ==
  /\ conn[c].setup = "shaken" /\ CanRLock
  /\ conn' = Passed(c)
  /\ UNCHANGED <<mesh, lbVars, cast, tunnel, scan, leave>>

\* setupNewConnection looks for a duplicate and lets go of the lock.
setupNewConnection(c) ==
  /\ conn[c].setup = "shaken" /\ CanRLock
  /\ conn' = IF connectionExists(c) THEN Refused(c) ELSE Passed(c)
  /\ UNCHANGED <<mesh, lbVars, cast, tunnel, scan, leave>>

LockToAdd(c) ==
  /\ conn[c].setup = "checked"
  /\ conn' = [conn EXCEPT ![c].setup = "adding"]
  /\ UNCHANGED <<mesh, lbVars, cast, tunnel, scan, leave>>

\* addConnection, which starts both goroutines of the handler.
addConnection(c) ==
  /\ conn[c].setup = "adding" /\ CanLock
  /\ conn' = [conn EXCEPT ![c].setup = "up", ![c].reader = "reading", ![c].listener = "waiting"]
  /\ mesh' = [mesh EXCEPT ![PeerOf[c]] = c]
  /\ LB!Add(PeerOf[c])
  /\ balanced' = TRUE
  /\ UNCHANGED <<cast, tunnel, scan, leave>>

-----------------------------------------------------------------------------
(* The connection and its reader.  Messages that are read go to the pod.     *)

WireBreaks(c) ==
  /\ Breaks /\ conn[c].setup = "up" /\ conn[c].wire = "open"
  /\ conn' = [conn EXCEPT ![c].wire = "broken"]
  /\ UNCHANGED <<mesh, lbVars, cast, tunnel, scan, leave>>

ReadWithdraw(c) ==
  /\ PeersLeave /\ conn[c].reader = "reading" /\ conn[c].wire = "open"
  /\ conn' = [conn EXCEPT ![c].peer = TRUE, ![c].reader = "done"]
  /\ UNCHANGED <<mesh, lbVars, cast, tunnel, scan, leave>>

\* Fault: the error of the reader is only logged.
ReadFailsQuietly(c) ==
  /\ conn[c].reader = "reading" /\ conn[c].wire # "open"
  /\ conn' = [conn EXCEPT ![c].reader = "done"]
  /\ UNCHANGED <<mesh, lbVars, cast, tunnel, scan, leave>>

ReadFails(c) ==
  /\ conn[c].reader = "reading" /\ conn[c].wire # "open"
  /\ conn' = [conn EXCEPT ![c].reader =
                IF conn[c].self \/ conn[c].peer THEN "done" ELSE "posting"]
  /\ UNCHANGED <<mesh, lbVars, cast, tunnel, scan, leave>>

-----------------------------------------------------------------------------
(* connectionHandler.Send, from a broadcast or from a tunnel.  It looks at    *)
(* the withdrawn flag, writes, and posts the error of a write that failed.    *)

\* messageHandler takes the read lock.
CastBegins(m) ==
  /\ cast[m].pc = "new" /\ CanRLock
  /\ cast' = [cast EXCEPT ![m] = [pc |-> "next", todo |-> Present, at |-> None]]
  /\ UNCHANGED <<conn, mesh, lbVars, tunnel, scan, leave>>

\* One connection of the loop; a withdrawn peer is skipped.
CastNext(m) ==
  /\ cast[m].pc = "next"
  /\ \/ /\ cast[m].todo = {}
        /\ cast' = [cast EXCEPT ![m].pc = "over"]
     \/ \E p \in cast[m].todo :
          cast' = [cast EXCEPT ![m] =
                     [pc |-> IF conn[mesh[p]].peer THEN "next" ELSE "write",
                      todo |-> @.todo \ {p}, at |-> mesh[p]]]
  /\ UNCHANGED <<conn, mesh, lbVars, tunnel, scan, leave>>

CastWrites(m) ==
  /\ cast[m].pc = "write"
  /\ cast' = [cast EXCEPT ![m].pc = IF Writes(cast[m].at) THEN "next" ELSE "posting"]
  /\ UNCHANGED <<conn, mesh, lbVars, tunnel, scan, leave>>

\* sendTunneledMessage, up to the loop.
TunnelBegins(t) ==
  /\ tunnel[t].pc = "new"
  /\ tunnel' = [tunnel EXCEPT ![t].pc = IF balanced THEN "pick" ELSE "failed"]
  /\ UNCHANGED <<conn, mesh, lbVars, cast, scan, leave>>

\* One try: the next UUID of the balancer and its handler, under the read lock.
TunnelPick(t) ==
  /\ tunnel[t].pc = "pick" /\ tunnel[t].tries < RetryCount /\ CanRLock
  /\ \/ /\ len = 0
        /\ tunnel' = [tunnel EXCEPT ![t].tries = @ + 1]
        /\ UNCHANGED lbVars
     \/ LET c == mesh[uuids[index]] IN
        /\ LB!NextUUID
        /\ tunnel' = IF c = None THEN [tunnel EXCEPT ![t].tries = @ + 1]
                     ELSE [tunnel EXCEPT ![t].pc = "check", ![t].at = c]
        /\ UNCHANGED balanced
  /\ UNCHANGED <<conn, mesh, cast, scan, leave>>

TunnelGivesUp(t) ==
  /\ tunnel[t].pc = "pick" /\ tunnel[t].tries = RetryCount
  /\ tunnel' = [tunnel EXCEPT ![t].pc = "failed"]
  /\ UNCHANGED <<conn, mesh, lbVars, cast, scan, leave>>

Retry(t) == [tunnel EXCEPT ![t].pc = "pick", ![t].tries = @ + 1, ![t].at = None]

TunnelChecks(t) ==
  /\ tunnel[t].pc = "check"
  /\ tunnel' = IF conn[tunnel[t].at].peer THEN Retry(t)
               ELSE [tunnel EXCEPT ![t].pc = "write"]
  /\ UNCHANGED <<conn, mesh, lbVars, cast, scan, leave>>

TunnelWrites(t) ==
  /\ tunnel[t].pc = "write"
  /\ tunnel' = [tunnel EXCEPT ![t].pc = IF Writes(tunnel[t].at) THEN "sent" ELSE "posting"]
  /\ UNCHANGED <<conn, mesh, lbVars, cast, scan, leave>>

-----------------------------------------------------------------------------
(* scanFailedMeshConnections *)

ScanBegins ==
  /\ scan.pc = "idle"
  /\ scan' = [pc |-> "loop", must |-> Present, seen |-> {}, gone |-> {}]
  /\ UNCHANGED <<conn, mesh, lbVars, cast, tunnel, leave>>

\* Fault: the connection of the error is not closed.
ReceivedOnly(c) ==
  \/ /\ conn[c].reader = "posting"
     /\ conn' = [conn EXCEPT ![c].reader = "done"]
     /\ UNCHANGED <<cast, tunnel>>
  \/ \E m \in Broadcasts :
       /\ cast[m].pc = "posting" /\ cast[m].at = c
       /\ cast' = [cast EXCEPT ![m].pc = "next"]
       /\ UNCHANGED <<conn, tunnel>>

\* The error somebody has pushed into the ErrChan of c is received.
Received(c) ==
  \/ /\ conn[c].reader = "posting"
     /\ conn' = [conn EXCEPT ![c].reader = "done", ![c].wire = "closed"]
     /\ UNCHANGED <<cast, tunnel>>
  \/ /\ conn[c].listener = "posting"
     /\ conn' = [conn EXCEPT ![c].listener = "done", ![c].done = TRUE, ![c].wire = "closed"]
     /\ UNCHANGED <<cast, tunnel>>
  \/ \E m \in Broadcasts :
       /\ cast[m].pc = "posting" /\ cast[m].at = c
       /\ cast' = [cast EXCEPT ![m].pc = "next"]
       /\ conn' = Closed(c)
       /\ UNCHANGED tunnel
  \/ \E t \in Tunnels :
       /\ tunnel[t].pc = "posting" /\ tunnel[t].at = c
       /\ tunnel' = Retry(t)
       /\ conn' = Closed(c)
       /\ UNCHANGED cast

Posting(c) ==
  \/ "posting" \in {conn[c].reader, conn[c].listener}
  \/ \E m \in Broadcasts : cast[m].pc = "posting" /\ cast[m].at = c
  \/ \E t \in Tunnels : tunnel[t].pc = "posting" /\ tunnel[t].at = c

\* Fault: the connection of a withdrawn peer is not closed.
ScanVisitsOnly(p) ==
  LET c == mesh[p] IN
  /\ scan.pc = "loop" /\ p \notin scan.seen /\ c # None
  /\ \/ /\ Received(c)
        /\ scan' = [scan EXCEPT !.seen = @ \cup {p}, !.gone = @ \cup {p}]
     \/ /\ ~Posting(c)
        /\ scan' = [scan EXCEPT !.seen = @ \cup {p},
                                !.gone = IF conn[c].peer THEN @ \cup {p} ELSE @]
        /\ UNCHANGED <<conn, cast, tunnel>>
  /\ UNCHANGED <<mesh, lbVars, leave>>

\* The select for one connection: take an error, otherwise look whether the
\* peer has withdrawn; in both cases close the connection.  The map is read
\* without the lock, so a connection that is being added may be seen or not.
ScanVisits(p) ==
  LET c == mesh[p] IN
  /\ scan.pc = "loop" /\ p \notin scan.seen /\ c # None
  /\ \/ /\ Received(c)
        /\ scan' = [scan EXCEPT !.seen = @ \cup {p}, !.gone = @ \cup {p}]
     \/ /\ ~Posting(c) /\ conn[c].peer
        /\ conn' = Closed(c)
        /\ scan' = [scan EXCEPT !.seen = @ \cup {p}, !.gone = @ \cup {p}]
        /\ UNCHANGED <<cast, tunnel>>
     \/ /\ ~Posting(c) /\ ~conn[c].peer
        /\ scan' = [scan EXCEPT !.seen = @ \cup {p}]
        /\ UNCHANGED <<conn, cast, tunnel>>
  /\ UNCHANGED <<mesh, lbVars, leave>>

ScanEnds ==
  /\ scan.pc = "loop" /\ scan.must \cap Present \subseteq scan.seen
  /\ scan' = [scan EXCEPT !.pc = IF scan.gone = {} THEN "idle" ELSE "remove",
                          !.must = {}, !.seen = {}]
  /\ UNCHANGED <<conn, mesh, lbVars, cast, tunnel, leave>>

\* Fault: the balancers keep the peer.
removeFromMapOnly(p) ==
  /\ scan.pc = "remove" /\ p \in scan.gone /\ CanLock
  /\ mesh' = [mesh EXCEPT ![p] = None]
  /\ scan' = [scan EXCEPT !.gone = @ \ {p},
                          !.pc = IF scan.gone = {p} THEN "idle" ELSE "remove"]
  /\ UNCHANGED <<conn, lbVars, cast, tunnel, leave>>

removeMeshConnection(p) ==
  /\ scan.pc = "remove" /\ p \in scan.gone /\ CanLock
  /\ LB!Remove(p) /\ UNCHANGED balanced
  /\ mesh' = [mesh EXCEPT ![p] = None]
  /\ scan' = [scan EXCEPT !.gone = @ \ {p},
                          !.pc = IF scan.gone = {p} THEN "idle" ELSE "remove"]
  /\ UNCHANGED <<conn, cast, tunnel, leave>>

-----------------------------------------------------------------------------
(* withdraw and stop *)

LockToWithdraw ==
  /\ leave.pc = "idle"
  /\ leave' = [leave EXCEPT !.pc = "locking"]
  /\ UNCHANGED <<conn, mesh, lbVars, cast, tunnel, scan>>

\* withdraw signals the listener of every connection and begins to wait.
withdraw ==
  LET cs == {mesh[p] : p \in Present} IN
  /\ leave.pc = "locking" /\ CanLock
  /\ leave' = [pc |-> "waiting", awaited |-> cs]
  /\ conn' = [c \in Conns |-> IF c \in cs THEN [conn[c] EXCEPT !.self = TRUE] ELSE conn[c]]
  /\ UNCHANGED <<mesh, lbVars, cast, tunnel, scan>>

\* The listener of a signalled connection: SendWithdraw and Done.
ListenerSends(c) ==
  /\ conn[c].listener = "waiting" /\ conn[c].self
  /\ conn' = IF Writes(c)
             THEN [conn EXCEPT ![c].listener = "done", ![c].done = TRUE]
             ELSE [conn EXCEPT ![c].listener = "posting"]
  /\ UNCHANGED <<mesh, lbVars, cast, tunnel, scan, leave>>

\* Every doneChan has been read.
WithdrawDone ==
  /\ leave.pc = "waiting" /\ \A c \in leave.awaited : conn[c].done
  /\ leave' = [leave EXCEPT !.pc = "done"]
  /\ UNCHANGED <<conn, mesh, lbVars, cast, tunnel, scan>>

\* Fault: withdraw waits without a timeout.
WithdrawTimeoutNever ==
  leave.pc = "waiting" /\ FALSE /\ UNCHANGED vars

\* case <-timeoutChan, after three seconds
WithdrawTimeout ==
  /\ leave.pc = "waiting"
  /\ leave' = [leave EXCEPT !.pc = "timeout"]
  /\ UNCHANGED <<conn, mesh, lbVars, cast, tunnel, scan>>

\* stop, which callers call after withdraw, reads the map without the lock.
stop ==
  /\ leave.pc \in {"done", "timeout"}
  /\ leave' = [leave EXCEPT !.pc = IF @ = "done" THEN "stopped" ELSE "cutoff"]
  /\ conn' = [c \in Conns |-> IF mesh[PeerOf[c]] = c
                              THEN [conn[c] EXCEPT !.wire = "closed"] ELSE conn[c]]
  /\ UNCHANGED <<mesh, lbVars, cast, tunnel, scan>>

-----------------------------------------------------------------------------

SetupStep(c) ==
  Connect(c) \/ OutgoingHandshake(c) \/ IncomingHandshake(c)
  \/ setupNewConnection(c) \/ LockToAdd(c) \/ addConnection(c)
CastStep(m) == CastNext(m) \/ CastWrites(m)
TunnelStep(t) == TunnelPick(t) \/ TunnelGivesUp(t) \/ TunnelChecks(t) \/ TunnelWrites(t)
ScanStep ==
  ScanBegins \/ (\E p \in Peers : ScanVisits(p) \/ removeMeshConnection(p)) \/ ScanEnds
LeaveStep == withdraw \/ WithdrawDone \/ WithdrawTimeout

\* A node that stays in the mesh.  Withdraw and Stop are called by the owner of
\* the bus when it shuts down: SatProcess.
Next ==
  \/ \E c \in Conns :
       \/ Discovered(c) \/ Incoming(c) \/ SetupStep(c) \/ ReadFails(c)
       \/ WireBreaks(c) \/ ReadWithdraw(c)
  \/ \E m \in Broadcasts : CastBegins(m) \/ CastStep(m)
  \/ \E t \in Tunnels : TunnelBegins(t) \/ TunnelStep(t)
  \/ ScanStep

Spec == Init /\ [][Next]_vars

-----------------------------------------------------------------------------
(* Properties *)

\* addConnection, removeMeshConnection: a tunnel finds in the balancer exactly
\* the peers that have a connection, duplicates and failures notwithstanding.
BalancerMatchesMesh == LB!Listed = Present

\* sendTunneledMessage calls Next under the read lock while connections come and
\* go under the write lock: the index into the list is always in range.
IndexInBounds == LB!IndexInBounds

\* The retries of sendTunneledMessage reach the peers in turn: while the list
\* does not change, none waits for more calls of Next than it has entries.
RoundRobin == LB!RoundRobin

\* addConnection and removeMeshConnection keep map and balancer in step while
\* tunnels take their turns: an index in range, fair turns, no peer that is not
\* there; and all of the state has its type.
MeshInvariant == TypeOK /\ BalancerMatchesMesh /\ IndexInBounds /\ RoundRobin

\* setupNewConnection, "encountered duplicate connection, discarding": a handler
\* whose connection is open is in the map, so that the scanner sees its errors
\* and withdraw and stop reach it, unless it was past the check at the same time as
\* another connection to its peer: check and insertion take the lock separately.
NoOrphanHandler ==
  \A c \in Conns : conn[c].setup = "up" /\ conn[c].wire = "open" /\ ~conn[c].raced
                      => mesh[PeerOf[c]] = c

\* addConnection and removeMeshConnection only forget connections that are closed:
\* no peer is dropped from the map while its connection works, whatever comes in
\* between the scan and the removal, but for connections that raced.
RemovedIsClosed ==
  [][\A p \in Peers : mesh[p] # None /\ mesh'[p] # mesh[p] =>
        conn[mesh[p]].wire = "closed" \/ conn[mesh[p]].raced]_vars
=============================================================================
