------------------------------- MODULE Syncer -------------------------------
(***************************************************************************)
(* e2core/syncer: the cache of tenants and modules that the HTTP handlers  *)
(* and the orchestrator read, and the job that brings it up to date from   *)
(* the system source.                                                      *)
(*                                                                         *)
(* The source (systemspec's system.Source, external) is asked in several   *)
(* calls, each of which may fail, and may change between them.  A tenant's *)
(* configuration is identified with its version; 0 stands for absent.      *)
(***************************************************************************)
EXTENDS Integers

CONSTANTS
  Tenants,     \* tenant identifiers
  Runs,        \* threads that run the sync job (one by default)
  MaxVersion,  \* bound: versions the source goes through
  None

ASSUME MaxVersionAssumption == MaxVersion \in Nat \ {0}
ASSUME NoneAssumption == None \notin Runs

VARIABLES
  source,     \* the system source: its version and its tenants' versions
  history,    \* what the tenants were at each version so far (not in the code)
  start,      \* the caller of Syncer.Start
  run,        \* each run of the job
  lock,       \* the run that has s.lock
  version,    \* s.state.SystemVersion
  idents,     \* s.tenantIdents
  overviews,  \* s.overviews
  modules     \* s.modules: the configurations whose modules were entered

cache == <<version, idents, overviews, modules>>
vars == <<source, history, start, run, lock, cache>>

Versions == 0 .. MaxVersion
Listing == [Tenants -> Versions]
Nobody == [t \in Tenants |-> 0]
Idle == [pc |-> "idle", seen |-> 0, refs |-> Nobody, todo |-> {}]

TypeOK ==
  /\ source \in [version : 1 .. MaxVersion, tenants : Listing]
  /\ history \in [1 .. MaxVersion -> Listing]
  /\ start \in {"new", "syncing", "started", "failed"}
  /\ run \in [Runs -> [pc : {"idle", "compare", "lock", "overview", "tenants"},
                       seen : Versions, refs : Listing, todo : SUBSET Tenants]]
  /\ lock \in Runs \cup {None}
  /\ version \in Versions
  /\ idents \in Listing
  /\ overviews \in Listing
  /\ modules \subseteq Tenants \X Versions

Init ==
  /\ \E present \in SUBSET Tenants :
       source = [version |-> 1, tenants |-> [t \in Tenants |-> IF t \in present THEN 1 ELSE 0]]
  /\ history = [v \in 1 .. MaxVersion |-> IF v = 1 THEN source.tenants ELSE Nobody]
  /\ start = "new"
  /\ run = [r \in Runs |-> Idle]
  /\ lock = None
  /\ version = 0 /\ idents = Nobody /\ overviews = Nobody /\ modules = {}

-----------------------------------------------------------------------------
(* The source *)

\* A tenant is added or changed, with a version nobody had, or removed.
SourceChanges ==
  /\ source.version < MaxVersion
  /\ LET v == source.version + 1 IN
     /\ \E t \in Tenants :
          \/ source' = [version |-> v, tenants |-> [source.tenants EXCEPT ![t] = v]]
          \/ /\ source.tenants[t] # 0
             /\ source' = [version |-> v, tenants |-> [source.tenants EXCEPT ![t] = 0]]
     /\ history' = [history EXCEPT ![v] = source'.tenants]
  /\ UNCHANGED <<start, run, lock, cache>>

-----------------------------------------------------------------------------
(* syncJob.Run *)

\* Start: the source may refuse to start.
Start ==
  /\ start = "new"
  /\ start' \in {"syncing", "failed"}
  /\ UNCHANGED <<source, history, run, lock, cache>>

\* A run ends.  The first one decides whether Start succeeds.
Ends(r, ok) ==
  /\ run' = [run EXCEPT ![r] = Idle]
  /\ start' = IF start = "started" THEN start ELSE IF ok THEN "started" ELSE "failed"

\* The job is done once by Start, then every second.
MayRun(r) ==
  /\ run[r].pc = "idle"
  /\ \/ start = "started"
     \/ start = "syncing" /\ \A q \in Runs : run[q].pc = "idle"

StateRead(r) ==
  /\ MayRun(r)
  /\ run' = [run EXCEPT ![r].pc = "compare", ![r].seen = source.version]
  /\ UNCHANGED <<source, history, start, lock, cache>>

StateFails(r) ==
  /\ MayRun(r)
  /\ Ends(r, FALSE)
  /\ UNCHANGED <<source, history, lock, cache>>

\* Fault: a cache that has been filled is taken to be up to date.
CompareFilled(r) ==
  /\ run[r].pc = "compare"
  /\ IF version # 0 THEN Ends(r, TRUE)
     ELSE run' = [run EXCEPT ![r].pc = "lock"] /\ UNCHANGED start
  /\ UNCHANGED <<source, history, lock, cache>>

\* s.state is read without the lock.
Compare(r) ==
  /\ run[r].pc = "compare"
  /\ IF run[r].seen = version THEN Ends(r, TRUE)
     ELSE run' = [run EXCEPT ![r].pc = "lock"] /\ UNCHANGED start
  /\ UNCHANGED <<source, history, lock, cache>>

\* With the lock, a run that has been overtaken gives up.
Lock(r) ==
  /\ run[r].pc = "lock" /\ lock = None
  /\ IF run[r].seen < version THEN Ends(r, TRUE) /\ UNCHANGED lock
     ELSE lock' = r /\ run' = [run EXCEPT ![r].pc = "overview"] /\ UNCHANGED start
  /\ UNCHANGED <<source, history, cache>>

Overview(r) ==
  /\ run[r].pc = "overview"
  /\ run' = [run EXCEPT ![r] = [pc |-> "tenants", seen |-> run[r].seen,
                               refs |-> source.tenants,
                               todo |-> {t \in Tenants : source.tenants[t] # 0}]]
  /\ UNCHANGED <<source, history, start, lock, cache>>

OverviewFails(r) ==
  /\ run[r].pc = "overview"
  /\ Ends(r, FALSE) /\ lock' = None
  /\ UNCHANGED <<source, history, cache>>

Pending(r, t) == run[r].pc = "tenants" /\ t \in run[r].todo
UpToDate(r, t) == overviews[t] # 0 /\ overviews[t] = run[r].refs[t]
TenantDone(r, t) == run' = [run EXCEPT ![r].todo = @ \ {t}]

TenantKnown(r, t) ==
  /\ Pending(r, t) /\ UpToDate(r, t)
  /\ TenantDone(r, t)
  /\ UNCHANGED <<source, history, start, lock, cache>>

\* What comes is the tenant as it is now, perhaps newer than the overview said.
TenantOverview(r, t) ==
  /\ Pending(r, t) /\ ~UpToDate(r, t) /\ source.tenants[t] # 0
  /\ TenantDone(r, t)
  /\ overviews' = [overviews EXCEPT ![t] = source.tenants[t]]
  /\ modules' = modules \cup {<<t, source.tenants[t]>>}
  /\ UNCHANGED <<source, history, start, lock, version, idents>>

\* The run fails; the tenants it already has stay, the version does not move.
TenantFails(r, t) ==
  /\ Pending(r, t) /\ ~UpToDate(r, t)
  /\ Ends(r, FALSE) /\ lock' = None
  /\ UNCHANGED <<source, history, cache>>

\* Fault: the state is asked for again, at the end.
CompletedAtNewState(r) ==
  /\ run[r].pc = "tenants" /\ run[r].todo = {}
  /\ version' = source.version /\ idents' = run[r].refs
  /\ Ends(r, TRUE) /\ lock' = None
  /\ UNCHANGED <<source, history, overviews, modules>>

Completed(r) ==
  /\ run[r].pc = "tenants" /\ run[r].todo = {}
  /\ version' = run[r].seen /\ idents' = run[r].refs
  /\ Ends(r, TRUE) /\ lock' = None
  /\ UNCHANGED <<source, history, overviews, modules>>

-----------------------------------------------------------------------------
(* What readers are given, with the read lock: between two runs *)

ListTenants == {t \in Tenants : idents[t] # 0}
GetModuleByName(t) == overviews[t]

RunStep(r) ==
  \/ StateRead(r) \/ StateFails(r) \/ Compare(r) \/ Lock(r) \/ Overview(r) \/ OverviewFails(r)
  \/ \E t \in Tenants : TenantKnown(r, t) \/ TenantOverview(r, t) \/ TenantFails(r, t)
  \/ Completed(r)

Next == SourceChanges \/ Start \/ \E r \in Runs : RunStep(r)

Spec == Init /\ [][Next]_vars

Fails(r) == StateFails(r) \/ OverviewFails(r) \/ \E t \in Tenants : TenantFails(r, t)

-----------------------------------------------------------------------------
(* Properties *)

\* Run, "update arrived between when we awaited the lock and when we acquired
\* it": a run that was overtaken does not put an older state back.
VersionNeverFalls == [][version' >= version]_version

\* ListTenants, then TenantOverview, as reconcileConstellation reads them: each
\* listed tenant has an overview that is at least as new as the list says, also
\* after runs that failed half way.
ListedHasOverview == \A t \in ListTenants : overviews[t] >= idents[t]

\* The list is what the source had at the recorded version or later: a change
\* that falls between the calls of a run is seen by a later run, never skipped.
ListIsNotOlder ==
  version # 0 => \E v \in version .. source.version : idents = history[v]

\* What reconcileConstellation and the HTTP handlers rely on.
ListInvariant == ListedHasOverview /\ ListIsNotOlder

\* Run only ever adds to s.overviews and s.modules: a tenant that the source has
\* removed is still resolved, to a configuration that it had once.
KeptOf(t) == GetModuleByName(t) # 0 => \E v \in 1 .. source.version : history[v][t] = GetModuleByName(t)

\* Syncer, "up-to-date information about the world": once the source stays as it
\* is, version, list, overviews and modules become and stay the source's, whichever
\* of the calls failed on the way, if Start succeeded at all.  The exception is a
\* tenant that has been removed: the list drops it, the overviews and the modules
\* keep what it was.
InSync ==
  /\ version = source.version /\ idents = source.tenants
  /\ \A t \in Tenants :
       IF t \in ListTenants
       THEN GetModuleByName(t) = source.tenants[t] /\ <<t, source.tenants[t]>> \in modules
       ELSE KeptOf(t)
Converges == (start = "started") ~> []InSync
=============================================================================
