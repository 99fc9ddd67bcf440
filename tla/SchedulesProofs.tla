-------------------------- MODULE SchedulesProofs ---------------------------
(***************************************************************************)
(* Proofs about Syncer, for every set of tenants, any number of concurrent *)
(* runs of the sync job and any number of versions, and about Schedules,   *)
(* which does that job, for any After schedules and any durations.         *)
(***************************************************************************)
EXTENDS Schedules, TLAPS

\* The source at its own version, and versions that only grow for a tenant
\* while it is there.
SourceInv ==
  /\ source.tenants = history[source.version]
  /\ \A v \in 1 .. source.version, t \in Tenants : history[v][t] <= v
  /\ \A v \in 1 .. source.version, t \in Tenants :
       source.tenants[t] # 0 => history[v][t] <= source.tenants[t]

\* What a run knows is not newer than the source, and from the lock on not older
\* than the cache.
RunInv ==
  \A r \in Runs :
    /\ run[r].pc # "idle" => run[r].seen \in 1 .. source.version
    /\ run[r].pc \in {"overview", "tenants"} => lock = r /\ version <= run[r].seen
    /\ run[r].pc = "tenants" => \E v \in run[r].seen .. source.version : run[r].refs = history[v]

\* The tenants that the loop is through with have their overview.
LoopInv ==
  \A r \in Runs : run[r].pc = "tenants" =>
    \A t \in Tenants \ run[r].todo : run[r].refs[t] # 0 => overviews[t] >= run[r].refs[t]

CacheInv ==
  /\ version <= source.version
  /\ version = 0 => idents = Nobody
  /\ ListIsNotOlder
  /\ ListedHasOverview

Inv == TypeOK /\ SourceInv /\ RunInv /\ LoopInv /\ CacheInv

-----------------------------------------------------------------------------
(* Type correctness *)

LEMMA InitType == Init => TypeOK
  BY MaxVersionAssumption
     DEF Init, TypeOK, Idle, Nobody, Listing, Versions

LEMMA EndsType ==
  ASSUME TypeOK, NEW r \in Runs, NEW ok \in BOOLEAN, Ends(r, ok)
  PROVE  /\ run' \in [Runs -> [pc : {"idle", "compare", "lock", "overview", "tenants"},
                               seen : Versions, refs : Listing, todo : SUBSET Tenants]]
         /\ start' \in {"new", "syncing", "started", "failed"}
  BY MaxVersionAssumption DEF TypeOK, Ends, Idle, Nobody, Listing, Versions

LEMMA StepType == TypeOK /\ [Next]_vars => TypeOK'
<1> SUFFICES ASSUME TypeOK, [Next]_vars
             PROVE  TypeOK'
  OBVIOUS
<1> USE MaxVersionAssumption
<1>1. CASE SourceChanges
  <2>1. source.version + 1 \in 1 .. MaxVersion /\ source.version + 1 \in Versions /\ 0 \in Versions
    BY <1>1 DEF SourceChanges, TypeOK, Versions
  <2>2. source' \in [version : 1 .. MaxVersion, tenants : Listing]
    <3>1. PICK t \in Tenants, w \in Versions :
            source' = [version |-> source.version + 1,
                       tenants |-> [source.tenants EXCEPT ![t] = w]]
      BY <1>1, <2>1 DEF SourceChanges
    <3>2. [source.tenants EXCEPT ![t] = w] \in Listing
      BY DEF TypeOK, Listing
    <3>3. QED
      BY <2>1, <3>1, <3>2
  <2>3. history' \in [1 .. MaxVersion -> Listing]
    BY <1>1, <2>1, <2>2 DEF SourceChanges, TypeOK
  <2>4. QED
    BY <1>1, <2>2, <2>3 DEF SourceChanges, cache, TypeOK
<1>2. CASE Start
  BY <1>2 DEF Start, cache, TypeOK
<1>3. ASSUME NEW r \in Runs, RunStep(r)
      PROVE  TypeOK'
  <2>1. CASE StateRead(r)
    <3>1. source.version \in Versions
      BY DEF TypeOK, Versions
    <3>2. QED
      BY <2>1, <3>1, ZenonT(60) DEF StateRead, cache, TypeOK
  <2>2. CASE StateFails(r)
    BY <2>2, EndsType DEF StateFails, cache, TypeOK
  <2>3. CASE Compare(r)
    <3>1. CASE run[r].seen = version
      BY <2>3, <3>1, EndsType DEF Compare, cache, TypeOK
    <3>2. CASE run[r].seen # version
      BY <2>3, <3>2, SMTT(30) DEF Compare, cache, TypeOK
    <3>3. QED
      BY <3>1, <3>2
  <2>4. CASE Lock(r)
    <3>1. CASE run[r].seen < version
      BY <2>4, <3>1, EndsType DEF Lock, cache, TypeOK
    <3>2. CASE ~(run[r].seen < version)
      BY <2>4, <3>2, SMTT(30) DEF Lock, cache, TypeOK
    <3>3. QED
      BY <3>1, <3>2
  <2>5. CASE Overview(r)
    <3>1. source.tenants \in Listing /\ {t \in Tenants : source.tenants[t] # 0} \in SUBSET Tenants
      BY DEF TypeOK
    <3>2. run[r].seen \in Versions
      BY DEF TypeOK
    <3>3. run' \in [Runs -> [pc : {"idle", "compare", "lock", "overview", "tenants"},
                            seen : Versions, refs : Listing, todo : SUBSET Tenants]]
      BY <2>5, <3>1, <3>2 DEF Overview, TypeOK
    <3>4. QED
      BY <2>5, <3>3 DEF Overview, cache, TypeOK
  <2>6. CASE OverviewFails(r)
    BY <2>6, EndsType DEF OverviewFails, cache, TypeOK
  <2>7. ASSUME NEW t \in Tenants, TenantKnown(r, t)
        PROVE  TypeOK'
    BY <2>7 DEF TenantKnown, TenantDone, cache, TypeOK
  <2>8. ASSUME NEW t \in Tenants, TenantOverview(r, t)
        PROVE  TypeOK'
    <3>1. source.tenants[t] \in Versions
      BY DEF TypeOK, Listing
    <3>2. overviews' \in Listing
      BY <2>8, <3>1 DEF TenantOverview, TypeOK, Listing
    <3>3. modules' \subseteq Tenants \X Versions
      BY <2>8, <3>1 DEF TenantOverview, TypeOK
    <3>4. run' \in [Runs -> [pc : {"idle", "compare", "lock", "overview", "tenants"},
                            seen : Versions, refs : Listing, todo : SUBSET Tenants]]
      BY <2>8 DEF TenantOverview, TenantDone, TypeOK
    <3>5. QED
      BY <2>8, <3>2, <3>3, <3>4 DEF TenantOverview, TypeOK
  <2>9. ASSUME NEW t \in Tenants, TenantFails(r, t)
        PROVE  TypeOK'
    BY <2>9, EndsType DEF TenantFails, cache, TypeOK
  <2>10. CASE Completed(r)
    BY <2>10, EndsType DEF Completed, TypeOK
  <2>11. QED
    BY <1>3, <2>1, <2>2, <2>3, <2>4, <2>5, <2>6, <2>7, <2>8, <2>9, <2>10 DEF RunStep
<1>4. CASE UNCHANGED vars
  BY <1>4 DEF vars, cache, TypeOK
<1>5. QED
  BY <1>1, <1>2, <1>3, <1>4 DEF Next

\* Type correctness of the cache, of the runs and of what is recorded of the
\* source, for every set of tenants and runs.
THEOREM TypeCorrect == Spec => []TypeOK
  BY InitType, StepType, PTL DEF Spec

-----------------------------------------------------------------------------
(* The inductive invariant *)

LEMMA InitInv == Init => Inv
<1> SUFFICES ASSUME Init
             PROVE  Inv
  OBVIOUS
<1>1. TypeOK
  BY InitType
<1>2. SourceInv
  <2>1. source.version = 1 /\ history[1] = source.tenants
    BY MaxVersionAssumption DEF Init
  <2>2. PICK present \in SUBSET Tenants :
          source.tenants = [t \in Tenants |-> IF t \in present THEN 1 ELSE 0]
    BY DEF Init
  <2>3. \A v \in 1 .. source.version : v = 1
    BY <2>1
  <2>4. QED
    BY <2>1, <2>2, <2>3 DEF SourceInv
<1>3. RunInv /\ LoopInv
  BY DEF Init, RunInv, LoopInv, Idle
<1>4. CacheInv
  <2>1. version = 0 /\ idents = Nobody /\ source.version = 1 /\ \A t \in Tenants : idents[t] = 0
    BY DEF Init, Nobody
  <2>2. QED
    BY <2>1 DEF CacheInv, ListIsNotOlder, ListedHasOverview, ListTenants
<1>5. QED
  BY <1>1, <1>2, <1>3, <1>4 DEF Inv

\* A listing of the source up to its version is not newer than a tenant is now.
LEMMA NotNewer ==
  ASSUME TypeOK, SourceInv, NEW t \in Tenants, source.tenants[t] # 0,
         NEW v \in 1 .. source.version
  PROVE  history[v][t] <= source.tenants[t]
  BY DEF SourceInv

\* Steps that leave the source and the cache alone.
LEMMA KeepsRest ==
  ASSUME Inv, UNCHANGED <<source, history, cache>>
  PROVE  SourceInv' /\ CacheInv'
  BY DEF Inv, SourceInv, CacheInv, ListIsNotOlder, ListedHasOverview, ListTenants, cache

\* A run that ends and leaves the cache alone.
LEMMA EndsKeeps ==
  ASSUME Inv, NEW r \in Runs, NEW ok \in BOOLEAN, Ends(r, ok),
         UNCHANGED <<source, history, cache>>,
         lock' = lock \/ lock = r
  PROVE  RunInv' /\ LoopInv'
<1>1. run' = [run EXCEPT ![r] = Idle] /\ run'[r] = Idle /\ \A q \in Runs \ {r} : run'[q] = run[q]
  BY DEF Ends, Inv, TypeOK
<1>2. \A q \in Runs \ {r} : run[q].pc \in {"overview", "tenants"} => lock' = lock
  BY DEF Inv, RunInv
<1>3. RunInv'
  BY <1>1, <1>2 DEF Inv, RunInv, Idle, cache
<1>4. LoopInv'
  BY <1>1 DEF Inv, LoopInv, Idle, cache
<1>5. QED
  BY <1>3, <1>4

LEMMA SourceStep ==
  ASSUME Inv, TypeOK', SourceChanges
  PROVE  Inv'
<1> USE MaxVersionAssumption
<1> DEFINE v == source.version + 1
<1>1. /\ source.version \in 1 .. MaxVersion /\ v \in 1 .. MaxVersion /\ source'.version = v
      /\ history' = [history EXCEPT ![v] = source'.tenants]
      /\ UNCHANGED <<start, run, lock, version, idents, overviews, modules>>
  BY DEF SourceChanges, Inv, TypeOK, cache
<1>2. PICK t \in Tenants, w \in {0, v} : source'.tenants = [source.tenants EXCEPT ![t] = w]
  <2>1. PICK t \in Tenants : \/ source' = [version |-> v, tenants |-> [source.tenants EXCEPT ![t] = v]]
                             \/ source' = [version |-> v, tenants |-> [source.tenants EXCEPT ![t] = 0]]
    BY DEF SourceChanges
  <2>2. \/ source'.tenants = [source.tenants EXCEPT ![t] = v]
        \/ source'.tenants = [source.tenants EXCEPT ![t] = 0]
    BY <2>1
  <2>3. QED
    BY <2>2
<1>3. history'[v] = source'.tenants /\ \A u \in 1 .. source.version : history'[u] = history[u]
  BY <1>1 DEF Inv, TypeOK
<1>4. source.tenants \in Listing /\ \A u \in 1 .. MaxVersion : history[u] \in Listing
  BY DEF Inv, TypeOK
<1>5. \A u \in 1 .. v : u = v \/ u \in 1 .. source.version
  BY <1>1
<1>6. SourceInv'
  <2>1. \A x \in Tenants : source.tenants[x] <= source.version
    BY <1>1 DEF Inv, SourceInv
  <2>2. \A x \in Tenants : source'.tenants[x] <= v
    BY <1>1, <1>2, <1>4, <2>1 DEF Listing, Versions
  <2>3. ASSUME NEW u \in 1 .. v, NEW x \in Tenants
        PROVE  history'[u][x] <= u
    BY <1>1, <1>3, <1>5, <2>2 DEF Inv, SourceInv
  <2>4. ASSUME NEW u \in 1 .. v, NEW x \in Tenants, source'.tenants[x] # 0
        PROVE  history'[u][x] <= source'.tenants[x]
    <3>1. CASE u = v
      BY <1>3, <1>4, <3>1, <1>2, <1>1 DEF Listing, Versions
    <3>2. CASE u \in 1 .. source.version /\ x = t
      <4>1. source'.tenants[x] = v
        BY <1>2, <1>4, <2>4, <3>2 DEF Listing
      <4>2. history[u][x] <= u
        BY <3>2 DEF Inv, SourceInv
      <4>3. QED
        BY <1>1, <1>3, <1>4, <3>2, <4>1, <4>2 DEF Listing, Versions
    <3>3. CASE u \in 1 .. source.version /\ x # t
      <4>1. source'.tenants[x] = source.tenants[x]
        BY <1>2, <1>4, <3>3 DEF Listing
      <4>2. QED
        BY <1>3, <2>4, <3>3, <4>1 DEF Inv, SourceInv
    <3>4. QED
      BY <1>5, <3>1, <3>2, <3>3
  <2>5. QED
    BY <1>1, <1>3, <2>3, <2>4 DEF SourceInv
<1>7. RunInv'
  <2>1. ASSUME NEW r \in Runs, run[r].pc = "tenants"
        PROVE  \E u \in run[r].seen .. v : run[r].refs = history'[u]
    <3>1. PICK u \in run[r].seen .. source.version : run[r].refs = history[u]
      BY <2>1 DEF Inv, RunInv
    <3>2. run[r].seen \in 1 .. source.version
      BY <2>1 DEF Inv, RunInv
    <3>3. QED
      BY <1>1, <1>3, <3>1, <3>2
  <2>2. QED
    BY <1>1, <2>1 DEF Inv, RunInv
<1>8. LoopInv'
  BY <1>1 DEF Inv, LoopInv
<1>9. CacheInv'
  <2>1. ListIsNotOlder'
    BY <1>1, <1>3 DEF Inv, CacheInv, ListIsNotOlder, TypeOK, Versions
  <2>2. QED
    BY <1>1, <2>1 DEF Inv, CacheInv, ListedHasOverview, ListTenants, TypeOK, Versions
<1>10. QED
  BY <1>6, <1>7, <1>8, <1>9 DEF Inv

\* Steps that change one run and neither the source nor the cache.
LEMMA OneRun ==
  ASSUME Inv, NEW r \in Runs, NEW new, run' = [run EXCEPT ![r] = new],
         UNCHANGED <<source, history, cache>>,
         lock' = lock \/ lock = None,
         new.pc # "idle" => new.seen \in 1 .. source.version,
         new.pc \in {"overview", "tenants"} => lock' = r /\ version <= new.seen,
         new.pc = "tenants" =>
           /\ \E v \in new.seen .. source.version : new.refs = history[v]
           /\ \A t \in Tenants \ new.todo : new.refs[t] # 0 => overviews[t] >= new.refs[t]
  PROVE  RunInv' /\ LoopInv'
<1>1. run'[r] = new /\ \A q \in Runs \ {r} : run'[q] = run[q]
  BY DEF Inv, TypeOK
<1>2. \A q \in Runs \ {r} : run[q].pc \in {"overview", "tenants"} => lock' = q
  BY NoneAssumption DEF Inv, RunInv
<1>3. RunInv'
  BY <1>1, <1>2 DEF Inv, RunInv, cache
<1>4. LoopInv'
  BY <1>1 DEF Inv, LoopInv, cache
<1>5. QED
  BY <1>3, <1>4

LEMMA CompletedStep ==
  ASSUME Inv, TypeOK', NEW r \in Runs, Completed(r)
  PROVE  Inv'
<1>1. /\ run[r].pc = "tenants" /\ run[r].todo = {} /\ run[r].seen \in 1 .. source.version
      /\ version' = run[r].seen /\ idents' = run[r].refs /\ lock = r
      /\ UNCHANGED <<source, history, overviews>>
  BY DEF Completed, Inv, RunInv
<1>2. run'[r] = Idle /\ \A q \in Runs \ {r} : run'[q] = run[q]
  BY DEF Completed, Ends, Inv, TypeOK
<1>3. \A q \in Runs \ {r} : run[q].pc \notin {"overview", "tenants"}
  BY <1>1 DEF Inv, RunInv
<1>4. SourceInv'
  BY <1>1 DEF Inv, SourceInv
<1>5. RunInv'
  BY <1>1, <1>2, <1>3 DEF Inv, RunInv, Idle
<1>6. LoopInv'
  BY <1>2, <1>3 DEF LoopInv, Idle
<1>7. CacheInv'
  <2>1. version' # 0 /\ version' <= source'.version
    BY <1>1 DEF Inv, TypeOK
  <2>2. ListIsNotOlder'
    BY <1>1 DEF Inv, RunInv, ListIsNotOlder
  <2>3. ListedHasOverview'
    BY <1>1 DEF Inv, LoopInv, ListedHasOverview, ListTenants
  <2>4. QED
    BY <2>1, <2>2, <2>3 DEF CacheInv
<1>8. QED
  BY <1>4, <1>5, <1>6, <1>7 DEF Inv

LEMMA OverviewStep ==
  ASSUME Inv, TypeOK', NEW r \in Runs, NEW t \in Tenants, TenantOverview(r, t)
  PROVE  Inv'
<1>1. /\ run[r].pc = "tenants" /\ lock = r /\ source.tenants[t] # 0
      /\ overviews' = [overviews EXCEPT ![t] = source.tenants[t]]
      /\ UNCHANGED <<source, history, lock, version, idents>>
  BY DEF TenantOverview, Pending, Inv, RunInv
<1>2. run'[r] = [run[r] EXCEPT !.todo = @ \ {t}] /\ \A q \in Runs \ {r} : run'[q] = run[q]
  BY DEF TenantOverview, TenantDone, Inv, TypeOK
<1>3. /\ run'[r].pc = run[r].pc /\ run'[r].seen = run[r].seen /\ run'[r].refs = run[r].refs
      /\ run'[r].todo = run[r].todo \ {t}
  BY <1>2 DEF Inv, TypeOK
<1>4. \A q \in Runs \ {r} : run[q].pc \notin {"overview", "tenants"}
  BY <1>1 DEF Inv, RunInv
<1>5. overviews'[t] = source.tenants[t] /\ \A x \in Tenants \ {t} : overviews'[x] = overviews[x]
  BY <1>1 DEF Inv, TypeOK, Listing
<1>6. SourceInv'
  BY <1>1 DEF Inv, SourceInv
<1>7. RunInv'
  <2>1. ASSUME NEW q \in Runs
        PROVE  run'[q].pc = run[q].pc /\ run'[q].seen = run[q].seen /\ run'[q].refs = run[q].refs
    BY <1>2, <1>3
  <2>2. QED
    BY <1>1, <2>1 DEF Inv, RunInv
<1>8. LoopInv'
  <2>1. PICK v \in run[r].seen .. source.version : run[r].refs = history[v]
    BY <1>1 DEF Inv, RunInv
  <2>2. v \in 1 .. source.version
    BY <1>1, <2>1 DEF Inv, RunInv, TypeOK, Versions
  <2>3. run[r].refs[t] <= overviews'[t]
    BY <1>1, <1>5, <2>1, <2>2, NotNewer DEF Inv
  <2>4. run[r].refs \in Listing /\ overviews' \in Listing
    BY DEF Inv, TypeOK
  <2>5. \A x \in Tenants \ run'[r].todo : run[r].refs[x] # 0 => overviews'[x] >= run[r].refs[x]
    BY <1>1, <1>3, <1>5, <2>3, <2>4 DEF Inv, LoopInv, Listing, Versions
  <2>6. QED
    BY <1>2, <1>3, <1>4, <2>5 DEF LoopInv
<1>9. CacheInv'
  <2>1. idents[t] # 0 => idents[t] <= source.tenants[t]
    <3>1. SUFFICES ASSUME idents[t] # 0
                   PROVE  idents[t] <= source.tenants[t]
      OBVIOUS
    <3>2. version # 0
      BY <3>1 DEF Inv, CacheInv, Nobody
    <3>3. PICK v \in version .. source.version : idents = history[v]
      BY <3>2 DEF Inv, CacheInv, ListIsNotOlder
    <3>4. v \in 1 .. source.version
      BY <3>2, <3>3 DEF Inv, TypeOK, Versions
    <3>5. QED
      BY <1>1, <3>3, <3>4, NotNewer DEF Inv
  <2>2. ListedHasOverview'
    <3>1. idents \in Listing /\ source.tenants \in Listing
      BY DEF Inv, TypeOK
    <3>2. QED
      BY <1>1, <1>5, <2>1, <3>1
         DEF Inv, CacheInv, ListedHasOverview, ListTenants, Listing, Versions
  <2>3. QED
    BY <1>1, <2>2 DEF Inv, CacheInv, ListIsNotOlder
<1>10. QED
  BY <1>6, <1>7, <1>8, <1>9 DEF Inv

LEMMA StepInv == Inv /\ [Next]_vars => Inv'
<1> SUFFICES ASSUME Inv, [Next]_vars
             PROVE  Inv'
  OBVIOUS
<1>1. TypeOK'
  BY StepType DEF Inv
<1>2. CASE SourceChanges
  BY <1>1, <1>2, SourceStep
<1>3. CASE Start
  <2>1. RunInv' /\ LoopInv'
    BY <1>3 DEF Start, Inv, RunInv, LoopInv, cache
  <2>2. QED
    BY <1>1, <1>3, <2>1, KeepsRest DEF Start, Inv
<1>4. ASSUME NEW r \in Runs, RunStep(r)
      PROVE  Inv'
  <2>1. ASSUME UNCHANGED <<source, history, cache>>, RunInv' /\ LoopInv'
        PROVE  Inv'
    BY <1>1, <2>1, KeepsRest DEF Inv
  <2>2. CASE StateRead(r)
    <3> DEFINE new == [run[r] EXCEPT !.pc = "compare", !.seen = source.version]
    <3>1. run' = [run EXCEPT ![r] = new]
      BY <2>2 DEF StateRead, Inv, TypeOK
    <3>2. new.pc = "compare" /\ new.seen \in 1 .. source.version
      BY DEF Inv, TypeOK
    <3>3. RunInv' /\ LoopInv'
      <4> HIDE DEF new
      <4>1. QED
        BY <2>2, <3>1, <3>2, OneRun DEF StateRead
    <3>4. QED
      BY <2>1, <2>2, <3>3 DEF StateRead
  <2>3. CASE StateFails(r)
    BY <2>1, <2>3, EndsKeeps DEF StateFails
  <2>4. CASE Compare(r)
    <3>1. CASE run[r].seen = version
      BY <2>1, <2>4, <3>1, EndsKeeps DEF Compare
    <3>2. CASE run[r].seen # version
      <4>1. run' = [run EXCEPT ![r] = [run[r] EXCEPT !.pc = "lock"]]
        BY <2>4, <3>2 DEF Compare, Inv, TypeOK
      <4>2. run[r].seen \in 1 .. source.version
        BY <2>4 DEF Compare, Inv, RunInv
      <4>3. RunInv' /\ LoopInv'
        BY <2>4, <4>1, <4>2, OneRun DEF Compare, Inv, TypeOK
      <4>4. QED
        BY <2>1, <2>4, <4>3 DEF Compare
    <3>3. QED
      BY <3>1, <3>2
  <2>5. CASE Lock(r)
    <3>1. CASE run[r].seen < version
      BY <2>1, <2>5, <3>1, EndsKeeps DEF Lock
    <3>2. CASE ~(run[r].seen < version)
      <4>1. run' = [run EXCEPT ![r] = [run[r] EXCEPT !.pc = "overview"]] /\ lock' = r
        BY <2>5, <3>2 DEF Lock, Inv, TypeOK
      <4>2. run[r].seen \in 1 .. source.version /\ version <= run[r].seen
        BY <2>5, <3>2 DEF Lock, Inv, RunInv, TypeOK, Versions
      <4>3. RunInv' /\ LoopInv'
        BY <2>5, <4>1, <4>2, OneRun DEF Lock, Inv, TypeOK
      <4>4. QED
        BY <2>1, <2>5, <4>3 DEF Lock
    <3>3. QED
      BY <3>1, <3>2
  <2>6. CASE Overview(r)
    <3> DEFINE new == [pc |-> "tenants", seen |-> run[r].seen, refs |-> source.tenants,
                       todo |-> {t \in Tenants : source.tenants[t] # 0}]
    <3>1. run' = [run EXCEPT ![r] = new]
      BY <2>6 DEF Overview
    <3>2. new.seen \in 1 .. source.version /\ lock' = r /\ version <= new.seen
      BY <2>6 DEF Overview, Inv, RunInv
    <3>3. \E v \in new.seen .. source.version : new.refs = history[v]
      BY <3>2 DEF Inv, SourceInv, TypeOK
    <3>4. \A t \in Tenants \ new.todo : new.refs[t] = 0
      OBVIOUS
    <3>5. RunInv' /\ LoopInv'
      <4> HIDE DEF new
      <4>1. QED
        BY <2>6, <3>1, <3>2, <3>3, <3>4, OneRun DEF Overview
    <3>6. QED
      BY <2>1, <2>6, <3>5 DEF Overview
  <2>7. CASE OverviewFails(r)
    <3>1. lock = r
      BY <2>7 DEF OverviewFails, Inv, RunInv
    <3>2. QED
      BY <2>1, <2>7, <3>1, EndsKeeps DEF OverviewFails
  <2>8. ASSUME NEW t \in Tenants, TenantKnown(r, t)
        PROVE  Inv'
    <3> DEFINE new == [run[r] EXCEPT !.todo = @ \ {t}]
    <3>1. run' = [run EXCEPT ![r] = new]
      BY <2>8 DEF TenantKnown, TenantDone, Inv, TypeOK
    <3>2. /\ new.pc = "tenants" /\ new.seen = run[r].seen /\ new.refs = run[r].refs
          /\ new.todo = run[r].todo \ {t} /\ run[r].pc = "tenants"
      BY <2>8 DEF TenantKnown, Pending, Inv, TypeOK
    <3>3. /\ new.seen \in 1 .. source.version /\ lock' = r /\ version <= new.seen
          /\ \E v \in new.seen .. source.version : new.refs = history[v]
      BY <2>8, <3>2 DEF TenantKnown, Inv, RunInv
    <3>4. \A x \in Tenants \ new.todo : new.refs[x] # 0 => overviews[x] >= new.refs[x]
      <4>1. overviews[t] >= run[r].refs[t]
        BY <2>8 DEF TenantKnown, UpToDate, Inv, TypeOK, Listing, Versions
      <4>2. QED
        BY <3>2, <4>1 DEF Inv, LoopInv
    <3>5. RunInv' /\ LoopInv'
      <4> HIDE DEF new
      <4>1. QED
        BY <2>8, <3>1, <3>2, <3>3, <3>4, OneRun DEF TenantKnown
    <3>6. QED
      BY <2>1, <2>8, <3>5 DEF TenantKnown
  <2>9. ASSUME NEW t \in Tenants, TenantOverview(r, t)
        PROVE  Inv'
    BY <1>1, <2>9, OverviewStep
  <2>10. ASSUME NEW t \in Tenants, TenantFails(r, t)
         PROVE  Inv'
    <3>1. lock = r
      BY <2>10 DEF TenantFails, Pending, Inv, RunInv
    <3>2. QED
      BY <2>1, <2>10, <3>1, EndsKeeps DEF TenantFails
  <2>11. CASE Completed(r)
    BY <1>1, <2>11, CompletedStep
  <2>12. QED
    BY <1>4, <2>2, <2>3, <2>4, <2>5, <2>6, <2>7, <2>8, <2>9, <2>10, <2>11 DEF RunStep
<1>5. CASE UNCHANGED vars
  BY <1>1, <1>5, KeepsRest DEF vars, cache, Inv, RunInv, LoopInv
<1>6. QED
  BY <1>2, <1>3, <1>4, <1>5 DEF Next

-----------------------------------------------------------------------------
(* The results *)

\* ListTenants and TenantOverview agree: whatever calls failed in whatever run,
\* each listed tenant has an overview that is at least as new as the list says.
THEOREM ListedCorrect == Spec => []ListedHasOverview
<1>1. Inv => ListedHasOverview
  BY DEF Inv, CacheInv
<1>2. QED
  BY InitInv, StepInv, <1>1, PTL DEF Spec

\* Run reads the state before the overview: the list is never older than the
\* version that is recorded with it.
THEOREM ListCorrect == Spec => []ListIsNotOlder
<1>1. Inv => ListIsNotOlder
  BY DEF Inv, CacheInv
<1>2. QED
  BY InitInv, StepInv, <1>1, PTL DEF Spec

\* What ListTenants, TenantOverview and GetModuleByName give to the orchestrator
\* and the HTTP handlers is consistent, for any tenants and any number of runs.
THEOREM ListInvariantCorrect == Spec => []ListInvariant
  BY ListedCorrect, ListCorrect, PTL DEF ListInvariant

\* Run compares again under the lock: the recorded version never falls, with any
\* number of concurrent runs.
THEOREM VersionCorrect == Spec => VersionNeverFalls
<1>1. ASSUME Inv, [Next]_vars
      PROVE  [version' >= version]_version
  <2>1. version \in Int
    BY <1>1 DEF Inv, TypeOK, Versions
  <2>2. ASSUME NEW r \in Runs, Completed(r)
        PROVE  version' >= version
    BY <1>1, <2>1, <2>2 DEF Completed, Inv, RunInv, TypeOK, Versions
  <2>3. (\A r \in Runs : ~Completed(r)) => version' = version
    BY <1>1 DEF Next, vars, cache, SourceChanges, Start, RunStep, StateRead, StateFails, Compare,
                Lock, Overview, OverviewFails, TenantKnown, TenantOverview, TenantFails
  <2>4. QED
    BY <2>2, <2>3
<1>2. QED
  BY InitInv, StepInv, <1>1, PTL DEF Spec, VersionNeverFalls


-----------------------------------------------------------------------------
(* The schedules *)

\* The watcher does the sync job by the steps of the syncer and touches none of its
\* state otherwise, so that all that is proved of the one is true of the other.
THEOREM WatcherDoesSync == SSpec => Spec
<1>1. SInit => Init
  BY DEF SInit
<1>2. [SNext]_svars => [Next]_vars
  BY DEF SNext, svars, Next, Time, Loop, Scan, Remove, Ticked, ScheduleSync, ScheduleAfter,
         StartSyncs, Changes, JobStep
<1>3. QED
  BY <1>1, <1>2, PTL DEF SSpec, Spec

\* What the orchestrator and the HTTP handlers read is consistent while the watcher
\* does the job each second, late or not, and Start has done it before.
THEOREM ScheduledListCorrect == SSpec => []ListInvariant
  BY WatcherDoesSync, ListInvariantCorrect, PTL

\* After, "will schedule the job ... one time": its job is not done twice, and a
\* schedule that was added is taken off the list only when it has been done.
AfterAtMostOnce ==
  \A s \in Afters : /\ fired[s] \in {0, 1}
                    /\ age[s] # Never /\ s \notin schedules => fired[s] = 1

\* a.done is set with the job, before the schedule is removed, and a schedule that
\* was never added has met nothing.
OnceInv ==
  /\ fired \in [Afters -> {0, 1}]
  /\ age \in [Afters \cup {Sync} -> {Never} \cup Nat]
  /\ \A s \in Afters :
       /\ fired[s] = 1 <=> s \in done
       /\ s \in remove => s \in done
       /\ age[s] = Never => s \notin schedules /\ s \notin done
       /\ age[s] # Never /\ s \notin schedules => s \in done

LEMMA OnceStep ==
  ASSUME OnceInv, [SNext]_svars
  PROVE  OnceInv'
<1>1. CASE Time
  <2>1. UNCHANGED <<schedules, done, remove, fired>>
    BY <1>1 DEF Time, watchVars
  <2>2. DOMAIN age = Afters \cup {Sync} /\ age' = [s \in DOMAIN age |->
          IF age[s] = Never \/ age[s] = Due(s) THEN age[s] ELSE age[s] + 1]
    BY <1>1 DEF OnceInv, Time
  <2>3. age' \in [Afters \cup {Sync} -> {Never} \cup Nat]
    BY <2>2 DEF OnceInv, Never
  <2>4. \A s \in Afters : age'[s] = Never <=> age[s] = Never
    <3> SUFFICES ASSUME NEW s \in Afters PROVE age'[s] = Never <=> age[s] = Never
      OBVIOUS
    <3>1. age[s] = Never \/ age[s] \in Nat
      BY DEF OnceInv
    <3>2. age'[s] = IF age[s] = Never \/ age[s] = Due(s) THEN age[s] ELSE age[s] + 1
      BY <2>2
    <3>3. QED
      BY <3>1, <3>2 DEF Never
  <2>5. QED
    BY <2>1, <2>3, <2>4 DEF OnceInv
<1>2. CASE Scan
  <2> DEFINE now == {s \in schedules \ done : Check(s)}
  <2>1. /\ remove' = schedules \cap done /\ done' = done \cup DoneBy(now) /\ schedules' = schedules
        /\ fired' = [s \in Afters |-> IF s \in now /\ fired[s] < 2 THEN fired[s] + 1 ELSE fired[s]]
        /\ age' = age \/ age' = [age EXCEPT ![Sync] = 0]
    BY <1>2 DEF Scan
  <2>2. now \subseteq schedules /\ now \cap done = {}
    OBVIOUS
  <2> HIDE DEF now
  <2>3. age' \in [Afters \cup {Sync} -> {Never} \cup Nat] /\ \A s \in Afters : age'[s] = age[s]
    BY <2>1, ScheduleAssumption DEF OnceInv
  <2>4. \A s \in Afters : s \in done' <=> s \in done \/ s \in now
    BY <2>1, ScheduleAssumption DEF DoneBy
  <2>5. \A s \in Afters : fired[s] \in {0, 1} /\ (s \in now => fired[s] = 0)
    BY <2>2 DEF OnceInv
  <2>6. \A s \in Afters : fired'[s] = IF s \in now THEN 1 ELSE fired[s]
    BY <2>1, <2>5
  <2>7. fired' \in [Afters -> {0, 1}]
    BY <2>1, <2>5, <2>6
  <2>8. QED
    BY <2>1, <2>2, <2>3, <2>4, <2>5, <2>6, <2>7 DEF OnceInv
<1>3. CASE Remove
  BY <1>3 DEF Remove, OnceInv, timeVars
<1>4. CASE Ticked
  BY <1>4 DEF Ticked, OnceInv
<1>5. CASE ScheduleSync
  BY <1>5, ScheduleAssumption DEF ScheduleSync, watch, OnceInv, timeVars
<1>6. ASSUME NEW s \in Afters, ScheduleAfter(s) PROVE OnceInv'
  <2>1. /\ age' = [age EXCEPT ![s] = 0] /\ schedules' = schedules \cup {s}
        /\ UNCHANGED <<done, remove, fired>> /\ age[s] = Never
    BY <1>6 DEF ScheduleAfter, watch
  <2>2. age' \in [Afters \cup {Sync} -> {Never} \cup Nat]
    BY <2>1 DEF OnceInv
  <2>3. age'[s] # Never /\ \A q \in Afters \ {s} : age'[q] = age[q]
    BY <2>1 DEF OnceInv, Never
  <2>4. QED
    BY <2>1, <2>2, <2>3 DEF OnceInv
<1>7. CASE UNCHANGED <<timeVars, watchVars>>
  BY <1>7 DEF OnceInv, timeVars, watchVars
<1>8. QED
  BY <1>1, <1>2, <1>3, <1>4, <1>5, <1>6, <1>7
  DEF SNext, Loop, StartSyncs, Changes, JobStep, svars

\* watcher.watch and its loop, with schedules added at any moment: the job of an
\* After schedule is done at most once, and no schedule is dropped before it is.
THEOREM AfterOnceCorrect == SSpec => []AfterAtMostOnce
<1>1. SInit => OnceInv
  BY DEF SInit, OnceInv, Never
<1>2. OnceInv => AfterAtMostOnce
  BY DEF OnceInv, AfterAtMostOnce
<1>3. QED
  BY <1>1, <1>2, OnceStep, PTL DEF SSpec
=============================================================================
