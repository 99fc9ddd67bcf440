------------------------- MODULE StartCommandProofs -------------------------
(***************************************************************************)
(* Proofs about Orchestrator and StartCommand for any number of launches   *)
(* and ports, any limit of failures and of instances, and any number of    *)
(* crashes and of ports drawn twice.                                       *)
(***************************************************************************)
EXTENDS StartCommand, FiniteSetTheorems, TLAPS

\* A launch has a port from the start of its process on; the map leads from a port
\* to a launch that has it, and no longer to one whose entry was replaced.
PlaceInv ==
  /\ \A l \in Launches : launch[l].port = None <=> launch[l].st \in {"free", "flying"}
  /\ \A l \in Launches : proc[l] # "none" => launch[l].st \in {"started", "counted", "added"}
  /\ \A p \in Watched : launch[instances[p]].st = "added" /\ launch[instances[p]].port = p
  /\ \A l \in overwritten : launch[l].st = "added" /\ \A p \in Ports : instances[p] # l

\* Every port drawn in use can be charged to a launch, so that all launches whose
\* entry was replaced are charged and any other two have ports of their own.
LossInv ==
  \E C \in SUBSET Launches :
    /\ Cardinality(C) <= collisions
    /\ overwritten \subseteq C
    /\ \A l, k \in Launches \ C : launch[l].port = launch[k].port /\ launch[l].port # None => l = k

\* Only the loop takes instances from the map, so that the ones that did not
\* answer are still there when they are subtracted.
PolledInv == loop.pc = "count" => loop.failed \subseteq Watched

BackendInv == PlaceInv /\ PolledInv /\ LossInv /\ WaitGroupMatches /\ NoOrphanProcess

\* Once the loop has gone through the map, what runs or may still be started has
\* been told to end, was under way then or had lost its entry; with a wait group
\* at zero none had.
ExitInv ==
  /\ loop.pc = "wait" =>
       \A l \in Launches :
         Alive(l) \/ launch[l].st = "flying" => l \in cancelled \cup late \cup overwritten
  /\ loop.pc = "over" =>
       \A l \in Launches : Alive(l) \/ launch[l].st = "flying" => l \in cancelled \cup late
  /\ shutdown = "done" => loop.pc = "over"
  /\ cmd = "exited" => shutdown = "done"

-----------------------------------------------------------------------------
(* What the steps do to the map and to the launches *)

LEMMA WatchedFinite == IsFiniteSet(Watched) /\ Cardinality(Watched) \in Nat
<1>1. Watched \in SUBSET Ports
  BY DEF Watched
<1>2. QED
  BY <1>1, FiniteAssumption, FS_Subset, FS_CardinalityType

LEMMA LaunchesFinite ==
  ASSUME NEW S \in SUBSET Launches
  PROVE  IsFiniteSet(S) /\ Cardinality(S) \in Nat
  BY FiniteAssumption, FS_Subset, FS_CardinalityType

\* Terminated takes a set of watched ports from the map and from the wait group
\* and tells their processes to end.
LEMMA TerminatedTakes ==
  ASSUME TypeOK, WaitGroupMatches, NEW ps \in SUBSET Watched, Terminated(ps)
  PROVE  /\ instances' \in [Ports -> Launches \cup {None}]
         /\ cancelled' \in SUBSET Launches /\ cancelled \subseteq cancelled'
         /\ running' \in Nat
         /\ Watched' = Watched \ ps
         /\ Counted' = Counted /\ overwritten' = overwritten => WaitGroupMatches'
         /\ \A p \in Ports : instances'[p] = instances[p] \/ (p \in ps /\ instances'[p] = None)
         /\ \A p \in ps : instances[p] \in cancelled'
<1>1. /\ instances \in [Ports -> Launches \cup {None}] /\ cancelled \subseteq Launches
      /\ cancelled' = cancelled \cup {instances[p] : p \in ps}
      /\ instances' = [p \in Ports |-> IF p \in ps THEN None ELSE instances[p]]
      /\ running' = running - Cardinality(ps)
  BY DEF TypeOK, Terminated
<1>2. ps \subseteq Ports /\ \A p \in ps : instances[p] \in Launches
  BY <1>1 DEF Watched
<1>3. Watched' = Watched \ ps
  BY <1>1, <1>2 DEF Watched
<1>4. Cardinality(Watched') = Cardinality(Watched) - Cardinality(ps)
  <2>1. Watched \cap ps = ps
    OBVIOUS
  <2>2. QED
    BY <1>3, <2>1, WatchedFinite, FS_Difference
<1>5. Cardinality(ps) \in Nat /\ Cardinality(ps) <= Cardinality(Watched)
  BY WatchedFinite, FS_Subset, FS_CardinalityType
<1>6. Cardinality(Counted) \in Nat /\ Cardinality(overwritten) \in Nat
  BY LaunchesFinite DEF Counted, TypeOK
<1>7. /\ running' \in Nat
      /\ running' = Cardinality(Watched') + Cardinality(Counted) + Cardinality(overwritten)
  BY <1>1, <1>4, <1>5, <1>6, WatchedFinite DEF WaitGroupMatches
<1>8. Counted' = Counted /\ overwritten' = overwritten => WaitGroupMatches'
  BY <1>7 DEF WaitGroupMatches
<1>9. QED
  BY <1>1, <1>2, <1>3, <1>7, <1>8

\* A launch that begins has been free and has no port yet.
LEMMA LaunchedTakes ==
  ASSUME TypeOK, Launched
  PROVE  /\ launch' \in [Launches -> LaunchType]
         /\ \A l \in Launches :
              /\ launch'[l].port = launch[l].port
              /\ launch'[l].st = launch[l].st
                   \/ (launch[l].st = "free" /\ launch'[l].st = "flying")
<1>1. CASE UNCHANGED launch
  BY <1>1 DEF TypeOK
<1>2. ASSUME NEW l \in Launches, launch[l].st = "free",
             launch' = [launch EXCEPT ![l].st = "flying"]
      PROVE  /\ launch' \in [Launches -> LaunchType]
             /\ \A k \in Launches :
                  /\ launch'[k].port = launch[k].port
                  /\ launch'[k].st = launch[k].st
                       \/ (launch[k].st = "free" /\ launch'[k].st = "flying")
  BY <1>2 DEF TypeOK, LaunchType
<1>3. QED
  BY <1>1, <1>2 DEF Launched

\* What Decide does: at most one launch begins, or at most one instance ends.
LEMMA DecideCases ==
  ASSUME Decide
  PROVE  \/ (Launched \/ UNCHANGED launch) /\ NothingTerminated
         \/ UNCHANGED launch /\ \E p \in Watched : Terminated({p})
  BY DEF Decide, LaunchFirst, LaunchMore, scaleDown

-----------------------------------------------------------------------------
(* Types and wait group *)

LEMMA InitBackend == Init => TypeOK /\ BackendInv
<1> SUFFICES ASSUME Init PROVE TypeOK /\ BackendInv
  OBVIOUS
<1>1. Watched = {}
  BY DEF Init, Watched
<1>2. TypeOK
  BY LimitsAssumption DEF Init, TypeOK, LaunchType, LoopType
<1>3. WaitGroupMatches
  <2>1. Counted = {} /\ overwritten = {}
    BY DEF Init, Counted
  <2>2. QED
    BY <1>1, <2>1, FS_EmptySet DEF Init, WaitGroupMatches
<1>4. PlaceInv
  BY <1>1 DEF Init, PlaceInv
<1>5. LossInv
  <2> DEFINE C == {}
  <2>1. Cardinality(C) <= collisions /\ overwritten \subseteq C
    BY FS_EmptySet DEF Init
  <2>2. \A l, k \in Launches \ C : launch[l].port = launch[k].port /\ launch[l].port # None => l = k
    BY DEF Init
  <2>3. C \in SUBSET Launches
    OBVIOUS
  <2>4. QED
    BY <2>1, <2>2, <2>3 DEF LossInv
<1>6. QED
  BY <1>2, <1>3, <1>4, <1>5 DEF Init, BackendInv, PolledInv, NoOrphanProcess, Alive

\* The types, and the wait group, without which running could become negative.
LEMMA StepType ==
  ASSUME TypeOK, BackendInv, [Next]_vars
  PROVE  TypeOK' /\ WaitGroupMatches'
<1> USE LimitsAssumption, NoneAssumption
<1>0. WaitGroupMatches /\ PlaceInv /\ PolledInv
  BY DEF BackendInv
<1>w. ASSUME UNCHANGED <<instances, running, overwritten>>, Counted' = Counted
      PROVE  WaitGroupMatches'
  BY <1>0, <1>w DEF WaitGroupMatches, Watched
<1>c. UNCHANGED launch => Counted' = Counted
  BY DEF Counted
<1>f. /\ Cardinality(Watched) \in Nat /\ IsFiniteSet(Watched)
      /\ Cardinality(Counted) \in Nat /\ IsFiniteSet(Counted)
      /\ Cardinality(overwritten) \in Nat /\ IsFiniteSet(overwritten)
  BY WatchedFinite, LaunchesFinite DEF Counted, TypeOK
<1>1. ASSUME NEW l \in Launches, Run(l)
      PROVE  TypeOK' /\ WaitGroupMatches'
  <2>1. launch' \in [Launches -> LaunchType] /\ Counted' = Counted
    <3>1. CASE \E p \in Ports : launch' = [launch EXCEPT ![l] = [st |-> "started", port |-> p]]
      BY <1>1, <3>1 DEF Run, TypeOK, LaunchType, Counted
    <3>2. CASE launch' = [launch EXCEPT ![l].st = "free"]
      BY <1>1, <3>2 DEF Run, TypeOK, LaunchType, Counted
    <3>3. QED
      BY <1>1, <3>1, <3>2 DEF Run
  <2>2. proc' \in [Launches -> {"none", "booting", "serving", "exited"}]
    BY <1>1 DEF Run, TypeOK
  <2>3. crashes' \in 0 .. MaxMishaps /\ collisions' \in 0 .. MaxMishaps
    BY <1>1 DEF Run, TypeOK
  <2>4. QED
    BY <1>1, <1>w, <2>1, <2>2, <2>3 DEF Run, TypeOK
<1>2. ASSUME NEW l \in Launches, addCounts(l)
      PROVE  TypeOK' /\ WaitGroupMatches'
  <2>1. launch' \in [Launches -> LaunchType] /\ Counted' = Counted \cup {l} /\ l \notin Counted
    BY <1>2 DEF addCounts, TypeOK, LaunchType, Counted
  <2>2. Cardinality(Counted') = Cardinality(Counted) + 1
    BY <1>f, <2>1, FS_AddElement
  <2>3. Watched' = Watched /\ overwritten' = overwritten /\ running' = running + 1
    BY <1>2 DEF addCounts, portVars, Watched
  <2>4. WaitGroupMatches' /\ running' \in Nat
    BY <1>0, <1>f, <2>2, <2>3 DEF WaitGroupMatches
  <2>5. QED
    BY <1>2, <2>1, <2>4 DEF addCounts, portVars, TypeOK
<1>3. ASSUME NEW l \in Launches, add(l)
      PROVE  TypeOK' /\ WaitGroupMatches'
  <2> DEFINE p == launch[l].port
  <2>1. launch' \in [Launches -> LaunchType] /\ Counted' = Counted \ {l} /\ l \in Counted
    BY <1>3 DEF add, TypeOK, LaunchType, Counted
  <2>2. p \in Ports
    BY <1>0, <1>3 DEF add, PlaceInv, TypeOK, LaunchType
  <2>3. instances' = [instances EXCEPT ![p] = l] /\ overwritten' = overwritten \cup ({instances[p]} \ {None})
    BY <1>3 DEF add
  <2>4. instances' \in [Ports -> Launches \cup {None}] /\ overwritten' \in SUBSET Launches
    BY <2>2, <2>3 DEF TypeOK
  <2>5. Cardinality(Counted') = Cardinality(Counted) - 1
    BY <1>f, <2>1, FS_RemoveElement
  <2>6. Watched' = Watched \cup {p}
    BY <2>2, <2>3 DEF TypeOK, Watched
  <2>7. Cardinality(Watched') + Cardinality(overwritten') = Cardinality(Watched) + Cardinality(overwritten) + 1
    <3>1. CASE p \in Watched
      <4>1. overwritten' = overwritten \cup {instances[p]} /\ instances[p] \notin overwritten
        BY <1>0, <2>2, <2>3, <3>1 DEF Watched, PlaceInv
      <4>2. Cardinality(overwritten') = Cardinality(overwritten) + 1
        BY <1>f, <4>1, FS_AddElement
      <4>3. Watched' = Watched
        BY <2>6, <3>1
      <4>4. QED
        BY <1>f, <4>2, <4>3
    <3>2. CASE p \notin Watched
      <4>1. overwritten' = overwritten
        BY <2>2, <2>3, <3>2 DEF Watched
      <4>2. Cardinality(Watched') = Cardinality(Watched) + 1
        BY <1>f, <2>6, <3>2, FS_AddElement
      <4>3. QED
        BY <1>f, <4>1, <4>2
    <3>3. QED
      BY <3>1, <3>2
  <2>8. Cardinality(Watched') \in Nat /\ Cardinality(overwritten') \in Nat
    <3>1. IsFiniteSet(Watched')
      BY <1>f, <2>6, FS_AddElement
    <3>2. QED
      BY <2>4, <3>1, LaunchesFinite, FS_CardinalityType
  <2>9. running' = running
    BY <1>3 DEF add
  <2>10. WaitGroupMatches'
    BY <1>0, <1>f, <2>5, <2>7, <2>8, <2>9 DEF WaitGroupMatches
  <2>11. QED
    BY <1>3, <2>1, <2>4, <2>10 DEF add, TypeOK
<1>4. ASSUME NEW l \in Launches, ProcessStep(l) \/ Exits(l)
      PROVE  TypeOK' /\ WaitGroupMatches'
  <2>1. CASE Serves(l)
    BY <1>w, <1>c, <2>1 DEF Serves, portVars, TypeOK
  <2>2. CASE Killed(l) \/ Exits(l)
    <3>1. crashes' \in 0 .. MaxMishaps
      BY <2>2 DEF Killed, Exits, TypeOK
    <3>2. Over(l)
      BY <2>2 DEF Killed, Exits
    <3>3. QED
      BY <1>w, <1>c, <3>1, <3>2 DEF Over, portVars, TypeOK
  <2>3. CASE addToDead(l)
    <3>1. launch[l].port \in Ports
      BY <1>0, <2>3 DEF addToDead, PlaceInv, TypeOK, LaunchType
    <3>2. QED
      BY <1>w, <1>c, <2>3, <3>1 DEF addToDead, portVars, TypeOK
  <2>4. CASE Recycle(l)
    <3>1. launch' \in [Launches -> LaunchType] /\ Counted' = Counted
      BY <2>4 DEF Recycle, TypeOK, LaunchType, Counted
    <3>2. QED
      BY <2>4, <1>w, <3>1 DEF Recycle, portVars, TypeOK
  <2>5. QED
    BY <1>4, <2>1, <2>2, <2>3, <2>4 DEF ProcessStep
<1>5. CASE BuryDead
  <2>1. Terminated(deadList \cap Watched)
    BY <1>5 DEF BuryDead
  <2>2. loop' \in LoopType
    BY <1>5 DEF BuryDead, TypeOK, LoopType
  <2>3. QED
    BY <1>0, <1>5, <2>1, <2>2, <1>c, TerminatedTakes DEF BuryDead, portVars, TypeOK
<1>6. CASE report
  <2>1. loop' \in LoopType
    BY <1>6 DEF report, TypeOK, LoopType, Watched
  <2>2. QED
    BY <1>6, <1>w, <1>c, <2>1 DEF report, portVars, TypeOK
<1>7. CASE CountInstances
  <2>1. loop.failed \in SUBSET Watched
    BY <1>0, <1>7 DEF PolledInv, CountInstances
  <2>2. Cardinality(Watched) - Cardinality(loop.failed) \in Nat
    BY <2>1, WatchedFinite, FS_Subset, FS_CardinalityType
  <2>3. loop' \in LoopType
    BY <1>7, <2>2 DEF CountInstances, TypeOK, LoopType
  <2>4. QED
    BY <1>7, <1>w, <1>c, <2>3 DEF CountInstances, portVars, TypeOK
<1>8. CASE Decide
  <2>1. loop' \in LoopType
    BY <1>8 DEF Decide, TypeOK, LoopType
  <2>2. CASE (Launched \/ UNCHANGED launch) /\ NothingTerminated
    <3>1. launch' \in [Launches -> LaunchType]
      BY <2>2, LaunchedTakes DEF TypeOK
    <3>2. Counted' = Counted
      BY <1>c, <2>2, LaunchedTakes DEF Counted
    <3>3. QED
      BY <1>8, <1>w, <2>1, <2>2, <3>1, <3>2 DEF Decide, NothingTerminated, portVars, TypeOK
  <2>3. ASSUME UNCHANGED launch, NEW p \in Watched, Terminated({p})
        PROVE  TypeOK' /\ WaitGroupMatches'
    BY <1>0, <1>8, <2>1, <2>3, <1>c, TerminatedTakes DEF Decide, portVars, TypeOK
  <2>4. QED
    BY <1>8, <2>2, <2>3, DecideCases
<1>9. CASE CountFailed
  <2>1. PICK over \in SUBSET loop.failed :
          /\ Terminated(over \cap Watched)
          /\ \A p \in loop.failed : p \in over <=> failCount[p] > FailLimit
          /\ failCount' = [p \in Ports |-> IF p \in over THEN 0
                                           ELSE IF p \in loop.failed THEN failCount[p] + 1
                                           ELSE failCount[p]]
    <3> DEFINE o == {p \in loop.failed : failCount[p] > FailLimit}
    <3>1. o \in SUBSET loop.failed
      OBVIOUS
    <3>2. QED
      BY <1>9, <3>1 DEF CountFailed
  <2>2. failCount' \in [Ports -> 0 .. FailLimit + 1]
    BY <2>1 DEF TypeOK, LoopType
  <2>3. loop' \in LoopType
    BY <1>9 DEF CountFailed, LoopType
  <2>4. QED
    BY <1>0, <1>9, <2>1, <2>2, <2>3, <1>c, TerminatedTakes DEF CountFailed, portVars, TypeOK
<1>10. CASE terminate
  <2>1. loop' \in LoopType
    BY <1>10 DEF terminate, TypeOK, LoopType
  <2>2. Terminated(Watched)
    BY <1>10 DEF terminate
  <2>3. QED
    BY <1>0, <1>10, <2>1, <2>2, <1>c, TerminatedTakes DEF terminate, portVars, TypeOK
<1>11. CASE Waited
  <2>1. loop' \in LoopType
    BY <1>11 DEF Waited, TypeOK, LoopType
  <2>2. QED
    BY <1>11, <1>w, <1>c, <2>1 DEF Waited, portVars, TypeOK
<1>12. CASE Shutdown
  BY <1>12, <1>w, <1>c DEF Shutdown, portVars, TypeOK
<1>13. CASE Signalled
  <2>1. loop' \in LoopType
    BY <1>13 DEF Signalled, TypeOK, LoopType
  <2>2. QED
    BY <1>13, <1>w, <1>c, <2>1 DEF Signalled, portVars, TypeOK
<1>14. CASE UNCHANGED vars
  BY <1>14, <1>w, <1>c DEF vars, portVars, TypeOK
<1>15. QED
  BY <1>1, <1>2, <1>3, <1>4, <1>5, <1>6, <1>7, <1>8, <1>9, <1>10, <1>11, <1>12, <1>13, <1>14
     DEF Next, LaunchStep, LoopStep

-----------------------------------------------------------------------------
(* Launches, ports and processes *)

LEMMA StepPlace ==
  ASSUME TypeOK, BackendInv, [Next]_vars
  PROVE  PlaceInv'
<1> USE NoneAssumption
<1>0. WaitGroupMatches /\ PlaceInv
  BY DEF BackendInv
<1>w. \A p \in Watched : p \in Ports /\ instances[p] \in Launches
  BY DEF Watched, TypeOK
<1>v. overwritten \subseteq Launches
  BY DEF TypeOK
\* Steps that leave the map alone, or only take from it.
<1>s. ASSUME \/ UNCHANGED instances
             \/ \E ps \in SUBSET Watched : Terminated(ps),
             UNCHANGED overwritten,
             \A l \in Launches :
               /\ launch'[l].port = launch[l].port
               /\ \/ launch'[l].st = launch[l].st
                  \/ launch[l].st = "free" /\ launch'[l].st = "flying"
                  \/ launch[l].st = "flying" /\ launch'[l].st = "free"
                  \/ launch[l].st = "started" /\ launch'[l].st = "counted",
             \A l \in Launches : proc'[l] # "none" => proc[l] # "none"
      PROVE  PlaceInv'
  <2>1. /\ \A p \in Watched' : p \in Watched /\ instances'[p] = instances[p]
        /\ \A p \in Ports : instances'[p] = instances[p] \/ instances'[p] = None
    <3>1. CASE UNCHANGED instances
      BY <3>1 DEF Watched
    <3>2. ASSUME NEW ps \in SUBSET Watched, Terminated(ps)
          PROVE  /\ \A p \in Watched' : p \in Watched /\ instances'[p] = instances[p]
                 /\ \A p \in Ports : instances'[p] = instances[p] \/ instances'[p] = None
      BY <1>0, <1>w, <3>2, TerminatedTakes
    <3>3. QED
      BY <1>s, <3>1, <3>2
  <2>2. \A l \in Launches : launch'[l].port = None <=> launch'[l].st \in {"free", "flying"}
    BY <1>0, <1>s DEF PlaceInv
  <2>3. \A l \in Launches : proc'[l] # "none" => launch'[l].st \in {"started", "counted", "added"}
    BY <1>0, <1>s DEF PlaceInv
  <2>4. \A l \in overwritten' : launch'[l].st = "added" /\ \A p \in Ports : instances'[p] # l
    BY <1>0, <1>s, <1>v, <2>1 DEF PlaceInv
  <2>5. \A p \in Watched' : /\ launch'[instances'[p]].st = "added"
                            /\ launch'[instances'[p]].port = p
    BY <1>0, <1>s, <1>w, <2>1 DEF PlaceInv
  <2>6. QED
    BY <2>2, <2>3, <2>4, <2>5 DEF PlaceInv
<1>1. ASSUME NEW l \in Launches, Run(l)
      PROVE  PlaceInv'
  <2>1. ASSUME NEW p \in Ports,
               launch' = [launch EXCEPT ![l] = [st |-> "started", port |-> p]],
               proc' = [proc EXCEPT ![l] = "booting"]
        PROVE  PlaceInv'
    <3>1. /\ launch'[l].st = "started" /\ launch'[l].port = p /\ p # None
          /\ \A k \in Launches \ {l} : launch'[k] = launch[k]
      BY <2>1 DEF TypeOK
    <3>2. Watched' = Watched /\ instances' = instances /\ overwritten' = overwritten
      BY <1>1 DEF Run, Watched
    <3>3. \A q \in Watched : instances[q] # l
      BY <1>0, <1>1 DEF PlaceInv, Run
    <3>4. \A k \in Launches : launch'[k].port = None <=> launch'[k].st \in {"free", "flying"}
      BY <1>0, <3>1 DEF PlaceInv
    <3>5. \A k \in Launches : proc'[k] # "none" => launch'[k].st \in {"started", "counted", "added"}
      BY <1>0, <2>1, <3>1 DEF PlaceInv, TypeOK
    <3>6. \A k \in overwritten' : launch'[k].st = "added" /\ \A q \in Ports : instances'[q] # k
      <4>1. l \notin overwritten
        BY <1>0, <1>1 DEF PlaceInv, Run
      <4>2. QED
        BY <1>0, <1>v, <3>1, <3>2, <4>1 DEF PlaceInv
    <3>7. \A q \in Watched' : launch'[instances'[q]].st = "added" /\ launch'[instances'[q]].port = q
      BY <1>0, <1>w, <3>1, <3>2, <3>3 DEF PlaceInv
    <3>8. QED
      BY <3>4, <3>5, <3>6, <3>7 DEF PlaceInv
  <2>2. CASE launch' = [launch EXCEPT ![l].st = "free"] /\ UNCHANGED proc
    <3>1. \A k \in Launches : /\ launch'[k].port = launch[k].port
                              /\ k # l => launch'[k].st = launch[k].st
                              /\ launch[l].st = "flying" /\ launch'[l].st = "free"
      BY <1>1, <2>2 DEF Run, TypeOK, LaunchType
    <3>2. UNCHANGED <<instances, overwritten>>
      BY <1>1 DEF Run
    <3>3. QED
      BY <1>s, <2>2, <3>1, <3>2
  <2>3. QED
    BY <1>1, <2>1, <2>2 DEF Run
<1>2. ASSUME NEW l \in Launches, add(l)
      PROVE  PlaceInv'
  <2>1. launch[l].port \in Ports /\ launch[l].st = "counted"
    BY <1>0, <1>2 DEF add, PlaceInv, TypeOK, LaunchType
  <2>2. /\ launch'[l].st = "added" /\ launch'[l].port = launch[l].port
        /\ \A k \in Launches \ {l} : launch'[k] = launch[k]
    BY <1>2 DEF add, TypeOK, LaunchType
  <2>3. \A q \in Ports : instances'[q] = IF q = launch[l].port THEN l ELSE instances[q]
    BY <1>2, <2>1 DEF add, TypeOK
  <2>4. \A q \in Watched' : \/ q = launch[l].port /\ instances'[q] = l
                            \/ q \in Watched /\ instances'[q] = instances[q]
    BY <2>3 DEF Watched
  <2>5. \A k \in Launches : launch'[k].port = None <=> launch'[k].st \in {"free", "flying"}
    BY <1>0, <2>1, <2>2 DEF PlaceInv
  <2>6. \A k \in Launches : proc'[k] # "none" => launch'[k].st \in {"started", "counted", "added"}
    BY <1>0, <1>2, <2>2 DEF PlaceInv, add
  <2>7. ASSUME NEW k \in overwritten'
        PROVE  launch'[k].st = "added" /\ \A p \in Ports : instances'[p] # k
    <3>1. CASE k \in overwritten
      <4>1. k # l /\ k \in Launches
        BY <1>0, <1>v, <2>1, <3>1 DEF PlaceInv
      <4>2. QED
        BY <1>0, <2>2, <2>3, <3>1, <4>1 DEF PlaceInv
    <3>2. CASE k \notin overwritten
      <4>1. k = instances[launch[l].port] /\ launch[l].port \in Watched
        BY <1>2, <2>1, <2>7, <3>2 DEF add, Watched
      <4>2. k \in Launches /\ launch[k].st = "added" /\ launch[k].port = launch[l].port
        BY <1>0, <1>w, <4>1 DEF PlaceInv
      <4>3. k # l
        BY <2>1, <4>2
      <4>4. \A p \in Ports : instances[p] = k => p = launch[l].port
        BY <1>0, <4>2 DEF PlaceInv, Watched
      <4>5. QED
        BY <2>2, <2>3, <4>2, <4>3, <4>4
    <3>3. QED
      BY <3>1, <3>2
  <2>8. \A q \in Watched' : launch'[instances'[q]].st = "added" /\ launch'[instances'[q]].port = q
    BY <1>0, <1>w, <2>1, <2>2, <2>4 DEF PlaceInv
  <2>9. QED
    BY <2>5, <2>6, <2>7, <2>8 DEF PlaceInv
<1>3. ASSUME NEW l \in Launches, addCounts(l) \/ Serves(l) \/ Killed(l) \/ Exits(l) \/ addToDead(l)
      PROVE  PlaceInv'
  <2>1. UNCHANGED <<instances, overwritten>>
    BY <1>3 DEF addCounts, Serves, Killed, Exits, Over, addToDead, portVars
  <2>2. \A k \in Launches : proc'[k] # "none" => proc[k] # "none"
    BY <1>3 DEF addCounts, Serves, Killed, Exits, Over, addToDead, TypeOK, Alive
  <2>3. \A k \in Launches : /\ launch'[k].port = launch[k].port
                            /\ \/ launch'[k].st = launch[k].st
                               \/ launch[k].st = "started" /\ launch'[k].st = "counted"
    BY <1>3 DEF addCounts, Serves, Killed, Exits, Over, addToDead, TypeOK, LaunchType
  <2>4. QED
    BY <1>s, <2>1, <2>2, <2>3
<1>4. ASSUME NEW l \in Launches, Recycle(l)
      PROVE  PlaceInv'
  <2>1. /\ launch'[l].st = "free" /\ launch'[l].port = None
        /\ \A k \in Launches \ {l} : launch'[k] = launch[k]
    BY <1>4 DEF Recycle, TypeOK
  <2>2. /\ Watched' = Watched /\ UNCHANGED <<instances, proc, overwritten>>
        /\ proc[l] = "none" /\ l \notin overwritten
    BY <1>4 DEF Recycle, Watched, portVars
  <2>3. \A q \in Watched : instances[q] # l
    BY <1>4, <1>w DEF Recycle
  <2>4. \A k \in Launches : launch'[k].port = None <=> launch'[k].st \in {"free", "flying"}
    BY <1>0, <2>1 DEF PlaceInv
  <2>5. \A k \in Launches : proc'[k] # "none" => launch'[k].st \in {"started", "counted", "added"}
    BY <1>0, <2>1, <2>2 DEF PlaceInv
  <2>6. \A k \in overwritten' : launch'[k].st = "added" /\ \A p \in Ports : instances'[p] # k
    BY <1>0, <1>v, <2>1, <2>2 DEF PlaceInv
  <2>7. \A q \in Watched' : launch'[instances'[q]].st = "added" /\ launch'[instances'[q]].port = q
    BY <1>0, <1>w, <2>1, <2>2, <2>3 DEF PlaceInv
  <2>8. QED
    BY <2>4, <2>5, <2>6, <2>7 DEF PlaceInv
<1>5. CASE BuryDead
  <2>1. Terminated(deadList \cap Watched) /\ UNCHANGED <<launch, proc, overwritten>>
    BY <1>5 DEF BuryDead, portVars
  <2>2. \E ps \in SUBSET Watched : Terminated(ps)
    <3>1. deadList \cap Watched \in SUBSET Watched
      OBVIOUS
    <3>2. QED
      BY <2>1, <3>1
  <2>3. QED
    BY <1>s, <2>1, <2>2
<1>6. CASE Decide
  <2>1. UNCHANGED <<proc, overwritten>>
    BY <1>6 DEF Decide, portVars
  <2>2. CASE (Launched \/ UNCHANGED launch) /\ NothingTerminated
    <3>1. UNCHANGED instances
      BY <2>2 DEF NothingTerminated
    <3>2. QED
      BY <1>s, <2>1, <2>2, <3>1, LaunchedTakes
  <2>3. ASSUME UNCHANGED launch, NEW p \in Watched, Terminated({p})
        PROVE  PlaceInv'
    <3>1. \E ps \in SUBSET Watched : Terminated(ps)
      <4>1. {p} \in SUBSET Watched
        OBVIOUS
      <4>2. QED
        BY <2>3, <4>1
    <3>2. QED
      BY <1>s, <2>1, <2>3, <3>1
  <2>4. QED
    BY <1>6, <2>2, <2>3, DecideCases
<1>7. CASE CountFailed
  <2>1. UNCHANGED <<launch, proc, overwritten>>
    BY <1>7 DEF CountFailed, portVars
  <2>2. \E ps \in SUBSET Watched : Terminated(ps)
    <3> DEFINE ps == {p \in loop.failed : failCount[p] > FailLimit} \cap Watched
    <3>1. ps \in SUBSET Watched
      OBVIOUS
    <3>2. Terminated(ps)
      BY <1>7 DEF CountFailed, portVars
    <3>3. QED
      BY <3>1, <3>2
  <2>3. QED
    BY <1>s, <2>1, <2>2
<1>8. CASE terminate
  <2>1. Terminated(Watched) /\ UNCHANGED <<launch, proc, overwritten>>
    BY <1>8 DEF terminate, portVars
  <2>2. \E ps \in SUBSET Watched : Terminated(ps)
    <3>1. Watched \in SUBSET Watched
      OBVIOUS
    <3>2. QED
      BY <2>1, <3>1
  <2>3. QED
    BY <1>s, <2>1, <2>2
<1>9. CASE report \/ CountInstances \/ Waited \/ Shutdown \/ Signalled \/ UNCHANGED vars
  <2>1. UNCHANGED <<launch, proc, instances, overwritten>>
    BY <1>9 DEF report, CountInstances, Waited, Shutdown, Signalled, vars, portVars
  <2>2. QED
    BY <1>s, <2>1
<1>10. QED
  BY <1>1, <1>2, <1>3, <1>4, <1>5, <1>6, <1>7, <1>8, <1>9
     DEF Next, LaunchStep, ProcessStep, LoopStep

\* A port that is drawn in use is charged to its launch; a launch that is charged
\* passes the charge on to the one whose entry it replaces.
LEMMA StepLoss ==
  ASSUME TypeOK, BackendInv, [Next]_vars
  PROVE  LossInv'
<1> USE NoneAssumption
<1>0. PlaceInv /\ LossInv
  BY DEF BackendInv
<1>1. PICK C \in SUBSET Launches :
        /\ Cardinality(C) <= collisions
        /\ overwritten \subseteq C
        /\ \A l, k \in Launches \ C : launch[l].port = launch[k].port /\ launch[l].port # None => l = k
  BY <1>0 DEF LossInv
<1>2. collisions \in Nat /\ IsFiniteSet(C) /\ Cardinality(C) \in Nat
  BY LimitsAssumption, LaunchesFinite DEF TypeOK
\* Steps that draw and replace nothing.
<1>s. ASSUME UNCHANGED <<overwritten, collisions>>,
             \A l \in Launches : launch'[l].port \in {launch[l].port, None}
      PROVE  LossInv'
  <2>1. \A l, k \in Launches \ C : launch'[l].port = launch'[k].port /\ launch'[l].port # None => l = k
    BY <1>1, <1>s
  <2>2. QED
    BY <1>1, <1>s, <2>1 DEF LossInv
<1>3. ASSUME NEW l \in Launches, Run(l)
      PROVE  LossInv'
  <2>1. UNCHANGED overwritten
    BY <1>3 DEF Run
  <2>2. ASSUME NEW p \in Ports,
               launch' = [launch EXCEPT ![l] = [st |-> "started", port |-> p]]
        PROVE  /\ launch'[l].port = p /\ p # None
               /\ \A k \in Launches \ {l} : launch'[k] = launch[k]
    BY <2>2 DEF TypeOK
  <2>3. ASSUME NEW p \in Ports \ PortsInUse, UNCHANGED collisions,
               launch' = [launch EXCEPT ![l] = [st |-> "started", port |-> p]]
        PROVE  LossInv'
    <3>1. \A k \in Launches : launch[k].port # p
      BY <2>3 DEF PortsInUse
    <3>2. \A k, m \in Launches \ C : launch'[k].port = launch'[m].port /\ launch'[k].port # None => k = m
      BY <1>1, <2>2, <2>3, <3>1
    <3>3. QED
      BY <1>1, <2>1, <2>3, <3>2 DEF LossInv
  <2>4. ASSUME NEW p \in Ports, collisions' = collisions + 1,
               launch' = [launch EXCEPT ![l] = [st |-> "started", port |-> p]]
        PROVE  LossInv'
    <3> DEFINE D == C \cup {l}
    <3>1. Cardinality(D) <= collisions'
      <4>1. Cardinality(D) = IF l \in C THEN Cardinality(C) ELSE Cardinality(C) + 1
        BY <1>2, FS_AddElement
      <4>2. QED
        BY <1>1, <1>2, <2>4, <4>1
    <3>2. \A k, m \in Launches \ D : launch'[k].port = launch'[m].port /\ launch'[k].port # None => k = m
      BY <1>1, <2>2, <2>4
    <3>3. D \in SUBSET Launches /\ overwritten' \subseteq D
      BY <1>1, <2>1
    <3>4. QED
      BY <3>1, <3>2, <3>3 DEF LossInv
  <2>5. CASE launch' = [launch EXCEPT ![l].st = "free"] /\ UNCHANGED collisions
    <3>1. \A k \in Launches : launch'[k].port = launch[k].port
      BY <2>5 DEF TypeOK, LaunchType
    <3>2. QED
      BY <1>s, <2>1, <2>5, <3>1
  <2>6. QED
    BY <1>3, <2>3, <2>4, <2>5 DEF Run
<1>4. ASSUME NEW l \in Launches, add(l)
      PROVE  LossInv'
  <2>1. launch[l].port \in Ports /\ l \notin overwritten
    BY <1>0, <1>4 DEF add, PlaceInv, TypeOK, LaunchType
  <2>2. UNCHANGED collisions /\ \A k \in Launches : launch'[k].port = launch[k].port
    BY <1>4 DEF add, TypeOK, LaunchType
  <2>3. CASE overwritten' = overwritten
    BY <1>s, <2>2, <2>3
  <2>4. ASSUME NEW k \in Launches, k \notin overwritten, overwritten' = overwritten \cup {k},
               launch[k].port = launch[l].port, k # l
        PROVE  LossInv'
    <3>1. CASE k \in C
      <4>1. \A m, n \in Launches \ C : launch'[m].port = launch'[n].port /\ launch'[m].port # None => m = n
        BY <1>1, <2>2
      <4>2. QED
        BY <1>1, <2>2, <2>4, <3>1, <4>1 DEF LossInv
    <3>2. CASE k \notin C
      <4> DEFINE D == (C \ {l}) \cup {k}
      <4>1. l \in C
        BY <1>1, <2>1, <2>4, <3>2
      <4>2. IsFiniteSet(C \ {l}) /\ Cardinality(C \ {l}) = Cardinality(C) - 1
        BY <1>2, <4>1, FS_RemoveElement
      <4>3. Cardinality(D) = Cardinality(C)
        <5> DEFINE B == C \ {l}
        <5>1. Cardinality(B \cup {k}) = IF k \in B THEN Cardinality(B) ELSE Cardinality(B) + 1
          BY <4>2, FS_AddElement
        <5>2. k \notin B
          BY <3>2
        <5>3. Cardinality(B \cup {k}) = Cardinality(B) + 1
          BY <5>1, <5>2
        <5>4. QED
          BY <1>2, <4>2, <5>3
      <4>4. ASSUME NEW m \in Launches \ D, NEW n \in Launches \ D,
                   launch'[m].port = launch'[n].port, launch'[m].port # None
            PROVE  m = n
        <5>1. \A x \in Launches \ C : launch[x].port = launch[l].port => x = k
          BY <1>1, <2>1, <2>4, <3>2
        <5>2. \A x \in Launches \ D : x = l \/ (x \in Launches \ C /\ x # k)
          OBVIOUS
        <5>3. launch[m].port = launch[n].port /\ launch[m].port # None
          BY <2>2, <4>4
        <5>4. QED
          BY <1>1, <5>1, <5>2, <5>3
      <4>5. overwritten' \subseteq D /\ D \in SUBSET Launches
        BY <1>1, <2>1, <2>4
      <4>6. QED
        BY <1>1, <2>2, <4>3, <4>4, <4>5 DEF LossInv
    <3>3. QED
      BY <3>1, <3>2
  <2>5. CASE overwritten' # overwritten
    <3> DEFINE k == instances[launch[l].port]
    <3>1. k # None /\ k \notin overwritten /\ overwritten' = overwritten \cup {k}
      BY <1>4, <2>5 DEF add
    <3>2. k \in Launches /\ launch[k].st = "added" /\ launch[k].port = launch[l].port
      BY <1>0, <2>1, <3>1 DEF PlaceInv, Watched, TypeOK
    <3>3. k # l
      BY <1>4, <3>2 DEF add
    <3>4. QED
      BY <2>4, <3>1, <3>2, <3>3
  <2>6. QED
    BY <2>3, <2>5
<1>5. ASSUME NEW l \in Launches, addCounts(l) \/ ProcessStep(l) \/ Exits(l)
      PROVE  LossInv'
  <2>1. UNCHANGED <<overwritten, collisions>>
    BY <1>5 DEF addCounts, ProcessStep, Serves, Killed, Exits, Over, addToDead, Recycle, portVars
  <2>2. \A k \in Launches : launch'[k].port \in {launch[k].port, None}
    BY <1>5 DEF addCounts, ProcessStep, Serves, Killed, Exits, Over, addToDead, Recycle,
                TypeOK, LaunchType
  <2>3. QED
    BY <1>s, <2>1, <2>2
<1>6. CASE LoopStep \/ Shutdown \/ Signalled \/ UNCHANGED vars
  <2>1. UNCHANGED <<overwritten, collisions>>
    BY <1>6 DEF LoopStep, BuryDead, report, CountInstances, Decide, CountFailed, terminate, Waited,
                Shutdown, Signalled, vars, portVars
  <2>2. \A k \in Launches : launch'[k].port = launch[k].port
    <3>1. CASE Decide
      BY <3>1, DecideCases, LaunchedTakes
    <3>2. CASE ~Decide
      BY <1>6, <3>2 DEF LoopStep, BuryDead, report, CountInstances, CountFailed, terminate, Waited,
                        Shutdown, Signalled, vars
    <3>3. QED
      BY <3>1, <3>2
  <2>3. QED
    BY <1>s, <2>1, <2>2
<1>7. QED
  BY <1>3, <1>4, <1>5, <1>6 DEF Next, LaunchStep

LEMMA StepPolled ==
  ASSUME TypeOK, BackendInv, [Next]_vars
  PROVE  PolledInv'
<1>0. PolledInv
  BY DEF BackendInv
<1>1. CASE report
  BY <1>1 DEF report, PolledInv, Watched, TypeOK, LoopType
<1>2. ASSUME NEW l \in Launches, add(l)
      PROVE  PolledInv'
  <2>1. Watched \subseteq Watched'
    BY <1>2, NoneAssumption DEF add, TypeOK, Watched
  <2>2. QED
    BY <1>0, <1>2, <2>1 DEF add, PolledInv
<1>3. ASSUME NEW l \in Launches, Run(l) \/ addCounts(l) \/ ProcessStep(l) \/ Exits(l)
      PROVE  PolledInv'
  <2>1. UNCHANGED <<loop, instances>>
    BY <1>3 DEF Run, addCounts, ProcessStep, Serves, Killed, Exits, Over, addToDead, Recycle
  <2>2. QED
    BY <1>0, <2>1 DEF PolledInv, Watched
<1>4. CASE BuryDead \/ CountInstances \/ Decide \/ CountFailed \/ terminate \/ Waited \/ Signalled
  <2>1. loop'.pc # "count"
    <3>1. CASE CountInstances
      <4>1. PICK n : loop' = [[loop EXCEPT !.pc = "decide"] EXCEPT !.count = n]
        BY <3>1 DEF CountInstances
      <4>2. QED
        BY <4>1 DEF TypeOK, LoopType
    <3>2. CASE ~CountInstances
      BY <1>4, <3>2 DEF BuryDead, Decide, CountFailed, terminate, Waited, Signalled,
                        TypeOK, LoopType
    <3>3. QED
      BY <3>1, <3>2
  <2>2. QED
    BY <2>1 DEF PolledInv
<1>5. CASE Shutdown \/ UNCHANGED vars
  BY <1>0, <1>5 DEF Shutdown, vars, PolledInv, Watched
<1>6. QED
  BY <1>1, <1>2, <1>3, <1>4, <1>5 DEF Next, LaunchStep, LoopStep

\* A step that takes from the map tells what it takes to end.
LEMMA StepOrphan ==
  ASSUME TypeOK, BackendInv, [Next]_vars
  PROVE  NoOrphanProcess'
<1> USE NoneAssumption
<1>0. WaitGroupMatches /\ PlaceInv /\ NoOrphanProcess
  BY DEF BackendInv
<1>p. \A l \in Launches : launch[l].st = "added" => launch[l].port \in Ports
  BY <1>0 DEF PlaceInv, TypeOK, LaunchType
<1>s. ASSUME \/ UNCHANGED <<instances, cancelled>>
             \/ \E ps \in SUBSET Watched : Terminated(ps),
             UNCHANGED overwritten,
             \A l \in Launches : launch'[l].st = "added" =>
               launch[l].st = "added" /\ launch'[l].port = launch[l].port,
             \A l \in Launches : Alive(l)' /\ launch'[l].st = "added" => Alive(l)
      PROVE  NoOrphanProcess'
  <2> SUFFICES ASSUME NEW l \in Launches,
                      launch'[l].st = "added", Alive(l)', l \notin cancelled' \cup overwritten'
               PROVE  instances'[launch'[l].port] = l
    BY DEF NoOrphanProcess
  <2>1. launch[l].st = "added" /\ launch'[l].port = launch[l].port /\ Alive(l)
    BY <1>s
  <2>2. CASE UNCHANGED <<instances, cancelled>>
    BY <1>0, <1>s, <2>1, <2>2 DEF NoOrphanProcess
  <2>3. ASSUME NEW ps \in SUBSET Watched, Terminated(ps)
        PROVE  instances'[launch'[l].port] = l
    <3>1. l \notin cancelled
      BY <1>0, <2>3, TerminatedTakes
    <3>2. instances[launch[l].port] = l /\ launch[l].port \in Ports
      BY <1>0, <1>p, <1>s, <2>1, <3>1 DEF NoOrphanProcess
    <3>3. launch[l].port \notin ps
      BY <1>0, <2>3, <3>2, TerminatedTakes
    <3>4. instances'[launch[l].port] = instances[launch[l].port]
      BY <1>0, <2>3, <3>2, <3>3, TerminatedTakes
    <3>5. QED
      BY <2>1, <3>2, <3>4
  <2>4. QED
    BY <1>s, <2>2, <2>3
<1>1. ASSUME NEW l \in Launches, Run(l)
      PROVE  NoOrphanProcess'
  <2>1. launch'[l].st # "added"
    <3>1. CASE \E p \in Ports : launch' = [launch EXCEPT ![l] = [st |-> "started", port |-> p]]
      BY <3>1 DEF TypeOK
    <3>2. CASE launch' = [launch EXCEPT ![l].st = "free"]
      BY <3>2 DEF TypeOK, LaunchType
    <3>3. QED
      BY <1>1, <3>1, <3>2 DEF Run
  <2>2. \A k \in Launches \ {l} : launch'[k] = launch[k] /\ proc'[k] = proc[k]
    BY <1>1 DEF Run, TypeOK
  <2>3. UNCHANGED <<instances, cancelled, overwritten>>
    BY <1>1 DEF Run
  <2>4. QED
    BY <1>s, <2>1, <2>2, <2>3 DEF Alive
<1>2. ASSUME NEW l \in Launches, add(l)
      PROVE  NoOrphanProcess'
  <2> SUFFICES ASSUME NEW k \in Launches,
                      launch'[k].st = "added", Alive(k)', k \notin cancelled' \cup overwritten'
               PROVE  instances'[launch'[k].port] = k
    BY DEF NoOrphanProcess
  <2>1. /\ launch'[k].port = launch[k].port
        /\ k # l => launch'[k] = launch[k]
        /\ UNCHANGED <<proc, cancelled>>
    BY <1>2 DEF add, TypeOK, LaunchType
  <2>2. launch[l].port \in Ports
    BY <1>0, <1>2 DEF add, PlaceInv, TypeOK, LaunchType
  <2>3. CASE k = l
    BY <1>2, <2>1, <2>2, <2>3 DEF add, TypeOK
  <2>4. CASE k # l
    <3>1. instances[launch[k].port] = k /\ launch[k].port \in Ports
      <4>1. k \notin overwritten
        BY <1>2 DEF add
      <4>2. QED
        BY <1>0, <1>p, <2>1, <2>4, <4>1 DEF NoOrphanProcess, Alive
    <3>2. launch[k].port # launch[l].port
      BY <1>2, <3>1 DEF add
    <3>3. instances'[launch[k].port] = instances[launch[k].port]
      BY <1>2, <2>2, <3>1, <3>2 DEF add, TypeOK
    <3>4. QED
      BY <2>1, <3>1, <3>3
  <2>5. QED
    BY <2>3, <2>4
<1>3. ASSUME NEW l \in Launches, addCounts(l) \/ Serves(l) \/ Killed(l) \/ Exits(l) \/ addToDead(l)
      PROVE  NoOrphanProcess'
  <2>1. UNCHANGED <<instances, cancelled, overwritten>>
    BY <1>3 DEF addCounts, Serves, Killed, Exits, Over, addToDead, portVars
  <2>2. \A k \in Launches : Alive(k)' => Alive(k)
    BY <1>3 DEF addCounts, Serves, Killed, Exits, Over, addToDead, TypeOK, Alive
  <2>3. \A k \in Launches : launch'[k].st = "added" =>
          launch[k].st = "added" /\ launch'[k].port = launch[k].port
    BY <1>3 DEF addCounts, Serves, Killed, Exits, Over, addToDead, TypeOK, LaunchType
  <2>4. QED
    BY <1>s, <2>1, <2>2, <2>3
<1>4. ASSUME NEW l \in Launches, Recycle(l)
      PROVE  NoOrphanProcess'
  <2>1. /\ launch'[l].st = "free"
        /\ \A k \in Launches \ {l} : launch'[k] = launch[k]
    BY <1>4 DEF Recycle, TypeOK
  <2>2. UNCHANGED <<instances, proc, overwritten>> /\ cancelled' = cancelled \ {l}
    BY <1>4 DEF Recycle, portVars
  <2>3. QED
    BY <1>0, <2>1, <2>2 DEF NoOrphanProcess, Alive
<1>5. CASE BuryDead
  <2>1. Terminated(deadList \cap Watched) /\ UNCHANGED <<launch, proc, overwritten>>
    BY <1>5 DEF BuryDead, portVars
  <2>2. deadList \cap Watched \in SUBSET Watched
    OBVIOUS
  <2>3. QED
    BY <1>s, <2>1, <2>2 DEF Alive
<1>6. CASE Decide
  <2>1. UNCHANGED <<proc, overwritten>>
    BY <1>6 DEF Decide, portVars
  <2>2. CASE (Launched \/ UNCHANGED launch) /\ NothingTerminated
    <3>1. UNCHANGED <<instances, cancelled>>
      BY <2>2 DEF NothingTerminated
    <3>2. QED
      BY <1>s, <2>1, <2>2, <3>1, LaunchedTakes DEF Alive
  <2>3. ASSUME UNCHANGED launch, NEW p \in Watched, Terminated({p})
        PROVE  NoOrphanProcess'
    <3>1. {p} \in SUBSET Watched
      OBVIOUS
    <3>2. QED
      BY <1>s, <2>1, <2>3, <3>1 DEF Alive
  <2>4. QED
    BY <1>6, <2>2, <2>3, DecideCases
<1>7. CASE CountFailed
  <2>1. UNCHANGED <<launch, proc, overwritten>>
    BY <1>7 DEF CountFailed, portVars
  <2>2. \E ps \in SUBSET Watched : Terminated(ps)
    <3> DEFINE ps == {p \in loop.failed : failCount[p] > FailLimit} \cap Watched
    <3>1. ps \in SUBSET Watched
      OBVIOUS
    <3>2. Terminated(ps)
      BY <1>7 DEF CountFailed, portVars
    <3>3. QED
      BY <3>1, <3>2
  <2>3. QED
    BY <1>s, <2>1, <2>2 DEF Alive
<1>8. CASE terminate
  <2>1. Terminated(Watched) /\ UNCHANGED <<launch, proc, overwritten>> /\ Watched \in SUBSET Watched
    BY <1>8 DEF terminate, portVars
  <2>2. QED
    BY <1>s, <2>1 DEF Alive
<1>9. CASE report \/ CountInstances \/ Waited \/ Shutdown \/ Signalled \/ UNCHANGED vars
  <2>1. UNCHANGED <<launch, proc, instances, cancelled, overwritten>>
    BY <1>9 DEF report, CountInstances, Waited, Shutdown, Signalled, vars, portVars
  <2>2. QED
    BY <1>s, <2>1 DEF Alive
<1>10. QED
  BY <1>1, <1>2, <1>3, <1>4, <1>5, <1>6, <1>7, <1>8, <1>9
     DEF Next, LaunchStep, ProcessStep, LoopStep

\* The steps of the command leave the backend alone or are steps of it.
LEMMA StartIsBackend == [StartNext]_startVars => [Next]_vars
  BY DEF StartNext, startVars, Next, InCommand, BackendStep, SyncerStarts, SyncerFails,
         ServerError, Signal, CommandStep, CloseServers, Returns

\* add, scaleDown, terminate and terminateInstance: whatever the order of launches,
\* ends of processes and ticks of the loop, the wait group counts the instances of
\* the map, those being added and those that lost their entry, of which there are no
\* more than ports drawn in use; every other process whose launch is over is in the
\* map or told to end.
THEOREM InstancesCorrect == FairStartSpec => []InstancesInvariant
<1>1. StartInit => TypeOK /\ BackendInv
  BY InitBackend DEF StartInit
<1>2. TypeOK /\ BackendInv /\ [StartNext]_startVars => (TypeOK /\ BackendInv)'
  BY StartIsBackend, StepType, StepPlace, StepPolled, StepLoss, StepOrphan DEF BackendInv
<1>3. TypeOK /\ BackendInv => LossIsCollision
  <2> SUFFICES ASSUME TypeOK, BackendInv
               PROVE  LossIsCollision
    OBVIOUS
  <2>1. PICK C \in SUBSET Launches : Cardinality(C) <= collisions /\ overwritten \subseteq C
    BY DEF BackendInv, LossInv
  <2>2. Cardinality(overwritten) <= Cardinality(C)
    BY <2>1, LaunchesFinite, FS_Subset
  <2>3. Cardinality(overwritten) \in Nat /\ Cardinality(C) \in Nat /\ collisions \in Int
    BY <2>1, LaunchesFinite DEF TypeOK
  <2>4. QED
    BY <2>1, <2>2, <2>3 DEF LossIsCollision
<1>4. TypeOK /\ BackendInv => InstancesInvariant
  BY <1>3 DEF BackendInv, InstancesInvariant
<1>5. QED
  BY <1>1, <1>2, <1>4, PTL DEF FairStartSpec, StartSpec

-----------------------------------------------------------------------------
(* The command *)

LEMMA InitExit == StartInit => StartTypeOK /\ ExitInv
  BY DEF StartInit, Init, StartTypeOK, ExitInv

LEMMA StepStartType == StartTypeOK /\ [StartNext]_startVars => StartTypeOK'
  BY DEF StartTypeOK, StartNext, startVars, cmdVars, InCommand, BackendStep, UnderWay,
         SyncerStarts, SyncerFails, ServerError, Signal, CommandStep, CloseServers, Returns

\* What the loop leaves to run after terminate can only end.
LEMMA StepExit ==
  ASSUME TypeOK, BackendInv, ExitInv, [StartNext]_startVars
  PROVE  ExitInv'
<1> DEFINE Left == \A l \in Launches :
                     Alive(l) \/ launch[l].st = "flying" => l \in cancelled \cup late
           LeftOrLost == \A l \in Launches :
                     Alive(l) \/ launch[l].st = "flying" => l \in cancelled \cup late \cup overwritten
<1>0. PlaceInv /\ NoOrphanProcess /\ WaitGroupMatches
  BY DEF BackendInv
<1>1. ASSUME NEW l \in Launches, LaunchStep(l) \/ ProcessStep(l) \/ Exits(l), InCommand
      PROVE  ExitInv'
  <2>1. UNCHANGED <<loop, shutdown, cmd, late>>
    BY <1>1 DEF LaunchStep, ProcessStep, Run, addCounts, add, Serves, Killed, Exits, Over, addToDead, Recycle,
                InCommand, cmdVars
  <2>2. \A k \in Launches \ {l} : /\ launch'[k] = launch[k] /\ proc'[k] = proc[k]
                                  /\ k \in cancelled' <=> k \in cancelled
    BY <1>1 DEF LaunchStep, ProcessStep, Run, addCounts, add, Serves, Killed, Exits, Over, addToDead, Recycle, TypeOK
  <2>3. Alive(l)' \/ launch'[l].st = "flying" => Alive(l) \/ launch[l].st = "flying"
    <3>1. CASE Run(l)
      BY <3>1 DEF Run
    <3>2. CASE addCounts(l) \/ add(l)
      BY <3>2 DEF addCounts, add, TypeOK, LaunchType, Alive
    <3>3. CASE Serves(l) \/ Killed(l) \/ Exits(l) \/ addToDead(l)
      BY <3>3 DEF Serves, Killed, Exits, Over, addToDead, TypeOK, Alive
    <3>4. CASE Recycle(l)
      BY <3>4 DEF Recycle, TypeOK, Alive
    <3>5. QED
      BY <1>1, <3>1, <3>2, <3>3, <3>4 DEF LaunchStep, ProcessStep
  <2>4. Alive(l)' \/ launch'[l].st = "flying" => (l \in cancelled' <=> l \in cancelled)
    <3>1. CASE Recycle(l)
      BY <3>1 DEF Recycle, TypeOK, Alive
    <3>2. CASE ~Recycle(l)
      BY <1>1, <3>2 DEF LaunchStep, ProcessStep, Run, addCounts, add, Serves, Killed, Exits, Over, addToDead
    <3>3. QED
      BY <3>1, <3>2
  <2>5. overwritten \subseteq overwritten'
    BY <1>1 DEF LaunchStep, ProcessStep, Run, addCounts, add, Serves, Killed, Exits, Over, addToDead,
                Recycle, portVars
  <2>6. (Left => Left') /\ (LeftOrLost => LeftOrLost')
    BY <2>1, <2>2, <2>3, <2>4, <2>5 DEF Alive
  <2>7. QED
    BY <2>1, <2>6 DEF ExitInv
<1>2. CASE BackendStep
  <2>1. UNCHANGED cmd
    BY <1>2 DEF BackendStep
  <2>2. CASE terminate
    <3>1. Terminated(Watched) /\ UNCHANGED <<launch, proc, shutdown, overwritten>> /\ loop.pc = "terminate"
      BY <2>2 DEF terminate, portVars
    <3>2. late' = UnderWay
      BY <1>2, <3>1 DEF BackendStep
    <3>3. ASSUME NEW l \in Launches, Alive(l) \/ launch[l].st = "flying"
          PROVE  l \in cancelled' \cup late' \cup overwritten'
      <4>1. CASE launch[l].st \in {"flying", "started", "counted"}
        BY <3>2, <4>1 DEF UnderWay
      <4>2. CASE launch[l].st \notin {"flying", "started", "counted"}
        <5>1. launch[l].st = "added" /\ Alive(l)
          BY <1>0, <3>3, <4>2 DEF PlaceInv, Alive
        <5>2. launch[l].port \in Ports
          BY <1>0, <5>1 DEF PlaceInv, TypeOK, LaunchType
        <5>3. CASE l \in cancelled
          BY <1>0, <3>1, <5>3, TerminatedTakes
        <5>4. CASE l \notin cancelled \cup overwritten
          <6>1. instances[launch[l].port] = l
            BY <1>0, <5>1, <5>4 DEF NoOrphanProcess
          <6>2. launch[l].port \in Watched
            BY <5>2, <6>1, NoneAssumption DEF Watched
          <6>3. QED
            BY <1>0, <3>1, <6>1, <6>2, TerminatedTakes
        <5>5. QED
          BY <3>1, <5>3, <5>4
      <4>3. QED
        BY <4>1, <4>2
    <3>4. LeftOrLost'
      BY <3>1, <3>3 DEF Alive
    <3>5. QED
      BY <2>1, <2>2, <3>1, <3>4 DEF terminate, ExitInv, TypeOK, LoopType
  <2>3. CASE Waited
    <3>1. loop.pc = "wait" /\ loop'.pc = "over" /\ UNCHANGED <<launch, proc, cancelled, late>>
      BY <1>2, <2>3 DEF Waited, BackendStep, TypeOK, LoopType
    <3>2. overwritten = {}
      <4>1. Cardinality(Watched) \in Nat /\ Cardinality(Counted) \in Nat /\ Cardinality(overwritten) \in Nat
            /\ IsFiniteSet(overwritten)
        BY WatchedFinite, LaunchesFinite DEF Counted, TypeOK
      <4>2. Cardinality(overwritten) = 0
        BY <1>0, <2>3, <4>1 DEF Waited, WaitGroupMatches
      <4>3. QED
        BY <4>1, <4>2, FS_EmptySet
    <3>3. Left'
      BY <3>1, <3>2 DEF ExitInv, Alive
    <3>4. QED
      BY <2>1, <2>3, <3>1, <3>3 DEF Waited, ExitInv
  <2>4. CASE BuryDead \/ report \/ CountInstances \/ Decide \/ CountFailed \/ Signalled
    <3>1. loop'.pc \notin {"wait", "over"} /\ loop.pc # "over"
      <4>1. CASE CountInstances
        <5>1. PICK n : loop' = [[loop EXCEPT !.pc = "decide"] EXCEPT !.count = n]
          BY <4>1 DEF CountInstances
        <5>2. QED
          BY <4>1, <5>1 DEF CountInstances, TypeOK, LoopType
      <4>2. CASE report
        BY <4>2 DEF report, TypeOK, LoopType
      <4>3. CASE BuryDead \/ Decide \/ CountFailed \/ Signalled
        BY <4>3 DEF BuryDead, Decide, CountFailed, Signalled, TypeOK, LoopType
      <4>4. QED
        BY <2>4, <4>1, <4>2, <4>3
    <3>2. shutdown # "done" /\ shutdown' # "done"
      BY <2>4, <3>1 DEF ExitInv, BuryDead, report, CountInstances, Decide, CountFailed, Signalled
    <3>3. QED
      BY <2>1, <3>1, <3>2 DEF ExitInv
  <2>5. QED
    BY <1>2, <2>2, <2>3, <2>4 DEF BackendStep, LoopStep
<1>3. CASE SyncerStarts \/ SyncerFails \/ ServerError \/ Signal \/ Returns \/ UNCHANGED startVars
  <2>1. UNCHANGED <<launch, proc, cancelled, loop, shutdown, late, overwritten>>
        /\ (cmd' = "exited" => shutdown = "done")
    BY <1>3 DEF SyncerStarts, SyncerFails, ServerError, Signal, Returns, startVars, vars, portVars, cmdVars,
                ExitInv
  <2>2. QED
    BY <2>1 DEF ExitInv, Alive
<1>4. CASE CloseServers
  <2>1. UNCHANGED <<launch, proc, cancelled, loop, late, overwritten>> /\ cmd' # "exited"
        /\ (shutdown' = shutdown \/ shutdown' = "sending")
    BY <1>4 DEF CloseServers, Shutdown, vars, portVars
  <2>2. QED
    BY <2>1 DEF ExitInv, Alive
<1>5. QED
  BY <1>1, <1>2, <1>3, <1>4 DEF StartNext, CommandStep

\* Start's RunE: when the command has returned without an error, every process
\* that is alive had its context cancelled or was being launched as the loop went
\* through the map; none had lost its entry, for then the wait group keeps counting.
THEOREM AllCancelledCorrect == FairStartSpec => []AllCancelled
<1> DEFINE I == TypeOK /\ BackendInv /\ StartTypeOK /\ ExitInv
<1>1. StartInit => I
  BY InitBackend, InitExit DEF StartInit
<1>2. I /\ [StartNext]_startVars => I'
  BY StartIsBackend, StepType, StepPlace, StepPolled, StepLoss, StepOrphan, StepStartType, StepExit
     DEF BackendInv
<1>3. I => AllCancelled
  BY DEF ExitInv, AllCancelled
<1>4. QED
  BY <1>1, <1>2, <1>3, PTL DEF FairStartSpec, StartSpec
=============================================================================
