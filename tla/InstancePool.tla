---------------------------- MODULE InstancePool ----------------------------
(***************************************************************************)
(* sat/engine2: the pool of WebAssembly instances, the global map by which *)
(* a module finds its own instance, and the runs of a module.              *)
(*                                                                         *)
(* Each run takes an instance from a channel, uses it once and closes it;  *)
(* a goroutine of its own prepares the next one.  The worker (Worker.tla)  *)
(* adds an instance for each thread it starts and removes one for each it  *)
(* stops, one change at a time.                                            *)
(***************************************************************************)
EXTENDS Integers, Sequences, FiniteSets

CONSTANTS
  Jobs,         \* jobs, each run once
  Insts,        \* bound: instances that are live at one time
  Idents,       \* the int32 identifiers
  FreshIdents,  \* TRUE: two draws under way at one time never coincide
  MaxThreads,   \* threads of the worker (autoscale to 24)
  Cap,          \* capacity of the channel of instances (64)
  None

ASSUME CapAssumption == {MaxThreads, Cap} \subseteq Nat /\ FreshIdents \in BOOLEAN
ASSUME NoneAssumption == None \notin Insts \cup Idents \cup Jobs \cup {"job", "start"}

VARIABLES
  job,        \* each run: where it is, its instance, its identifier, what came out
  available,  \* ip.availableInstances
  adding,     \* goroutines of UseInstance that wait for ip.lock in AddInstance
  adder,      \* who has ip.lock, and the instance it sends
  change,     \* the OnChange under way
  threads,    \* threads that have been started and not stopped
  mapper,     \* instanceMapper
  result      \* per instance: resultChan and errChan, each of capacity 1

vars == <<job, available, adding, adder, change, threads, mapper, result>>

NewJob == [st |-> "new", inst |-> None, ident |-> None, zombie |-> FALSE, out |-> <<"none", None>>]
NoAdder == [who |-> None, inst |-> None]
Channels == {"result", "error"}
NoResult == [c \in Channels |-> {}]
Outs == (Channels \X Jobs) \cup ({"none", "refused", "failed", "empty", "lost"} \X {None})
Running == {j \in Jobs : job[j].st \in {"waiting", "taken", "storing", "running", "called"}}
Waiting == {j \in Jobs : job[j].st = "waiting"}

JobType ==
  [st : {"new", "waiting", "taken", "storing", "running", "called", "done"},
   inst : Insts \cup {None}, ident : Idents \cup {None}, zombie : BOOLEAN, out : Outs]

TypeOK ==
  /\ job \in [Jobs -> JobType]
  /\ available \in Seq(Insts) /\ Len(available) <= Cap
  /\ adding \in Nat
  /\ adder \in [who : {"job", "start", None}, inst : Insts \cup {None}]
  /\ change \in {"none", "start", "stop"}
  /\ threads \in 0 .. MaxThreads
  /\ mapper \in [Idents -> Insts \cup {None}]
  /\ result \in [Insts -> [Channels -> SUBSET Jobs]]
  /\ \A i \in Insts, c \in Channels : Cardinality(result[i][c]) <= 1

Init ==
  /\ job = [j \in Jobs |-> NewJob]
  /\ available = <<>>
  /\ adding = 0 /\ adder = NoAdder
  /\ change = "none" /\ threads = 0
  /\ mapper = [i \in Idents |-> None]
  /\ result = [i \in Insts |-> NoResult]

-----------------------------------------------------------------------------
(* OnChange and AddInstance *)

OnChangeStart ==
  /\ change = "none" /\ threads < MaxThreads
  /\ change' = "start"
  /\ UNCHANGED <<job, available, adding, adder, threads, mapper, result>>

\* removeThread cancels a thread, which finishes its job, before OnChange.
OnChangeStop ==
  /\ change = "none" /\ threads > 0
  /\ change' = "stop"
  /\ \/ /\ Cardinality({j \in Running : ~job[j].zombie}) < threads
        /\ UNCHANGED job
     \/ \E j \in Running : ~job[j].zombie /\ job' = [job EXCEPT ![j].zombie = TRUE]
  /\ UNCHANGED <<available, adding, adder, threads, mapper, result>>

Asks(who) == IF who = "start" THEN change = "start" ELSE adding > 0

\* Instances that something still refers to.
Live == {available[n] : n \in DOMAIN available} \cup {adder.inst}
          \cup {job[j].inst : j \in Jobs} \cup {mapper[i] : i \in Idents}

\* ip.new fails: OnChange reports the error...
StartFails ==
  /\ adder = NoAdder /\ Asks("start")
  /\ change' = "none"
  /\ UNCHANGED <<job, available, adding, adder, threads, mapper, result>>

\* ...the goroutine of UseInstance panics, and the process is started again.
Panics ==
  /\ adder = NoAdder /\ Asks("job")
  /\ job' = [j \in Jobs |-> IF j \notin Running THEN job[j]
                            ELSE [NewJob EXCEPT !.st = "done", !.out = <<"lost", None>>]]
  /\ available' = <<>> /\ adding' = 0 /\ adder' = NoAdder
  /\ change' = "none" /\ threads' = 0
  /\ mapper' = [i \in Idents |-> None]
  /\ result' = [i \in Insts |-> NoResult]

AddLock(who) ==
  /\ adder = NoAdder /\ Asks(who)
  /\ Insts \ Live # {}
  /\ adder' = [who |-> who, inst |-> CHOOSE i \in Insts : i \notin Live]
  /\ adding' = IF who = "job" THEN adding - 1 ELSE adding
  /\ UNCHANGED <<job, available, change, threads, mapper, result>>

\* The lock is held until the channel takes the instance.
AddInstance ==
  /\ adder.inst # None /\ Len(available) < Cap
  /\ available' = Append(available, adder.inst)
  /\ adder' = NoAdder
  /\ IF adder.who = "start" THEN change' = "none" /\ threads' = threads + 1
     ELSE UNCHANGED <<change, threads>>
  /\ UNCHANGED <<job, adding, mapper, result>>

\* Fault: the last instance is not taken.
RemoveInstanceSpare ==
  /\ change = "stop" /\ Len(available) > 1
  /\ available' = Tail(available)
  /\ change' = "none" /\ threads' = threads - 1
  /\ UNCHANGED <<job, adding, adder, mapper, result>>

RemoveInstance ==
  /\ change = "stop" /\ available # <<>>
  /\ available' = Tail(available)
  /\ change' = "none" /\ threads' = threads - 1
  /\ UNCHANGED <<job, adding, adder, mapper, result>>

-----------------------------------------------------------------------------
(* wasmRunner.Run and UseInstance *)

\* A thread that has not been cancelled and has no job takes one.
FreeThread ==
  Cardinality({j \in Running : ~job[j].zombie}) < threads - (IF change = "stop" THEN 1 ELSE 0)

\* The job is not a request, or is a sequence that has no step left.
Refuse(j) ==
  /\ job[j].st = "new" /\ FreeThread
  /\ job' = [job EXCEPT ![j] = [@ EXCEPT !.st = "done", !.out = <<"refused", None>>]]
  /\ UNCHANGED <<available, adding, adder, change, threads, mapper, result>>

\* Fault: no instance is prepared for the next job.
UseInstanceOnly(j) ==
  /\ job[j].st = "new" /\ FreeThread
  /\ job' = [job EXCEPT ![j].st = "waiting"]
  /\ UNCHANGED <<available, adding, adder, change, threads, mapper, result>>

UseInstance(j) ==
  /\ job[j].st = "new" /\ FreeThread
  /\ job' = [job EXCEPT ![j].st = "waiting"]
  /\ adding' = adding + 1
  /\ UNCHANGED <<available, adder, change, threads, mapper, result>>

Take(j) ==
  /\ job[j].st = "waiting" /\ available # <<>>
  /\ job' = [job EXCEPT ![j] = [@ EXCEPT !.st = "taken", !.inst = Head(available)]]
  /\ available' = Tail(available)
  /\ UNCHANGED <<adding, adder, change, threads, mapper, result>>

\* Store draws identifiers until one is not in the map...
Drawn(k) == IF job[k].st = "storing" THEN {job[k].ident} ELSE {}
StoreDraw(j) ==
  /\ job[j].st = "taken"
  /\ \E i \in Idents :
       /\ mapper[i] = None
       /\ FreshIdents => i \notin UNION {Drawn(k) : k \in Jobs}
       /\ job' = [job EXCEPT ![j] = [@ EXCEPT !.st = "storing", !.ident = i]]
  /\ UNCHANGED <<available, adding, adder, change, threads, mapper, result>>

\* ...and enters it in another step.
Store(j) ==
  /\ job[j].st = "storing"
  /\ job' = [job EXCEPT ![j].st = "running"]
  /\ mapper' = [mapper EXCEPT ![job[j].ident] = job[j].inst]
  /\ UNCHANGED <<available, adding, adder, change, threads, result>>

StoreFails(j) ==
  /\ job[j].st = "taken"
  /\ job' = [job EXCEPT ![j] = [@ EXCEPT !.st = "done", !.inst = None, !.out = <<"failed", None>>]]
  /\ UNCHANGED <<available, adding, adder, change, threads, mapper, result>>

\* return_result or return_error of the module, for the instance that the
\* identifier stands for.  Without one nothing is sent; a second one blocks.
Return(j, c) ==
  LET i == mapper[job[j].ident] IN
  /\ job[j].st = "running" /\ i # None
  /\ result[i][c] = {}
  /\ result' = [result EXCEPT ![i][c] = {j}]
  /\ UNCHANGED <<job, available, adding, adder, change, threads, mapper>>

\* run_e is over and ExecutionResult reads one of the channels; memory that
\* cannot be written and a trap are failures.
Called(j) ==
  LET sent == result[job[j].inst]
      Returns(o) == job' = [job EXCEPT ![j] = [@ EXCEPT !.st = "called", !.out = o]]
  IN
  /\ job[j].st = "running"
  /\ \/ \E c \in Channels : \E k \in sent[c] :
          Returns(<<c, k>>) /\ result' = [result EXCEPT ![job[j].inst][c] = {}]
     \/ (\A c \in Channels : sent[c] = {}) /\ Returns(<<"empty", None>>) /\ UNCHANGED result
     \/ Returns(<<"failed", None>>) /\ UNCHANGED result
  /\ UNCHANGED <<available, adding, adder, change, threads, mapper>>

\* Remove, and the deferred Close.
Finish(j) ==
  /\ job[j].st = "called"
  /\ mapper' = [mapper EXCEPT ![job[j].ident] = None]
  /\ job' = [job EXCEPT ![j] = [@ EXCEPT !.st = "done", !.inst = None, !.ident = None]]
  /\ result' = [result EXCEPT ![job[j].inst] = NoResult]
  /\ UNCHANGED <<available, adding, adder, change, threads>>

-----------------------------------------------------------------------------

JobStep(j) ==
  \/ Refuse(j) \/ UseInstance(j) \/ Take(j) \/ StoreDraw(j) \/ Store(j) \/ StoreFails(j)
  \/ Called(j) \/ Finish(j)
AddStep == AddInstance \/ AddLock("start") \/ AddLock("job")

Next ==
  \/ OnChangeStart \/ OnChangeStop \/ RemoveInstance \/ AddStep \/ StartFails \/ Panics
  \/ \E j \in Jobs : JobStep(j) \/ Return(j, "result") \/ Return(j, "error")

Spec == Init /\ [][Next]_vars

\* Goroutines go on, a module comes to its end, and the mutex and the channel
\* are fair to those who wait.
Fairness ==
  /\ \A j \in Jobs : WF_vars(job[j].st # "new" /\ JobStep(j)) /\ SF_vars(Take(j))
  /\ WF_vars(AddInstance) /\ SF_vars(AddLock("start")) /\ SF_vars(AddLock("job"))
  /\ SF_vars(RemoveInstance)

-----------------------------------------------------------------------------
(* Properties *)

\* AddInstance, RemoveInstance, UseInstance: instances that are there or being
\* prepared are one for each thread and one for each job that has asked for its
\* instance and not got it yet.
PoolMatchesThreads ==
  Len(available) + adding + (IF adder.who = "job" THEN 1 ELSE 0)
    = threads + Cardinality(Waiting)

\* "ensure we don't accidentally overwrite something else": in a run of a module
\* its identifier leads to its own instance.
IdentIsOwn == \A j \in Jobs : job[j].st = "running" => mapper[job[j].ident] = job[j].inst

\* instance.Remove: the map has no identifier of a run that is over.
NoLeakedIdent ==
  \A i \in Idents : mapper[i] # None =>
    \E j \in Jobs : job[j].st \in {"running", "called"} /\ job[j].ident = i

\* Instances match threads and waiting jobs, every run has its own instance under
\* its identifier, the map has no other, and the state has its type.
EngineInvariant == TypeOK /\ PoolMatchesThreads /\ IdentIsOwn /\ NoLeakedIdent

\* ExecutionResult: what a run returns was returned by its own module, not by
\* one that had the instance before or has it at the same time.
OwnResult == \A j, k \in Jobs, c \in Channels : job[j].out = <<c, k>> => k = j

\* UseInstance and RemoveInstance take from one channel, which AddInstance fills
\* with the lock held: a job that waits for an instance gets one, and the change
\* of a thread, which may wait as well, comes to its end.
EveryUseServed ==
  /\ \A j \in Jobs : job[j].st = "waiting" ~> job[j].st # "waiting"
  /\ change # "none" ~> change = "none"
=============================================================================
