--------------------------- MODULE HostCallsProofs ---------------------------
(***************************************************************************)
(* Proofs about InstancePool and HostCalls for any number of jobs, threads,*)
(* instances and identifiers and any capacity of the channel.  Where a     *)
(* theorem assumes FreshIdents, two draws of Store that are under way at   *)
(* one time have not drawn the same 32-bit number.                         *)
(***************************************************************************)
EXTENDS HostCalls, FiniteSetTheorems, SequenceTheorems, TLAPS

\* OnChange has made sure that there is room for a thread, or one to stop, and
\* waits for the lock that it takes.
ChangeInv ==
  /\ adder.who = None <=> adder.inst = None
  /\ adder.who = "start" => change = "start"
  /\ change = "start" => threads < MaxThreads
  /\ change = "stop" => threads > 0

\* A run has an instance from Take to Finish and an identifier from its draw on.
HoldInv ==
  \A j \in Jobs :
    /\ job[j].inst # None <=> job[j].st \in {"taken", "storing", "running", "called"}
    /\ job[j].ident # None <=> job[j].st \in {"storing", "running", "called"}

\* An instance is in one place: once in the channel, about to be sent to it, or
\* with one run.
InstInv ==
  /\ \A m, n \in DOMAIN available : available[m] = available[n] => m = n
  /\ \A n \in DOMAIN available : available[n] # adder.inst
  /\ \A n \in DOMAIN available, j \in Jobs : available[n] # job[j].inst
  /\ \A j \in Jobs : job[j].inst # None => job[j].inst # adder.inst
  /\ \A j, k \in Jobs : job[j].inst = job[k].inst /\ job[j].inst # None => j = k

\* Identifiers are different, and the map has the ones that have been stored.
IdentInv ==
  /\ \A j, k \in Jobs : job[j].ident = job[k].ident /\ job[j].ident # None => j = k
  /\ \A j \in Jobs : job[j].st \in {"running", "called"} => mapper[job[j].ident] = job[j].inst
  /\ NoLeakedIdent

\* What is in the channels of an instance is of the run that has it.
ResultInv ==
  \A i \in Insts, c \in Channels : \A k \in result[i][c] :
    job[k].inst = i /\ job[k].st \in {"running", "called"}

EngineInv ==
  ChangeInv /\ HoldInv /\ InstInv /\ IdentInv /\ ResultInv /\ OwnResult
    /\ IsFiniteSet(Waiting) /\ PoolMatchesThreads

\* What is pending in the Ctx of an instance is of the run that has it.
CtxInv == \A i \in Insts : ffi[i] # None => job[ffi[i]].inst = i

-----------------------------------------------------------------------------
(* What the steps do to the runs *)

\* One run changes, except whether its thread has been cancelled.
Becomes(j, st, inst, ident, out) ==
  /\ job' \in [Jobs -> JobType]
  /\ \A k \in Jobs \ {j} : job'[k] = job[k]
  /\ job'[j].st = st /\ job'[j].inst = inst /\ job'[j].ident = ident /\ job'[j].out = out

LEMMA OutsTyped ==
  /\ \A c \in Channels, k \in Jobs : <<c, k>> \in Outs
  /\ <<"none", None>> \in Outs /\ <<"refused", None>> \in Outs /\ <<"failed", None>> \in Outs
  /\ <<"empty", None>> \in Outs /\ <<"lost", None>> \in Outs
  BY DEF Outs

LEMMA RefuseBecomes ==
  ASSUME TypeOK, NEW j \in Jobs, Refuse(j)
  PROVE  Becomes(j, "done", job[j].inst, job[j].ident, <<"refused", None>>)
<1>1. PICK o \in Outs : o = <<"refused", None>>
  BY OutsTyped
<1>2. job' = [job EXCEPT ![j] = [job[j] EXCEPT !.st = "done", !.out = o]]
  BY <1>1 DEF Refuse
<1>3. job[j] \in JobType
  BY DEF TypeOK
<1>4. PICK r \in JobType : /\ r = [job[j] EXCEPT !.st = "done", !.out = o]
                           /\ r.st = "done" /\ r.out = o /\ r.inst = job[j].inst /\ r.ident = job[j].ident
  <2>1. PICK q : q = [job[j] EXCEPT !.st = "done"]
    OBVIOUS
  <2>2. /\ q \in JobType /\ q.st = "done" /\ q.out = job[j].out
        /\ q.inst = job[j].inst /\ q.ident = job[j].ident
    BY <2>1 DEF JobType, TypeOK
  <2>3. PICK r : r = [q EXCEPT !.out = o]
    OBVIOUS
  <2>4. r \in JobType /\ r.st = "done" /\ r.out = o /\ r.inst = job[j].inst /\ r.ident = job[j].ident
    BY <2>2, <2>3 DEF JobType
  <2>5. QED
    BY <2>1, <2>3, <2>4
<1>5. QED
  BY <1>1, <1>2, <1>4 DEF Becomes, TypeOK

LEMMA UseBecomes ==
  ASSUME TypeOK, NEW j \in Jobs, UseInstance(j)
  PROVE  Becomes(j, "waiting", job[j].inst, job[j].ident, job[j].out)
<1>1. job' = [job EXCEPT ![j].st = "waiting"]
  BY DEF UseInstance
<1>2. QED
  BY <1>1 DEF Becomes, TypeOK, JobType

LEMMA TakeBecomes ==
  ASSUME TypeOK, NEW j \in Jobs, Take(j)
  PROVE  /\ Head(available) \in Insts
         /\ Becomes(j, "taken", Head(available), job[j].ident, job[j].out)
<1>1. PICK i \in Insts : i = Head(available)
  BY DEF Take, TypeOK
<1>2. job' = [job EXCEPT ![j] = [job[j] EXCEPT !.st = "taken", !.inst = i]]
  BY <1>1 DEF Take
<1>3. PICK r \in JobType : /\ r = [job[j] EXCEPT !.st = "taken", !.inst = i]
                           /\ r.st = "taken" /\ r.inst = i /\ r.out = job[j].out /\ r.ident = job[j].ident
  <2>1. PICK q : q = [job[j] EXCEPT !.st = "taken"]
    OBVIOUS
  <2>2. /\ q \in JobType /\ q.st = "taken" /\ q.out = job[j].out
        /\ q.inst = job[j].inst /\ q.ident = job[j].ident
    BY <2>1 DEF JobType, TypeOK
  <2>3. PICK r : r = [q EXCEPT !.inst = i]
    OBVIOUS
  <2>4. r \in JobType /\ r.st = "taken" /\ r.inst = i /\ r.out = job[j].out /\ r.ident = job[j].ident
    BY <2>2, <2>3 DEF JobType
  <2>5. QED
    BY <2>1, <2>3, <2>4
<1>4. QED
  BY <1>1, <1>2, <1>3 DEF Becomes, TypeOK

LEMMA DrawBecomes ==
  ASSUME TypeOK, NEW j \in Jobs, StoreDraw(j)
  PROVE  \E i \in Idents :
           /\ mapper[i] = None
           /\ FreshIdents => i \notin UNION {Drawn(k) : k \in Jobs}
           /\ Becomes(j, "storing", job[j].inst, i, job[j].out)
<1>1. PICK i \in Idents : /\ mapper[i] = None
                          /\ FreshIdents => i \notin UNION {Drawn(k) : k \in Jobs}
                          /\ job' = [job EXCEPT ![j] = [job[j] EXCEPT !.st = "storing", !.ident = i]]
  BY DEF StoreDraw
<1>2. PICK r \in JobType : /\ r = [job[j] EXCEPT !.st = "storing", !.ident = i]
                           /\ r.st = "storing" /\ r.ident = i /\ r.out = job[j].out /\ r.inst = job[j].inst
  <2>1. PICK q : q = [job[j] EXCEPT !.st = "storing"]
    OBVIOUS
  <2>2. /\ q \in JobType /\ q.st = "storing" /\ q.out = job[j].out
        /\ q.inst = job[j].inst /\ q.ident = job[j].ident
    BY <2>1 DEF JobType, TypeOK
  <2>3. PICK r : r = [q EXCEPT !.ident = i]
    OBVIOUS
  <2>4. r \in JobType /\ r.st = "storing" /\ r.ident = i /\ r.out = job[j].out /\ r.inst = job[j].inst
    BY <2>2, <2>3 DEF JobType
  <2>5. QED
    BY <2>1, <2>3, <2>4
<1>3. QED
  BY <1>1, <1>2 DEF Becomes, TypeOK

LEMMA StoreBecomes ==
  ASSUME TypeOK, NEW j \in Jobs, Store(j)
  PROVE  Becomes(j, "running", job[j].inst, job[j].ident, job[j].out)
<1>1. job' = [job EXCEPT ![j].st = "running"]
  BY DEF Store
<1>2. QED
  BY <1>1 DEF Becomes, TypeOK, JobType

LEMMA StoreFailsBecomes ==
  ASSUME TypeOK, NEW j \in Jobs, StoreFails(j)
  PROVE  Becomes(j, "done", None, job[j].ident, <<"failed", None>>)
<1>1. PICK o \in Outs : o = <<"failed", None>>
  BY OutsTyped
<1>2. job' = [job EXCEPT ![j] = [job[j] EXCEPT !.st = "done", !.inst = None, !.out = o]]
  BY <1>1 DEF StoreFails
<1>3. PICK r \in JobType : /\ r = [job[j] EXCEPT !.st = "done", !.inst = None, !.out = o]
                           /\ r.st = "done" /\ r.inst = None /\ r.out = o /\ r.ident = job[j].ident
  <2>1. PICK q : q = [job[j] EXCEPT !.st = "done"]
    OBVIOUS
  <2>2. /\ q \in JobType /\ q.st = "done" /\ q.out = job[j].out
        /\ q.inst = job[j].inst /\ q.ident = job[j].ident
    BY <2>1 DEF JobType, TypeOK
  <2>3. PICK p : p = [q EXCEPT !.inst = None]
    OBVIOUS
  <2>4. p \in JobType /\ p.st = "done" /\ p.inst = None /\ p.ident = job[j].ident
    BY <2>2, <2>3 DEF JobType
  <2>5. PICK r : r = [p EXCEPT !.out = o]
    OBVIOUS
  <2>6. r \in JobType /\ r.st = "done" /\ r.inst = None /\ r.out = o /\ r.ident = job[j].ident
    BY <2>4, <2>5 DEF JobType
  <2>7. QED
    BY <2>1, <2>3, <2>5, <2>6
<1>4. QED
  BY <1>1, <1>2, <1>3 DEF Becomes, TypeOK

LEMMA CalledBecomes ==
  ASSUME TypeOK, HoldInv, NEW j \in Jobs, Called(j)
  PROVE  \/ \E c \in Channels : \E k \in result[job[j].inst][c] :
              /\ Becomes(j, "called", job[j].inst, job[j].ident, <<c, k>>)
              /\ result' = [result EXCEPT ![job[j].inst][c] = {}]
         \/ \E o \in {<<"empty", None>>, <<"failed", None>>} :
              /\ Becomes(j, "called", job[j].inst, job[j].ident, o)
              /\ UNCHANGED result
<1>1. job[j].inst \in Insts
  BY DEF Called, HoldInv, TypeOK, JobType
<1>2. ASSUME NEW o \in Outs, job' = [job EXCEPT ![j] = [job[j] EXCEPT !.st = "called", !.out = o]]
      PROVE  Becomes(j, "called", job[j].inst, job[j].ident, o)
  <2>1. PICK r \in JobType : /\ r = [job[j] EXCEPT !.st = "called", !.out = o]
                             /\ r.st = "called" /\ r.out = o /\ r.inst = job[j].inst /\ r.ident = job[j].ident
    <3>1. PICK q : q = [job[j] EXCEPT !.st = "called"]
      OBVIOUS
    <3>2. /\ q \in JobType /\ q.st = "called" /\ q.out = job[j].out
          /\ q.inst = job[j].inst /\ q.ident = job[j].ident
      BY <3>1 DEF JobType, TypeOK
    <3>3. PICK r : r = [q EXCEPT !.out = o]
      OBVIOUS
    <3>4. r \in JobType /\ r.st = "called" /\ r.out = o /\ r.inst = job[j].inst /\ r.ident = job[j].ident
      BY <3>2, <3>3 DEF JobType
    <3>5. QED
      BY <3>1, <3>3, <3>4
  <2>2. QED
    BY <1>2, <2>1 DEF Becomes, TypeOK
<1>3. ASSUME NEW c \in Channels, NEW k \in result[job[j].inst][c],
             job' = [job EXCEPT ![j] = [job[j] EXCEPT !.st = "called", !.out = <<c, k>>]]
      PROVE  Becomes(j, "called", job[j].inst, job[j].ident, <<c, k>>)
  <2>1. k \in Jobs
    BY <1>1 DEF TypeOK
  <2>2. <<c, k>> \in Outs
    BY <2>1, OutsTyped
  <2>3. QED
    BY <1>2, <1>3, <2>2
<1>4. ASSUME NEW o \in {<<"empty", None>>, <<"failed", None>>},
             job' = [job EXCEPT ![j] = [job[j] EXCEPT !.st = "called", !.out = o]]
      PROVE  Becomes(j, "called", job[j].inst, job[j].ident, o)
  BY <1>2, <1>4, OutsTyped
<1>5. QED
  BY <1>3, <1>4 DEF Called

LEMMA FinishBecomes ==
  ASSUME TypeOK, NEW j \in Jobs, Finish(j)
  PROVE  Becomes(j, "done", None, None, job[j].out)
<1>1. job' = [job EXCEPT ![j] = [job[j] EXCEPT !.st = "done", !.inst = None, !.ident = None]]
  BY DEF Finish
<1>2. PICK r \in JobType : /\ r = [job[j] EXCEPT !.st = "done", !.inst = None, !.ident = None]
                           /\ r.st = "done" /\ r.inst = None /\ r.ident = None /\ r.out = job[j].out
  <2>1. PICK q : q = [job[j] EXCEPT !.st = "done"]
    OBVIOUS
  <2>2. /\ q \in JobType /\ q.st = "done" /\ q.out = job[j].out
        /\ q.inst = job[j].inst /\ q.ident = job[j].ident
    BY <2>1 DEF JobType, TypeOK
  <2>3. PICK p : p = [q EXCEPT !.inst = None]
    OBVIOUS
  <2>4. p \in JobType /\ p.st = "done" /\ p.inst = None /\ p.out = job[j].out
    BY <2>2, <2>3 DEF JobType
  <2>5. PICK r : r = [p EXCEPT !.ident = None]
    OBVIOUS
  <2>6. r \in JobType /\ r.st = "done" /\ r.inst = None /\ r.ident = None /\ r.out = job[j].out
    BY <2>4, <2>5 DEF JobType
  <2>7. QED
    BY <2>1, <2>3, <2>5, <2>6
<1>3. QED
  BY <1>1, <1>2 DEF Becomes, TypeOK

\* A cancelled thread goes on with its job.
LEMMA StopKeeps ==
  ASSUME TypeOK, OnChangeStop
  PROVE  /\ job' \in [Jobs -> JobType]
         /\ \A k \in Jobs : /\ job'[k].st = job[k].st /\ job'[k].inst = job[k].inst
                            /\ job'[k].ident = job[k].ident /\ job'[k].out = job[k].out
<1>1. CASE UNCHANGED job
  BY <1>1 DEF TypeOK
<1>2. ASSUME NEW j \in Jobs, job' = [job EXCEPT ![j].zombie = TRUE]
      PROVE  /\ job' \in [Jobs -> JobType]
             /\ \A k \in Jobs : /\ job'[k].st = job[k].st /\ job'[k].inst = job[k].inst
                                /\ job'[k].ident = job[k].ident /\ job'[k].out = job[k].out
  BY <1>2, ZenonT(60) DEF TypeOK, JobType
<1>3. QED
  BY <1>1, <1>2 DEF OnChangeStop, Running

\* After a panic every run is new, over or lost.
LEMMA PanicsKeeps ==
  ASSUME TypeOK, HoldInv, Panics
  PROVE  /\ job' \in [Jobs -> JobType]
         /\ \A k \in Jobs : /\ job'[k].st \in {"new", "done"}
                            /\ job'[k].inst = None /\ job'[k].ident = None
                            /\ job'[k].out = job[k].out \/ job'[k].out = <<"lost", None>>
<1>1. PICK o \in Outs : o = <<"lost", None>>
  BY OutsTyped
<1>2. <<"none", None>> \in Outs
  BY OutsTyped
<1>3. PICK r : r = [NewJob EXCEPT !.st = "done", !.out = o]
  OBVIOUS
<1>4. r \in JobType /\ r.st = "done" /\ r.inst = None /\ r.ident = None /\ r.out = o
  BY <1>2, <1>3 DEF NewJob, JobType
<1>5. job' = [k \in Jobs |-> IF k \notin Running THEN job[k] ELSE r]
  BY <1>1, <1>3 DEF Panics
<1>6. \A k \in Jobs : k \notin Running =>
        job[k].st \in {"new", "done"} /\ job[k].inst = None /\ job[k].ident = None
  BY DEF HoldInv, Running, TypeOK, JobType
<1>7. QED
  BY <1>1, <1>4, <1>5, <1>6 DEF TypeOK

-----------------------------------------------------------------------------
(* Types *)

LEMMA InitEngine == Init => TypeOK /\ EngineInv
<1> SUFFICES ASSUME Init PROVE TypeOK /\ EngineInv
  OBVIOUS
<1>1. NewJob \in JobType
  BY OutsTyped DEF NewJob, JobType
<1>2. TypeOK
  BY <1>1, CapAssumption, FS_EmptySet DEF Init, TypeOK, NoAdder, NoResult
<1>3. Waiting = {} /\ IsFiniteSet(Waiting) /\ PoolMatchesThreads
  <2>1. Waiting = {}
    BY DEF Init, Waiting, NewJob
  <2>2. Cardinality(Waiting) = 0 /\ IsFiniteSet(Waiting)
    BY <2>1, FS_EmptySet
  <2>3. Len(available) = 0 /\ adding = 0 /\ threads = 0 /\ adder.who # "job"
    BY NoneAssumption DEF Init, NoAdder
  <2>4. QED
    BY <2>1, <2>2, <2>3 DEF PoolMatchesThreads
<1>4. ChangeInv
  BY NoneAssumption DEF Init, ChangeInv, NoAdder
<1>5. HoldInv /\ InstInv /\ IdentInv /\ ResultInv
  BY DEF Init, HoldInv, InstInv, IdentInv, NoLeakedIdent, ResultInv, NewJob, NoResult, NoAdder
<1>6. OwnResult
  BY DEF Init, OwnResult, NewJob, Channels
<1>7. QED
  BY <1>2, <1>3, <1>4, <1>5, <1>6 DEF EngineInv

\* The channels of the instances hold one value each.
ResultType ==
  /\ result \in [Insts -> [Channels -> SUBSET Jobs]]
  /\ \A i \in Insts, c \in Channels : Cardinality(result[i][c]) <= 1

LEMMA StepResultType ==
  ASSUME TypeOK, HoldInv, [Next]_vars
  PROVE  ResultType'
<1>0. ResultType
  BY DEF TypeOK, ResultType
<1>c. Cardinality({}) <= 1 /\ \A j \in Jobs : Cardinality({j}) <= 1
  BY FS_EmptySet, FS_Singleton
<1>1. ASSUME NEW i \in Insts, NEW c \in Channels, NEW v \in SUBSET Jobs, Cardinality(v) <= 1,
             result' = [result EXCEPT ![i][c] = v]
      PROVE  ResultType'
  <2>1. /\ result' \in [Insts -> [Channels -> SUBSET Jobs]]
        /\ \A k \in Insts, d \in Channels :
             result'[k][d] = IF k = i /\ d = c THEN v ELSE result[k][d]
    BY <1>0, <1>1 DEF ResultType
  <2>2. QED
    BY <1>0, <1>1, <2>1 DEF ResultType
<1>2. ASSUME NEW j \in Jobs, NEW c \in Channels, Return(j, c)
      PROVE  ResultType'
  <2>1. mapper[job[j].ident] \in Insts
    BY <1>2 DEF Return, HoldInv, TypeOK, JobType
  <2>2. PICK i \in Insts : result' = [result EXCEPT ![i][c] = {j}]
    BY <1>2, <2>1 DEF Return
  <2>3. {j} \in SUBSET Jobs /\ Cardinality({j}) <= 1
    BY <1>c
  <2>4. QED
    BY <1>1, <2>2, <2>3
<1>3. ASSUME NEW j \in Jobs, Called(j)
      PROVE  ResultType'
  <2>1. job[j].inst \in Insts
    BY <1>3 DEF Called, HoldInv, TypeOK, JobType
  <2>2. ASSUME NEW c \in Channels, result' = [result EXCEPT ![job[j].inst][c] = {}]
        PROVE  ResultType'
    <3>1. PICK i \in Insts : result' = [result EXCEPT ![i][c] = {}]
      BY <2>1, <2>2
    <3>2. {} \in SUBSET Jobs /\ Cardinality({}) <= 1
      BY <1>c
    <3>3. QED
      BY <1>1, <3>1, <3>2
  <2>3. CASE UNCHANGED result
    BY <1>0, <2>3 DEF ResultType
  <2>4. QED
    BY <1>3, <2>2, <2>3, CalledBecomes
<1>4. ASSUME NEW j \in Jobs, Finish(j)
      PROVE  ResultType'
  <2>1. result' = [result EXCEPT ![job[j].inst] = NoResult]
    BY <1>4 DEF Finish
  <2>2. NoResult \in [Channels -> SUBSET Jobs] /\ \A c \in Channels : NoResult[c] = {}
    BY DEF NoResult
  <2>3. QED
    BY <1>0, <1>c, <2>1, <2>2 DEF ResultType
<1>5. CASE Panics
  <2>1. result' = [i \in Insts |-> NoResult]
    BY <1>5 DEF Panics
  <2>2. NoResult \in [Channels -> SUBSET Jobs] /\ \A c \in Channels : NoResult[c] = {}
    BY DEF NoResult
  <2>3. QED
    BY <1>0, <1>c, <2>1, <2>2 DEF ResultType
<1>6. CASE UNCHANGED result
  BY <1>0, <1>6 DEF ResultType
<1>7. QED
  BY <1>2, <1>3, <1>4, <1>5, <1>6
     DEF Next, AddStep, JobStep, vars, Channels, OnChangeStart, OnChangeStop, RemoveInstance,
         AddInstance, AddLock, StartFails, Refuse, UseInstance, Take, StoreDraw, Store, StoreFails

LEMMA FreshInst ==
  ASSUME TypeOK, NEW who \in {"start", "job"}, AddLock(who)
  PROVE  /\ adder = NoAdder
         /\ adder' = [who |-> who, inst |-> adder'.inst]
         /\ adder'.inst \in Insts /\ adder'.inst \notin Live
<1>1. \E i \in Insts : i \notin Live
  BY DEF AddLock
<1>2. PICK i : i = CHOOSE x \in Insts : x \notin Live
  OBVIOUS
<1>3. i \in Insts /\ i \notin Live
  BY <1>1, <1>2
<1>4. adder' = [who |-> who, inst |-> i]
  BY <1>2 DEF AddLock
<1>5. QED
  BY <1>3, <1>4 DEF AddLock

LEMMA StepType ==
  ASSUME TypeOK, EngineInv, [Next]_vars
  PROVE  TypeOK'
<1> USE CapAssumption, NoneAssumption
<1>0. HoldInv /\ ChangeInv /\ ResultType'
  BY StepResultType DEF EngineInv
<1>1. job' \in [Jobs -> JobType]
  <2>1. ASSUME NEW j \in Jobs, JobStep(j)
        PROVE  job' \in [Jobs -> JobType]
    BY <1>0, <2>1, RefuseBecomes, UseBecomes, TakeBecomes, DrawBecomes, StoreBecomes,
       StoreFailsBecomes, CalledBecomes, FinishBecomes DEF JobStep, Becomes
  <2>2. CASE UNCHANGED job
    BY <2>2 DEF TypeOK
  <2>3. QED
    BY <1>0, <2>1, <2>2, StopKeeps, PanicsKeeps
       DEF Next, AddStep, vars, OnChangeStart, RemoveInstance, AddInstance, AddLock, StartFails, Return
<1>2. available' \in Seq(Insts) /\ Len(available') <= Cap
  <2>1. CASE available # <<>> /\ available' = Tail(available)
    BY <2>1 DEF TypeOK
  <2>2. CASE AddInstance
    BY <2>2 DEF AddInstance, TypeOK
  <2>3. CASE Panics
    BY <2>3 DEF Panics
  <2>4. CASE UNCHANGED available
    BY <2>4 DEF TypeOK
  <2>5. QED
    BY <2>1, <2>2, <2>3, <2>4
       DEF Next, AddStep, vars, OnChangeStart, OnChangeStop, RemoveInstance, AddLock, StartFails,
           Return, JobStep, Refuse, UseInstance, Take, StoreDraw, Store, StoreFails, Called, Finish
<1>3. adder' \in [who : {"job", "start", None}, inst : Insts \cup {None}] /\ adding' \in Nat
  <2>1. ASSUME NEW who \in {"start", "job"}, AddLock(who)
        PROVE  /\ adder' \in [who : {"job", "start", None}, inst : Insts \cup {None}]
               /\ adding' \in Nat
    BY <2>1, FreshInst DEF AddLock, Asks, TypeOK
  <2>2. CASE AddInstance \/ Panics
    BY <2>2 DEF AddInstance, Panics, NoAdder, TypeOK
  <2>3. CASE UNCHANGED adder /\ (adding' = adding \/ adding' = adding + 1)
    BY <2>3 DEF TypeOK
  <2>4. QED
    BY <2>1, <2>2, <2>3
       DEF Next, AddStep, vars, OnChangeStart, OnChangeStop, RemoveInstance, StartFails,
           Return, JobStep, Refuse, UseInstance, Take, StoreDraw, Store, StoreFails, Called, Finish
<1>4. change' \in {"none", "start", "stop"} /\ threads' \in 0 .. MaxThreads
  <2>1. CASE AddInstance
    <3>1. CASE adder.who = "start"
      BY <1>0, <2>1, <3>1 DEF AddInstance, ChangeInv, TypeOK
    <3>2. CASE adder.who # "start"
      BY <2>1, <3>2 DEF AddInstance, TypeOK
    <3>3. QED
      BY <3>1, <3>2
  <2>2. CASE RemoveInstance
    BY <1>0, <2>2 DEF RemoveInstance, ChangeInv, TypeOK
  <2>3. CASE OnChangeStart \/ OnChangeStop \/ StartFails \/ Panics
    BY <2>3 DEF OnChangeStart, OnChangeStop, StartFails, Panics, TypeOK
  <2>4. CASE UNCHANGED <<change, threads>>
    BY <2>4 DEF TypeOK
  <2>5. QED
    BY <2>1, <2>2, <2>3, <2>4
       DEF Next, AddStep, vars, AddLock,
           Return, JobStep, Refuse, UseInstance, Take, StoreDraw, Store, StoreFails, Called, Finish
<1>5. mapper' \in [Idents -> Insts \cup {None}]
  <2>1. ASSUME NEW j \in Jobs, Store(j)
        PROVE  mapper' \in [Idents -> Insts \cup {None}]
    BY <1>0, <2>1 DEF Store, HoldInv, TypeOK, JobType
  <2>2. ASSUME NEW j \in Jobs, Finish(j)
        PROVE  mapper' \in [Idents -> Insts \cup {None}]
    BY <1>0, <2>2 DEF Finish, HoldInv, TypeOK, JobType
  <2>3. CASE UNCHANGED mapper \/ Panics
    BY <2>3 DEF Panics, TypeOK
  <2>4. QED
    BY <2>1, <2>2, <2>3
       DEF Next, AddStep, vars, OnChangeStart, OnChangeStop, RemoveInstance, AddInstance, AddLock,
           StartFails, Return, JobStep, Refuse, UseInstance, Take, StoreDraw, StoreFails, Called
<1>6. QED
  BY <1>0, <1>1, <1>2, <1>3, <1>4, <1>5 DEF TypeOK, ResultType

-----------------------------------------------------------------------------
(* The change of a thread, and what a run holds *)

LEMMA StepChange ==
  ASSUME TypeOK, ChangeInv, [Next]_vars
  PROVE  ChangeInv'
<1> USE NoneAssumption DEF ChangeInv
<1>1. CASE OnChangeStart \/ OnChangeStop \/ StartFails
  BY <1>1 DEF OnChangeStart, OnChangeStop, StartFails, NoAdder, TypeOK
<1>2. CASE Panics \/ RemoveInstance
  BY <1>2 DEF Panics, RemoveInstance, NoAdder, TypeOK
<1>3. CASE AddInstance
  <2>1. CASE adder.who = "start"
    BY <1>3, <2>1 DEF AddInstance, NoAdder
  <2>2. CASE adder.who # "start"
    BY <1>3, <2>2 DEF AddInstance, NoAdder
  <2>3. QED
    BY <2>1, <2>2
<1>4. ASSUME NEW who \in {"start", "job"}, AddLock(who)
      PROVE  ChangeInv'
  <2>1. adder'.who = who /\ adder'.inst \in Insts /\ UNCHANGED <<change, threads>>
    BY <1>4, FreshInst DEF AddLock
  <2>2. who = "start" => change = "start"
    BY <1>4 DEF AddLock, Asks
  <2>3. QED
    BY <2>1, <2>2
<1>5. CASE UNCHANGED <<adder, change, threads>>
  BY <1>5
<1>6. QED
  BY <1>1, <1>2, <1>3, <1>4, <1>5
     DEF Next, AddStep, vars, Return, JobStep, Refuse, UseInstance, Take, StoreDraw, Store,
         StoreFails, Called, Finish

LEMMA StepHold ==
  ASSUME TypeOK, HoldInv, [Next]_vars
  PROVE  HoldInv'
<1> USE NoneAssumption
<1>1. ASSUME NEW j \in Jobs, NEW st, NEW inst, NEW ident, NEW out, Becomes(j, st, inst, ident, out),
             inst # None <=> st \in {"taken", "storing", "running", "called"},
             ident # None <=> st \in {"storing", "running", "called"}
      PROVE  HoldInv'
  BY <1>1 DEF HoldInv, Becomes
<1>2. ASSUME NEW j \in Jobs, JobStep(j)
      PROVE  HoldInv'
  <2>1. CASE Refuse(j)
    BY <1>1, <2>1, RefuseBecomes DEF Refuse, HoldInv
  <2>2. CASE UseInstance(j)
    BY <1>1, <2>2, UseBecomes DEF UseInstance, HoldInv
  <2>3. CASE Take(j)
    BY <1>1, <2>3, TakeBecomes DEF Take, HoldInv
  <2>4. CASE StoreDraw(j)
    <3>1. PICK i \in Idents : Becomes(j, "storing", job[j].inst, i, job[j].out)
      BY <2>4, DrawBecomes
    <3>2. i # None /\ job[j].inst # None
      BY <2>4 DEF StoreDraw, HoldInv
    <3>3. QED
      BY <1>1, <3>1, <3>2
  <2>5. CASE Store(j)
    BY <1>1, <2>5, StoreBecomes DEF Store, HoldInv
  <2>6. CASE StoreFails(j)
    BY <1>1, <2>6, StoreFailsBecomes DEF StoreFails, HoldInv
  <2>7. CASE Called(j)
    BY <1>1, <2>7, CalledBecomes DEF Called, HoldInv
  <2>8. CASE Finish(j)
    BY <1>1, <2>8, FinishBecomes
  <2>9. QED
    BY <1>2, <2>1, <2>2, <2>3, <2>4, <2>5, <2>6, <2>7, <2>8 DEF JobStep
<1>3. CASE OnChangeStop
  BY <1>3, StopKeeps DEF HoldInv
<1>4. CASE Panics
  BY <1>4, PanicsKeeps DEF HoldInv
<1>5. CASE UNCHANGED job
  BY <1>5 DEF HoldInv
<1>6. QED
  BY <1>2, <1>3, <1>4, <1>5
     DEF Next, AddStep, vars, OnChangeStart, RemoveInstance, AddInstance, AddLock, StartFails, Return

-----------------------------------------------------------------------------
(* Instances for threads and waiting jobs *)

\* A run that does not begin or stop to wait leaves the set of those that wait.
LEMMA SameWaiting ==
  ASSUME \A k \in Jobs : job'[k].st = "waiting" <=> job[k].st = "waiting"
  PROVE  Waiting' = Waiting
  BY DEF Waiting

LEMMA StepPool ==
  ASSUME TypeOK, EngineInv, [Next]_vars
  PROVE  IsFiniteSet(Waiting)' /\ PoolMatchesThreads'
<1> USE NoneAssumption
<1>0. IsFiniteSet(Waiting) /\ PoolMatchesThreads /\ ChangeInv /\ HoldInv
  BY DEF EngineInv
<1>n. /\ Cardinality(Waiting) \in Nat /\ Len(available) \in Nat /\ adding \in Nat
      /\ threads \in Nat
  BY <1>0, FS_CardinalityType DEF TypeOK
<1>s. ASSUME NEW j \in Jobs, NEW st, NEW inst, NEW ident, NEW out, Becomes(j, st, inst, ident, out),
             st # "waiting", job[j].st # "waiting"
      PROVE  Waiting' = Waiting
  BY <1>s, SameWaiting DEF Becomes
<1>u. ASSUME Waiting' = Waiting, UNCHANGED <<available, adding, adder, threads>>
      PROVE  IsFiniteSet(Waiting)' /\ PoolMatchesThreads'
  BY <1>0, <1>u DEF PoolMatchesThreads
<1>1. ASSUME NEW j \in Jobs, UseInstance(j)
      PROVE  IsFiniteSet(Waiting)' /\ PoolMatchesThreads'
  <2>1. Waiting' = Waiting \cup {j} /\ j \notin Waiting
    BY <1>1, UseBecomes DEF Becomes, Waiting, UseInstance
  <2>2. IsFiniteSet(Waiting') /\ Cardinality(Waiting') = Cardinality(Waiting) + 1
    BY <1>0, <2>1, FS_AddElement
  <2>3. adding' = adding + 1 /\ UNCHANGED <<available, adder, threads>>
    BY <1>1 DEF UseInstance
  <2>4. QED
    BY <1>0, <1>n, <2>2, <2>3 DEF PoolMatchesThreads
<1>2. ASSUME NEW j \in Jobs, Take(j)
      PROVE  IsFiniteSet(Waiting)' /\ PoolMatchesThreads'
  <2>1. Waiting' = Waiting \ {j} /\ j \in Waiting
    BY <1>2, TakeBecomes DEF Becomes, Waiting, Take
  <2>2. IsFiniteSet(Waiting') /\ Cardinality(Waiting') = Cardinality(Waiting) - 1
    BY <1>0, <2>1, FS_RemoveElement
  <2>3. Len(available') = Len(available) - 1
    BY <1>2 DEF Take, TypeOK
  <2>4. QED
    BY <1>0, <1>2, <1>n, <2>2, <2>3 DEF Take, PoolMatchesThreads
<1>3. ASSUME NEW j \in Jobs, Refuse(j) \/ StoreDraw(j) \/ Store(j) \/ StoreFails(j) \/ Called(j) \/ Finish(j)
      PROVE  IsFiniteSet(Waiting)' /\ PoolMatchesThreads'
  <2>1. Waiting' = Waiting
    <3>1. CASE Refuse(j)
      BY <1>s, <3>1, RefuseBecomes DEF Refuse
    <3>2. CASE StoreDraw(j)
      BY <1>s, <3>2, DrawBecomes DEF StoreDraw
    <3>3. CASE Store(j)
      BY <1>s, <3>3, StoreBecomes DEF Store
    <3>4. CASE StoreFails(j)
      BY <1>s, <3>4, StoreFailsBecomes DEF StoreFails
    <3>5. CASE Called(j)
      BY <1>0, <1>s, <3>5, CalledBecomes DEF Called
    <3>6. CASE Finish(j)
      BY <1>s, <3>6, FinishBecomes DEF Finish
    <3>7. QED
      BY <1>3, <3>1, <3>2, <3>3, <3>4, <3>5, <3>6
  <2>2. QED
    BY <1>3, <1>u, <2>1 DEF Refuse, StoreDraw, Store, StoreFails, Called, Finish
<1>4. CASE Panics
  <2>1. Waiting' = {}
    BY <1>0, <1>4, PanicsKeeps DEF Waiting
  <2>2. QED
    BY <1>4, <2>1, FS_EmptySet DEF Panics, NoAdder, PoolMatchesThreads
<1>5. CASE OnChangeStop
  <2>1. Waiting' = Waiting
    BY <1>5, StopKeeps, SameWaiting
  <2>2. QED
    BY <1>5, <1>u, <2>1 DEF OnChangeStop
<1>6. CASE RemoveInstance
  <2>1. Waiting' = Waiting
    BY <1>6 DEF RemoveInstance, Waiting
  <2>2. Len(available') = Len(available) - 1
    BY <1>6 DEF RemoveInstance, TypeOK
  <2>3. QED
    BY <1>0, <1>6, <1>n, <2>1, <2>2 DEF RemoveInstance, PoolMatchesThreads
<1>7. CASE AddInstance
  <2>1. Waiting' = Waiting /\ adder'.who = None
    BY <1>7 DEF AddInstance, Waiting, NoAdder
  <2>2. Len(available') = Len(available) + 1
    BY <1>7 DEF AddInstance, TypeOK
  <2>3. CASE adder.who = "start"
    BY <1>0, <1>7, <1>n, <2>1, <2>2, <2>3 DEF AddInstance, PoolMatchesThreads
  <2>4. CASE adder.who = "job"
    BY <1>0, <1>7, <1>n, <2>1, <2>2, <2>4 DEF AddInstance, PoolMatchesThreads
  <2>5. QED
    BY <1>0, <1>7, <2>3, <2>4 DEF AddInstance, ChangeInv, TypeOK
<1>8. ASSUME NEW who \in {"start", "job"}, AddLock(who)
      PROVE  IsFiniteSet(Waiting)' /\ PoolMatchesThreads'
  <2>1. Waiting' = Waiting /\ adder.who = None /\ adder'.who = who
    BY <1>8, FreshInst DEF AddLock, Waiting, NoAdder
  <2>2. QED
    BY <1>0, <1>8, <1>n, <2>1 DEF AddLock, PoolMatchesThreads
<1>9. CASE UNCHANGED <<job, available, adding, adder, threads>>
  BY <1>9, <1>u DEF Waiting
<1>10. QED
  BY <1>1, <1>2, <1>3, <1>4, <1>5, <1>6, <1>7, <1>8, <1>9
     DEF Next, AddStep, vars, Return, JobStep, OnChangeStart, StartFails

-----------------------------------------------------------------------------
(* An instance is in one place *)

\* A run gives its instance up, or keeps it.
LEMMA KeepInst ==
  ASSUME InstInv, UNCHANGED <<available, adder>>,
         \A k \in Jobs : job'[k].inst = job[k].inst \/ job'[k].inst = None,
         \A n \in DOMAIN available : available[n] # None
  PROVE  InstInv'
  BY DEF InstInv

LEMMA StepInst ==
  ASSUME TypeOK, EngineInv, [Next]_vars
  PROVE  InstInv'
<1> USE NoneAssumption
<1>0. InstInv /\ HoldInv /\ ChangeInv
  BY DEF EngineInv
<1>n. \A n \in DOMAIN available : available[n] \in Insts /\ available[n] # None
  BY DEF TypeOK
<1>t. ASSUME available # <<>>, available' = Tail(available)
      PROVE  /\ \A n \in DOMAIN available' : /\ n + 1 \in DOMAIN available
                                             /\ available'[n] = available[n + 1]
             /\ 1 \in DOMAIN available /\ Head(available) = available[1]
             /\ \A n \in DOMAIN available' : n \in Nat /\ n >= 1
  BY <1>t DEF TypeOK
<1>1. ASSUME NEW j \in Jobs, Take(j)
      PROVE  InstInv'
  <2>1. /\ \A k \in Jobs \ {j} : job'[k] = job[k]
        /\ job'[j].inst = Head(available) /\ Head(available) \in Insts
    BY <1>1, TakeBecomes DEF Becomes
  <2>2. available # <<>> /\ available' = Tail(available) /\ adder' = adder
    BY <1>1 DEF Take
  <2>3. \A m, n \in DOMAIN available' : available'[m] = available'[n] => m = n
    BY <1>0, <1>t, <2>2 DEF InstInv
  <2>4. \A n \in DOMAIN available' : available'[n] # adder'.inst /\ available'[n] # Head(available)
    BY <1>0, <1>t, <2>2 DEF InstInv
  <2>5. \A n \in DOMAIN available', k \in Jobs : available'[n] # job'[k].inst
    BY <1>0, <1>t, <2>1, <2>2, <2>4 DEF InstInv
  <2>6. \A k \in Jobs : job'[k].inst # None => job'[k].inst # adder'.inst
    BY <1>0, <1>t, <2>1, <2>2 DEF InstInv
  <2>7. \A k, m \in Jobs : job'[k].inst = job'[m].inst /\ job'[k].inst # None => k = m
    BY <1>0, <1>t, <2>1, <2>2 DEF InstInv
  <2>8. QED
    BY <2>3, <2>4, <2>5, <2>6, <2>7 DEF InstInv
<1>2. ASSUME NEW j \in Jobs, Refuse(j) \/ UseInstance(j) \/ StoreDraw(j) \/ Store(j) \/ StoreFails(j)
                               \/ Called(j) \/ Finish(j)
      PROVE  InstInv'
  <2>1. UNCHANGED <<available, adder>>
    BY <1>2 DEF Refuse, UseInstance, StoreDraw, Store, StoreFails, Called, Finish
  <2>2. \A k \in Jobs : job'[k].inst = job[k].inst \/ job'[k].inst = None
    BY <1>0, <1>2, RefuseBecomes, UseBecomes, DrawBecomes, StoreBecomes, StoreFailsBecomes,
       CalledBecomes, FinishBecomes DEF Becomes
  <2>3. QED
    BY <1>0, <1>n, <2>1, <2>2, KeepInst
<1>3. CASE OnChangeStop
  BY <1>0, <1>3, <1>n, StopKeeps, KeepInst DEF OnChangeStop
<1>4. CASE Panics
  BY <1>0, <1>4, PanicsKeeps DEF Panics, InstInv
<1>5. CASE RemoveInstance
  <2>1. available # <<>> /\ available' = Tail(available) /\ UNCHANGED <<adder, job>>
    BY <1>5 DEF RemoveInstance
  <2>2. QED
    BY <1>0, <1>t, <2>1 DEF InstInv
<1>6. CASE AddInstance
  <2>1. /\ available' = Append(available, adder.inst) /\ adder'.inst = None /\ adder.inst \in Insts
        /\ UNCHANGED job
    BY <1>6 DEF AddInstance, NoAdder, TypeOK
  <2>2. \A n \in DOMAIN available' : \/ n \in DOMAIN available /\ available'[n] = available[n]
                                     \/ n = Len(available) + 1 /\ available'[n] = adder.inst
    BY <2>1 DEF TypeOK
  <2>3. \A m, n \in DOMAIN available' : available'[m] = available'[n] => m = n
    BY <1>0, <2>2 DEF InstInv
  <2>4. \A n \in DOMAIN available' : available'[n] # adder'.inst
    BY <1>n, <2>1, <2>2
  <2>5. \A n \in DOMAIN available', k \in Jobs : available'[n] # job'[k].inst
    BY <1>0, <2>1, <2>2 DEF InstInv
  <2>6. QED
    BY <1>0, <2>1, <2>3, <2>4, <2>5 DEF InstInv
<1>7. ASSUME NEW who \in {"start", "job"}, AddLock(who)
      PROVE  InstInv'
  <2>1. adder'.inst \in Insts /\ adder'.inst \notin Live /\ UNCHANGED <<available, job>>
    BY <1>7, FreshInst DEF AddLock
  <2>2. QED
    BY <1>0, <2>1 DEF InstInv, Live
<1>8. CASE UNCHANGED <<job, available, adder>>
  BY <1>0, <1>8 DEF InstInv
<1>9. QED
  BY <1>1, <1>2, <1>3, <1>4, <1>5, <1>6, <1>7, <1>8
     DEF Next, AddStep, vars, Return, JobStep, OnChangeStart, StartFails

-----------------------------------------------------------------------------
(* Identifiers *)

\* Steps that leave the map and no identifier that is in it.
LEMMA KeepIdent ==
  ASSUME TypeOK, IdentInv, UNCHANGED mapper,
         \A k \in Jobs : job'[k].ident = job[k].ident,
         \A k \in Jobs : job'[k].st \in {"running", "called"} =>
           job[k].st \in {"running", "called"} /\ job'[k].inst = job[k].inst,
         \A k \in Jobs : job[k].st \in {"running", "called"} => job'[k].st \in {"running", "called"}
  PROVE  IdentInv'
  BY DEF IdentInv, NoLeakedIdent

LEMMA StepIdent ==
  ASSUME FreshIdents, TypeOK, EngineInv, [Next]_vars
  PROVE  IdentInv'
<1> USE NoneAssumption
<1>0. IdentInv /\ HoldInv
  BY DEF EngineInv
<1>1. ASSUME NEW j \in Jobs, StoreDraw(j)
      PROVE  IdentInv'
  <2>1. PICK i \in Idents : /\ mapper[i] = None
                            /\ i \notin UNION {Drawn(k) : k \in Jobs}
                            /\ Becomes(j, "storing", job[j].inst, i, job[j].out)
    BY <1>1, DrawBecomes
  <2>2. \A k \in Jobs \ {j} : job'[k] = job[k]
    BY <2>1 DEF Becomes
  <2>3. job'[j].st = "storing" /\ job'[j].ident = i /\ UNCHANGED mapper
    BY <1>1, <2>1 DEF Becomes, StoreDraw
  <2>4. \A k \in Jobs \ {j} : job[k].ident # i
    <3>1. SUFFICES ASSUME NEW k \in Jobs \ {j}, job[k].ident = i
                   PROVE  FALSE
      OBVIOUS
    <3>2. CASE job[k].st = "storing"
      BY <2>1, <3>1, <3>2 DEF Drawn
    <3>3. CASE job[k].st \in {"running", "called"}
      BY <1>0, <2>1, <3>1, <3>3 DEF IdentInv, HoldInv
    <3>4. QED
      BY <1>0, <3>1, <3>2, <3>3 DEF HoldInv
  <2>5. \A k, m \in Jobs : job'[k].ident = job'[m].ident /\ job'[k].ident # None => k = m
    BY <1>0, <2>2, <2>3, <2>4 DEF IdentInv
  <2>6. \A k \in Jobs : job'[k].st \in {"running", "called"} => mapper'[job'[k].ident] = job'[k].inst
    BY <1>0, <2>2, <2>3 DEF IdentInv
  <2>7. NoLeakedIdent'
    <3>1. job[j].st = "taken"
      BY <1>1 DEF StoreDraw
    <3>2. QED
      BY <1>0, <2>2, <2>3, <3>1 DEF IdentInv, NoLeakedIdent
  <2>8. QED
    BY <2>5, <2>6, <2>7 DEF IdentInv
<1>2. ASSUME NEW j \in Jobs, Store(j)
      PROVE  IdentInv'
  <2>1. /\ \A k \in Jobs \ {j} : job'[k] = job[k]
        /\ job'[j].st = "running" /\ job'[j].ident = job[j].ident /\ job'[j].inst = job[j].inst
    BY <1>2, StoreBecomes DEF Becomes
  <2>2. job[j].ident \in Idents
    BY <1>0, <1>2 DEF Store, HoldInv, TypeOK, JobType
  <2>3. \A i \in Idents : mapper'[i] = IF i = job[j].ident THEN job[j].inst ELSE mapper[i]
    BY <1>2, <2>2 DEF Store, TypeOK
  <2>4. \A k, m \in Jobs : job'[k].ident = job'[m].ident /\ job'[k].ident # None => k = m
    BY <1>0, <2>1 DEF IdentInv
  <2>5. \A k \in Jobs : job'[k].st \in {"running", "called"} => mapper'[job'[k].ident] = job'[k].inst
    <3>1. \A k \in Jobs : job[k].st \in {"running", "called"} => job[k].ident \in Idents
      BY <1>0 DEF HoldInv, TypeOK, JobType
    <3>2. \A k \in Jobs \ {j} : job[k].ident # job[j].ident
      BY <1>0, <2>2 DEF IdentInv
    <3>3. QED
      BY <1>0, <2>1, <2>2, <2>3, <3>1, <3>2 DEF IdentInv
  <2>6. NoLeakedIdent'
    <3>1. job[j].st = "storing"
      BY <1>2 DEF Store
    <3>2. QED
      BY <1>0, <2>1, <2>3, <3>1 DEF IdentInv, NoLeakedIdent
  <2>7. QED
    BY <2>4, <2>5, <2>6 DEF IdentInv
<1>3. ASSUME NEW j \in Jobs, Finish(j)
      PROVE  IdentInv'
  <2>1. /\ \A k \in Jobs \ {j} : job'[k] = job[k]
        /\ job'[j].st = "done" /\ job'[j].ident = None
    BY <1>3, FinishBecomes DEF Becomes
  <2>2. job[j].ident \in Idents
    BY <1>0, <1>3 DEF Finish, HoldInv, TypeOK, JobType
  <2>3. \A i \in Idents : mapper'[i] = IF i = job[j].ident THEN None ELSE mapper[i]
    BY <1>3, <2>2 DEF Finish, TypeOK
  <2>4. \A k, m \in Jobs : job'[k].ident = job'[m].ident /\ job'[k].ident # None => k = m
    BY <1>0, <2>1 DEF IdentInv
  <2>5. \A k \in Jobs : job'[k].st \in {"running", "called"} => mapper'[job'[k].ident] = job'[k].inst
    <3>1. \A k \in Jobs : job[k].st \in {"running", "called"} => job[k].ident \in Idents
      BY <1>0 DEF HoldInv, TypeOK, JobType
    <3>2. \A k \in Jobs \ {j} : job[k].ident # job[j].ident
      BY <1>0, <2>2 DEF IdentInv
    <3>3. QED
      BY <1>0, <2>1, <2>2, <2>3, <3>1, <3>2 DEF IdentInv
  <2>6. NoLeakedIdent'
    BY <1>0, <2>1, <2>3 DEF IdentInv, NoLeakedIdent
  <2>7. QED
    BY <2>4, <2>5, <2>6 DEF IdentInv
<1>4. ASSUME NEW j \in Jobs, Refuse(j) \/ UseInstance(j) \/ Take(j) \/ StoreFails(j) \/ Called(j)
      PROVE  IdentInv'
  <2>1. UNCHANGED mapper
    BY <1>4 DEF Refuse, UseInstance, Take, StoreFails, Called
  <2>2. \A k \in Jobs \ {j} : job'[k] = job[k]
    BY <1>0, <1>4, RefuseBecomes, UseBecomes, TakeBecomes, StoreFailsBecomes, CalledBecomes
       DEF Becomes
  <2>3. job'[j].ident = job[j].ident
    BY <1>0, <1>4, RefuseBecomes, UseBecomes, TakeBecomes, StoreFailsBecomes, CalledBecomes
       DEF Becomes
  <2>4. CASE Called(j)
    <3>1. job'[j].st = "called" /\ job'[j].inst = job[j].inst /\ job[j].st = "running"
      BY <1>0, <2>4, CalledBecomes DEF Becomes, Called
    <3>2. QED
      BY <1>0, <2>1, <2>2, <2>3, <3>1, KeepIdent
  <2>5. CASE Refuse(j) \/ UseInstance(j) \/ Take(j) \/ StoreFails(j)
    <3>1. job'[j].st \in {"done", "waiting", "taken"} /\ job[j].st \in {"new", "waiting", "taken"}
      BY <2>5, RefuseBecomes, UseBecomes, TakeBecomes, StoreFailsBecomes
         DEF Becomes, Refuse, UseInstance, Take, StoreFails
    <3>2. QED
      BY <1>0, <2>1, <2>2, <2>3, <3>1, KeepIdent
  <2>6. QED
    BY <1>4, <2>4, <2>5
<1>5. CASE OnChangeStop
  BY <1>0, <1>5, StopKeeps, KeepIdent DEF OnChangeStop
<1>6. CASE Panics
  BY <1>0, <1>6, PanicsKeeps DEF Panics, IdentInv, NoLeakedIdent
<1>7. CASE UNCHANGED <<job, mapper>>
  BY <1>0, <1>7, KeepIdent
<1>8. QED
  BY <1>1, <1>2, <1>3, <1>4, <1>5, <1>6, <1>7
     DEF Next, AddStep, vars, Return, JobStep, OnChangeStart, StartFails, RemoveInstance, AddInstance,
         AddLock

-----------------------------------------------------------------------------
(* Results *)

\* Steps that leave the channels, and the runs whose results are in them.
LEMMA KeepResult ==
  ASSUME TypeOK, ResultInv, UNCHANGED result,
         \A k \in Jobs : job[k].st \in {"running", "called"} =>
           job'[k].st \in {"running", "called"} /\ job'[k].inst = job[k].inst
  PROVE  ResultInv'
<1>1. \A i \in Insts, c \in Channels : result[i][c] \subseteq Jobs
  BY DEF TypeOK
<1>2. QED
  BY <1>1 DEF ResultInv

LEMMA StepResult ==
  ASSUME TypeOK, EngineInv, [Next]_vars
  PROVE  ResultInv'
<1> USE NoneAssumption
<1>0. ResultInv /\ IdentInv /\ HoldInv /\ InstInv
  BY DEF EngineInv
<1>r. \A i \in Insts, c \in Channels : result[i][c] \subseteq Jobs
  BY DEF TypeOK
<1>1. ASSUME NEW j \in Jobs, NEW c \in Channels, Return(j, c)
      PROVE  ResultInv'
  <2>1. job[j].st = "running" /\ mapper[job[j].ident] = job[j].inst
    BY <1>0, <1>1 DEF Return, IdentInv
  <2>2. job[j].inst \in Insts
    BY <1>0, <2>1 DEF HoldInv, TypeOK, JobType
  <2>3. result' = [result EXCEPT ![job[j].inst][c] = {j}] /\ UNCHANGED job
    BY <1>1, <2>1 DEF Return
  <2>4. \A i \in Insts, d \in Channels :
          result'[i][d] = IF i = job[j].inst /\ d = c THEN {j} ELSE result[i][d]
    BY <2>2, <2>3 DEF TypeOK
  <2>5. QED
    BY <1>0, <2>1, <2>3, <2>4 DEF ResultInv
<1>2. ASSUME NEW j \in Jobs, Called(j)
      PROVE  ResultInv'
  <2>1. job[j].inst \in Insts
    BY <1>0, <1>2 DEF Called, HoldInv, TypeOK, JobType
  <2>2. \A i \in Insts, d \in Channels : result'[i][d] \subseteq result[i][d]
    <3>1. ASSUME NEW c \in Channels, result' = [result EXCEPT ![job[j].inst][c] = {}]
          PROVE  \A i \in Insts, d \in Channels : result'[i][d] \subseteq result[i][d]
      BY <2>1, <3>1 DEF TypeOK
    <3>2. CASE UNCHANGED result
      BY <3>2
    <3>3. QED
      BY <1>0, <1>2, <3>1, <3>2, CalledBecomes
  <2>3. /\ \A k \in Jobs \ {j} : job'[k] = job[k]
        /\ job'[j].st = "called" /\ job'[j].inst = job[j].inst
    BY <1>0, <1>2, CalledBecomes DEF Becomes
  <2>4. QED
    BY <1>0, <1>r, <2>2, <2>3 DEF ResultInv
<1>3. ASSUME NEW j \in Jobs, Finish(j)
      PROVE  ResultInv'
  <2>1. job[j].inst \in Insts
    BY <1>0, <1>3 DEF Finish, HoldInv, TypeOK, JobType
  <2>2. \A k \in Jobs \ {j} : job'[k] = job[k]
    BY <1>3, FinishBecomes DEF Becomes
  <2>3. \A i \in Insts, d \in Channels :
          result'[i][d] = IF i = job[j].inst THEN {} ELSE result[i][d]
    BY <1>3, <2>1 DEF Finish, TypeOK, NoResult
  <2>4. \A i \in Insts, d \in Channels : i # job[j].inst => j \notin result[i][d]
    BY <1>0 DEF ResultInv
  <2>5. QED
    BY <1>0, <1>r, <2>2, <2>3, <2>4 DEF ResultInv
<1>4. CASE Panics
  BY <1>4 DEF Panics, ResultInv, NoResult
<1>5. ASSUME NEW j \in Jobs, Refuse(j) \/ UseInstance(j) \/ Take(j) \/ StoreDraw(j) \/ Store(j) \/ StoreFails(j)
      PROVE  ResultInv'
  <2>1. UNCHANGED result /\ job[j].st \notin {"running", "called"}
    BY <1>5 DEF Refuse, UseInstance, Take, StoreDraw, Store, StoreFails
  <2>2. \A k \in Jobs \ {j} : job'[k] = job[k]
    BY <1>5, RefuseBecomes, UseBecomes, TakeBecomes, DrawBecomes, StoreBecomes, StoreFailsBecomes
       DEF Becomes
  <2>3. QED
    BY <1>0, <2>1, <2>2, KeepResult
<1>6. CASE OnChangeStop
  BY <1>0, <1>6, StopKeeps, KeepResult DEF OnChangeStop
<1>7. CASE UNCHANGED <<job, result>>
  BY <1>0, <1>7, KeepResult
<1>8. QED
  BY <1>1, <1>2, <1>3, <1>4, <1>5, <1>6, <1>7
     DEF Next, AddStep, vars, JobStep, Channels, OnChangeStart, StartFails, RemoveInstance,
         AddInstance, AddLock

LEMMA StepOwn ==
  ASSUME TypeOK, EngineInv, [Next]_vars
  PROVE  OwnResult'
<1>0. OwnResult /\ ResultInv /\ InstInv /\ HoldInv
  BY DEF EngineInv
<1>k. ASSUME \A j \in Jobs : \/ job'[j].out = job[j].out
                             \/ \E s \in {"none", "refused", "failed", "empty", "lost"} :
                                  job'[j].out = <<s, None>>
      PROVE  OwnResult'
  BY <1>0, <1>k DEF OwnResult, Channels
<1>1. ASSUME NEW j \in Jobs, Called(j)
      PROVE  OwnResult'
  <2>1. job[j].inst \in Insts
    BY <1>0, <1>1 DEF Called, HoldInv, TypeOK, JobType
  <2>2. ASSUME NEW c \in Channels, NEW k \in result[job[j].inst][c],
               Becomes(j, "called", job[j].inst, job[j].ident, <<c, k>>)
        PROVE  OwnResult'
    <3>1. k \in Jobs
      BY <2>1 DEF TypeOK
    <3>2. k = j
      BY <1>0, <2>1, <3>1, NoneAssumption DEF ResultInv, InstInv
    <3>3. job'[j].out = <<c, j>> /\ \A m \in Jobs \ {j} : job'[m] = job[m]
      BY <2>2, <3>2 DEF Becomes
    <3>4. QED
      BY <1>0, <3>3 DEF OwnResult
  <2>3. ASSUME NEW o \in {<<"empty", None>>, <<"failed", None>>},
               Becomes(j, "called", job[j].inst, job[j].ident, o)
        PROVE  OwnResult'
    BY <1>k, <2>3 DEF Becomes
  <2>4. QED
    BY <1>0, <1>1, <2>2, <2>3, CalledBecomes
<1>2. ASSUME NEW j \in Jobs, Refuse(j) \/ UseInstance(j) \/ Take(j) \/ StoreDraw(j) \/ Store(j)
                               \/ StoreFails(j) \/ Finish(j)
      PROVE  OwnResult'
  <2>1. \A k \in Jobs \ {j} : job'[k] = job[k]
    BY <1>2, RefuseBecomes, UseBecomes, TakeBecomes, DrawBecomes, StoreBecomes, StoreFailsBecomes,
       FinishBecomes DEF Becomes
  <2>2. job'[j].out = job[j].out \/ job'[j].out = <<"refused", None>>
          \/ job'[j].out = <<"failed", None>>
    BY <1>2, RefuseBecomes, UseBecomes, TakeBecomes, DrawBecomes, StoreBecomes, StoreFailsBecomes,
       FinishBecomes DEF Becomes
  <2>3. QED
    BY <1>k, <2>1, <2>2
<1>3. CASE OnChangeStop
  BY <1>3, <1>k, StopKeeps
<1>4. CASE Panics
  BY <1>0, <1>4, <1>k, PanicsKeeps
<1>5. CASE UNCHANGED job
  BY <1>5, <1>k
<1>6. QED
  BY <1>1, <1>2, <1>3, <1>4, <1>5
     DEF Next, AddStep, vars, Return, JobStep, OnChangeStart, StartFails, RemoveInstance, AddInstance,
         AddLock

LEMMA StepEngine ==
  ASSUME FreshIdents, TypeOK, EngineInv, [Next]_vars
  PROVE  TypeOK' /\ EngineInv'
<1>1. ChangeInv /\ HoldInv
  BY DEF EngineInv
<1>2. ChangeInv' /\ HoldInv' /\ IsFiniteSet(Waiting)' /\ PoolMatchesThreads'
  BY <1>1, StepChange, StepHold, StepPool
<1>3. TypeOK' /\ InstInv' /\ IdentInv' /\ ResultInv' /\ OwnResult'
  BY StepType, StepInst, StepIdent, StepResult, StepOwn
<1>4. QED
  BY <1>2, <1>3 DEF EngineInv

-----------------------------------------------------------------------------
(* Host calls *)

LEMMA HostIsEngine == [HNext]_hvars => [Next]_vars
  BY DEF HNext, hvars, EngineStep, fetchUrl, requestGetField, requestSetField, SetFFIResult,
         getFfiResult

\* No run takes the instance of another while it has it.
LEMMA InstKept ==
  ASSUME TypeOK, EngineInv, [Next]_vars,
         NEW j \in Jobs, NEW k \in Jobs, job[k].inst # None, job'[j].inst = job[k].inst
  PROVE  job'[k].inst = job[k].inst
<1> USE NoneAssumption
<1>0. InstInv /\ HoldInv
  BY DEF EngineInv
<1>1. ASSUME NEW m \in Jobs, Take(m)
      PROVE  job'[k].inst = job[k].inst
  <2>1. job[m].inst = None
    BY <1>0, <1>1 DEF HoldInv, Take
  <2>2. QED
    BY <1>1, <2>1, TakeBecomes DEF Becomes
<1>2. ASSUME NEW m \in Jobs, StoreFails(m) \/ Finish(m)
      PROVE  job'[k].inst = job[k].inst
  <2>1. job'[m].inst = None /\ \A n \in Jobs \ {m} : job'[n] = job[n]
    BY <1>2, StoreFailsBecomes, FinishBecomes DEF Becomes
  <2>2. j # m
    BY <2>1
  <2>3. j = k
    BY <1>0, <2>1, <2>2 DEF InstInv
  <2>4. QED
    BY <2>3
<1>3. ASSUME NEW m \in Jobs, Refuse(m) \/ UseInstance(m) \/ StoreDraw(m) \/ Store(m) \/ Called(m)
      PROVE  job'[k].inst = job[k].inst
  BY <1>0, <1>3, RefuseBecomes, UseBecomes, DrawBecomes, StoreBecomes, CalledBecomes DEF Becomes
<1>4. CASE OnChangeStop
  BY <1>4, StopKeeps
<1>5. CASE Panics
  BY <1>0, <1>5, PanicsKeeps
<1>6. CASE UNCHANGED job
  BY <1>6
<1>7. QED
  BY <1>1, <1>2, <1>3, <1>4, <1>5, <1>6
     DEF Next, AddStep, vars, Return, JobStep, OnChangeStart, StartFails, RemoveInstance, AddInstance,
         AddLock

HostInv == ffi \in [Insts -> Jobs \cup {None}] /\ mixed = FALSE /\ CtxInv

LEMMA StepHost ==
  ASSUME TypeOK, EngineInv, HostInv, [HNext]_hvars
  PROVE  HostInv'
<1> USE NoneAssumption
<1>0. IdentInv /\ HoldInv /\ InstInv /\ [Next]_vars
  BY HostIsEngine DEF EngineInv
<1>i. \A j \in Jobs : job[j].st = "running" =>
        ForIdentifier(j) = job[j].inst /\ job[j].inst \in Insts
  BY <1>0 DEF ForIdentifier, IdentInv, HoldInv, TypeOK, JobType
<1>1. CASE EngineStep
  <2>1. /\ ffi' = [i \in Insts |-> IF \E j \in Jobs : job'[j].inst = i THEN ffi[i] ELSE None]
        /\ UNCHANGED mixed
    BY <1>1 DEF EngineStep, CtxOfRun
  <2>2. ASSUME NEW i \in Insts, ffi'[i] # None
        PROVE  job'[ffi'[i]].inst = i
    <3>1. PICK j \in Jobs : job'[j].inst = i
      BY <2>1, <2>2
    <3>2. ffi'[i] = ffi[i] /\ ffi[i] \in Jobs
      BY <2>1, <2>2 DEF HostInv
    <3>3. job[ffi[i]].inst = i
      BY <2>2, <3>2 DEF HostInv, CtxInv
    <3>4. QED
      BY <1>0, <3>1, <3>2, <3>3, InstKept
  <2>3. QED
    BY <2>1, <2>2 DEF HostInv, CtxInv
<1>2. ASSUME NEW j \in Jobs, SetFFIResult(j)
      PROVE  HostInv'
  <2>1. job[j].st = "running" /\ ffi' = [ffi EXCEPT ![job[j].inst] = j] /\ UNCHANGED <<job, mixed>>
    BY <1>2, <1>i DEF SetFFIResult, Calls, vars
  <2>2. QED
    BY <1>i, <2>1 DEF HostInv, CtxInv
<1>3. ASSUME NEW j \in Jobs, getFfiResult(j)
      PROVE  HostInv'
  <2>1. /\ job[j].st = "running" /\ ffi[job[j].inst] # None
        /\ ffi' = [ffi EXCEPT ![job[j].inst] = None]
        /\ mixed' = (mixed \/ ffi[job[j].inst] # j)
        /\ UNCHANGED job
    BY <1>3, <1>i DEF getFfiResult, Calls, vars
  <2>2. ffi[job[j].inst] = j
    BY <1>0, <1>i, <2>1 DEF HostInv, CtxInv, InstInv
  <2>3. mixed' = FALSE
    BY <2>1, <2>2 DEF HostInv
  <2>4. QED
    BY <1>i, <2>1, <2>3 DEF HostInv, CtxInv
<1>4. CASE UNCHANGED hvars
  BY <1>4 DEF hvars, vars, HostInv, CtxInv
<1>5. QED
  BY <1>1, <1>2, <1>3, <1>4 DEF HNext, fetchUrl, requestGetField, requestSetField

\* UseInstance, AddInstance, RemoveInstance, Store and Remove: instances match
\* threads and waiting jobs, in a run the identifier leads to its own instance and
\* the map has no identifier of a run that is over.
THEOREM EngineCorrect ==
  ASSUME FreshIdents
  PROVE  HSpec => []EngineInvariant
<1>1. HInit => TypeOK /\ EngineInv
  BY InitEngine DEF HInit
<1>2. TypeOK /\ EngineInv /\ [HNext]_hvars => (TypeOK /\ EngineInv)'
  BY HostIsEngine, StepEngine
<1>3. TypeOK /\ EngineInv => EngineInvariant
  BY DEF EngineInv, IdentInv, EngineInvariant, IdentIsOwn
<1>4. QED
  BY <1>1, <1>2, <1>3, PTL DEF HSpec

\* ExecutionResult and get_ffi_result: what a run returns and what its module is
\* given is of its own calls, whichever run had the instance before.
THEOREM OutputIsOwn ==
  ASSUME FreshIdents
  PROVE  HSpec => []OwnOutput
<1> DEFINE I == TypeOK /\ EngineInv /\ HostInv
<1>1. HInit => I
  BY InitEngine DEF HInit, HostInv, CtxInv
<1>2. I /\ [HNext]_hvars => I'
  BY HostIsEngine, StepEngine, StepHost
<1>3. I => OwnOutput
  BY DEF EngineInv, HostInv, OwnOutput, HostTypeOK
<1>4. QED
  BY <1>1, <1>2, <1>3, PTL DEF HSpec
=============================================================================
