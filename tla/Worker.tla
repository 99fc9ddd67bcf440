------------------------------- MODULE Worker -------------------------------
(***************************************************************************)
(* foundation/scheduler: one worker, its pool of work threads, the jobs    *)
(* scheduled on it and the autoscaler that resizes it.                     *)
(*                                                                         *)
(* The pool is resized inside a singleflight call: whoever calls           *)
(* reconcilePoolSize while a call is in flight shares its outcome.  The    *)
(* callers are the goroutine of every scheduled job, the goroutine that    *)
(* pre-warms the worker, the autoscaler loop and DeRegister; the last      *)
(* three are named "start", "scale" and "stop".  The target of the pool is *)
(* a plain field that is read without the lock.                            *)
(***************************************************************************)
EXTENDS Naturals, FiniteSets, Sequences

CONSTANTS
  Jobs,          \* the jobs that may be done
  Children,      \* for each job, the jobs its Run may do through its Ctx
  MaxThreads,    \* bound: threads ever started
  PoolSize,      \* opts.poolSize
  AutoscaleMax,  \* opts.autoscaleMax
  NumRetries,    \* opts.numRetries
  ChanSize,      \* capacity of workChan (defaultChanSize)
  Options,       \* opts it may be registered with: jobTimeoutSeconds # 0, preWarm
  MaxFailures,   \* bound: how often OnChange may fail
  MaxScalings,   \* bound: how often the autoscaler sets the thread count
  DeRegisters    \* TRUE: the worker may be removed

\* A job is none of the other callers of reconcilePoolSize, which have names.
ASSUME JobsAssumption == Jobs \cap {"start", "scale", "stop", "none"} = {}
ASSUME ChildrenAssumption == Children \in [Jobs -> SUBSET Jobs]
ASSUME SizesAssumption ==
  /\ {MaxThreads, AutoscaleMax, NumRetries, MaxFailures, MaxScalings} \subseteq Nat
  /\ {PoolSize, ChanSize} \subseteq Nat \ {0}
ASSUME SwitchesAssumption ==
  DeRegisters \in BOOLEAN /\ Options \subseteq [timed : BOOLEAN, preWarm : BOOLEAN]

VARIABLES
  timed,       \* opts.jobTimeoutSeconds # 0
  registered,  \* the worker is in scaler.workers
  target,      \* w.targetThreadCount
  threads,     \* w.threads
  thread,      \* the goroutine of every work thread, and its context
  flight,      \* w.reconcile: the call in flight
  calling,     \* those who are about to call w.reconcile.Do
  stage,       \* where each job is
  spawned,     \* the jobs that the Run of a job has done
  answer,      \* what was sent to the Result of each job
  sends,       \* how often something was sent to it
  adrift,      \* jobs whose Run goes on although the job timed out
  workChan,    \* w.workChan
  recent,      \* w.rate.count # 0
  scaler,      \* the autoscaler loop
  failures,    \* how often OnChange has failed
  scalings     \* how often the autoscaler has set the thread count

poolVars == <<threads, thread, flight, failures>>
jobVars == <<stage, spawned, answer, sends, adrift, workChan, recent>>
scaleVars == <<timed, registered, target, scaler, scalings>>
vars == <<poolVars, calling, jobVars, scaleVars>>

Threads == 1 .. MaxThreads
Callers == Jobs \cup {"start", "scale", "stop"}
Answers == {"none", "ok", "err"}
Stages == {"new", "scheduled", "sending", "queued", "running", "chained", "over"}
NoJob == "none"

ThreadType == [st : {"unborn", "top", "waiting", "running", "awaiting", "dead"},
               cancelled : BOOLEAN, job : Jobs \cup {NoJob}]
FlightType == [pc : {"idle", "grow", "shrink", "done"}, attempts : Nat, err : BOOLEAN,
               members : SUBSET Callers]
ScalerType == [pc : {"idle", "set", "reconciling"}, size : Nat]

TypeOK ==
  /\ timed \in BOOLEAN
  /\ registered \in BOOLEAN
  /\ target \in Nat
  /\ threads \in Seq(Threads)
  /\ thread \in [Threads -> ThreadType]
  /\ flight \in FlightType
  /\ calling \subseteq Callers
  /\ stage \in [Jobs -> Stages]
  /\ spawned \in [Jobs -> SUBSET Jobs]
  /\ answer \in [Jobs -> Answers]
  /\ sends \in [Jobs -> Nat]
  /\ adrift \subseteq Jobs
  /\ workChan \in Seq(Jobs)
  /\ recent \in BOOLEAN
  /\ scaler \in ScalerType
  /\ failures \in 0 .. MaxFailures
  /\ scalings \in 0 .. MaxScalings

\* newWorker and addWorker, which leaves wk.start to a goroutine of its own.
Init ==
  /\ \E o \in Options : timed = o.timed /\ calling = IF o.preWarm THEN {"start"} ELSE {}
  /\ registered = TRUE
  /\ target = PoolSize
  /\ threads = <<>>
  /\ thread = [t \in Threads |-> [st |-> "unborn", cancelled |-> FALSE, job |-> NoJob]]
  /\ flight = [pc |-> "idle", attempts |-> 0, err |-> FALSE, members |-> {}]
  /\ stage = [j \in Jobs |-> "new"]
  /\ spawned = [j \in Jobs |-> {}]
  /\ answer = [j \in Jobs |-> "none"]
  /\ sends = [j \in Jobs |-> 0]
  /\ adrift = {}
  /\ workChan = <<>>
  /\ recent = FALSE
  /\ scaler = [pc |-> "idle", size |-> 0]
  /\ failures = 0
  /\ scalings = 0

-----------------------------------------------------------------------------
(* Results.  Each channel of a Result holds one signal.                      *)

\* Fault: an error is signalled on both channels.
AnsweredTwice(js, a) ==
  /\ answer' = [j \in Jobs |-> IF j \in js THEN a ELSE answer[j]]
  /\ sends' = [j \in Jobs |-> IF j \notin js THEN sends[j]
                              ELSE sends[j] + (IF a = "err" THEN 2 ELSE 1)]

\* sendErr and the end of sendResult.
Answered(js, a) ==
  /\ answer' = [j \in Jobs |-> IF j \in js THEN a ELSE answer[j]]
  /\ sends' = [j \in Jobs |-> IF j \in js THEN sends[j] + 1 ELSE sends[j]]

Unanswered == UNCHANGED <<answer, sends>>

\* The goroutine sendResult leaves behind for a Result or a Group: Then, or
\* Wait, for all of spawned, and an error if one of them failed.
ChainAnswered(j) ==
  /\ stage[j] = "chained"
  /\ \A k \in spawned[j] : answer[k] # "none"
  /\ Answered({j}, IF \E k \in spawned[j] : answer[k] = "err" THEN "err" ELSE "ok")
  /\ stage' = [stage EXCEPT ![j] = "over"]
  /\ UNCHANGED <<poolVars, calling, spawned, adrift, workChan, recent, scaleVars>>

-----------------------------------------------------------------------------
(* core.do.  findWorker takes the read lock of the scaler; removeWorker holds *)
(* the write lock until stop has returned.                                    *)

Removing == "stop" \in calling \cup flight.members

Do(j) ==
  /\ stage[j] = "new" /\ ~Removing
  /\ \/ /\ registered
        /\ stage' = [stage EXCEPT ![j] = "scheduled"]
        /\ calling' = calling \cup {j}
        /\ Unanswered
     \/ /\ ~registered
        /\ stage' = [stage EXCEPT ![j] = "over"]
        /\ Answered({j}, "err")
        /\ UNCHANGED calling

\* A job that somebody outside does: not one that is left to a Run.
Submit(j) ==
  /\ \A k \in Jobs : j \notin Children[k]
  /\ Do(j)
  /\ UNCHANGED <<poolVars, spawned, adrift, workChan, recent, scaleVars>>

\* ctx.Do, from a Run that is on a thread or that outlived its timeout.
RunDoes(j, k) ==
  /\ (\E t \in Threads : thread[t].st = "running" /\ thread[t].job = j) \/ j \in adrift
  /\ k \in Children[j]
  /\ Do(k)
  /\ spawned' = [spawned EXCEPT ![j] = @ \cup {k}]
  /\ UNCHANGED <<poolVars, adrift, workChan, recent, scaleVars>>

-----------------------------------------------------------------------------
(* reconcilePoolSize *)

\* w.reconcile.Do: lead a new flight, or join the one that is in the map; it
\* stays there until its leader has deleted it, after the function returned.
Join(c) ==
  /\ c \in calling
  /\ calling' = calling \ {c}
  /\ flight' = IF flight.pc = "idle"
               THEN [pc |-> "grow", attempts |-> 0, err |-> FALSE, members |-> {c}]
               ELSE [flight EXCEPT !.members = @ \cup {c}]
  /\ UNCHANGED <<threads, thread, failures, jobVars, scaleVars>>

\* shouldReturn, after an error.
Failed ==
  /\ failures < MaxFailures
  /\ failures' = failures + 1
  /\ flight' = IF flight.attempts > NumRetries
               THEN [flight EXCEPT !.pc = "done", !.err = TRUE]
               ELSE [flight EXCEPT !.pc = "grow", !.attempts = @ + 1]

\* The first comparison with the target, which the second one may find changed.
TooFew == flight.pc = "grow" /\ Len(threads) < target
TooMany == flight.pc = "shrink" /\ Len(threads) > target

EnoughThreads ==
  /\ flight.pc = "grow" /\ ~TooFew
  /\ flight' = [flight EXCEPT !.pc = "shrink"]
  /\ UNCHANGED <<threads, thread, failures, calling, jobVars, scaleVars>>

\* addThread; without a thread left to start the model stops here.
addThread ==
  /\ TooFew
  /\ \/ Failed /\ UNCHANGED <<threads, thread>>
     \/ \E t \in Threads :
          /\ thread[t].st = "unborn" /\ \A s \in 1 .. t - 1 : thread[s].st # "unborn"
          /\ thread' = [thread EXCEPT ![t].st = "top"]
          /\ threads' = Append(threads, t)
          /\ UNCHANGED <<flight, failures>>
  /\ UNCHANGED <<calling, jobVars, scaleVars>>

\* Fault: the thread is dropped without being cancelled.
removeThreadAlive ==
  /\ TooMany
  /\ \/ Failed /\ UNCHANGED threads
     \/ /\ threads' = SubSeq(threads, 1, Len(threads) - 1)
        /\ flight' = [flight EXCEPT !.pc = "grow"]
        /\ UNCHANGED failures
  /\ UNCHANGED <<thread, calling, jobVars, scaleVars>>

\* removeThread: the thread is cancelled before OnChange can fail.
removeThread ==
  /\ TooMany
  /\ thread' = [thread EXCEPT ![threads[Len(threads)]].cancelled = TRUE]
  /\ \/ Failed /\ UNCHANGED threads
     \/ /\ threads' = SubSeq(threads, 1, Len(threads) - 1)
        /\ flight' = [flight EXCEPT !.pc = "grow"]
        /\ UNCHANGED failures
  /\ UNCHANGED <<calling, jobVars, scaleVars>>

\* break, and the function of the flight returns.
Reconciled ==
  /\ flight.pc = "shrink" /\ ~TooMany
  /\ flight' = [flight EXCEPT !.pc = "done"]
  /\ UNCHANGED <<threads, thread, failures, calling, jobVars, scaleVars>>

\* The flight leaves the map and its members go on with its error: a job is
\* answered or goes on to workChan, the autoscaler goes on with its loop.
FlightEnds ==
  LET js == flight.members \cap Jobs IN
  /\ flight.pc = "done"
  /\ flight' = [pc |-> "idle", attempts |-> 0, err |-> FALSE, members |-> {}]
  /\ stage' = [j \in Jobs |-> IF j \in js THEN IF flight.err THEN "over" ELSE "sending"
                              ELSE stage[j]]
  /\ IF flight.err THEN Answered(js, "err") ELSE Unanswered
  /\ scaler' = [scaler EXCEPT !.pc = IF "scale" \in flight.members THEN "idle" ELSE @]
  /\ UNCHANGED <<threads, thread, failures, calling, spawned, adrift, workChan, recent,
                 timed, registered, target, scalings>>

\* schedule: the job waits for room in workChan and counts for the rate.
Enqueue(j) ==
  /\ stage[j] = "sending" /\ Len(workChan) < ChanSize
  /\ workChan' = Append(workChan, j)
  /\ stage' = [stage EXCEPT ![j] = "queued"]
  /\ recent' = TRUE
  /\ UNCHANGED <<poolVars, calling, spawned, answer, sends, adrift, scaleVars>>

-----------------------------------------------------------------------------
(* A work thread *)

\* Fault: a thread that finds no job ends, and still counts.
ThreadTopGivesUp(t) ==
  /\ thread[t].st = "top"
  /\ thread' = [thread EXCEPT ![t].st = IF thread[t].cancelled \/ workChan = <<>>
                                       THEN "dead" ELSE "waiting"]
  /\ UNCHANGED <<threads, flight, failures, calling, jobVars, scaleVars>>

\* The check at the top of the loop.
ThreadTop(t) ==
  /\ thread[t].st = "top"
  /\ thread' = [thread EXCEPT ![t].st = IF thread[t].cancelled THEN "dead" ELSE "waiting"]
  /\ UNCHANGED <<threads, flight, failures, calling, jobVars, scaleVars>>

\* A thread that waits for a job takes it, cancelled or not.
TakeJob(t) ==
  /\ thread[t].st = "waiting" /\ workChan # <<>>
  /\ thread' = [thread EXCEPT ![t] = [@ EXCEPT !.st = "running", !.job = Head(workChan)]]
  /\ stage' = [stage EXCEPT ![Head(workChan)] = "running"]
  /\ workChan' = Tail(workChan)
  /\ UNCHANGED <<threads, flight, failures, calling, spawned, answer, sends, adrift,
                 recent, scaleVars>>

BackToTop(t) ==
  thread' = [thread EXCEPT ![t] = [@ EXCEPT !.st = "top", !.job = NoJob]]

\* Run waits on its thread for what it has done: ctx.Do(...).Then(), or Wait.
RunAwaits(t) ==
  /\ thread[t].st = "running"
  /\ \E k \in spawned[thread[t].job] : answer[k] = "none"
  /\ thread' = [thread EXCEPT ![t].st = "awaiting"]
  /\ UNCHANGED <<threads, flight, failures, calling, jobVars, scaleVars>>

RunResumes(t) ==
  /\ thread[t].st = "awaiting"
  /\ \A k \in spawned[thread[t].job] : answer[k] # "none"
  /\ thread' = [thread EXCEPT ![t].st = "running"]
  /\ UNCHANGED <<threads, flight, failures, calling, jobVars, scaleVars>>

\* Run returns an error, a value, or the Result or Group of what it has done.
RunReturns(t) ==
  LET j == thread[t].job IN
  /\ thread[t].st = "running"
  /\ \/ \E a \in {"ok", "err"} :
          Answered({j}, a) /\ stage' = [stage EXCEPT ![j] = "over"]
     \/ /\ spawned[j] # {}
        /\ stage' = [stage EXCEPT ![j] = "chained"]
        /\ Unanswered
  /\ BackToTop(t)
  /\ UNCHANGED <<threads, flight, failures, calling, spawned, adrift, workChan, recent,
                 scaleVars>>

\* Fault: a job that timed out is queued once more if there is room.
RunTimesOutRetries(t) ==
  LET j == thread[t].job IN
  /\ timed /\ thread[t].st \in {"running", "awaiting"} /\ Len(workChan) < ChanSize
  /\ workChan' = Append(workChan, j)
  /\ stage' = [stage EXCEPT ![j] = "queued"]
  /\ Unanswered
  /\ adrift' = adrift \cup {j}
  /\ BackToTop(t)
  /\ UNCHANGED <<threads, flight, failures, calling, spawned, recent, scaleVars>>

\* runWithTimeout gives up, also on a Run that waits; the goroutine of Run goes
\* on, and what it returns is pushed into a channel nobody reads.
RunTimesOut(t) ==
  LET j == thread[t].job IN
  /\ timed /\ thread[t].st \in {"running", "awaiting"}
  /\ Answered({j}, "err")
  /\ stage' = [stage EXCEPT ![j] = "over"]
  /\ adrift' = adrift \cup {j}
  /\ BackToTop(t)
  /\ UNCHANGED <<threads, flight, failures, calling, spawned, workChan, recent, scaleVars>>

-----------------------------------------------------------------------------
(* The autoscaler loop, and DeRegister *)

\* average() over a time nobody knows: any rate if a job came by, otherwise 0.
Rates == IF recent THEN 0 .. 2 * MaxThreads + 1 ELSE {0}

Busy(jobs, rate, n) == jobs > 2 * n \/ rate > 2 * n
Quiet(jobs, rate, n) == jobs < n \div 2 /\ rate < n \div 2

Least(a, b) == IF a <= b THEN a ELSE b
Most(a, b) == IF a >= b THEN a ELSE b

\* One look of the loop at the worker: metrics, which resets the rate, and the
\* size to set.  The loop holds the read lock of the scaler from here on.
ScaleDecide ==
  LET n == Len(threads) IN
  /\ scaler.pc = "idle" /\ registered /\ ~Removing /\ scalings < MaxScalings
  /\ \E rate \in Rates :
       \/ /\ Busy(Len(workChan), rate, n)
          /\ scaler' = [pc |-> "set", size |-> Least(2 * n, AutoscaleMax)]
       \/ /\ Quiet(Len(workChan), rate, n)
          /\ scaler' = [pc |-> "set", size |-> Most(n \div 2, PoolSize)]
  /\ recent' = FALSE
  /\ scalings' = scalings + 1
  /\ UNCHANGED <<poolVars, calling, stage, spawned, answer, sends, adrift, workChan,
                 timed, registered, target>>

\* setThreadCount
ScaleSet ==
  /\ scaler.pc = "set"
  /\ target' = scaler.size
  /\ scaler' = [scaler EXCEPT !.pc = "reconciling"]
  /\ calling' = calling \cup {"scale"}
  /\ UNCHANGED <<poolVars, jobVars, timed, registered, scalings>>

\* Metrics of the scheduler, or a look at the worker that changes nothing.
Metrics ==
  /\ recent
  /\ recent' = FALSE
  /\ UNCHANGED <<poolVars, calling, stage, spawned, answer, sends, adrift, workChan,
                 scaleVars>>

\* removeWorker, under the write lock of the scaler, and stop.
DeRegister ==
  /\ DeRegisters /\ registered /\ scaler.pc = "idle"
  /\ registered' = FALSE
  /\ target' = 0
  /\ calling' = calling \cup {"stop"}
  /\ UNCHANGED <<poolVars, jobVars, timed, scaler, scalings>>

-----------------------------------------------------------------------------

JobStep(j) == Enqueue(j) \/ ChainAnswered(j) \/ \E k \in Jobs : RunDoes(j, k)
FlightStep == EnoughThreads \/ addThread \/ removeThread \/ Reconciled \/ FlightEnds
ThreadStep(t) ==
  ThreadTop(t) \/ TakeJob(t) \/ RunAwaits(t) \/ RunResumes(t) \/ RunReturns(t) \/ RunTimesOut(t)

Next ==
  \/ \E j \in Jobs : Submit(j) \/ JobStep(j)
  \/ \E c \in Callers : Join(c)
  \/ FlightStep
  \/ \E t \in Threads : ThreadStep(t)
  \/ ScaleDecide \/ ScaleSet \/ Metrics \/ DeRegister

Spec == Init /\ [][Next]_vars

\* Goroutines that can go on do so, a Run that does not wait for others returns or
\* times out, and a Runnable does not fail forever.  Nobody has to submit, scale
\* or remove anything.
Fairness ==
  /\ \A j \in Jobs : WF_vars(Enqueue(j)) /\ WF_vars(ChainAnswered(j))
  /\ \A c \in Callers : WF_vars(Join(c))
  /\ WF_vars(FlightStep)
  /\ \A t \in Threads : WF_vars(ThreadStep(t))
  /\ WF_vars(ScaleSet)

FairSpec == Spec /\ Fairness

-----------------------------------------------------------------------------
(* Properties *)

\* schedule, run, sendResult: a Result gets one answer.  Its channels hold one
\* signal each, so a second one would block the goroutine that sends it, a
\* work thread among them, for good.
AnsweredOnce ==
  \A j \in Jobs : sends[j] <= 1

\* schedule, reconcilePoolSize: a job that nobody is working on any more has
\* been answered, and one that has been answered is nowhere in the worker.
NoJobForgotten ==
  \A j \in Jobs :
    /\ stage[j] = "over" <=> answer[j] # "none"
    /\ stage[j] = "scheduled" <=> j \in calling \cup flight.members
    /\ stage[j] = "queued" <=> \E i \in 1 .. Len(workChan) : workChan[i] = j
    /\ stage[j] = "running" <=> \E t \in Threads : thread[t].job = j

\* The jobs of a worker: each has one answer at most and is in one place.
JobsInvariant == AnsweredOnce /\ NoJobForgotten

\* The Result of a job, as its owner sees it.  The Run of a job that timed out
\* may go on, but its job is over.
Status(j) ==
  CASE answer[j] # "none"                           -> answer[j]
    [] answer[j] = "none" /\ stage[j] = "new"       -> "new"
    [] answer[j] = "none" /\ stage[j] \in {"scheduled", "sending", "queued"} -> "pending"
    [] answer[j] = "none" /\ stage[j] \in {"running", "chained"} -> "running"
    [] OTHER                                        -> "lost"

Statuses == [j \in Jobs |-> Status(j)]

Results == INSTANCE JobResults WITH status <- Statuses

\* core.do to sendResult: the worker does what JobResults promises, whatever
\* becomes of its pool: a job is run at most once, one whose reconciliation
\* failed is refused and never run, and the first outcome of a Result stays.
ImplementsResults == Results!Spec

Listed == {threads[i] : i \in 1 .. Len(threads)}

\* reconcilePoolSize "starts and stops runners until `poolSize` are active": no
\* thread runs on that the worker no longer counts, and those that it counts and
\* has told to stop are no more than the times OnChange has failed (a thread is
\* cancelled before OnChange fails and then still counts).
PoolIsActive ==
  /\ \A t \in Threads : thread[t].st # "unborn" /\ t \notin Listed => thread[t].cancelled
  /\ Cardinality({t \in Listed : thread[t].cancelled}) <= failures

\* startAutoscaler, removeWorker: the autoscaler keeps the target between the
\* pool size and the maximum, and a worker that was removed is not revived by
\* a decision taken while it was there.
TargetInRange ==
  IF registered THEN target \in PoolSize .. Most(PoolSize, AutoscaleMax) ELSE target = 0

\* The pool of a worker, with its target, its list and its threads: the target is
\* in range, the listed threads are the active ones but for those whose removal
\* failed, and the state has its type.
PoolInvariant == TypeOK /\ PoolIsActive /\ TargetInRange

\* Without a timeout, which is the default, all threads of the pool wait in a Run
\* for jobs that no thread is left to take.
SelfBlocked ==
  /\ ~timed /\ \E t \in Threads : thread[t].st = "awaiting"
  /\ \A t \in Threads : thread[t].st \in {"unborn", "awaiting", "dead"}

\* Then "returns the result or error from a Result": every job that was done is
\* answered, unless the worker is removed (a job that is queued then may be left
\* without a thread) or its threads all wait for jobs of their own pool.
EveryJobAnswered ==
  \A j \in Jobs : stage[j] # "new" ~> (answer[j] # "none" \/ ~registered \/ SelfBlocked)
=============================================================================
