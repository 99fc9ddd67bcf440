---------------------------- MODULE WorkerProofs ----------------------------
(***************************************************************************)
(* Proofs about Worker for any jobs, sizes, retries and failures: every    *)
(* job has one place and one answer, the pool is in range, and the worker  *)
(* does what JobResults promises.                                          *)
(***************************************************************************)
EXTENDS Worker, FiniteSetTheorems, FunctionTheorems, SequenceTheorems, TLAPS

USE DEF NoJob

\* A Result has been sent one answer if it has one.
OneAnswer == \A j \in Jobs : sends[j] = (IF answer[j] = "none" THEN 0 ELSE 1)

\* The thread is in a Run, which may wait for others.
InRun(t) == thread[t].st \in {"running", "awaiting"}

\* Where a job is, it is once: it calls or is in a flight, has one place in the
\* queue, and runs on one thread; only a thread in a Run has a job.
OnePlace ==
  /\ \A j \in Jobs : ~(j \in calling /\ j \in flight.members)
  /\ flight.pc = "idle" => flight.members = {}
  /\ \A i, k \in 1 .. Len(workChan) : workChan[i] = workChan[k] => i = k
  /\ \A t \in Threads : InRun(t) <=> thread[t].job # NoJob
  /\ \A t, u \in Threads : thread[t].job = thread[u].job /\ thread[t].job # NoJob => t = u

JobInv == OneAnswer /\ NoJobForgotten /\ OnePlace

\* The list of threads: those that were started, each once.
ListInv ==
  /\ \A i \in 1 .. Len(threads) : thread[threads[i]].st # "unborn"
  /\ \A i, k \in 1 .. Len(threads) : threads[i] = threads[k] => i = k
  /\ \A t \in Threads : thread[t].st = "unborn" => ~thread[t].cancelled
  /\ PoolIsActive

\* A flight that has got past its first comparison, and whatever comes after one
\* that ended well, is there only since the pool has reached its size.
Grown ==
  \/ flight.pc = "shrink"
  \/ flight.pc = "done" /\ ~flight.err
  \/ \E j \in Jobs : stage[j] = "sending"
  \/ workChan # <<>>
  \/ recent

RangeInv ==
  /\ Len(threads) <= AutoscaleMax
  /\ TargetInRange
  /\ scaler.pc # "idle" => registered
  /\ scaler.pc = "set" => scaler.size \in PoolSize .. AutoscaleMax
  /\ registered /\ Grown => Len(threads) >= PoolSize

-----------------------------------------------------------------------------
(* Type correctness *)

LEMMA DropLast ==
  ASSUME NEW S, NEW s \in Seq(S), Len(s) > 0
  PROVE  /\ SubSeq(s, 1, Len(s) - 1) \in Seq(S)
         /\ Len(SubSeq(s, 1, Len(s) - 1)) = Len(s) - 1
         /\ \A i \in 1 .. Len(s) - 1 : SubSeq(s, 1, Len(s) - 1)[i] = s[i]
<1> DEFINE n == Len(s) - 1
<1>1. n \in Nat /\ \A i \in 1 .. n : s[i] \in S
  OBVIOUS
<1> HIDE DEF n
<1>2. /\ SubSeq(s, 1, n) \in Seq(S)
      /\ Len(SubSeq(s, 1, n)) = IF 1 <= n THEN n - 1 + 1 ELSE 0
      /\ \A i \in 1 .. n - 1 + 1 : SubSeq(s, 1, n)[i] = s[1 + i - 1]
  <2>1. 1 \in Int /\ n \in Int
    BY <1>1
  <2>2. QED
    BY <1>1, <2>1, SubSeqProperties, SMTT(30)
<1>3. /\ SubSeq(s, 1, n) \in Seq(S)
      /\ Len(SubSeq(s, 1, n)) = n
      /\ \A i \in 1 .. n : SubSeq(s, 1, n)[i] = s[i]
  BY <1>1, <1>2
<1>4. QED
  BY <1>3 DEF n

LEMMA InitType == Init => TypeOK
<1> SUFFICES ASSUME Init PROVE TypeOK
  OBVIOUS
<1> USE SizesAssumption, SwitchesAssumption DEF Init
<1>1. thread \in [Threads -> ThreadType]
  BY DEF ThreadType
<1>2. flight \in FlightType
  BY DEF FlightType
<1>3. scaler \in ScalerType
  BY DEF ScalerType
<1>4. calling \subseteq Callers /\ timed \in BOOLEAN
  BY DEF Callers
<1>5. stage \in [Jobs -> Stages] /\ spawned \in [Jobs -> SUBSET Jobs]
      /\ answer \in [Jobs -> Answers] /\ sends \in [Jobs -> Nat]
  BY DEF Stages, Answers
<1>6. target \in Nat /\ failures \in 0 .. MaxFailures /\ scalings \in 0 .. MaxScalings
  OBVIOUS
<1>7. threads \in Seq(Threads) /\ workChan \in Seq(Jobs)
  OBVIOUS
<1>8. QED
  BY <1>1, <1>2, <1>3, <1>4, <1>5, <1>6, <1>7 DEF TypeOK

\* Do of a job, by its owner or by another job's Run.
LEMMA DoType ==
  ASSUME TypeOK, NEW j \in Jobs, Do(j)
  PROVE  /\ stage' \in [Jobs -> Stages] /\ calling' \subseteq Callers
         /\ answer' \in [Jobs -> Answers] /\ sends' \in [Jobs -> Nat]
<1>1. stage' \in [Jobs -> Stages]
  BY DEF Do, TypeOK, Stages
<1>2. calling' \subseteq Callers
  BY DEF Do, TypeOK, Callers
<1>3. answer' \in [Jobs -> Answers]
  BY DEF Do, Answered, Unanswered, TypeOK, Answers
<1>4. sends' \in [Jobs -> Nat]
  BY DEF Do, Answered, Unanswered, TypeOK
<1>5. QED
  BY <1>1, <1>2, <1>3, <1>4

LEMMA AnsweredType ==
  ASSUME TypeOK, NEW js, NEW a \in Answers, Answered(js, a)
  PROVE  answer' \in [Jobs -> Answers] /\ sends' \in [Jobs -> Nat]
  BY DEF Answered, TypeOK

LEMMA FailedType ==
  ASSUME TypeOK, Failed
  PROVE  flight' \in FlightType /\ failures' \in 0 .. MaxFailures
<1>1. failures' \in 0 .. MaxFailures
  BY SizesAssumption DEF Failed, TypeOK
<1>2. CASE flight.attempts > NumRetries
  BY <1>1, <1>2 DEF Failed, TypeOK, FlightType
<1>3. CASE ~(flight.attempts > NumRetries)
  <2>1. flight.attempts + 1 \in Nat
    BY DEF TypeOK, FlightType
  <2>2. flight' = [flight EXCEPT !.pc = "grow", !.attempts = flight.attempts + 1]
    BY <1>3 DEF Failed
  <2>3. QED
    BY <1>1, <2>1, <2>2 DEF TypeOK, FlightType
<1>4. QED
  BY <1>2, <1>3

LEMMA BackToTopType ==
  ASSUME TypeOK, NEW t \in Threads, BackToTop(t)
  PROVE  thread' \in [Threads -> ThreadType]
  BY ZenonT(60) DEF BackToTop, TypeOK, ThreadType

LEMMA StepType == TypeOK /\ [Next]_vars => TypeOK'
<1> SUFFICES ASSUME TypeOK, [Next]_vars
             PROVE  TypeOK'
  OBVIOUS
<1> USE SizesAssumption DEF poolVars, jobVars, scaleVars
<1>1. ASSUME NEW j \in Jobs, Submit(j)
      PROVE  TypeOK'
  BY <1>1, DoType DEF Submit, TypeOK
<1>2. ASSUME NEW j \in Jobs, Enqueue(j)
      PROVE  TypeOK'
  BY <1>2 DEF Enqueue, TypeOK, Stages
<1>3. ASSUME NEW j \in Jobs, ChainAnswered(j)
      PROVE  TypeOK'
  <2>1. PICK a \in {"ok", "err"} : Answered({j}, a)
    BY <1>3 DEF ChainAnswered
  <2>2. answer' \in [Jobs -> Answers] /\ sends' \in [Jobs -> Nat]
    BY <2>1, AnsweredType DEF Answers
  <2>3. QED
    BY <1>3, <2>2 DEF ChainAnswered, TypeOK, Stages
<1>4. ASSUME NEW j \in Jobs, NEW k \in Jobs, RunDoes(j, k)
      PROVE  TypeOK'
  BY <1>4, DoType DEF RunDoes, TypeOK
<1>5. ASSUME NEW c \in Callers, Join(c)
      PROVE  TypeOK'
  <2>1. flight' \in FlightType
    BY <1>5 DEF Join, TypeOK, FlightType
  <2>2. QED
    BY <1>5, <2>1 DEF Join, TypeOK
<1>6. CASE EnoughThreads
  <2>1. flight' \in FlightType
    BY <1>6 DEF EnoughThreads, TypeOK, FlightType
  <2>2. QED
    BY <1>6, <2>1 DEF EnoughThreads, TypeOK
<1>7. CASE addThread
  <2>1. CASE Failed /\ UNCHANGED <<threads, thread>>
    BY <1>7, <2>1, FailedType DEF addThread, TypeOK
  <2>2. ASSUME NEW t \in Threads, thread' = [thread EXCEPT ![t].st = "top"],
               threads' = Append(threads, t), UNCHANGED <<flight, failures>>
        PROVE  TypeOK'
    <3>1. thread' \in [Threads -> ThreadType]
      BY <2>2, ZenonT(60) DEF TypeOK, ThreadType
    <3>2. QED
      BY <1>7, <2>2, <3>1 DEF addThread, TypeOK
  <2>3. QED
    BY <1>7, <2>1, <2>2 DEF addThread
<1>8. CASE removeThread
  <2>1. thread' \in [Threads -> ThreadType]
    BY <1>8, ZenonT(60) DEF removeThread, TypeOK, ThreadType
  <2>2. threads' \in Seq(Threads)
    <3>1. Len(threads) > 0
      BY <1>8 DEF removeThread, TooMany, TypeOK
    <3>2. threads \in Seq(Threads) /\ SubSeq(threads, 1, Len(threads) - 1) \in Seq(Threads)
      BY <3>1, DropLast DEF TypeOK
    <3>3. QED
      BY <1>8, <3>2 DEF removeThread
  <2>3. flight' \in FlightType /\ failures' \in 0 .. MaxFailures
    BY <1>8, FailedType DEF removeThread, TypeOK, FlightType
  <2>4. QED
    BY <1>8, <2>1, <2>2, <2>3 DEF removeThread, TypeOK
<1>9. CASE Reconciled
  <2>1. flight' \in FlightType
    BY <1>9 DEF Reconciled, TypeOK, FlightType
  <2>2. QED
    BY <1>9, <2>1 DEF Reconciled, TypeOK
<1>10. CASE FlightEnds
  <2>1. flight' \in FlightType
    BY <1>10 DEF FlightEnds, TypeOK, FlightType
  <2>2. scaler' \in ScalerType
    BY <1>10 DEF FlightEnds, TypeOK, ScalerType
  <2>3. answer' \in [Jobs -> Answers] /\ sends' \in [Jobs -> Nat]
    BY <1>10, AnsweredType DEF FlightEnds, Unanswered, TypeOK, Answers
  <2>4. QED
    BY <1>10, <2>1, <2>2, <2>3 DEF FlightEnds, TypeOK, Stages
<1>11. ASSUME NEW t \in Threads, ThreadTop(t)
       PROVE  TypeOK'
  <2>1. thread' \in [Threads -> ThreadType]
    BY <1>11, ZenonT(60) DEF ThreadTop, TypeOK, ThreadType
  <2>2. QED
    BY <1>11, <2>1 DEF ThreadTop, TypeOK
<1>12. ASSUME NEW t \in Threads, TakeJob(t)
       PROVE  TypeOK'
  <2>1. Head(workChan) \in Jobs /\ workChan' \in Seq(Jobs)
    BY <1>12 DEF TakeJob, TypeOK
  <2>2. thread' \in [Threads -> ThreadType]
    BY <1>12, <2>1 DEF TakeJob, TypeOK, ThreadType
  <2>3. QED
    BY <1>12, <2>1, <2>2 DEF TakeJob, TypeOK, Stages
<1>13. ASSUME NEW t \in Threads, RunReturns(t)
       PROVE  TypeOK'
  <2>1. thread' \in [Threads -> ThreadType]
    BY <1>13, BackToTopType DEF RunReturns
  <2>2. answer' \in [Jobs -> Answers] /\ sends' \in [Jobs -> Nat]
    BY <1>13, AnsweredType, SMTT(30) DEF RunReturns, Unanswered, Answers, TypeOK
  <2>3. stage' \in [Jobs -> Stages]
    BY <1>13 DEF RunReturns, TypeOK, Stages
  <2>4. QED
    BY <1>13, <2>1, <2>2, <2>3 DEF RunReturns, TypeOK
<1>14. ASSUME NEW t \in Threads, RunTimesOut(t)
       PROVE  TypeOK'
  <2>1. thread' \in [Threads -> ThreadType]
    BY <1>14, BackToTopType DEF RunTimesOut
  <2>2. answer' \in [Jobs -> Answers] /\ sends' \in [Jobs -> Nat]
    BY <1>14, AnsweredType DEF RunTimesOut, Answers, TypeOK
  <2>3. stage' \in [Jobs -> Stages]
    BY <1>14 DEF RunTimesOut, TypeOK, Stages
  <2>4. QED
    BY <1>14, <2>1, <2>2, <2>3, SMTT(30) DEF RunTimesOut, TypeOK
<1>15. CASE ScaleDecide
  <2>1. scaler' \in ScalerType
    <3>1. Len(threads) \in Nat
      BY DEF TypeOK
    <3>2. QED
      BY <1>15, <3>1 DEF ScaleDecide, Least, Most, ScalerType
  <2>2. scalings' \in 0 .. MaxScalings
    BY <1>15 DEF ScaleDecide, TypeOK
  <2>3. UNCHANGED <<poolVars, calling, stage, spawned, answer, sends, adrift, workChan, timed,
                    registered, target>> /\ recent' = FALSE
    BY <1>15 DEF ScaleDecide
  <2>4. QED
    BY <2>1, <2>2, <2>3 DEF TypeOK
<1>16. CASE ScaleSet
  <2>1. scaler' \in ScalerType /\ target' \in Nat
    BY <1>16 DEF ScaleSet, TypeOK, ScalerType
  <2>2. QED
    BY <1>16, <2>1 DEF ScaleSet, TypeOK, Callers
<1>17. CASE Metrics
  BY <1>17 DEF Metrics, TypeOK
<1>18. CASE DeRegister
  BY <1>18 DEF DeRegister, TypeOK, Callers
<1>19. ASSUME NEW t \in Threads, RunAwaits(t) \/ RunResumes(t)
       PROVE  TypeOK'
  <2>1. thread' \in [Threads -> ThreadType]
    BY <1>19, ZenonT(60) DEF RunAwaits, RunResumes, TypeOK, ThreadType
  <2>2. QED
    BY <1>19, <2>1 DEF RunAwaits, RunResumes, TypeOK
<1>20. CASE UNCHANGED vars
  BY <1>20 DEF vars, TypeOK
<1>21. QED
  BY <1>1, <1>2, <1>3, <1>4, <1>5, <1>6, <1>7, <1>8, <1>9, <1>10, <1>11, <1>12, <1>13, <1>14,
     <1>15, <1>16, <1>17, <1>18, <1>19, <1>20
     DEF Next, JobStep, FlightStep, ThreadStep

\* newWorker, schedule, reconcilePoolSize, the threads and the autoscaler keep to
\* the types of the state, for any sizes and any set of jobs.
THEOREM TypeCorrect == Spec => []TypeOK
<1>1. QED
  BY InitType, StepType, PTL DEF Spec

-----------------------------------------------------------------------------
(* One place and one answer for every job *)

LEMMA InitJobs == Init => JobInv
  BY JobsAssumption
     DEF Init, JobInv, OneAnswer, OnePlace, NoJobForgotten, InRun

\* core.do, whoever calls it.
LEMMA DoJobs ==
  ASSUME TypeOK, JobInv, NEW j \in Jobs, Do(j), UNCHANGED <<flight, thread, workChan>>
  PROVE  JobInv'
<1> USE DEF Do, Answered, Unanswered
<1>1. OneAnswer'
  BY DEF TypeOK, JobInv, OneAnswer, NoJobForgotten
<1>2. NoJobForgotten'
  BY DEF TypeOK, JobInv, NoJobForgotten, Stages
<1>3. OnePlace'
  BY DEF TypeOK, JobInv, OnePlace, NoJobForgotten, InRun
<1>4. QED
  BY <1>1, <1>2, <1>3 DEF JobInv

\* A step that moves no job.
LEMMA IdleJobs ==
  ASSUME TypeOK, JobInv, UNCHANGED <<stage, answer, sends, workChan>>,
         calling' \cap Jobs = calling \cap Jobs, flight'.members = flight.members,
         flight'.pc = "idle" => flight.pc = "idle",
         \A t \in Threads : thread'[t].job = thread[t].job
                            /\ InRun(t)' = InRun(t)
  PROVE  JobInv'
<1>1. OneAnswer'
  BY DEF JobInv, OneAnswer
<1>2. NoJobForgotten'
  BY DEF JobInv, NoJobForgotten
<1>3. OnePlace'
  BY DEF JobInv, OnePlace, InRun
<1>4. QED
  BY <1>1, <1>2, <1>3 DEF JobInv

\* A thread goes back to the top of its loop.
LEMMA LeaveJobs ==
  ASSUME TypeOK, JobInv, NEW t \in Threads, InRun(t), BackToTop(t),
         UNCHANGED <<calling, flight, workChan>>,
         NEW s \in {"over", "chained"}, stage' = [stage EXCEPT ![thread[t].job] = s],
         NEW a \in {"none", "ok", "err"}, s = "over" <=> a # "none",
         IF a = "none" THEN Unanswered ELSE Answered({thread[t].job}, a)
  PROVE  JobInv'
<1> DEFINE j == thread[t].job
<1>1. j \in Jobs /\ stage[j] = "running" /\ answer[j] = "none"
  BY DEF InRun, TypeOK, ThreadType, JobInv, OnePlace, NoJobForgotten
<1>2. /\ thread'[t].st = "top" /\ thread'[t].job = NoJob
      /\ \A u \in Threads \ {t} : thread'[u] = thread[u]
  BY DEF BackToTop, TypeOK, ThreadType
<1>3. /\ stage'[j] = s /\ answer'[j] = a
      /\ \A k \in Jobs \ {j} : stage'[k] = stage[k] /\ answer'[k] = answer[k] /\ sends'[k] = sends[k]
  BY <1>1 DEF TypeOK, Answered, Unanswered
<1>4. OneAnswer'
  BY <1>1, <1>3 DEF JobInv, OneAnswer, Answered, Unanswered, TypeOK
<1>5. NoJobForgotten'
  <2> SUFFICES ASSUME NEW k \in Jobs
               PROVE  /\ stage'[k] = "over" <=> answer'[k] # "none"
                      /\ stage'[k] = "scheduled" <=> k \in calling' \cup flight'.members
                      /\ stage'[k] = "queued" <=> \E i \in 1 .. Len(workChan') : workChan'[i] = k
                      /\ stage'[k] = "running" <=> \E u \in Threads : thread'[u].job = k
    BY DEF NoJobForgotten
  <2>1. CASE k = j
    <3>1. \A u \in Threads : thread'[u].job # j
      BY <1>1, <1>2, JobsAssumption DEF JobInv, OnePlace, InRun
    <3>2. QED
      BY <1>1, <1>3, <2>1, <3>1 DEF JobInv, NoJobForgotten
  <2>2. CASE k # j
    <3>1. (\E u \in Threads : thread'[u].job = k) <=> \E u \in Threads : thread[u].job = k
      BY <1>2, <2>2, JobsAssumption
    <3>2. QED
      BY <1>3, <2>2, <3>1 DEF JobInv, NoJobForgotten
  <2>3. QED
    BY <2>1, <2>2
<1>6. OnePlace'
  BY <1>2 DEF JobInv, OnePlace, InRun
<1>7. QED
  BY <1>4, <1>5, <1>6 DEF JobInv

LEMMA StepJobs == TypeOK /\ JobInv /\ [Next]_vars => JobInv'
<1> SUFFICES ASSUME TypeOK, JobInv, [Next]_vars
             PROVE  JobInv'
  OBVIOUS
<1> USE DEF poolVars, jobVars, scaleVars
<1>1. ASSUME NEW j \in Jobs, Submit(j)
      PROVE  JobInv'
  BY <1>1, DoJobs DEF Submit
<1>2. ASSUME NEW j \in Jobs, Enqueue(j)
      PROVE  JobInv'
  <2>1. /\ Len(workChan') = Len(workChan) + 1 /\ workChan'[Len(workChan) + 1] = j
        /\ \A i \in 1 .. Len(workChan) : workChan'[i] = workChan[i]
    BY <1>2 DEF Enqueue, TypeOK
  <2>2. \A i \in 1 .. Len(workChan) : workChan[i] # j
    BY <1>2 DEF Enqueue, JobInv, NoJobForgotten
  <2>3. Len(workChan) \in Nat
    BY DEF TypeOK
  <2>4. OneAnswer'
    BY <1>2 DEF Enqueue, JobInv, OneAnswer
  <2>5. NoJobForgotten'
    <3> SUFFICES ASSUME NEW k \in Jobs
                 PROVE  /\ stage'[k] = "over" <=> answer'[k] # "none"
                        /\ stage'[k] = "scheduled" <=> k \in calling' \cup flight'.members
                        /\ stage'[k] = "queued" <=> \E i \in 1 .. Len(workChan') : workChan'[i] = k
                        /\ stage'[k] = "running" <=> \E u \in Threads : thread'[u].job = k
      BY DEF NoJobForgotten
    <3>1. (\E i \in 1 .. Len(workChan') : workChan'[i] = k)
            <=> k = j \/ \E i \in 1 .. Len(workChan) : workChan[i] = k
      BY <2>1, <2>3
    <3>2. QED
      BY <1>2, <3>1, SMTT(30) DEF Enqueue, JobInv, NoJobForgotten, TypeOK
  <2>6. OnePlace'
    <3>1. \A i, k \in 1 .. Len(workChan') : workChan'[i] = workChan'[k] => i = k
      BY <2>1, <2>2, <2>3 DEF JobInv, OnePlace, InRun
    <3>2. QED
      BY <1>2, <3>1 DEF Enqueue, JobInv, OnePlace, InRun
  <2>7. QED
    BY <2>4, <2>5, <2>6 DEF JobInv
<1>3. ASSUME NEW j \in Jobs, ChainAnswered(j)
      PROVE  JobInv'
  <2>1. PICK a \in {"ok", "err"} : Answered({j}, a)
    BY <1>3 DEF ChainAnswered
  <2>2. OneAnswer'
    BY <1>3, <2>1 DEF ChainAnswered, Answered, JobInv, OneAnswer, NoJobForgotten, TypeOK
  <2>3. NoJobForgotten'
    BY <1>3, <2>1 DEF ChainAnswered, Answered, JobInv, NoJobForgotten, TypeOK
  <2>4. OnePlace'
    BY <1>3 DEF ChainAnswered, JobInv, OnePlace, InRun
  <2>5. QED
    BY <2>2, <2>3, <2>4 DEF JobInv
<1>4. ASSUME NEW j \in Jobs, NEW k \in Jobs, RunDoes(j, k)
      PROVE  JobInv'
  BY <1>4, DoJobs DEF RunDoes
<1>5. ASSUME NEW c \in Callers, Join(c)
      PROVE  JobInv'
  <2>1. flight'.members = flight.members \cup {c} /\ flight'.pc # "idle"
    BY <1>5 DEF Join, TypeOK, FlightType, JobInv, OnePlace
  <2>2. OneAnswer'
    BY <1>5 DEF Join, JobInv, OneAnswer
  <2>3. NoJobForgotten'
    BY <1>5, <2>1 DEF Join, JobInv, NoJobForgotten
  <2>4. OnePlace'
    BY <1>5, <2>1 DEF Join, JobInv, OnePlace, InRun
  <2>5. QED
    BY <2>2, <2>3, <2>4 DEF JobInv
<1>6. CASE EnoughThreads \/ Reconciled
  BY <1>6, IdleJobs DEF InRun, EnoughThreads, Reconciled, TypeOK, FlightType
<1>7. CASE addThread
  <2>1. flight'.members = flight.members /\ flight'.pc # "idle"
    BY <1>7 DEF addThread, TooFew, Failed, TypeOK, FlightType
  <2>2. \A t \in Threads : thread'[t].job = thread[t].job
                           /\ InRun(t)' = InRun(t)
    <3>1. ASSUME NEW u \in Threads, thread[u].st = "unborn", thread' = [thread EXCEPT ![u].st = "top"]
          PROVE  \A t \in Threads : thread'[t].job = thread[t].job
                                    /\ InRun(t)' = InRun(t)
      BY <3>1 DEF InRun, TypeOK, ThreadType
    <3>2. QED
      BY <1>7, <3>1 DEF addThread, InRun
  <2>3. QED
    BY <1>7, <2>1, <2>2, IdleJobs DEF addThread
<1>8. CASE removeThread
  <2>1. flight'.members = flight.members /\ flight'.pc # "idle"
    BY <1>8 DEF removeThread, TooMany, Failed, TypeOK, FlightType
  <2>2. \A t \in Threads : thread'[t].job = thread[t].job
                           /\ InRun(t)' = InRun(t)
    BY <1>8 DEF InRun, removeThread, TypeOK, ThreadType
  <2>3. QED
    BY <1>8, <2>1, <2>2, IdleJobs DEF removeThread
<1>10. CASE FlightEnds
  <2>1. flight'.pc = "idle" /\ flight'.members = {}
    BY <1>10 DEF FlightEnds
  <2>2. \A k \in Jobs : k \in flight.members => k \notin calling
    BY DEF JobInv, OnePlace, InRun
  <2>3. OneAnswer'
    <3>1. CASE flight.err
      <4>1. \A k \in flight.members \cap Jobs : answer[k] = "none"
        BY DEF JobInv, NoJobForgotten
      <4>2. Answered(flight.members \cap Jobs, "err")
        BY <1>10, <3>1 DEF FlightEnds
      <4>3. QED
        BY <4>1, <4>2 DEF Answered, JobInv, OneAnswer, TypeOK
    <3>2. CASE ~flight.err
      BY <1>10, <3>2 DEF FlightEnds, Unanswered, JobInv, OneAnswer
    <3>3. QED
      BY <3>1, <3>2
  <2>4. NoJobForgotten'
    <3> SUFFICES ASSUME NEW k \in Jobs
                 PROVE  /\ stage'[k] = "over" <=> answer'[k] # "none"
                        /\ stage'[k] = "scheduled" <=> k \in calling' \cup flight'.members
                        /\ stage'[k] = "queued" <=> \E i \in 1 .. Len(workChan') : workChan'[i] = k
                        /\ stage'[k] = "running" <=> \E u \in Threads : thread'[u].job = k
      BY DEF NoJobForgotten
    <3>1. CASE k \in flight.members
      BY <1>10, <2>1, <2>2, <3>1
         DEF FlightEnds, Answered, Unanswered, JobInv, NoJobForgotten, TypeOK
    <3>2. CASE k \notin flight.members
      BY <1>10, <2>1, <3>2, SMTT(30)
         DEF FlightEnds, Answered, Unanswered, JobInv, NoJobForgotten, TypeOK
    <3>3. QED
      BY <3>1, <3>2
  <2>5. OnePlace'
    BY <1>10, <2>1 DEF FlightEnds, JobInv, OnePlace, InRun
  <2>6. QED
    BY <2>3, <2>4, <2>5 DEF JobInv
<1>11. ASSUME NEW t \in Threads, ThreadTop(t)
       PROVE  JobInv'
  <2>1. \A u \in Threads : thread'[u].job = thread[u].job
                           /\ InRun(u)' = InRun(u)
    BY <1>11 DEF InRun, ThreadTop, TypeOK, ThreadType
  <2>2. QED
    BY <1>11, <2>1, IdleJobs DEF ThreadTop
<1>12. ASSUME NEW t \in Threads, TakeJob(t)
       PROVE  JobInv'
  <2> DEFINE j == Head(workChan)
  <2>1. /\ j \in Jobs /\ workChan[1] = j /\ Len(workChan) \in Nat \ {0}
        /\ Len(workChan') = Len(workChan) - 1
        /\ \A i \in 1 .. Len(workChan') : workChan'[i] = workChan[i + 1]
    BY <1>12, HeadTailProperties DEF TakeJob, TypeOK
  <2>2. stage[j] = "queued" /\ \A u \in Threads : thread[u].job # j
    BY <2>1 DEF JobInv, NoJobForgotten
  <2>3. /\ thread'[t].st = "running" /\ thread'[t].job = j
        /\ \A u \in Threads \ {t} : thread'[u] = thread[u]
    BY <1>12, <2>1 DEF TakeJob, TypeOK, ThreadType
  <2>4. thread[t].job = NoJob
    BY <1>12 DEF TakeJob, InRun, JobInv, OnePlace
  <2>5. OneAnswer'
    BY <1>12 DEF TakeJob, JobInv, OneAnswer
  <2>6. NoJobForgotten'
    <3> SUFFICES ASSUME NEW k \in Jobs
                 PROVE  /\ stage'[k] = "over" <=> answer'[k] # "none"
                        /\ stage'[k] = "scheduled" <=> k \in calling' \cup flight'.members
                        /\ stage'[k] = "queued" <=> \E i \in 1 .. Len(workChan') : workChan'[i] = k
                        /\ stage'[k] = "running" <=> \E u \in Threads : thread'[u].job = k
      BY DEF NoJobForgotten
    <3>1. (\E i \in 1 .. Len(workChan') : workChan'[i] = k)
            <=> k # j /\ \E i \in 1 .. Len(workChan) : workChan[i] = k
      <4>1. ASSUME NEW i \in 1 .. Len(workChan'), workChan'[i] = k
            PROVE  i + 1 \in 1 .. Len(workChan) /\ workChan[i + 1] = k /\ k # j
        BY <2>1, <4>1 DEF JobInv, OnePlace, InRun
      <4>2. ASSUME NEW i \in 1 .. Len(workChan), workChan[i] = k, k # j
            PROVE  i - 1 \in 1 .. Len(workChan') /\ workChan'[i - 1] = k
        BY <2>1, <4>2
      <4>3. QED
        BY <4>1, <4>2
    <3>2. (\E u \in Threads : thread'[u].job = k) <=> k = j \/ \E u \in Threads : thread[u].job = k
      BY <2>3, <2>4, JobsAssumption
    <3>3. stage' = [stage EXCEPT ![j] = "running"]
      BY <1>12 DEF TakeJob
    <3>4. QED
      BY <1>12, <2>1, <2>2, <3>1, <3>2, <3>3, SMTT(30)
         DEF TakeJob, JobInv, NoJobForgotten, TypeOK
  <2>7. OnePlace'
    <3>1. \A i, k \in 1 .. Len(workChan') : workChan'[i] = workChan'[k] => i = k
      <4> SUFFICES ASSUME NEW i \in 1 .. Len(workChan'), NEW k \in 1 .. Len(workChan'),
                          workChan'[i] = workChan'[k]
                   PROVE  i = k
        OBVIOUS
      <4>1. i + 1 \in 1 .. Len(workChan) /\ k + 1 \in 1 .. Len(workChan)
        BY <2>1
      <4>2. i + 1 = k + 1
        BY <2>1, <4>1 DEF JobInv, OnePlace, InRun
      <4>3. QED
        BY <2>1, <4>2
    <3>2. \A u \in Threads : InRun(u)' <=> thread'[u].job # NoJob
      BY <2>1, <2>3, JobsAssumption DEF JobInv, OnePlace, InRun
    <3>3. \A u, v \in Threads : thread'[u].job = thread'[v].job /\ thread'[u].job # NoJob => u = v
      BY <2>2, <2>3 DEF JobInv, OnePlace, InRun
    <3>4. QED
      BY <1>12, <3>1, <3>2, <3>3 DEF TakeJob, JobInv, OnePlace
  <2>8. QED
    BY <2>5, <2>6, <2>7 DEF JobInv
<1>13. ASSUME NEW t \in Threads, RunReturns(t)
       PROVE  JobInv'
  <2>1. CASE \E a \in {"ok", "err"} :
               Answered({thread[t].job}, a) /\ stage' = [stage EXCEPT ![thread[t].job] = "over"]
    BY <1>13, <2>1, LeaveJobs DEF RunReturns, InRun
  <2>2. CASE stage' = [stage EXCEPT ![thread[t].job] = "chained"] /\ Unanswered
    BY <1>13, <2>2, LeaveJobs DEF RunReturns, InRun
  <2>3. QED
    BY <1>13, <2>1, <2>2 DEF RunReturns, InRun
<1>14. ASSUME NEW t \in Threads, RunTimesOut(t)
       PROVE  JobInv'
  BY <1>14, LeaveJobs DEF RunTimesOut, InRun
<1>15. CASE ScaleDecide \/ Metrics
  BY <1>15, IdleJobs DEF InRun, ScaleDecide, Metrics
<1>16. CASE ScaleSet \/ DeRegister
  BY <1>16, IdleJobs, JobsAssumption DEF InRun, ScaleSet, DeRegister
<1>17. ASSUME NEW t \in Threads, RunAwaits(t) \/ RunResumes(t)
       PROVE  JobInv'
  <2>1. \A u \in Threads : thread'[u].job = thread[u].job
                           /\ InRun(u)' = InRun(u)
    <3>1. /\ InRun(t)' /\ InRun(t) /\ thread'[t].job = thread[t].job
          /\ \A u \in Threads \ {t} : thread'[u] = thread[u]
      BY <1>17 DEF InRun, RunAwaits, RunResumes, TypeOK, ThreadType
    <3>2. QED
      BY <3>1 DEF InRun
  <2>2. QED
    BY <1>17, <2>1, IdleJobs DEF RunAwaits, RunResumes
<1>18. CASE UNCHANGED vars
  BY <1>18, IdleJobs DEF InRun, vars
<1>19. QED
  BY <1>1, <1>2, <1>3, <1>4, <1>5, <1>6, <1>7, <1>8, <1>10, <1>11, <1>12, <1>13, <1>14,
     <1>15, <1>16, <1>17, <1>18
     DEF Next, JobStep, FlightStep, ThreadStep

\* core.do, schedule, run and sendResult: every job is in one place, and its
\* Result gets one answer, for any jobs and pools, whatever fails or times out.
THEOREM JobsCorrect == Spec => []JobsInvariant
<1>1. TypeOK /\ JobInv => JobsInvariant
  <2>1. OneAnswer => AnsweredOnce
    BY DEF OneAnswer, AnsweredOnce
  <2>2. QED
    BY <2>1 DEF JobInv, JobsInvariant
<1>2. QED
  BY <1>1, InitType, StepType, InitJobs, StepJobs, PTL DEF Spec

-----------------------------------------------------------------------------
(* The worker implements JobResults *)

\* The status of a job by its stage, while no job is forgotten.
StatusOf(j) ==
  IF stage[j] = "over" THEN answer[j]
  ELSE IF stage[j] = "new" THEN "new"
  ELSE IF stage[j] \in {"running", "chained"} THEN "running" ELSE "pending"

StagesTell == \A j \in Jobs : Status(j) = StatusOf(j)

LEMMA StatusByStage == TypeOK /\ JobInv => StagesTell
  BY DEF TypeOK, JobInv, NoJobForgotten, StagesTell, Status, StatusOf, Stages, Answers

LEMMA StatusByStageNext == TypeOK' /\ JobInv' => StagesTell'
  BY StatusByStage, PTL

LEMMA InitResults == Init => Results!Init
  BY DEF Init, Results!Init, Statuses, Status

\* A step that changes the status of one job at most.
LEMMA OneStatus ==
  ASSUME TypeOK, JobInv, TypeOK', JobInv', NEW j \in Jobs,
         \A k \in Jobs \ {j} : stage'[k] = stage[k] /\ answer'[k] = answer[k]
  PROVE  /\ Statuses' = [Statuses EXCEPT ![j] = StatusOf(j)']
         /\ Statuses[j] = StatusOf(j)
<1>1. \A k \in Jobs : Status(k) = StatusOf(k) /\ Status(k)' = StatusOf(k)'
  BY StatusByStage, StatusByStageNext DEF StagesTell
<1>2. \A k \in Jobs \ {j} : StatusOf(k)' = StatusOf(k)
  BY DEF StatusOf
<1>3. QED
  BY <1>1, <1>2 DEF Statuses

LEMMA SameStatus ==
  ASSUME TypeOK, JobInv, TypeOK', JobInv', \A k \in Jobs : StatusOf(k)' = StatusOf(k)
  PROVE  UNCHANGED Statuses
<1>1. \A k \in Jobs : Status(k) = StatusOf(k) /\ Status(k)' = StatusOf(k)'
  BY StatusByStage, StatusByStageNext DEF StagesTell
<1>2. QED
  BY <1>1 DEF Statuses

\* core.do takes a job or refuses it.
LEMMA DoResults ==
  ASSUME TypeOK, JobInv, TypeOK', JobInv', NEW j \in Jobs, Do(j)
  PROVE  Results!Do(j)
<1>1. /\ stage[j] = "new" /\ StatusOf(j)' \in {"pending", "err"}
      /\ \A k \in Jobs \ {j} : stage'[k] = stage[k] /\ answer'[k] = answer[k]
  BY DEF Do, Answered, Unanswered, StatusOf, TypeOK
<1>2. QED
  BY <1>1, OneStatus DEF Results!Do, StatusOf

\* The Run of a job has returned or timed out, or the Group it left has.
LEMMA FinishResults ==
  ASSUME TypeOK, JobInv, TypeOK', JobInv', NEW j \in Jobs, stage[j] \in {"running", "chained"},
         NEW a \in {"ok", "err"}, Answered({j}, a), stage' = [stage EXCEPT ![j] = "over"]
  PROVE  Results!Finish(j)
<1>1. /\ StatusOf(j)' = a
      /\ \A k \in Jobs \ {j} : stage'[k] = stage[k] /\ answer'[k] = answer[k]
  BY DEF Answered, StatusOf, TypeOK
<1>2. QED
  BY <1>1, OneStatus DEF Results!Finish, StatusOf

LEMMA StepResults ==
  ASSUME TypeOK, JobInv, TypeOK', JobInv', [Next]_vars
  PROVE  Results!Next \/ UNCHANGED Statuses
<1> USE DEF poolVars, jobVars, scaleVars
<1> DEFINE Goal == Results!Next \/ UNCHANGED Statuses
<1>1. ASSUME NEW j \in Jobs, Submit(j) \/ \E k \in Jobs : RunDoes(k, j)
      PROVE  Goal
  BY <1>1, DoResults DEF Submit, RunDoes, Results!Next
<1>2. ASSUME NEW j \in Jobs, ChainAnswered(j)
      PROVE  Goal
  BY <1>2, FinishResults DEF ChainAnswered, Results!Next
<1>3. ASSUME NEW t \in Threads, TakeJob(t)
      PROVE  Goal
  <2>1. PICK j \in Jobs : j = Head(workChan) /\ workChan[1] = j /\ 1 \in 1 .. Len(workChan)
    BY <1>3, HeadTailProperties DEF TakeJob, TypeOK
  <2>2. stage[j] = "queued"
    BY <2>1 DEF JobInv, NoJobForgotten
  <2>3. /\ StatusOf(j)' = "running"
        /\ \A k \in Jobs \ {j} : stage'[k] = stage[k] /\ answer'[k] = answer[k]
    BY <1>3, <2>1 DEF TakeJob, StatusOf, TypeOK
  <2>4. Results!Run(j)
    BY <2>1, <2>2, <2>3, OneStatus DEF Results!Run, StatusOf
  <2>5. QED
    BY <2>1, <2>4 DEF Results!Next
<1>4. ASSUME NEW t \in Threads, RunReturns(t) \/ RunTimesOut(t)
      PROVE  Goal
  <2> DEFINE j == thread[t].job
  <2>1. j \in Jobs /\ stage[j] = "running"
    BY <1>4 DEF RunReturns, RunTimesOut, InRun, TypeOK, ThreadType, JobInv, OnePlace, NoJobForgotten
  <2>2. ASSUME NEW a \in {"ok", "err"}, Answered({j}, a), stage' = [stage EXCEPT ![j] = "over"]
        PROVE  Goal
    <3>1. Results!Finish(j)
      BY <2>1, <2>2, FinishResults
    <3>2. QED
      BY <2>1, <3>1 DEF Results!Next
  <2>3. CASE stage' = [stage EXCEPT ![j] = "chained"] /\ Unanswered
    <3>1. \A k \in Jobs : StatusOf(k)' = StatusOf(k)
      BY <2>1, <2>3 DEF StatusOf, Unanswered, TypeOK
    <3>2. QED
      BY <3>1, SameStatus
  <2>4. QED
    BY <1>4, <2>2, <2>3 DEF RunReturns, RunTimesOut
<1>5. CASE FlightEnds
  <2> DEFINE js == flight.members \cap Jobs
  <2>1. \A k \in js : stage[k] = "scheduled"
    BY DEF JobInv, NoJobForgotten
  <2>2. CASE flight.err
    <3>1. \A k \in Jobs : StatusOf(k)' = IF k \in js THEN "err" ELSE StatusOf(k)
      BY <1>5, <2>2 DEF FlightEnds, Answered, StatusOf, TypeOK
    <3>2. \A k \in js : StatusOf(k) = "pending"
      BY <2>1 DEF StatusOf
    <3>3. \A k \in Jobs : Status(k) = StatusOf(k) /\ Status(k)' = StatusOf(k)'
      BY StatusByStage, StatusByStageNext DEF StagesTell
    <3>4. Results!Refuse(js)
      BY <3>1, <3>2, <3>3 DEF Results!Refuse, Statuses
    <3>5. QED
      BY <3>4 DEF Results!Next
  <2>3. CASE ~flight.err
    <3>1. \A k \in Jobs : StatusOf(k)' = StatusOf(k)
      BY <1>5, <2>1, <2>3 DEF FlightEnds, Unanswered, StatusOf, TypeOK
    <3>2. QED
      BY <3>1, SameStatus
  <2>4. QED
    BY <2>2, <2>3
<1>6. ASSUME NEW j \in Jobs, Enqueue(j)
      PROVE  Goal
  <2>1. \A k \in Jobs : StatusOf(k)' = StatusOf(k)
    BY <1>6 DEF Enqueue, StatusOf, TypeOK
  <2>2. QED
    BY <2>1, SameStatus
<1>7. ASSUME UNCHANGED <<stage, answer>>
      PROVE  Goal
  BY <1>7, SameStatus DEF StatusOf
<1>8. QED
  BY <1>1, <1>2, <1>3, <1>4, <1>5, <1>6, <1>7
     DEF Next, JobStep, FlightStep, ThreadStep, vars, Join, EnoughThreads, addThread, removeThread,
         Reconciled, ThreadTop, RunAwaits, RunResumes, ScaleDecide, ScaleSet, Metrics, DeRegister

\* The worker implements JobResults, whatever becomes of its pool and for any jobs:
\* a job is run at most once, one that was refused is never run, and the first
\* outcome that its Result was sent stays.
THEOREM WorkerImplementsResults == Spec => ImplementsResults
<1>1. Init => Results!Init
  BY InitResults
<1>2. TypeOK /\ JobInv /\ TypeOK' /\ JobInv' /\ [Next]_vars
        => [Results!Next]_Statuses
  BY StepResults
<1>3. Spec => [](TypeOK /\ JobInv)
  BY InitType, StepType, InitJobs, StepJobs, PTL DEF Spec
<1>4. QED
  BY <1>1, <1>2, <1>3, PTL DEF Spec, ImplementsResults, Results!Spec

-----------------------------------------------------------------------------
(* The pool *)

LEMMA ListedFinite ==
  ASSUME TypeOK
  PROVE  Listed \subseteq Threads /\ IsFiniteSet(Listed)
<1>1. Listed \subseteq Threads
  BY DEF TypeOK, Listed
<1>2. IsFiniteSet(Threads)
  BY FS_Interval, SizesAssumption DEF Threads
<1>3. QED
  BY <1>1, <1>2, FS_Subset

\* The listed threads that were told to stop.
Stopping == {t \in Listed : thread[t].cancelled}

LEMMA InitList == Init => ListInv
<1> SUFFICES ASSUME Init
             PROVE  ListInv
  OBVIOUS
<1>1. Stopping = {}
  BY DEF Init, Stopping, Listed
<1>2. Cardinality(Stopping) = 0
  BY <1>1, FS_EmptySet
<1>3. QED
  BY <1>2 DEF Init, ListInv, PoolIsActive, Stopping

\* A step that starts, cancels and drops no thread.
LEMMA SameList ==
  ASSUME TypeOK, ListInv, UNCHANGED <<threads, failures>>,
         \A t \in Threads : thread'[t].cancelled = thread[t].cancelled
                            /\ (thread'[t].st = "unborn" <=> thread[t].st = "unborn")
  PROVE  ListInv'
<1>1. \A i \in 1 .. Len(threads) : threads[i] \in Threads
  BY DEF TypeOK
<1>2. Listed' = Listed /\ Listed \subseteq Threads
  BY ListedFinite DEF Listed
<1>3. Stopping' = Stopping
  BY <1>2 DEF Stopping
<1>4. PoolIsActive'
  BY <1>2, <1>3 DEF ListInv, PoolIsActive, Stopping
<1>5. QED
  BY <1>1, <1>4 DEF ListInv

\* No more threads are told to stop than OnChange fails, if the failures of a
\* step are as many as the threads it adds to them.
LEMMA StoppingGrows ==
  ASSUME TypeOK, ListInv, NEW t, Stopping' \subseteq Stopping \cup {t},
         \/ Stopping' \subseteq Stopping /\ failures' \in {failures, failures + 1}
         \/ failures' = failures + 1
  PROVE  Cardinality(Stopping') <= failures'
<1>1. IsFiniteSet(Stopping) /\ Cardinality(Stopping) \in Nat
  BY ListedFinite, FS_Subset, FS_CardinalityType DEF Stopping
<1>2. Cardinality(Stopping) <= failures /\ failures \in Nat
  BY SizesAssumption DEF ListInv, PoolIsActive, Stopping, TypeOK
<1>3. CASE Stopping' \subseteq Stopping /\ failures' \in {failures, failures + 1}
  <2>1. Cardinality(Stopping') \in Nat /\ Cardinality(Stopping') <= Cardinality(Stopping)
    BY <1>1, <1>3, FS_Subset, FS_CardinalityType
  <2>2. QED
    BY <1>1, <1>2, <1>3, <2>1
<1>4. CASE failures' = failures + 1
  <2>1. /\ IsFiniteSet(Stopping \cup {t})
        /\ Cardinality(Stopping \cup {t}) \in {Cardinality(Stopping), Cardinality(Stopping) + 1}
    BY <1>1, FS_AddElement
  <2>2. Cardinality(Stopping') \in Nat /\ Cardinality(Stopping') <= Cardinality(Stopping \cup {t})
    BY <2>1, FS_Subset, FS_CardinalityType
  <2>3. QED
    BY <1>1, <1>2, <1>4, <2>1, <2>2
<1>5. QED
  BY <1>3, <1>4

LEMMA addThreadList == ASSUME TypeOK, ListInv, addThread PROVE ListInv'
<1>1. CASE Failed /\ UNCHANGED <<threads, thread>>
  <2>1. Listed' = Listed /\ Stopping' = Stopping /\ failures' = failures + 1
    BY <1>1 DEF Listed, Stopping, Failed
  <2>2. Cardinality(Stopping') <= failures'
    BY <2>1, StoppingGrows
  <2>3. PoolIsActive'
    BY <1>1, <2>1, <2>2 DEF ListInv, PoolIsActive, Stopping
  <2>4. QED
    BY <1>1, <2>3 DEF ListInv
<1>2. ASSUME NEW t \in Threads, thread[t].st = "unborn", thread' = [thread EXCEPT ![t].st = "top"],
             threads' = Append(threads, t), UNCHANGED <<flight, failures>>
      PROVE  ListInv'
  <2>1. /\ Len(threads') = Len(threads) + 1 /\ threads'[Len(threads) + 1] = t /\ Len(threads) \in Nat
        /\ \A i \in 1 .. Len(threads) : threads'[i] = threads[i] /\ threads[i] \in Threads
    BY <1>2 DEF TypeOK
  <2>2. /\ thread'[t].st = "top" /\ ~thread'[t].cancelled
        /\ \A u \in Threads \ {t} : thread'[u] = thread[u]
    BY <1>2 DEF TypeOK, ThreadType, ListInv
  <2>3. \A i \in 1 .. Len(threads) : threads[i] # t
    BY <1>2 DEF ListInv
  <2>4. \A i \in 1 .. Len(threads') : thread'[threads'[i]].st # "unborn"
    BY <2>1, <2>2, <2>3 DEF ListInv
  <2>5. \A i, k \in 1 .. Len(threads') : threads'[i] = threads'[k] => i = k
    BY <2>1, <2>3 DEF ListInv
  <2>6. \A u \in Threads : thread'[u].st = "unborn" => ~thread'[u].cancelled
    BY <2>2 DEF ListInv
  <2>7. Listed' = Listed \cup {t}
    BY <2>1 DEF Listed
  <2>8. Stopping' \subseteq Stopping
    <3>1. Listed \subseteq Threads
      BY ListedFinite
    <3>2. QED
      BY <2>2, <2>7, <3>1 DEF Stopping
  <2>9. Cardinality(Stopping') <= failures'
    BY <1>2, <2>8, StoppingGrows
  <2>10. \A u \in Threads : thread'[u].st # "unborn" /\ u \notin Listed' => thread'[u].cancelled
    BY <2>2, <2>7 DEF ListInv, PoolIsActive
  <2>11. PoolIsActive'
    BY <2>9, <2>10 DEF PoolIsActive, Stopping
  <2>12. QED
    BY <2>4, <2>5, <2>6, <2>11 DEF ListInv
<1>3. QED
  BY <1>1, <1>2 DEF addThread

LEMMA removeThreadList == ASSUME TypeOK, ListInv, removeThread PROVE ListInv'
<1> DEFINE n == Len(threads)
           t == threads[n]
<1>1. n \in Nat \ {0} /\ t \in Threads
  BY DEF removeThread, TooMany, TypeOK
<1>2. /\ thread'[t].st = thread[t].st /\ thread'[t].cancelled
      /\ \A u \in Threads \ {t} : thread'[u] = thread[u]
  BY <1>1 DEF removeThread, TypeOK, ThreadType
<1>3. thread[t].st # "unborn"
  BY <1>1 DEF ListInv
<1>4. \A u \in Threads : thread'[u].st = "unborn" => ~thread'[u].cancelled
  BY <1>1, <1>2, <1>3 DEF ListInv
<1>5. Listed \subseteq Threads
  BY ListedFinite
<1>6. CASE Failed /\ UNCHANGED threads
  <2>1. Listed' = Listed /\ failures' = failures + 1
    BY <1>6 DEF Listed, Failed
  <2>2. Stopping' \subseteq Stopping \cup {t}
    BY <1>2, <1>5, <2>1 DEF Stopping
  <2>3. Cardinality(Stopping') <= failures'
    BY <2>1, <2>2, StoppingGrows
  <2>4. PoolIsActive'
    BY <1>2, <1>3, <2>1, <2>3 DEF ListInv, PoolIsActive, Stopping
  <2>5. \A i \in 1 .. Len(threads) : threads[i] \in Threads
    BY DEF TypeOK
  <2>6. QED
    BY <1>2, <1>4, <1>6, <2>4, <2>5 DEF ListInv
<1>7. CASE threads' = SubSeq(threads, 1, Len(threads) - 1) /\ UNCHANGED failures
  <2>1. Len(threads') = n - 1 /\ \A i \in 1 .. n - 1 : threads'[i] = threads[i] /\ threads[i] \in Threads
    BY <1>1, <1>7, DropLast DEF TypeOK
  <2>2. \A i \in 1 .. n - 1 : threads[i] # t
    BY <1>1 DEF ListInv
  <2>3. \A i \in 1 .. Len(threads') : thread'[threads'[i]].st # "unborn"
    BY <1>1, <1>2, <2>1, <2>2 DEF ListInv
  <2>4. \A i, k \in 1 .. Len(threads') : threads'[i] = threads'[k] => i = k
    BY <1>1, <2>1 DEF ListInv
  <2>5. Listed' = Listed \ {t}
    <3>1. Listed = {threads[i] : i \in 1 .. n - 1} \cup {t}
      BY <1>1 DEF Listed
    <3>2. Listed' = {threads[i] : i \in 1 .. n - 1}
      BY <2>1 DEF Listed
    <3>3. QED
      BY <2>2, <3>1, <3>2
  <2>6. Stopping' \subseteq Stopping
    BY <1>2, <1>5, <2>5 DEF Stopping
  <2>7. Cardinality(Stopping') <= failures'
    BY <1>7, <2>6, StoppingGrows
  <2>8. \A u \in Threads : thread'[u].st # "unborn" /\ u \notin Listed' => thread'[u].cancelled
    BY <1>2, <2>5 DEF ListInv, PoolIsActive
  <2>9. PoolIsActive'
    BY <2>7, <2>8 DEF PoolIsActive, Stopping
  <2>10. QED
    BY <1>4, <2>3, <2>4, <2>9 DEF ListInv
<1>8. QED
  BY <1>6, <1>7 DEF removeThread

LEMMA StepList == TypeOK /\ ListInv /\ [Next]_vars => ListInv'
<1> SUFFICES ASSUME TypeOK, ListInv, [Next]_vars
             PROVE  ListInv'
  OBVIOUS
<1> USE DEF poolVars
<1>1. CASE addThread \/ removeThread
  BY <1>1, addThreadList, removeThreadList
<1>2. ASSUME NEW t \in Threads, ThreadStep(t)
      PROVE  ListInv'
  <2>1. \A u \in Threads : thread'[u].cancelled = thread[u].cancelled
                           /\ (thread'[u].st = "unborn" <=> thread[u].st = "unborn")
    <3>1. CASE ThreadTop(t)
      BY <3>1 DEF ThreadTop, TypeOK, ThreadType
    <3>2. CASE TakeJob(t)
      BY <3>2 DEF TakeJob, TypeOK, ThreadType
    <3>3. CASE InRun(t) /\ BackToTop(t)
      BY <3>3 DEF InRun, BackToTop, TypeOK, ThreadType
    <3>4. CASE RunAwaits(t) \/ RunResumes(t)
      BY <3>4 DEF RunAwaits, RunResumes, TypeOK, ThreadType
    <3>5. QED
      BY <1>2, <3>1, <3>2, <3>3, <3>4 DEF ThreadStep, RunReturns, RunTimesOut, InRun
  <2>2. UNCHANGED <<threads, failures>>
    BY <1>2 DEF ThreadStep, ThreadTop, TakeJob, RunAwaits, RunResumes, RunReturns, RunTimesOut
  <2>3. QED
    BY <2>1, <2>2, SameList
<1>3. CASE UNCHANGED <<threads, thread, failures>>
  BY <1>3, SameList
<1>4. QED
  BY <1>1, <1>2, <1>3
     DEF Next, JobStep, FlightStep, vars, Submit, Enqueue, ChainAnswered, RunDoes, Join,
         EnoughThreads, Reconciled, FlightEnds, ScaleDecide, ScaleSet, Metrics, DeRegister

LEMMA InitRange == ASSUME PoolSize <= AutoscaleMax PROVE Init => RangeInv
  BY SizesAssumption DEF Init, RangeInv, Grown, TargetInRange, Most

\* A step that leaves the list, the target and the decision of the autoscaler.
LEMMA SameRange ==
  ASSUME RangeInv, UNCHANGED <<threads, registered, target, scaler>>, Grown' => Grown
  PROVE  RangeInv'
  BY DEF RangeInv, TargetInRange

LEMMA StepRange ==
  ASSUME PoolSize <= AutoscaleMax, TypeOK, RangeInv, [Next]_vars
  PROVE  RangeInv'
<1> USE SizesAssumption DEF poolVars, jobVars, scaleVars
<1>0. Len(threads) \in Nat /\ target \in Nat /\ registered \in BOOLEAN
  BY DEF TypeOK
<1>t. registered => target \in PoolSize .. AutoscaleMax
  BY DEF RangeInv, TargetInRange, Most
<1>1. ASSUME NEW j \in Jobs, Submit(j) \/ \E k \in Jobs : RunDoes(k, j)
      PROVE  RangeInv'
  <2>1. Grown' => Grown
    BY <1>1 DEF Submit, RunDoes, Do, Grown, TypeOK
  <2>2. QED
    BY <1>0, <1>1, <2>1, SameRange DEF Submit, RunDoes
<1>2. ASSUME NEW j \in Jobs, Enqueue(j) \/ ChainAnswered(j)
      PROVE  RangeInv'
  <2>1. Grown' => Grown
    BY <1>2 DEF Enqueue, ChainAnswered, Grown, TypeOK
  <2>2. QED
    BY <1>0, <1>2, <2>1, SameRange DEF Enqueue, ChainAnswered
<1>3. ASSUME NEW c \in Callers, Join(c)
      PROVE  RangeInv'
  <2>1. Grown' => Grown
    BY <1>3 DEF Join, Grown, TypeOK, FlightType
  <2>2. QED
    BY <1>3, <2>1, SameRange DEF Join
<1>4. CASE EnoughThreads
  <2>1. registered => Len(threads) >= PoolSize
    BY <1>0, <1>4, <1>t DEF EnoughThreads, TooFew
  <2>2. QED
    BY <1>4, <2>1 DEF EnoughThreads, RangeInv, TargetInRange
<1>5. ASSUME Failed
      PROVE  flight'.pc = "grow" \/ (flight'.pc = "done" /\ flight'.err)
  BY <1>5 DEF Failed, TypeOK, FlightType
<1>6. CASE addThread
  <2>1. CASE Failed /\ UNCHANGED <<threads, thread>>
    <3>1. Grown' => Grown
      BY <1>5, <1>6, <2>1 DEF addThread, TooFew, Grown
    <3>2. QED
      BY <1>5, <1>6, <2>1, <3>1, SameRange DEF addThread, TooFew
  <2>2. ASSUME NEW t \in Threads, threads' = Append(threads, t), UNCHANGED <<flight, failures>>
        PROVE  RangeInv'
    <3>1. Len(threads') = Len(threads) + 1 /\ Len(threads) < target
      BY <1>6, <2>2 DEF addThread, TooFew, TypeOK
    <3>2. registered
      BY <1>0, <3>1 DEF RangeInv, TargetInRange
    <3>3. Grown' => Grown
      BY <1>6, <2>2 DEF addThread, Grown
    <3>4. QED
      BY <1>0, <1>6, <1>t, <2>2, <3>1, <3>2, <3>3 DEF addThread, RangeInv, TargetInRange
  <2>3. QED
    BY <1>6, <2>1, <2>2 DEF addThread
<1>7. CASE removeThread
  <2>1. CASE Failed /\ UNCHANGED threads
    <3>1. Grown' => Grown
      BY <1>5, <1>7, <2>1 DEF removeThread, TooMany, Grown
    <3>2. QED
      BY <1>5, <1>7, <2>1, <3>1, SameRange DEF removeThread, TooMany
  <2>2. CASE /\ threads' = SubSeq(threads, 1, Len(threads) - 1)
             /\ flight' = [flight EXCEPT !.pc = "grow"]
    <3>1. Len(threads') = Len(threads) - 1 /\ Len(threads) > target
      BY <1>0, <1>7, <2>2, DropLast DEF removeThread, TooMany, TypeOK
    <3>2. ~Grown' \/ Grown
      BY <1>7, <2>2 DEF removeThread, Grown, TooMany
    <3>3. QED
      BY <1>0, <1>7, <1>t, <2>2, <3>1, <3>2 DEF removeThread, RangeInv, TargetInRange
  <2>3. QED
    BY <1>7, <2>1, <2>2 DEF removeThread
<1>8. CASE Reconciled
  <2>1. Grown' => Grown
    BY <1>8 DEF Reconciled, Grown
  <2>2. QED
    BY <1>8, <2>1, SameRange DEF Reconciled
<1>9. CASE FlightEnds
  <2>1. Grown' => Grown
    BY <1>9 DEF FlightEnds, Grown, TypeOK
  <2>2. scaler'.pc = scaler.pc \/ scaler'.pc = "idle"
    BY <1>9 DEF FlightEnds, TypeOK, ScalerType
  <2>3. scaler'.size = scaler.size
    BY <1>9 DEF FlightEnds, TypeOK, ScalerType
  <2>4. QED
    BY <1>9, <2>1, <2>2, <2>3 DEF FlightEnds, RangeInv, TargetInRange
<1>10. ASSUME NEW t \in Threads, ThreadStep(t)
       PROVE  RangeInv'
  <2>1. CASE ThreadTop(t)
    <3>1. Grown' => Grown
      BY <2>1 DEF ThreadTop, Grown
    <3>2. QED
      BY <1>0, <2>1, <3>1, SameRange DEF ThreadTop
  <2>2. CASE TakeJob(t)
    <3>1. Grown' => Grown
      BY <2>2 DEF TakeJob, Grown, TypeOK
    <3>2. QED
      BY <1>0, <2>2, <3>1, SameRange DEF TakeJob
  <2>3. CASE RunReturns(t) \/ RunTimesOut(t)
    <3>1. Grown' => Grown
      BY <2>3 DEF RunReturns, RunTimesOut, Grown, TypeOK
    <3>2. QED
      BY <1>0, <2>3, <3>1, SameRange DEF RunReturns, RunTimesOut
  <2>4. CASE RunAwaits(t) \/ RunResumes(t)
    <3>1. Grown' => Grown
      BY <2>4 DEF RunAwaits, RunResumes, Grown
    <3>2. QED
      BY <2>4, <3>1, SameRange DEF RunAwaits, RunResumes
  <2>5. QED
    BY <1>10, <2>1, <2>2, <2>3, <2>4 DEF ThreadStep
<1>11. CASE ScaleDecide
  <2> DEFINE n == Len(threads)
  <2>1. registered /\ UNCHANGED <<threads, flight, stage, workChan, registered, target>> /\ recent' = FALSE
    BY <1>11 DEF ScaleDecide
  <2>2. Grown' => Grown
    BY <2>1 DEF Grown
  <2>3. n <= AutoscaleMax
    BY DEF RangeInv
  <2>4. scaler'.size \in PoolSize .. AutoscaleMax
    <3>1. PICK rate \in Rates :
            \/ /\ Busy(Len(workChan), rate, n)
               /\ scaler' = [pc |-> "set", size |-> Least(2 * n, AutoscaleMax)]
            \/ scaler' = [pc |-> "set", size |-> Most(n \div 2, PoolSize)]
      BY <1>11 DEF ScaleDecide
    <3>2. CASE Busy(Len(workChan), rate, n) /\ scaler' = [pc |-> "set", size |-> Least(2 * n, AutoscaleMax)]
      <4>1. workChan # <<>> \/ recent
        BY <1>0, <3>2 DEF Busy, Rates, TypeOK
      <4>2. n >= PoolSize
        BY <2>1, <4>1 DEF RangeInv, Grown
      <4>3. Least(2 * n, AutoscaleMax) \in PoolSize .. AutoscaleMax
        BY <1>0, <4>2 DEF Least
      <4>4. QED
        BY <3>2, <4>3
    <3>3. CASE scaler' = [pc |-> "set", size |-> Most(n \div 2, PoolSize)]
      <4>1. n \div 2 \in Nat /\ n \div 2 <= n
        BY <1>0
      <4>2. Most(n \div 2, PoolSize) \in PoolSize .. AutoscaleMax
        BY <1>0, <2>3, <4>1 DEF Most
      <4>3. QED
        BY <3>3, <4>2
    <3>4. QED
      BY <3>1, <3>2, <3>3
  <2>5. QED
    BY <1>0, <2>1, <2>2, <2>4 DEF RangeInv, TargetInRange
<1>12. CASE ScaleSet
  <2>1. registered /\ target' \in PoolSize .. AutoscaleMax /\ scaler'.pc = "reconciling"
    BY <1>12 DEF ScaleSet, RangeInv, TypeOK, ScalerType
  <2>2. Grown' => Grown
    BY <1>12 DEF ScaleSet, Grown
  <2>3. QED
    BY <1>12, <2>1, <2>2 DEF ScaleSet, RangeInv, TargetInRange, Most
<1>13. CASE Metrics
  <2>1. Grown' => Grown
    BY <1>13 DEF Metrics, Grown
  <2>2. QED
    BY <1>0, <1>13, <2>1, SameRange DEF Metrics
<1>14. CASE DeRegister
  BY <1>0, <1>14 DEF DeRegister, RangeInv, TargetInRange
<1>15. CASE UNCHANGED vars
  BY <1>0, <1>15, SameRange DEF vars, Grown
<1>16. QED
  BY <1>1, <1>2, <1>3, <1>4, <1>6, <1>7, <1>8, <1>9, <1>10, <1>11, <1>12, <1>13, <1>14, <1>15
     DEF Next, JobStep, FlightStep

\* reconcilePoolSize and the autoscaler, for every pool size up to the maximum of
\* the autoscaler, any retries and any failures of OnChange: the target is in range
\* and is not revived once the worker is removed; a thread that is not counted has
\* been told to stop, and no more of those that are counted have been than OnChange
\* has failed.
THEOREM PoolCorrect == ASSUME PoolSize <= AutoscaleMax PROVE Spec => []PoolInvariant
<1>1. Init => TypeOK /\ ListInv /\ RangeInv
  BY InitType, InitList, InitRange
<1>2. TypeOK /\ ListInv /\ RangeInv /\ [Next]_vars => TypeOK' /\ ListInv' /\ RangeInv'
  BY StepType, StepList, StepRange
<1>3. TypeOK /\ ListInv /\ RangeInv => PoolInvariant
  BY DEF PoolInvariant, RangeInv, ListInv
<1>4. QED
  BY <1>1, <1>2, <1>3, PTL DEF Spec
=============================================================================
