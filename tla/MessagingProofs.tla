-------------------------- MODULE MessagingProofs ---------------------------
(***************************************************************************)
(* Proofs about the two ends of a message: the dispatcher that sends steps *)
(* and takes their results (Dispatcher), and the bus that carries both     *)
(* (MessageBus).  They share no state: what the bus promises is what the   *)
(* dispatcher's messages are modelled after, or less.                      *)
(*                                                                         *)
(* The first part is about any number of concurrent requests, with any     *)
(* sequences of steps, any loss of jobs and results, any order of arrival  *)
(* and timeouts at any moment; the second about any number of pods and     *)
(* messages, with pods that are connected, fail and leave at any moment of *)
(* a walk.                                                                 *)
(***************************************************************************)
EXTENDS Dispatcher, MessageBus, FiniteSetTheorems, TLAPS

(* The dispatcher *)

Work == jobs \cup chain
Answers == results \cup readers

\* Where Execute is with its sequence.
RequestInv ==
  \A r \in Requests :
    /\ pc[r] \in {"new", "adding", "dispatch"} =>
         /\ output[r] = {} /\ completed[r] = 0
         /\ \A x \in Work \cup Answers : x.req # r
    /\ pc[r] \in {"new", "adding", "dispatch", "await"} => verdict[r] = "none"
    /\ pc[r] = "await" => completed[r] < Len(plan[r])
    /\ output[r] \subseteq 1 .. Len(plan[r])
    /\ completed[r] = Cardinality(output[r])
    /\ verdict[r] = "success" => completed[r] = Len(plan[r])

\* At most one sat works for a request.  Its step comes after every step that has
\* been answered: a sat that runs a step is past those before it.
FrontInv ==
  /\ \A w \in Work : w.step <= Len(plan[w.req])
  /\ \A w, x \in Work : w.req = x.req => w = x
  /\ jobs \cap chain = {}
  /\ \A j \in jobs : /\ \A m \in Answers : m.req = j.req => m.step < j.step
                     /\ \A s \in output[j.req] : s < j.step
  /\ \A j \in chain : /\ \A m \in Answers : m.req = j.req => m.step <= j.step
                      /\ \A s \in output[j.req] : s <= j.step

\* A step is answered once: its result is on its way, being handled or stored.
AnswerInv ==
  /\ \A m \in Answers : m.step <= Len(plan[m.req]) /\ m.step \notin output[m.req]
  /\ \A m, n \in Answers : m.req = n.req /\ m.step = n.step => m = n
  /\ results \cap readers = {}

\* A failure that is on its way or has been reported leaves no work.
FailureInv ==
  /\ \A m \in Answers, w \in Work : m.req = w.req => m.outcome = "ok"
  /\ FailureEndsSequence

SequenceInv == RequestInv /\ FrontInv /\ AnswerInv /\ FailureInv

-----------------------------------------------------------------------------
(* What the steps do *)

LEMMA PlanIsShort ==
  ASSUME TypeOK, NEW r \in Requests
  PROVE  Len(plan[r]) \in Nat /\ Len(plan[r]) <= MaxSteps
<1>1. plan[r] \in Plans
  BY DEF TypeOK
<1>2. QED
  BY <1>1, PlansAssumption

\* The first result of a step goes to its request, which ends or waits for more.
LEMMA AwaitHandles ==
  ASSUME TypeOK, RequestInv, NEW r \in Requests, NEW m \in readers, awaitResult(r, m)
  PROVE  /\ pc[r] = "await" /\ m.req = r /\ readers' = readers \ {m}
         /\ UNCHANGED <<plan, callbacks, waiting, jobs, chain, results>>
         /\ \/ /\ m.outcome = "ok"
               /\ output' = [output EXCEPT ![r] = output[r] \cup {m.step}]
               /\ completed' = [completed EXCEPT ![r] = completed[r] + 1]
               /\ \/ completed[r] + 1 = Len(plan[r]) /\ Returns(r, "success")
                  \/ completed[r] + 1 < Len(plan[r]) /\ Returns(r, "group")
                  \/ completed[r] + 1 < Len(plan[r]) /\ UNCHANGED <<pc, verdict>>
            \/ /\ m.outcome # "ok" /\ Returns(r, "failed") /\ UNCHANGED <<output, completed>>
<1>1. pc[r] = "await" /\ m.req = r /\ readers' = readers \ {m}
      /\ UNCHANGED <<plan, callbacks, waiting, jobs, chain, results>>
  BY DEF awaitResult, satVars
<1>2. completed[r] \in Nat /\ Len(plan[r]) \in Nat /\ completed[r] < Len(plan[r])
  BY <1>1, PlanIsShort DEF RequestInv, TypeOK
<1>3. CASE m.outcome = "ok"
  <2>1. HandleStepResults(r, m) /\ Continue(r, completed[r] + 1)
    BY <1>3 DEF awaitResult
  <2>2. \/ completed[r] + 1 = Len(plan[r]) /\ Returns(r, "success")
        \/ completed[r] + 1 < Len(plan[r]) /\ Returns(r, "group")
        \/ completed[r] + 1 < Len(plan[r]) /\ UNCHANGED <<pc, verdict>>
    <3>1. CASE completed[r] + 1 = Len(plan[r])
      BY <2>1, <3>1 DEF Continue
    <3>2. CASE completed[r] + 1 # Len(plan[r])
      <4>1. completed[r] + 1 < Len(plan[r])
        BY <1>2, <3>2
      <4>2. CASE plan[r][completed[r] + 1 + 1] = "group"
        BY <2>1, <3>2, <4>1, <4>2 DEF Continue
      <4>3. CASE plan[r][completed[r] + 1 + 1] # "group"
        BY <2>1, <3>2, <4>1, <4>3 DEF Continue
      <4>4. QED
        BY <4>2, <4>3
    <3>3. QED
      BY <3>1, <3>2
  <2>3. QED
    BY <1>1, <1>3, <2>1, <2>2 DEF HandleStepResults
<1>4. CASE m.outcome # "ok"
  BY <1>1, <1>4 DEF awaitResult
<1>5. QED
  BY <1>3, <1>4

-----------------------------------------------------------------------------
(* Types, and the callbacks *)

LEMMA InitType == Init => TypeOK
  BY MaxStepsAssumption DEF Init, TypeOK, PCs, Verdicts

LEMMA StepType ==
  ASSUME TypeOK, RequestInv, FrontInv, [Next]_vars
  PROVE  TypeOK'
<1> USE MaxStepsAssumption DEF reqVars, satVars
<1>1. ASSUME NEW r \in Requests,
             Execute(r) \/ LockRequested(r) \/ addCallback(r) \/ removeCallback(r) \/ awaitTimeout(r)
      PROVE  TypeOK'
  BY <1>1 DEF Execute, LockRequested, addCallback, removeCallback, awaitTimeout, Returns, TypeOK,
              PCs, Verdicts
<1>2. ASSUME NEW r \in Requests, dispatchSingle(r)
      PROVE  TypeOK'
  <2>1. plan[r] # <<>> => [req |-> r, step |-> 1] \in Job
    <3>1. plan[r] \in Seq({"single", "group"}) /\ Len(plan[r]) <= MaxSteps
      BY PlansAssumption DEF TypeOK
    <3>2. plan[r] # <<>> => 1 \in StepIds
      BY <3>1 DEF StepIds
    <3>3. QED
      BY <3>2 DEF Job
  <2>2. jobs' \subseteq Job
    BY <1>2, <2>1 DEF dispatchSingle, TypeOK
  <2>3. pc' \in [Requests -> PCs] /\ verdict' \in [Requests -> Verdicts]
    BY <1>2 DEF dispatchSingle, Returns, TypeOK, PCs, Verdicts
  <2>4. QED
    BY <1>2, <2>2, <2>3 DEF dispatchSingle, TypeOK
<1>3. ASSUME NEW r \in Requests, NEW m \in readers, awaitResult(r, m)
      PROVE  TypeOK'
  <2>1. m.step \in StepIds /\ Len(plan[r]) \in Nat /\ Len(plan[r]) <= MaxSteps /\ completed[r] \in Nat
    BY PlanIsShort DEF TypeOK, Result
  <2>2. pc' \in [Requests -> PCs] /\ verdict' \in [Requests -> Verdicts]
    BY <1>3, AwaitHandles DEF Returns, TypeOK, PCs, Verdicts
  <2>3. output' \in [Requests -> SUBSET StepIds]
    BY <1>3, <2>1, AwaitHandles DEF TypeOK
  <2>4. completed' \in [Requests -> 0 .. MaxSteps]
    <3>1. CASE UNCHANGED completed
      BY <3>1 DEF TypeOK
    <3>2. CASE /\ completed' = [completed EXCEPT ![r] = completed[r] + 1]
               /\ completed[r] + 1 <= Len(plan[r])
      BY <2>1, <3>2 DEF TypeOK
    <3>3. QED
      BY <1>3, <2>1, <3>1, <3>2, AwaitHandles
  <2>5. readers' \subseteq Result /\ UNCHANGED <<plan, callbacks, waiting, jobs, chain, results>>
    BY <1>3, AwaitHandles DEF TypeOK
  <2>6. QED
    BY <2>2, <2>3, <2>4, <2>5 DEF TypeOK
<1>4. ASSUME NEW m \in results, onMsgHandler(m)
      PROVE  TypeOK'
  BY <1>4 DEF onMsgHandler, TypeOK
<1>5. ASSUME NEW j \in jobs, NEW o \in Outcomes, sendFnResult(j, o)
      PROVE  TypeOK'
  <2>1. [req |-> j.req, step |-> j.step, outcome |-> o] \in Result
    BY DEF TypeOK, Job, Result
  <2>2. QED
    BY <1>5, <2>1 DEF sendFnResult, TypeOK
<1>6. ASSUME NEW j \in jobs, SatFails(j)
      PROVE  TypeOK'
  BY <1>6 DEF SatFails, TypeOK
<1>7. ASSUME NEW j \in chain, sendNextStep(j)
      PROVE  TypeOK'
  <2>1. j \in Job /\ Len(plan[j.req]) \in Nat /\ Len(plan[j.req]) <= MaxSteps
    BY PlanIsShort DEF TypeOK, Job
  <2>2. j.step < Len(plan[j.req]) => [j EXCEPT !.step = j.step + 1] \in Job
    BY <2>1 DEF Job, StepIds
  <2>3. jobs' \subseteq Job
    BY <1>7, <2>2 DEF sendNextStep, TypeOK
  <2>4. QED
    BY <1>7, <2>3 DEF sendNextStep, TypeOK
<1>8. CASE UNCHANGED vars
  BY <1>8 DEF vars, TypeOK
<1>9. QED
  BY <1>1, <1>2, <1>3, <1>4, <1>5, <1>6, <1>7, <1>8
     DEF Next, RequestStep, HandlerStep, SatStep, Quiet

LEMMA StepRegistry ==
  ASSUME TypeOK, CallbackIsRegistered, NoCallbackLeak, RequestInv, [Next]_vars
  PROVE  CallbackIsRegistered' /\ NoCallbackLeak'
<1> USE DEF reqVars, satVars, CallbackIsRegistered, NoCallbackLeak
<1>1. ASSUME NEW r \in Requests,
             Execute(r) \/ LockRequested(r) \/ addCallback(r) \/ removeCallback(r) \/ awaitTimeout(r)
      PROVE  CallbackIsRegistered' /\ NoCallbackLeak'
  BY <1>1 DEF Execute, LockRequested, addCallback, removeCallback, LockGranted, awaitTimeout, Returns,
              TypeOK
<1>2. ASSUME NEW r \in Requests, dispatchSingle(r)
      PROVE  CallbackIsRegistered' /\ NoCallbackLeak'
  BY <1>2 DEF dispatchSingle, Returns, TypeOK
<1>3. ASSUME NEW r \in Requests, NEW m \in readers, awaitResult(r, m)
      PROVE  CallbackIsRegistered' /\ NoCallbackLeak'
  BY <1>3, AwaitHandles DEF Returns, TypeOK
<1>4. ASSUME NEW m \in results, onMsgHandler(m)
      PROVE  CallbackIsRegistered' /\ NoCallbackLeak'
  BY <1>4 DEF onMsgHandler
<1>5. CASE SatStep \/ UNCHANGED vars
  BY <1>5 DEF SatStep, sendFnResult, SatFails, sendNextStep, vars
<1>6. QED
  BY <1>1, <1>2, <1>3, <1>4, <1>5 DEF Next, RequestStep, HandlerStep, Quiet

-----------------------------------------------------------------------------
(* Sequences *)

LEMMA InitSequence == Init => SequenceInv
<1> SUFFICES ASSUME Init PROVE SequenceInv
  OBVIOUS
<1>1. Work = {} /\ Answers = {}
  BY DEF Init, Work, Answers
<1>2. \A r \in Requests : output[r] = {} /\ completed[r] = 0 /\ verdict[r] = "none" /\ pc[r] = "new"
  BY DEF Init
<1>3. RequestInv
  BY <1>1, <1>2, FS_EmptySet DEF RequestInv
<1>4. QED
  BY <1>1, <1>2, <1>3
     DEF SequenceInv, FrontInv, AnswerInv, FailureInv, FailureEndsSequence, Init

\* Work and answers of typed requests and steps.
LEMMA Typed ==
  ASSUME TypeOK
  PROVE  /\ \A w \in Work : w \in Job /\ w.req \in Requests /\ w.step \in Nat /\ w.step >= 1
         /\ \A m \in Answers : m \in Result /\ m.req \in Requests /\ m.step \in Nat /\ m.step >= 1
         /\ \A r \in Requests : \A s \in output[r] : s \in Nat /\ s >= 1
         /\ \A r \in Requests : output[r] \in SUBSET StepIds /\ Len(plan[r]) \in Nat
  BY PlanIsShort, MaxStepsAssumption DEF TypeOK, Work, Answers, Job, Result, StepIds

\* The steps of a request that neither send nor take a result.
Plain(r) ==
  Execute(r) \/ LockRequested(r) \/ addCallback(r) \/ removeCallback(r) \/ awaitTimeout(r)
    \/ (dispatchSingle(r) /\ pc'[r] # "await")

LEMMA PlainKeeps ==
  ASSUME TypeOK, NEW r \in Requests, Plain(r)
  PROVE  /\ UNCHANGED <<plan, completed, output, jobs, chain, results, readers, Work, Answers>>
         /\ \A q \in Requests \ {r} : pc'[q] = pc[q] /\ verdict'[q] = verdict[q]
         /\ \/ pc[r] \in {"new", "adding"} /\ pc'[r] \in {"adding", "dispatch"} /\ UNCHANGED verdict
            \/ pc[r] = "removing" /\ pc'[r] = "done" /\ UNCHANGED verdict
            \/ pc[r] \in {"await", "dispatch"} /\ pc'[r] = "removing"
                 /\ verdict'[r] \in {"empty", "tunnel", "timeout"}
            \/ UNCHANGED <<pc, verdict>>
  BY DEF Plain, Execute, LockRequested, addCallback, removeCallback, awaitTimeout, dispatchSingle,
         Returns, reqVars, satVars, TypeOK, Work, Answers

\* dispatchSingle has sent the first step to a sat.
LEMMA DispatchSends ==
  ASSUME TypeOK, RequestInv, NEW r \in Requests, dispatchSingle(r), ~Plain(r)
  PROVE  /\ plan[r] # <<>> /\ Len(plan[r]) >= 1
         /\ jobs' = jobs \cup {[req |-> r, step |-> 1]}
         /\ pc[r] = "dispatch" /\ pc' = [pc EXCEPT ![r] = "await"]
         /\ UNCHANGED <<plan, completed, output, verdict, chain, results, readers, Answers>>
         /\ Work' = Work \cup {[req |-> r, step |-> 1]}
<1>1. plan[r] \in Seq({"single", "group"})
  BY PlansAssumption DEF TypeOK
<1>2. plan[r] # <<>> => Len(plan[r]) >= 1
  BY <1>1
<1>3. ASSUME NEW v, Returns(r, v)
      PROVE  Plain(r)
  BY <1>3 DEF Plain, Returns, TypeOK
<1>4. QED
  BY <1>2, <1>3 DEF dispatchSingle, Work, Answers

LEMMA StepRequest ==
  ASSUME TypeOK, SequenceInv, [Next]_vars
  PROVE  RequestInv'
<1>0. RequestInv /\ AnswerInv /\ FrontInv
  BY DEF SequenceInv
<1>1. ASSUME NEW r \in Requests, Plain(r)
      PROVE  RequestInv'
  BY <1>0, <1>1, PlainKeeps, SMTT(30) DEF RequestInv, TypeOK, PCs
<1>2. ASSUME NEW r \in Requests, dispatchSingle(r), ~Plain(r)
      PROVE  RequestInv'
  <2>1. \A q \in Requests \ {r} : pc'[q] = pc[q]
    BY <1>0, <1>2, DispatchSends DEF TypeOK
  <2>2. pc'[r] = "await" /\ 0 < Len(plan[r])
    BY <1>0, <1>2, DispatchSends, Typed DEF TypeOK
  <2>3. \A q \in Requests \ {r} : pc[q] \in {"new", "adding", "dispatch"} =>
          \A x \in (Work \cup Answers)' : x.req # q
    BY <1>0, <1>2, DispatchSends DEF RequestInv
  <2>4. QED
    BY <1>0, <1>2, <2>1, <2>2, <2>3, DispatchSends DEF RequestInv
<1>3. ASSUME NEW r \in Requests, NEW m \in readers, awaitResult(r, m)
      PROVE  RequestInv'
  <2>1. /\ pc[r] = "await" /\ m.req = r /\ m \in Answers /\ m.step \in Nat /\ m.step >= 1
        /\ m.step <= Len(plan[r]) /\ m.step \notin output[r] /\ Len(plan[r]) \in Nat
    BY <1>0, <1>3, AwaitHandles, Typed DEF Answers, AnswerInv
  <2>2. (Work \cup Answers)' \subseteq Work \cup Answers
    BY <1>0, <1>3, AwaitHandles DEF Work, Answers
  <2>3. \A q \in Requests \ {r} : /\ pc'[q] = pc[q] /\ verdict'[q] = verdict[q]
                                  /\ output'[q] = output[q] /\ completed'[q] = completed[q]
    BY <1>0, <1>3, AwaitHandles DEF Returns, TypeOK
  <2>4. plan' = plan
    BY <1>0, <1>3, AwaitHandles
  <2>5. CASE m.outcome = "ok"
    <3>1. output'[r] = output[r] \cup {m.step} /\ completed'[r] = completed[r] + 1
      BY <1>0, <1>3, <2>5, AwaitHandles DEF TypeOK
    <3>2. completed'[r] = Cardinality(output'[r])
      <4>1. IsFiniteSet(output[r])
        <5>1. 1 \in Int /\ Len(plan[r]) \in Int
          BY <1>0, PlanIsShort
        <5>2. IsFiniteSet(1 .. Len(plan[r]))
          BY <5>1, FS_Interval
        <5>3. QED
          BY <1>0, <5>2, FS_Subset DEF RequestInv
      <4>2. Cardinality(output[r] \cup {m.step}) = Cardinality(output[r]) + 1
        BY <2>1, <4>1, FS_AddElement
      <4>3. completed[r] = Cardinality(output[r])
        BY <1>0 DEF RequestInv
      <4>4. QED
        BY <3>1, <4>2, <4>3
    <3>3. output'[r] \subseteq 1 .. Len(plan[r])
      BY <1>0, <2>1, <3>1 DEF RequestInv
    <3>4. /\ pc'[r] \in {"await", "removing"}
          /\ pc'[r] = "await" => verdict'[r] = "none" /\ completed'[r] < Len(plan[r])
          /\ verdict'[r] = "success" => completed'[r] = Len(plan[r])
      BY <1>0, <1>3, <2>1, <2>5, <3>1, AwaitHandles DEF Returns, TypeOK, RequestInv
    <3>5. QED
      BY <1>0, <2>2, <2>3, <2>4, <3>2, <3>3, <3>4 DEF RequestInv
  <2>6. CASE m.outcome # "ok"
    <3>1. pc'[r] = "removing" /\ verdict'[r] = "failed" /\ UNCHANGED <<output, completed>>
      BY <1>0, <1>3, <2>6, AwaitHandles DEF Returns, TypeOK
    <3>2. QED
      BY <1>0, <2>2, <2>3, <2>4, <3>1 DEF RequestInv
  <2>7. QED
    BY <2>5, <2>6
<1>4. ASSUME NEW m \in results, onMsgHandler(m)
      PROVE  RequestInv'
  <2>1. (Work \cup Answers)' \subseteq Work \cup Answers
    BY <1>4 DEF onMsgHandler, Work, Answers
  <2>2. QED
    BY <1>0, <1>4, <2>1 DEF onMsgHandler, reqVars, RequestInv
<1>5. ASSUME SatStep
      PROVE  RequestInv'
  <2>1. \A x \in (Work \cup Answers)' : \E w \in Work \cup Answers : x.req = w.req
    <3>1. ASSUME NEW j \in jobs, NEW o \in Outcomes, sendFnResult(j, o)
          PROVE  \A x \in (Work \cup Answers)' : \E w \in Work \cup Answers : x.req = w.req
      BY <3>1 DEF sendFnResult, Work, Answers
    <3>2. ASSUME NEW j \in jobs, SatFails(j)
          PROVE  \A x \in (Work \cup Answers)' : \E w \in Work \cup Answers : x.req = w.req
      BY <3>2 DEF SatFails, Work, Answers
    <3>3. ASSUME NEW j \in chain, sendNextStep(j)
          PROVE  \A x \in (Work \cup Answers)' : \E w \in Work \cup Answers : x.req = w.req
      <4>1. j \in Job /\ j \in Work
        BY DEF TypeOK, Work
      <4>2. [j EXCEPT !.step = j.step + 1].req = j.req
        BY <4>1 DEF Job
      <4>3. QED
        BY <3>3, <4>1, <4>2 DEF sendNextStep, Work, Answers
    <3>4. QED
      BY <1>5, <3>1, <3>2, <3>3 DEF SatStep
  <2>2. UNCHANGED <<pc, reqVars>>
    BY <1>5 DEF SatStep, sendFnResult, SatFails, sendNextStep
  <2>3. QED
    BY <1>0, <2>1, <2>2 DEF RequestInv, reqVars
<1>6. CASE UNCHANGED vars
  BY <1>0, <1>6 DEF vars, RequestInv, Work, Answers
<1>7. QED
  BY <1>1, <1>2, <1>3, <1>4, <1>5, <1>6 DEF Next, RequestStep, HandlerStep, Quiet, Plain

LEMMA StepFront ==
  ASSUME TypeOK, SequenceInv, [Next]_vars
  PROVE  FrontInv'
<1>0. RequestInv /\ AnswerInv /\ FrontInv
  BY DEF SequenceInv
<1>1. ASSUME NEW r \in Requests, Plain(r)
      PROVE  FrontInv'
  BY <1>0, <1>1, PlainKeeps DEF FrontInv
<1>2. ASSUME NEW r \in Requests, dispatchSingle(r), ~Plain(r)
      PROVE  FrontInv'
  <2>1. PICK j : j = [req |-> r, step |-> 1]
    OBVIOUS
  <2>2. j.req = r /\ j.step = 1 /\ j \notin Work
    BY <1>0, <1>2, <2>1, DispatchSends DEF RequestInv
  <2>3. /\ Work' = Work \cup {j} /\ jobs' = jobs \cup {j} /\ chain' = chain /\ Answers' = Answers
        /\ plan' = plan /\ output' = output /\ 1 <= Len(plan[r])
        /\ \A x \in Work \cup Answers : x.req # r
        /\ output[r] = {}
    BY <1>0, <1>2, <2>1, DispatchSends, Typed DEF RequestInv
  <2>4. jobs' \cap chain' = {}
    BY <1>0, <2>2, <2>3 DEF FrontInv, Work
  <2>5. QED
    BY <1>0, <2>2, <2>3, <2>4 DEF FrontInv
<1>3. ASSUME NEW r \in Requests, NEW m \in readers, awaitResult(r, m)
      PROVE  FrontInv'
  <2>1. UNCHANGED <<plan, jobs, chain, Work>> /\ Answers' \subseteq Answers /\ m \in Answers /\ m.req = r
    BY <1>0, <1>3, AwaitHandles DEF Work, Answers
  <2>2. \A q \in Requests : \A s \in output'[q] : s \in output[q] \/ (q = r /\ s = m.step)
    BY <1>0, <1>3, AwaitHandles DEF TypeOK
  <2>3. \A j \in Work : j.req \in Requests
    BY Typed
  <2>4. \A j \in jobs : \A s \in output'[j.req] : s < j.step
    BY <1>0, <2>1, <2>2, <2>3 DEF FrontInv, Work
  <2>5. \A j \in chain : \A s \in output'[j.req] : s <= j.step
    BY <1>0, <2>1, <2>2, <2>3 DEF FrontInv, Work
  <2>6. QED
    BY <1>0, <2>1, <2>4, <2>5 DEF FrontInv
<1>4. ASSUME NEW m \in results, onMsgHandler(m)
      PROVE  FrontInv'
  <2>1. UNCHANGED <<plan, output, jobs, chain, Work>> /\ Answers' \subseteq Answers
    BY <1>4 DEF onMsgHandler, reqVars, Work, Answers
  <2>2. QED
    BY <1>0, <2>1 DEF FrontInv
<1>5. ASSUME NEW j \in jobs, NEW o \in Outcomes, sendFnResult(j, o)
      PROVE  FrontInv'
  <2>1. PICK n : n = [req |-> j.req, step |-> j.step, outcome |-> o]
    OBVIOUS
  <2>2. /\ n.req = j.req /\ n.step = j.step /\ Answers' = Answers \cup {n} /\ j \in Work
        /\ jobs' = jobs \ {j} /\ (chain' = chain \cup {j} \/ chain' = chain)
        /\ Work' \subseteq Work /\ UNCHANGED <<plan, output>> /\ j.step \in Nat
    BY <1>5, <2>1, Typed DEF sendFnResult, reqVars, Work, Answers
  <2>3. \A w \in Work \ {j} : w.req # j.req
    BY <1>0, <2>2 DEF FrontInv
  <2>4. \A k \in jobs' : /\ \A m \in Answers' : m.req = k.req => m.step < k.step
                         /\ \A s \in output'[k.req] : s < k.step
    BY <1>0, <2>2, <2>3 DEF FrontInv, Work
  <2>5. \A k \in chain' : /\ \A m \in Answers' : m.req = k.req => m.step <= k.step
                          /\ \A s \in output'[k.req] : s <= k.step
    <3>1. ASSUME NEW k \in chain'
          PROVE  /\ \A m \in Answers' : m.req = k.req => m.step <= k.step
                 /\ \A s \in output'[k.req] : s <= k.step
      <4>1. CASE k = j
        <5>1. \A m \in Answers : m.req = j.req => m.step < j.step /\ m.step \in Nat
          BY <1>0, Typed DEF FrontInv
        <5>2. \A s \in output[j.req] : s < j.step /\ s \in Nat
          BY <1>0, <2>2, Typed DEF FrontInv
        <5>3. QED
          BY <2>2, <4>1, <5>1, <5>2
      <4>2. CASE k # j
        BY <1>0, <2>2, <2>3, <3>1, <4>2 DEF FrontInv, Work
      <4>3. QED
        BY <4>1, <4>2
    <3>2. QED
      BY <3>1
  <2>6. jobs' \cap chain' = {}
    BY <1>0, <2>2 DEF FrontInv
  <2>7. QED
    BY <1>0, <2>2, <2>4, <2>5, <2>6 DEF FrontInv
<1>6. ASSUME NEW j \in jobs, SatFails(j)
      PROVE  FrontInv'
  <2>1. UNCHANGED <<plan, output, chain, Answers>> /\ jobs' \subseteq jobs /\ Work' \subseteq Work
    BY <1>6 DEF SatFails, reqVars, Work, Answers
  <2>2. QED
    BY <1>0, <2>1 DEF FrontInv
<1>7. ASSUME NEW j \in chain, sendNextStep(j)
      PROVE  FrontInv'
  <2>1. UNCHANGED <<plan, output, Answers>> /\ chain' = chain \ {j} /\ j \in Work
    BY <1>7 DEF sendNextStep, reqVars, Work, Answers
  <2>2. CASE UNCHANGED jobs
    <3>1. Work' \subseteq Work
      BY <2>1, <2>2 DEF Work
    <3>2. QED
      BY <1>0, <2>1, <2>2, <3>1 DEF FrontInv
  <2>3. CASE j.step < Len(plan[j.req]) /\ jobs' = jobs \cup {[j EXCEPT !.step = j.step + 1]}
    <3>1. PICK k : k = [j EXCEPT !.step = j.step + 1]
      OBVIOUS
    <3>2. k.req = j.req /\ k.step = j.step + 1 /\ j.step \in Nat /\ Len(plan[j.req]) \in Nat
      BY <2>1, <3>1, Typed DEF Job
    <3>3. \A w \in Work \ {j} : w.req # j.req
      BY <1>0, <2>1 DEF FrontInv
    <3>4. Work' = (Work \ {j}) \cup {k} /\ jobs' = jobs \cup {k}
      BY <1>0, <2>1, <2>3, <3>1 DEF FrontInv, Work
    <3>5. k.step <= Len(plan[k.req])
      BY <2>3, <3>2
    <3>6. jobs' \cap chain' = {}
      BY <1>0, <2>1, <3>2, <3>3, <3>4 DEF FrontInv, Work
    <3>7. \A i \in jobs' : /\ \A m \in Answers : m.req = i.req => m.step < i.step
                           /\ \A s \in output[i.req] : s < i.step
      <4>1. \A m \in Answers : m.req = k.req => m.step < k.step
        <5>1. \A m \in Answers : m.req = j.req => m.step <= j.step /\ m.step \in Nat
          BY <1>0, Typed DEF FrontInv
        <5>2. QED
          BY <3>2, <5>1
      <4>2. \A s \in output[k.req] : s < k.step
        <5>1. \A s \in output[j.req] : s <= j.step /\ s \in Nat
          BY <1>0, <2>1, Typed DEF FrontInv
        <5>2. QED
          BY <3>2, <5>1
      <4>3. QED
        BY <1>0, <3>4, <4>1, <4>2 DEF FrontInv
    <3>8. QED
      BY <1>0, <2>1, <3>2, <3>3, <3>4, <3>5, <3>6, <3>7 DEF FrontInv
  <2>4. QED
    BY <1>7, <2>2, <2>3 DEF sendNextStep
<1>8. CASE UNCHANGED vars
  BY <1>0, <1>8 DEF vars, FrontInv, Work, Answers
<1>9. QED
  BY <1>1, <1>2, <1>3, <1>4, <1>5, <1>6, <1>7, <1>8
     DEF Next, RequestStep, HandlerStep, SatStep, Quiet, Plain

LEMMA StepAnswer ==
  ASSUME TypeOK, SequenceInv, [Next]_vars
  PROVE  AnswerInv'
<1>0. RequestInv /\ AnswerInv /\ FrontInv
  BY DEF SequenceInv
<1>1. ASSUME NEW r \in Requests, Plain(r)
      PROVE  AnswerInv'
  BY <1>0, <1>1, PlainKeeps DEF AnswerInv
<1>2. ASSUME NEW r \in Requests, dispatchSingle(r), ~Plain(r)
      PROVE  AnswerInv'
  BY <1>0, <1>2, DispatchSends DEF AnswerInv
<1>3. ASSUME NEW r \in Requests, NEW m \in readers, awaitResult(r, m)
      PROVE  AnswerInv'
  <2>1. /\ UNCHANGED <<plan, results>> /\ readers' = readers \ {m} /\ m.req = r
        /\ m \in Answers /\ Answers' = Answers \ {m}
    BY <1>0, <1>3, AwaitHandles DEF AnswerInv, Answers
  <2>2. \A q \in Requests : \A s \in output'[q] : s \in output[q] \/ (q = r /\ s = m.step)
    BY <1>0, <1>3, AwaitHandles DEF TypeOK
  <2>3. \A n \in Answers' : n.step \notin output'[n.req]
    BY <1>0, <2>1, <2>2, Typed DEF AnswerInv
  <2>4. QED
    BY <1>0, <2>1, <2>3 DEF AnswerInv
<1>4. ASSUME NEW m \in results, onMsgHandler(m)
      PROVE  AnswerInv'
  <2>1. UNCHANGED <<plan, output>> /\ Answers' \subseteq Answers
    BY <1>4 DEF onMsgHandler, reqVars, Answers
  <2>2. results' \cap readers' = {}
    BY <1>0, <1>4 DEF onMsgHandler, AnswerInv
  <2>3. QED
    BY <1>0, <2>1, <2>2 DEF AnswerInv
<1>5. ASSUME NEW j \in jobs, NEW o \in Outcomes, sendFnResult(j, o)
      PROVE  AnswerInv'
  <2>1. PICK n : n = [req |-> j.req, step |-> j.step, outcome |-> o]
    OBVIOUS
  <2>2. /\ n.req = j.req /\ n.step = j.step /\ Answers' = Answers \cup {n} /\ j \in Work
        /\ results' = results \cup {n} /\ UNCHANGED <<readers, plan, output>> /\ j.step \in Nat
    BY <1>5, <2>1, Typed DEF sendFnResult, reqVars, Work, Answers
  <2>3. \A m \in Answers : m.req = j.req => m.step # j.step
    <3>1. \A m \in Answers : m.req = j.req => m.step < j.step /\ m.step \in Nat
      BY <1>0, Typed DEF FrontInv
    <3>2. QED
      BY <2>2, <3>1
  <2>4. j.step \notin output[j.req]
    <3>1. \A s \in output[j.req] : s < j.step /\ s \in Nat
      BY <1>0, <2>2, Typed DEF FrontInv
    <3>2. QED
      BY <2>2, <3>1
  <2>5. j.step <= Len(plan[j.req])
    BY <1>0, <2>2 DEF FrontInv
  <2>6. n \notin readers
    BY <2>2, <2>3 DEF Answers
  <2>7. QED
    BY <1>0, <2>2, <2>3, <2>4, <2>5, <2>6 DEF AnswerInv
<1>6. ASSUME NEW j \in Work, SatFails(j) \/ sendNextStep(j)
      PROVE  AnswerInv'
  BY <1>0, <1>6 DEF SatFails, sendNextStep, reqVars, AnswerInv, Answers
<1>7. CASE UNCHANGED vars
  BY <1>0, <1>7 DEF vars, AnswerInv, Answers
<1>8. QED
  BY <1>1, <1>2, <1>3, <1>4, <1>5, <1>6, <1>7
     DEF Next, RequestStep, HandlerStep, SatStep, Quiet, Plain, Work

LEMMA StepFailure ==
  ASSUME TypeOK, SequenceInv, [Next]_vars
  PROVE  FailureInv'
<1>0. RequestInv /\ FailureInv /\ FrontInv
  BY DEF SequenceInv
<1>f. FailureEndsSequence <=> \A r \in Requests : verdict[r] = "failed" => \A w \in Work : w.req # r
  BY DEF FailureEndsSequence, Work
<1>g. FailureEndsSequence' <=>
        \A r \in Requests : verdict'[r] = "failed" => \A w \in Work' : w.req # r
  BY DEF FailureEndsSequence, Work
<1>k. ASSUME \A w \in Work' : \E x \in Work : x.req = w.req, Answers' \subseteq Answers,
             \A r \in Requests : verdict'[r] = "failed" => verdict[r] = "failed"
      PROVE  FailureInv'
  BY <1>0, <1>f, <1>g, <1>k DEF FailureInv
<1>1. ASSUME NEW r \in Requests, Plain(r)
      PROVE  FailureInv'
  BY <1>1, <1>k, PlainKeeps DEF TypeOK
<1>2. ASSUME NEW r \in Requests, dispatchSingle(r), ~Plain(r)
      PROVE  FailureInv'
  <2>1. /\ Work' = Work \cup {[req |-> r, step |-> 1]} /\ UNCHANGED <<verdict, Answers>>
        /\ \A x \in Answers : x.req # r
        /\ verdict[r] = "none"
    BY <1>0, <1>2, DispatchSends DEF RequestInv
  <2>2. QED
    BY <1>0, <1>f, <1>g, <2>1 DEF FailureInv
<1>3. ASSUME NEW r \in Requests, NEW m \in readers, awaitResult(r, m)
      PROVE  FailureInv'
  <2>1. UNCHANGED Work /\ m \in Answers /\ m.req = r /\ Answers' \subseteq Answers
    BY <1>0, <1>3, AwaitHandles DEF Work, Answers
  <2>2. \A q \in Requests : verdict'[q] = "failed" =>
          verdict[q] = "failed" \/ (q = r /\ m.outcome # "ok")
    BY <1>0, <1>3, AwaitHandles DEF Returns, TypeOK
  <2>3. QED
    BY <1>0, <1>f, <1>g, <2>1, <2>2 DEF FailureInv
<1>4. ASSUME NEW m \in results, onMsgHandler(m)
      PROVE  FailureInv'
  <2>1. UNCHANGED <<Work, verdict>> /\ Answers' \subseteq Answers
    BY <1>4 DEF onMsgHandler, reqVars, Work, Answers
  <2>2. QED
    BY <1>k, <2>1
<1>5. ASSUME NEW j \in jobs, NEW o \in Outcomes, sendFnResult(j, o)
      PROVE  FailureInv'
  <2>1. PICK n : n = [req |-> j.req, step |-> j.step, outcome |-> o]
    OBVIOUS
  <2>2. /\ n.req = j.req /\ n.outcome = o /\ Answers' = Answers \cup {n} /\ j \in Work
        /\ Work' \subseteq Work /\ UNCHANGED verdict
    BY <1>5, <2>1 DEF sendFnResult, reqVars, Work, Answers
  <2>3. \A w \in Work \ {j} : w.req # j.req
    BY <1>0, <2>2 DEF FrontInv
  <2>4. o # "ok" => j \notin Work'
    BY <1>0, <1>5 DEF sendFnResult, FrontInv, Work
  <2>5. QED
    BY <1>0, <1>f, <1>g, <2>2, <2>3, <2>4 DEF FailureInv
<1>6. ASSUME NEW j \in jobs, SatFails(j)
      PROVE  FailureInv'
  <2>1. Work' \subseteq Work /\ UNCHANGED <<verdict, Answers>>
    BY <1>6 DEF SatFails, reqVars, Work, Answers
  <2>2. QED
    BY <1>k, <2>1
<1>7. ASSUME NEW j \in chain, sendNextStep(j)
      PROVE  FailureInv'
  <2>1. j \in Job /\ j \in Work /\ UNCHANGED <<verdict, Answers>>
    BY <1>7 DEF sendNextStep, reqVars, TypeOK, Work, Answers
  <2>2. [j EXCEPT !.step = j.step + 1].req = j.req
    BY <2>1 DEF Job
  <2>3. \A w \in Work' : \E x \in Work : x.req = w.req
    BY <1>7, <2>1, <2>2 DEF sendNextStep, Work
  <2>4. QED
    BY <1>k, <2>1, <2>3
<1>8. CASE UNCHANGED vars
  <2>1. UNCHANGED <<Work, Answers, verdict>>
    BY <1>8 DEF vars, Work, Answers
  <2>2. QED
    BY <1>k, <2>1
<1>9. QED
  BY <1>1, <1>2, <1>3, <1>4, <1>5, <1>6, <1>7, <1>8
     DEF Next, RequestStep, HandlerStep, SatStep, Quiet, Plain

-----------------------------------------------------------------------------
(* Theorems *)

Inv == TypeOK /\ SequenceInv /\ CallbackIsRegistered /\ NoCallbackLeak

LEMMA InitInv == Init => Inv
  BY InitType, InitSequence DEF Init, Inv, CallbackIsRegistered, NoCallbackLeak

LEMMA StepInv == Inv /\ [Next]_vars => Inv'
<1> SUFFICES ASSUME Inv, [Next]_vars PROVE Inv'
  OBVIOUS
<1>1. TypeOK /\ SequenceInv /\ RequestInv /\ FrontInv
  BY DEF Inv, SequenceInv
<1>2. TypeOK' /\ CallbackIsRegistered' /\ NoCallbackLeak'
  BY <1>1, StepType, StepRegistry DEF Inv
<1>3. SequenceInv'
  BY <1>1, StepRequest, StepFront, StepAnswer, StepFailure DEF SequenceInv
<1>4. QED
  BY <1>2, <1>3 DEF Inv

\* addCallback, removeCallback and onMsgHandler: a handler works on a callback that
\* stays registered, no callback outlives its Execute, and the types hold.
THEOREM RegistryCorrect == FairSpec => []RegistryInvariant
<1>1. Inv => RegistryInvariant
  BY DEF Inv, RegistryInvariant
<1>2. QED
  BY <1>1, InitInv, StepInv, PTL DEF FairSpec, Spec

\* Execute, HandleStepResults: a request that succeeds has the output of each of its
\* steps, in whatever order the results come in.
THEOREM SuccessIsComplete == FairSpec => []SuccessHasEveryOutput
<1>1. Inv => SuccessHasEveryOutput
  <2> SUFFICES ASSUME Inv, NEW r \in Requests, verdict[r] = "success"
               PROVE  output[r] = 1 .. Len(plan[r])
    BY DEF SuccessHasEveryOutput
  <2>1. /\ output[r] \in SUBSET (1 .. Len(plan[r])) /\ Len(plan[r]) \in Nat
        /\ Cardinality(output[r]) = Len(plan[r])
    BY Typed DEF Inv, SequenceInv, RequestInv
  <2>2. Len(plan[r]) \in Int /\ (1 > Len(plan[r]) => Len(plan[r]) = 0)
    BY <2>1
  <2>3. IsFiniteSet(1 .. Len(plan[r])) /\ Cardinality(1 .. Len(plan[r])) = Len(plan[r])
    BY <2>1, <2>2, FS_Interval
  <2>4. QED
    BY <2>1, <2>3, FS_Subset
<1>2. QED
  BY <1>1, InitInv, StepInv, PTL DEF FairSpec, Spec

\* sendFnResult, sendNextStep: once e2core reports that a step failed, no sat has
\* work left for the request.
THEOREM FailureIsFinal == FairSpec => []FailureEndsSequence
<1>1. Inv => FailureEndsSequence
  BY DEF Inv, SequenceInv, FailureInv
<1>2. QED
  BY <1>1, InitInv, StepInv, PTL DEF FairSpec, Spec

-----------------------------------------------------------------------------
(* The message bus *)

\* The links nx, seen from c, are a ring of the pods of C.
Ring(C, nx, c) ==
  /\ c \in C
  /\ \A p \in C : nx[p] \in C
  /\ \A p \in C : \E q \in C : nx[q] = p
  /\ \A p, q \in C : nx[p] = nx[q] => p = q
  /\ \A S \in SUBSET C : c \in S /\ (\A p \in S : nx[p] \in S) => S = C

\* What the pool knows of its connections, and the bus of the one it prepares: the
\* next connection is the one peeked at, or the newest.
PoolInv ==
  /\ Ring(Connected, next, current)
  /\ \A p \in Connected : p <= maxID
  /\ bus.walk /\ bus.pc # "send" => bus.peeked \in Pods
  /\ bus.pc # "idle" => bus.msg \in Msgs
  /\ bus.pc \in {"check", "act"} =>
       /\ bus.cand \in 1 .. maxID
       /\ next[current] = bus.cand \/ (next[current] = maxID /\ maxID > Hub)

\* Why a connection is removed: what the bus has read of it is still true.
CauseInv ==
  /\ \A p \in Pods : feedback[p].disconnect => pod[p].asked
  /\ bus.pc = "act" =>
       /\ bus.over => BagSize(failed[bus.cand]) >= HighWaterMark
       /\ bus.status.disconnect => pod[bus.cand].asked

\* The hub's pod never gives cause.
HubInv ==
  /\ connected[Hub] /\ ~pod[Hub].asked
  /\ failed[Hub] = NoMsgs /\ feedback[Hub].failed = NoMsgs

BusInv == BusTypeOK /\ PoolInv /\ CauseInv /\ HubInv

\* A failed message is reported, queued or on its way again.
Kept(p, m) == feedback[p].failed[m] > 0 \/ failed[p][m] > 0 \/ pending[p][m] > 0

\* What is on the bus, at a pod or on its way back has been sent.
SentInv ==
  /\ \A p \in Pods, m \in Msgs : Kept(p, m) => m \notin unsent
  /\ \A i \in 1 .. Len(busChan) : busChan[i] \notin unsent
  /\ \A i \in 1 .. Len(buffer) : buffer[i] \notin unsent
  /\ bus.pc # "idle" => bus.msg \notin unsent

\* A pod that has not been connected has met nothing.  One that owes a message would
\* handle it if it came again: its filter was made before, and lets it pass.
OwedInv ==
  /\ \A p \in Pods : p > maxID => owed[p] = {} /\ \A m \in Msgs : ~(pending[p][m] > 0)
  /\ \A p \in Pods : \A m \in owed[p] :
       /\ pod[p].on /\ Allows(p, m) /\ m \notin unsent
       /\ connected[p] => Kept(p, m)

\* On the ring of C the pods of V lie from s to c without a gap.
Arc(C, nx, c, s, V) ==
  /\ c \in V /\ s \in V /\ s \in C
  /\ \A p \in C : p \in V /\ p # c => nx[p] \in V
  /\ \A p \in C : nx[p] \in V /\ nx[p] # s => p \in V /\ p # c

\* The pods that the message has been sent to, or is about to be.
Visited == {p \in Pods : visits[p] = 1} \cup {p \in Pods : bus.pc = "send" /\ p = current}

\* The walk: a pod is visited once, and the pods visited lie on the ring from the
\* starting point to the current one.
WalkInv ==
  /\ bus.pc = "send" => bus.walk
  /\ \A p \in Pods : p > maxID => visits[p] = 0
  /\ bus.pc # "idle" /\ ~bus.walk => \A p \in Pods : visits[p] = 0
  /\ bus.walk => bus.pc # "idle"
  /\ bus.walk /\ ~bus.astray =>
       /\ \A p \in Pods : visits[p] \in {0, 1}
       /\ bus.pc = "send" => visits[current] = 0
       /\ Arc(Connected, next, current, bus.start, Visited)
       /\ bus.pc \in {"peek", "check", "act"} =>
            next[current] = bus.peeked \/ next[current] \notin Visited

-----------------------------------------------------------------------------
(* What insert, deleteNext and next do to a ring *)

LEMMA RingInsert ==
  ASSUME NEW C, NEW D, NEW E, NEW nx \in [D -> E], C \subseteq D, NEW c, Ring(C, nx, c),
         NEW p \in D, p \notin C
  PROVE  Ring(C \cup {p}, [nx EXCEPT ![c] = p, ![p] = nx[c]], c)
<1> DEFINE ny == [nx EXCEPT ![c] = p, ![p] = nx[c]]
<1>1. /\ c \in D /\ c # p /\ ny[c] = p /\ ny[p] = nx[c]
      /\ \A q \in C \ {c} : ny[q] = nx[q]
  BY DEF Ring
<1> HIDE DEF ny
<1>2. \A q \in C \cup {p} : ny[q] \in C \cup {p}
  BY <1>1 DEF Ring
<1>3. \A q \in C \cup {p} : \E r \in C \cup {p} : ny[r] = q
  <2> SUFFICES ASSUME NEW q \in C \cup {p}
               PROVE  \E r \in C \cup {p} : ny[r] = q
    OBVIOUS
  <2>1. CASE q = p
    BY <2>1, <1>1 DEF Ring
  <2>2. CASE q \in C /\ q # p
    <3>1. PICK r \in C : nx[r] = q
      BY <2>2 DEF Ring
    <3>2. CASE r = c
      BY <3>1, <3>2, <1>1
    <3>3. CASE r # c
      BY <3>1, <3>3, <1>1
    <3>4. QED
      BY <3>2, <3>3
  <2>3. QED
    BY <2>1, <2>2
<1>4. \A q, r \in C \cup {p} : ny[q] = ny[r] => q = r
  <2> SUFFICES ASSUME NEW q \in C \cup {p}, NEW r \in C \cup {p}, ny[q] = ny[r]
               PROVE  q = r
    OBVIOUS
  <2>1. c \in C /\ (\A s \in C : nx[s] \in C) /\ (\A s, t \in C : nx[s] = nx[t] => s = t)
    BY DEF Ring
  <2>2. \A s \in C : nx[s] # p
    BY <2>1
  <2>3. QED
    BY <1>1, <2>1, <2>2
<1>5. ASSUME NEW S \in SUBSET (C \cup {p}), c \in S, \A q \in S : ny[q] \in S
      PROVE  S = C \cup {p}
  <2>1. p \in S /\ nx[c] \in S
    BY <1>1, <1>5
  <2>2. \A q \in S \ {p} : nx[q] \in S \ {p}
    <3> SUFFICES ASSUME NEW q \in S, q # p
                 PROVE  nx[q] \in S /\ nx[q] # p
      OBVIOUS
    <3>1. q \in C /\ nx[q] \in C
      BY DEF Ring
    <3>2. nx[q] \in S
      BY <2>1, <1>1, <1>5, <3>1
    <3>3. QED
      BY <3>1, <3>2
  <2>3. c \in S \ {p} /\ S \ {p} \in SUBSET C
    BY <1>1, <1>5
  <2>4. S \ {p} = C
    BY <2>2, <2>3 DEF Ring
  <2>5. QED
    BY <2>1, <2>4
<1>6. Ring(C \cup {p}, ny, c)
  <2>1. c \in C \cup {p}
    BY DEF Ring
  <2>2. QED
    BY <2>1, <1>2, <1>3, <1>4, <1>5 DEF Ring
<1>7. QED
  BY <1>6 DEF ny

LEMMA RingDelete ==
  ASSUME NEW C, NEW D, NEW E, NEW nx \in [D -> E], C \subseteq D, NEW c, Ring(C, nx, c), nx[c] # c
  PROVE  Ring(C \ {nx[c]}, [nx EXCEPT ![c] = nx[nx[c]]], c)
<1> DEFINE n == nx[c]
<1> DEFINE ny == [nx EXCEPT ![c] = nx[n]]
<1>1. /\ c \in C /\ n \in C /\ n # c /\ nx[n] \in C
      /\ \A q, r \in C : nx[q] = nx[r] => q = r
      /\ \A q \in C : nx[q] \in C
  BY DEF Ring
<1>2. ny[c] = nx[n] /\ \A q \in C \ {c} : ny[q] = nx[q]
  BY <1>1
<1>3. nx[n] # n /\ \A q \in C \ {c} : nx[q] # n
  BY <1>1
<1>4. nx[c] = n
  OBVIOUS
<1> HIDE DEF n, ny
<1>5. \A q \in C \ {n} : ny[q] \in C \ {n}
  BY <1>1, <1>2, <1>3
<1>6. \A q \in C \ {n} : \E r \in C \ {n} : ny[r] = q
  <2> SUFFICES ASSUME NEW q \in C, q # n
               PROVE  \E r \in C \ {n} : ny[r] = q
    OBVIOUS
  <2>1. PICK r \in C : nx[r] = q
    BY DEF Ring
  <2>2. CASE r = n
    BY <1>1, <1>2, <2>1, <2>2
  <2>3. CASE r # n
    BY <1>2, <1>4, <2>1, <2>3
  <2>4. QED
    BY <2>2, <2>3
<1>7. \A q, r \in C \ {n} : ny[q] = ny[r] => q = r
  BY <1>1, <1>2
<1>8. ASSUME NEW S \in SUBSET (C \ {n}), c \in S, \A q \in S : ny[q] \in S
      PROVE  S = C \ {n}
  <2>1. nx[n] \in S
    BY <1>2, <1>8
  <2>2. \A q \in S \cup {n} : nx[q] \in S \cup {n}
    BY <1>2, <1>4, <1>8, <2>1
  <2>3. S \cup {n} \in SUBSET C /\ c \in S \cup {n}
    BY <1>1, <1>8
  <2>4. S \cup {n} = C
    BY <2>2, <2>3 DEF Ring
  <2>5. QED
    BY <2>4, <1>8
<1>9. Ring(C \ {n}, ny, c)
  <2>1. c \in C \ {n}
    BY <1>1
  <2>2. QED
    BY <2>1, <1>5, <1>6, <1>7, <1>8 DEF Ring
<1>10. QED
  BY <1>9 DEF n, ny

LEMMA RingAdvance ==
  ASSUME NEW C, NEW nx, NEW c, Ring(C, nx, c)
  PROVE  Ring(C, nx, nx[c])
<1>1. /\ c \in C /\ nx[c] \in C
      /\ \A p \in C : nx[p] \in C
  BY DEF Ring
<1>2. ASSUME NEW S \in SUBSET C, nx[c] \in S, \A p \in S : nx[p] \in S
      PROVE  S = C
  <2>1. S \cup {c} \in SUBSET C /\ c \in S \cup {c} /\ \A p \in S \cup {c} : nx[p] \in S \cup {c}
    BY <1>1, <1>2
  <2>2. S \cup {c} = C
    BY <2>1 DEF Ring
  <2>3. PICK q \in C : nx[q] = c
    BY <1>1 DEF Ring
  <2>4. c \in S
    BY <2>2, <2>3, <1>2
  <2>5. QED
    BY <2>2, <2>4
<1>3. QED
  BY <1>1, <1>2 DEF Ring

\* A ring whose connection is its own next one has no other.
LEMMA RingOfOne ==
  ASSUME NEW C, NEW nx, NEW c, Ring(C, nx, c), nx[c] = c
  PROVE  C = {c}
<1>1. {c} \in SUBSET C /\ c \in {c} /\ \A p \in {c} : nx[p] \in {c}
  BY DEF Ring
<1>2. QED
  BY <1>1 DEF Ring


-----------------------------------------------------------------------------
(* Bags of messages *)

LEMMA BagsOfMessages ==
  /\ NoMsgs \in Bag /\ NoFeedback \in FeedbackType
  /\ \A m : One(m) \in Bag
  /\ \A b, c \in Bag : [m \in Msgs |-> b[m] + c[m]] \in Bag
BY DEF NoMsgs, Bag, NoFeedback, FeedbackType, One

LEMMA NoneToSend == BagSize(NoMsgs) = 0
<1>1. \A m \in Msgs : NoMsgs[m] = 0
  BY DEF NoMsgs
<1>2. \A m \in Msgs : {m} \X (1 .. NoMsgs[m]) = {}
  BY <1>1
<1>3. UNION {{m} \X (1 .. NoMsgs[m]) : m \in Msgs} = {}
  BY <1>2
<1>4. QED
  BY <1>3, FS_EmptySet DEF BagSize

LEMMA BufferIsBag ==
  ASSUME buffer \in Seq(Msgs)
  PROVE  BufferBag \in Bag
<1>1. Len(buffer) \in Nat
  OBVIOUS
<1> SUFFICES ASSUME NEW m \in Msgs
             PROVE  Cardinality({i \in 1 .. Len(buffer) : buffer[i] = m}) \in Nat
  BY DEF BufferBag, Bag
<1>2. IsFiniteSet(1 .. Len(buffer))
  BY <1>1, FS_Interval
<1>3. IsFiniteSet({i \in 1 .. Len(buffer) : buffer[i] = m})
  BY <1>2, FS_Subset
<1>4. QED
  BY <1>3, FS_CardinalityType

LEMMA SentIsBags ==
  ASSUME pending \in [Pods -> Bag], connected \in [Pods -> BOOLEAN],
         NEW p \in Pods, NEW b \in Bag
  PROVE  /\ Sent(p, b) \in [Pods -> Bag]
         /\ \A q \in Pods \ {p} : Sent(p, b)[q] = pending[q]
         /\ \A m \in Msgs : Sent(p, b)[p][m] = pending[p][m] + IF connected[p] THEN b[m] ELSE 0
BY DEF Sent, Bag

-----------------------------------------------------------------------------
(* The ring, its types, and who is removed *)

LEMMA BusInitInv == BusInit => BusInv
<1> SUFFICES ASSUME BusInit PROVE BusInv
  OBVIOUS
<1> USE BusAssumption DEF BusInit, Hub, Pods, None
<1>1. BusTypeOK
  <2>1. NewPod \in PodType
    BY DEF NewPod, PodType
  <2>2. IdleBus \in BusType
    BY BagsOfMessages DEF IdleBus, BusType
  <2>3. QED
    BY <2>1, <2>2, BagsOfMessages DEF BusTypeOK
<1>2. PoolInv
  <2>1. Hub \in Pods
    OBVIOUS
  <2>2. next[Hub] = Hub /\ current = Hub
    BY <2>1
  <2>3. Connected = {Hub}
    BY <2>1 DEF Connected
  <2>4. Ring({Hub}, next, Hub)
    <3> HIDE DEF Hub
    <3>1. QED
      BY <2>2 DEF Ring
  <2>5. Ring(Connected, next, current)
    BY <2>2, <2>3, <2>4
  <2>6. \A p \in Connected : p <= maxID
    BY <2>3
  <2>7. QED
    BY <2>5, <2>6 DEF PoolInv, IdleBus
<1>3. CauseInv
  BY DEF CauseInv, IdleBus, NoFeedback
<1>4. HubInv
  <2>1. Hub \in Pods
    OBVIOUS
  <2>2. QED
    BY <2>1 DEF HubInv, NewPod, NoFeedback
<1>5. QED
  BY <1>1, <1>2, <1>3, <1>4 DEF BusInv

\* What the invariant says of the current connection and the next one.
LEMMA RingFacts ==
  ASSUME BusInv
  PROVE  /\ current \in Connected /\ next[current] \in Connected
         /\ Connected \subseteq 1 .. maxID /\ Connected \subseteq Pods
         /\ maxID \in 1 .. NumPods /\ NumPods \in Nat /\ current # None
         /\ Hub \in Connected /\ Hub \in Pods
<1>1. NumPods \in Nat /\ Hub \in Pods /\ maxID \in 1 .. NumPods /\ Connected \subseteq Pods
  BY BusAssumption DEF BusInv, BusTypeOK, Pods, Hub, Connected
<1>2. current \in Connected /\ next[current] \in Connected
  BY DEF BusInv, PoolInv, Ring
<1>3. Connected \subseteq 1 .. maxID
  BY <1>1 DEF BusInv, PoolInv, Pods
<1>4. Hub \in Connected
  BY <1>1 DEF BusInv, HubInv, Connected
<1>5. current # None
  BY <1>1, <1>2 DEF Pods, None
<1>6. QED
  BY <1>1, <1>2, <1>3, <1>4, <1>5

LEMMA ConnectInv ==
  ASSUME BusInv, Connect
  PROVE  BusInv'
<1> DEFINE p == maxID + 1
<1>1. /\ maxID' = p /\ connected' = [connected EXCEPT ![p] = TRUE]
      /\ next' = [next EXCEPT ![current] = p, ![p] = next[current]] /\ current' = current
      /\ UNCHANGED <<failed, pending, feedback, podVars, busChan, buffer, bus, visits>>
  BY RingFacts DEF Connect
<1>2. p \in Pods /\ p \notin Connected /\ p > Hub /\ p > maxID /\ p \in 1 .. NumPods
  BY RingFacts DEF Connect, Pods, Hub
<1>3. next \in [Pods -> Pods \cup {None}] /\ connected \in [Pods -> BOOLEAN]
  BY DEF BusInv, BusTypeOK
<1> HIDE DEF p
<1>4. BusTypeOK'
  BY <1>1, <1>2, <1>3, RingFacts DEF BusInv, BusTypeOK, podVars
<1>5. Connected' = Connected \cup {p}
  BY <1>1, <1>2, <1>3 DEF Connected
<1>6. Ring(Connected, next, current)
  BY DEF BusInv, PoolInv
<1>7. Ring(Connected', next', current')
  BY <1>1, <1>2, <1>3, <1>5, <1>6, RingInsert, RingFacts
<1>8. next'[current] = p /\ \A q \in Connected' : q <= p
  BY <1>1, <1>2, <1>3, <1>5, RingFacts
<1>9. PoolInv'
  <2>1. bus.pc \in {"check", "act"} => bus.cand \in 1 .. maxID'
    BY <1>1, <1>2, RingFacts DEF BusInv, PoolInv, p
  <2>2. QED
    BY <1>1, <1>2, <1>7, <1>8, <2>1 DEF BusInv, PoolInv
<1>10. CauseInv'
  BY <1>1 DEF BusInv, CauseInv, podVars
<1>11. HubInv'
  BY <1>1, <1>2, <1>3 DEF BusInv, HubInv, podVars
<1>12. QED
  BY <1>4, <1>9, <1>10, <1>11 DEF BusInv


\* What a pod's owner or handler does leaves ring and bus alone.
LEMMA PoolKept ==
  ASSUME BusInv, UNCHANGED <<poolVars, bus>>
  PROVE  PoolInv'
BY DEF BusInv, PoolInv, poolVars, Connected

LEMMA SendInv ==
  ASSUME BusInv, NEW p \in Pods, NEW m \in Msgs, Send(p, m)
  PROVE  BusInv'
<1>1. PoolInv'
  BY PoolKept DEF Send
<1>2. UNCHANGED <<poolVars, failed, pending, feedback, buffer, bus, handled, owed, visits>>
      /\ unsent' = unsent \ {m}
  BY DEF Send
<1>3. BusTypeOK
  BY DEF BusInv
<1>4. pod' \in [Pods -> PodType] /\ busChan' \in Seq(Msgs)
      /\ \A q \in Pods : pod'[q].asked = pod[q].asked
  <2>1. CASE pod[p].dead
    BY <1>3, <2>1 DEF Send, BusTypeOK
  <2>2. CASE ~pod[p].dead
    <3>1. pod' = [pod EXCEPT ![p].denied = @ \cup {m}] /\ busChan' = Append(busChan, m)
      BY <2>2 DEF Send
    <3>2. pod \in [Pods -> PodType] /\ busChan \in Seq(Msgs)
      BY <1>3 DEF BusTypeOK
    <3>3. pod' \in [Pods -> PodType] /\ \A q \in Pods : pod'[q].asked = pod[q].asked
      BY <3>1, <3>2 DEF PodType
    <3>4. QED
      BY <3>1, <3>2, <3>3
  <2>3. QED
    BY <2>1, <2>2
<1>5. BusTypeOK'
  BY <1>2, <1>3, <1>4 DEF BusTypeOK, poolVars
<1>6. CauseInv'
  <2>1. bus.pc = "act" => bus.cand \in Pods
    BY RingFacts DEF BusInv, PoolInv, Pods
  <2>2. QED
    BY <1>2, <1>4, <2>1 DEF BusInv, CauseInv
<1>7. HubInv'
  BY <1>2, <1>4, RingFacts DEF BusInv, HubInv, poolVars
<1>8. QED
  BY <1>1, <1>5, <1>6, <1>7 DEF BusInv

LEMMA OnInv ==
  ASSUME BusInv, NEW p \in Pods, On(p)
  PROVE  BusInv'
<1>1. PoolInv'
  BY PoolKept DEF On
<1>2. /\ pod' = [pod EXCEPT ![p].on = TRUE, ![p].denied = {}, ![p].type = Wants[p]]
      /\ feedback' = [feedback EXCEPT ![p].replay = @ \/ p \in Replayers]
      /\ UNCHANGED <<poolVars, failed, pending, unsent, handled, owed, busChan, buffer, bus, visits>>
  BY DEF On
<1>3. BusTypeOK
  BY DEF BusInv
<1>4. pod' \in [Pods -> PodType] /\ \A q \in Pods : pod'[q].asked = pod[q].asked
  <2>1. pod \in [Pods -> PodType] /\ Wants[p] \in {AnyType} \cup {MsgType[m] : m \in Msgs}
    BY <1>3, BusAssumption DEF BusTypeOK
  <2>2. QED
    BY <1>2, <2>1, ZenonT(60) DEF PodType
<1>5. /\ feedback' \in [Pods -> FeedbackType]
      /\ \A q \in Pods : /\ feedback'[q].disconnect = feedback[q].disconnect
                         /\ feedback'[q].failed = feedback[q].failed
  <2>1. feedback \in [Pods -> FeedbackType]
    BY <1>3 DEF BusTypeOK
  <2>2. QED
    BY <1>2, <2>1 DEF FeedbackType
<1>6. BusTypeOK'
  BY <1>2, <1>3, <1>4, <1>5 DEF BusTypeOK, poolVars
<1>7. CauseInv'
  <2>1. bus.pc = "act" => bus.cand \in Pods
    BY RingFacts DEF BusInv, PoolInv, Pods
  <2>2. QED
    BY <1>2, <1>4, <1>5, <2>1 DEF BusInv, CauseInv
<1>8. HubInv'
  BY <1>2, <1>4, <1>5, RingFacts DEF BusInv, HubInv, poolVars
<1>9. QED
  BY <1>1, <1>6, <1>7, <1>8 DEF BusInv

LEMMA DisconnectInv ==
  ASSUME BusInv, NEW p \in Pods, Disconnect(p)
  PROVE  BusInv'
<1>1. PoolInv'
  BY PoolKept DEF Disconnect
<1>2. /\ pod' = [pod EXCEPT ![p].dead = TRUE, ![p].asked = TRUE]
      /\ feedback' = [feedback EXCEPT ![p].disconnect = TRUE]
      /\ UNCHANGED <<poolVars, failed, pending, unsent, handled, owed, busChan, buffer, bus, visits>>
      /\ p # Hub
  BY BusAssumption DEF Disconnect
<1>3. BusTypeOK
  BY DEF BusInv
<1>4. /\ pod' \in [Pods -> PodType]
      /\ \A q \in Pods : pod[q].asked => pod'[q].asked
      /\ pod'[p].asked /\ \A q \in Pods \ {p} : pod'[q] = pod[q]
  <2>1. pod \in [Pods -> PodType]
    BY <1>3 DEF BusTypeOK
  <2>2. QED
    BY <1>2, <2>1 DEF PodType
<1>5. /\ feedback' \in [Pods -> FeedbackType]
      /\ \A q \in Pods \ {p} : feedback'[q] = feedback[q]
  <2>1. feedback \in [Pods -> FeedbackType]
    BY <1>3 DEF BusTypeOK
  <2>2. QED
    BY <1>2, <2>1 DEF FeedbackType
<1>6. BusTypeOK'
  BY <1>2, <1>3, <1>4, <1>5 DEF BusTypeOK, poolVars
<1>7. CauseInv'
  <2>1. bus.pc = "act" => bus.cand \in Pods
    BY RingFacts DEF BusInv, PoolInv, Pods
  <2>2. QED
    BY <1>2, <1>4, <1>5, <2>1 DEF BusInv, CauseInv
<1>8. HubInv'
  BY <1>2, <1>4, <1>5, RingFacts DEF BusInv, HubInv, poolVars
<1>9. QED
  BY <1>1, <1>6, <1>7, <1>8 DEF BusInv

\* What a handler run changes: one message less is on its way to the pod, and the
\* feedback may tell of a success or of that message's failure.
LEMMA HandleFacts ==
  ASSUME BusTypeOK, NEW p \in Pods, NEW m \in Msgs, Handle(p, m)
  PROVE  /\ pending' \in [Pods -> Bag] /\ feedback' \in [Pods -> FeedbackType]
         /\ handled' \in [Pods -> Bag] /\ owed' \in [Pods -> SUBSET Msgs]
         /\ \A q \in Pods : feedback'[q].disconnect = feedback[q].disconnect
         /\ \A q \in Pods, n \in Msgs : <<q, n>> # <<p, m>> =>
              /\ pending'[q][n] = pending[q][n]
              /\ feedback'[q].failed[n] = feedback[q].failed[n]
              /\ n \in owed'[q] <=> n \in owed[q]
         /\ pending'[p][m] = pending[p][m] - 1
         /\ \A q \in Pods \ {p} : pending'[q] = pending[q] /\ feedback'[q] = feedback[q] /\ owed'[q] = owed[q]
         /\ feedback'[p].failed[m] >= feedback[p].failed[m]
         /\ p \notin Failing => feedback'[p].failed = feedback[p].failed
         /\ pending[p][m] > 0
         /\ m \in owed'[p] => IF pod[p].on /\ Allows(p, m) THEN feedback'[p].failed[m] > 0
                                                        ELSE m \in owed[p]
<1>1. /\ pending \in [Pods -> Bag] /\ feedback \in [Pods -> FeedbackType]
      /\ handled \in [Pods -> Bag] /\ owed \in [Pods -> SUBSET Msgs]
  BY DEF BusTypeOK
<1>2. pending[p][m] > 0 /\ pending' = [pending EXCEPT ![p][m] = @ - 1]
  BY DEF Handle
<1>3. /\ pending' \in [Pods -> Bag]
      /\ \A q \in Pods, n \in Msgs : <<q, n>> # <<p, m>> => pending'[q][n] = pending[q][n]
      /\ pending'[p][m] = pending[p][m] - 1
      /\ \A q \in Pods \ {p} : pending'[q] = pending[q]
  BY <1>1, <1>2 DEF Bag
<1>4. handled' \in [Pods -> Bag]
  <2>1. handled' = handled \/ handled' = [handled EXCEPT ![p][m] = @ + 1]
    BY DEF Handle
  <2>2. QED
    BY <1>1, <2>1 DEF Bag
<1>5. CASE UNCHANGED <<owed, feedback>> /\ ~(pod[p].on /\ Allows(p, m))
  <2>1. feedback[p].failed[m] \in Nat
    BY <1>1 DEF FeedbackType, Bag
  <2>2. QED
    BY <1>1, <1>2, <1>3, <1>4, <1>5, <2>1
<1>6. CASE /\ feedback' = [feedback EXCEPT ![p].success = TRUE]
           /\ owed' = [owed EXCEPT ![p] = @ \ {m}]
  <2>1. /\ feedback' \in [Pods -> FeedbackType]
        /\ \A q \in Pods : /\ feedback'[q].disconnect = feedback[q].disconnect
                           /\ feedback'[q].failed = feedback[q].failed
        /\ \A q \in Pods \ {p} : feedback'[q] = feedback[q]
    BY <1>1, <1>6 DEF FeedbackType
  <2>2. /\ owed' \in [Pods -> SUBSET Msgs] /\ m \notin owed'[p]
        /\ \A q \in Pods, n \in Msgs : <<q, n>> # <<p, m>> => (n \in owed'[q] <=> n \in owed[q])
        /\ \A q \in Pods \ {p} : owed'[q] = owed[q]
    BY <1>1, <1>6
  <2>3. feedback[p].failed[m] \in Nat
    BY <1>1 DEF FeedbackType, Bag
  <2>4. QED
    BY <1>2, <1>3, <1>4, <2>1, <2>2, <2>3
<1>7. CASE /\ p \in Failing
           /\ feedback' = [feedback EXCEPT ![p].failed[m] = @ + 1]
           /\ owed' = [owed EXCEPT ![p] = @ \cup {m}]
           /\ pod[p].on /\ Allows(p, m)
  <2>1. feedback[p].failed \in Bag
    BY <1>1 DEF FeedbackType
  <2>2. PICK b \in Bag : /\ b = [feedback[p].failed EXCEPT ![m] = @ + 1]
                         /\ b[m] = feedback[p].failed[m] + 1
                         /\ \A n \in Msgs \ {m} : b[n] = feedback[p].failed[n]
    <3> DEFINE c == [feedback[p].failed EXCEPT ![m] = @ + 1]
    <3>1. c \in Bag /\ c[m] = feedback[p].failed[m] + 1
      BY <2>1 DEF Bag
    <3>2. \A n \in Msgs \ {m} : c[n] = feedback[p].failed[n]
      BY <2>1 DEF Bag
    <3>3. QED
      BY <3>1, <3>2
  <2>3. feedback' = [feedback EXCEPT ![p] = [@ EXCEPT !.failed = b]]
    BY <1>7, <2>2
  <2>4. /\ feedback' \in [Pods -> FeedbackType]
        /\ \A q \in Pods : feedback'[q].disconnect = feedback[q].disconnect
        /\ \A q \in Pods \ {p} : feedback'[q] = feedback[q]
        /\ feedback'[p].failed = b
    BY <1>1, <2>3 DEF FeedbackType
  <2>5. /\ owed' \in [Pods -> SUBSET Msgs]
        /\ \A q \in Pods, n \in Msgs : <<q, n>> # <<p, m>> => (n \in owed'[q] <=> n \in owed[q])
        /\ \A q \in Pods \ {p} : owed'[q] = owed[q]
    BY <1>1, <1>7
  <2>6. feedback'[p].failed[m] >= feedback[p].failed[m] /\ feedback'[p].failed[m] > 0
    BY <2>1, <2>2, <2>4 DEF Bag
  <2>7. \A q \in Pods, n \in Msgs : <<q, n>> # <<p, m>> =>
           feedback'[q].failed[n] = feedback[q].failed[n]
    BY <2>2, <2>4
  <2>8. QED
    BY <1>2, <1>3, <1>4, <1>7, <2>4, <2>5, <2>6, <2>7
<1>8. QED
  BY <1>5, <1>6, <1>7 DEF Handle

LEMMA HandleInv ==
  ASSUME BusInv, NEW p \in Pods, NEW m \in Msgs, Handle(p, m)
  PROVE  BusInv'
<1>1. PoolInv'
  BY PoolKept DEF Handle
<1>2. UNCHANGED <<poolVars, failed, pod, unsent, busChan, buffer, bus, visits>>
  BY DEF Handle
<1>3. BusTypeOK
  BY DEF BusInv
<1>4. BusTypeOK'
  BY <1>2, <1>3, HandleFacts DEF BusTypeOK, poolVars
<1>5. CauseInv'
  BY <1>2, <1>3, HandleFacts DEF BusInv, CauseInv
<1>6. HubInv'
  <2>1. feedback'[Hub].failed = feedback[Hub].failed
    BY <1>3, HandleFacts, RingFacts, BusAssumption
  <2>2. QED
    BY <1>2, <2>1 DEF BusInv, HubInv, poolVars
<1>7. QED
  BY <1>1, <1>4, <1>5, <1>6 DEF BusInv

LEMMA AbandonInv ==
  ASSUME BusInv, NEW p \in Pods, NEW m \in Msgs, Abandon(p, m)
  PROVE  BusInv'
<1>1. UNCHANGED <<poolVars, failed, feedback, podVars, busChan, buffer, bus, visits>>
  BY DEF Abandon
<1>2. PoolInv'
  BY PoolKept, <1>1
<1>3. pending' \in [Pods -> Bag]
  BY DEF Abandon, BusInv, BusTypeOK, Bag
<1>4. BusTypeOK'
  BY <1>1, <1>3 DEF BusInv, BusTypeOK, poolVars, podVars
<1>5. CauseInv' /\ HubInv'
  BY <1>1 DEF BusInv, CauseInv, HubInv, poolVars, podVars
<1>6. QED
  BY <1>2, <1>4, <1>5 DEF BusInv


\* The steps of the bus goroutine that leave the ring alone, by what becomes of its
\* local variables.
LEMMA TakeInv ==
  ASSUME BusInv, Take
  PROVE  BusInv'
<1>1. /\ bus' = [IdleBus EXCEPT !.pc = "peek", !.msg = Head(busChan)]
      /\ busChan' = Tail(busChan) /\ visits' = [p \in Pods |-> 0]
      /\ UNCHANGED <<poolVars, failed, pending, feedback, podVars, buffer>>
      /\ busChan # <<>> /\ busChan \in Seq(Msgs)
  BY DEF Take, BusInv, BusTypeOK
<1>2. Head(busChan) \in Msgs /\ Tail(busChan) \in Seq(Msgs)
  BY <1>1
<1>3. bus' \in BusType /\ ~bus'.walk /\ bus'.pc = "peek" /\ bus'.msg = Head(busChan)
  BY <1>1, <1>2, BagsOfMessages DEF IdleBus, BusType
<1>4. BusTypeOK'
  BY <1>1, <1>2, <1>3 DEF BusInv, BusTypeOK, poolVars, podVars
<1>5. PoolInv'
  BY <1>1, <1>2, <1>3 DEF BusInv, PoolInv, poolVars, Connected
<1>6. CauseInv' /\ HubInv'
  BY <1>1, <1>3 DEF BusInv, CauseInv, HubInv, poolVars, podVars
<1>7. QED
  BY <1>4, <1>5, <1>6 DEF BusInv

LEMMA PeekInv ==
  ASSUME BusInv, PreparePeek
  PROVE  BusInv'
<1>1. /\ bus.pc = "peek" /\ bus' = [bus EXCEPT !.pc = "check", !.cand = next[current]]
      /\ UNCHANGED <<poolVars, failed, pending, feedback, podVars, busChan, buffer, visits>>
      /\ bus \in BusType
  BY DEF PreparePeek, BusInv, BusTypeOK
<1>2. /\ bus' \in BusType /\ bus'.walk = bus.walk /\ bus'.pc = "check" /\ bus'.cand = next[current]
      /\ bus'.peeked = bus.peeked /\ bus'.start = bus.start /\ bus'.msg = bus.msg
  BY <1>1, RingFacts DEF BusType
<1>3. BusTypeOK'
  BY <1>1, <1>2 DEF BusInv, BusTypeOK, poolVars, podVars
<1>4. PoolInv'
  BY <1>1, <1>2, RingFacts DEF BusInv, PoolInv, poolVars, Connected
<1>5. CauseInv' /\ HubInv'
  BY <1>1, <1>2 DEF BusInv, CauseInv, HubInv, poolVars, podVars
<1>6. QED
  BY <1>3, <1>4, <1>5 DEF BusInv

\* checkStatus moves the failed messages from the feedback to the queue.
LEMMA CheckFacts ==
  ASSUME BusInv, checkStatus
  PROVE  /\ bus.pc = "check" /\ bus.cand \in Pods
         /\ bus' \in BusType /\ bus'.pc = "act"
         /\ bus'.status = feedback[bus.cand]
         /\ bus'.over <=> BagSize(failed'[bus.cand]) >= HighWaterMark
         /\ \A f \in {"walk", "msg", "start", "peeked", "cand", "astray"} : bus'[f] = bus[f]
         /\ failed' \in [Pods -> Bag] /\ feedback' \in [Pods -> FeedbackType]
         /\ feedback'[bus.cand] = NoFeedback
         /\ \A m \in Msgs : failed'[bus.cand][m] = failed[bus.cand][m] + feedback[bus.cand].failed[m]
         /\ \A p \in Pods \ {bus.cand} : failed'[p] = failed[p] /\ feedback'[p] = feedback[p]
         /\ UNCHANGED <<poolVars, pending, podVars, busChan, buffer, visits>>
<1> DEFINE c == bus.cand
<1> DEFINE b == [m \in Msgs |-> failed[c][m] + feedback[c].failed[m]]
<1>1. bus.pc = "check" /\ bus \in BusType /\ failed \in [Pods -> Bag] /\ feedback \in [Pods -> FeedbackType]
  BY DEF BusInv, BusTypeOK, checkStatus
<1>2. c \in Pods
  BY <1>1, RingFacts DEF BusInv, PoolInv, Pods
<1>3. feedback[c] \in FeedbackType /\ b \in Bag
  BY <1>1, <1>2, BagsOfMessages DEF FeedbackType
<1>4. /\ failed' = [failed EXCEPT ![c] = b] /\ feedback' = [feedback EXCEPT ![c] = NoFeedback]
      /\ bus' = [bus EXCEPT !.pc = "act", !.status = feedback[c], !.over = BagSize(b) >= HighWaterMark]
      /\ UNCHANGED <<poolVars, pending, podVars, busChan, buffer, visits>>
  BY DEF checkStatus
<1>5. failed'[c] = b /\ \A m \in Msgs : b[m] = failed[c][m] + feedback[c].failed[m]
  BY <1>1, <1>2, <1>4
<1>6. PICK o \in BOOLEAN : o = (BagSize(b) >= HighWaterMark)
  <2> HIDE DEF b
  <2>1. \A x, y : (x >= y) \in BOOLEAN
    OBVIOUS
  <2>2. QED
    BY <2>1
<1>7. bus' = [bus EXCEPT !.pc = "act", !.status = feedback[c], !.over = o]
  BY <1>4, <1>6
<1> HIDE DEF b, c
<1>8. /\ bus' \in BusType /\ bus'.pc = "act" /\ bus'.status = feedback[c] /\ bus'.over = o
      /\ \A f \in {"walk", "msg", "start", "peeked", "cand", "astray"} : bus'[f] = bus[f]
  BY <1>1, <1>3, <1>7 DEF BusType
<1>9. failed' \in [Pods -> Bag] /\ feedback' \in [Pods -> FeedbackType] /\ feedback'[c] = NoFeedback
  BY <1>1, <1>2, <1>3, <1>4, BagsOfMessages
<1>10. \A p \in Pods \ {c} : failed'[p] = failed[p] /\ feedback'[p] = feedback[p]
  BY <1>1, <1>4
<1>11. QED
  BY <1>1, <1>2, <1>4, <1>5, <1>6, <1>8, <1>9, <1>10 DEF c

LEMMA CheckInv ==
  ASSUME BusInv, checkStatus
  PROVE  BusInv'
<1>1. BusTypeOK'
  BY CheckFacts DEF BusInv, BusTypeOK, poolVars, podVars
<1>2. PoolInv'
  BY CheckFacts DEF BusInv, PoolInv, poolVars, Connected
<1>3. CauseInv'
  <2>1. ~NoFeedback.disconnect
    BY DEF NoFeedback
  <2>2. QED
    BY CheckFacts, <2>1 DEF BusInv, CauseInv, podVars
<1>4. HubInv'
  <2>1. CASE bus.cand # Hub
    BY <2>1, CheckFacts, RingFacts DEF BusInv, HubInv, poolVars, podVars
  <2>2. CASE bus.cand = Hub
    <3>1. \A m \in Msgs : failed'[Hub][m] = 0
      BY <2>2, CheckFacts DEF BusInv, HubInv, NoMsgs
    <3>2. failed'[Hub] = NoMsgs
      BY <3>1, <2>2, CheckFacts DEF NoMsgs, Bag
    <3>3. feedback'[Hub].failed = NoMsgs
      BY <2>2, CheckFacts DEF NoFeedback
    <3>4. QED
      BY <3>2, <3>3, CheckFacts DEF BusInv, HubInv, poolVars, podVars
  <2>3. QED
    BY <2>1, <2>2
<1>5. QED
  BY <1>1, <1>2, <1>3, <1>4 DEF BusInv


\* The next connection can be cut out: it is not the hub's, so not the only one.
LEMMA DeleteFacts ==
  ASSUME BusInv, bus.pc = "act", MustDelete
  PROVE  next[current] # Hub /\ next[current] # current
<1>1. /\ bus.cand \in 1 .. maxID
      /\ next[current] = bus.cand \/ (next[current] = maxID /\ maxID > Hub)
  BY DEF BusInv, PoolInv
<1>2. bus.cand # Hub
  <2> SUFFICES ASSUME bus.cand = Hub PROVE FALSE
    OBVIOUS
  <2>1. failed[Hub] = NoMsgs /\ ~pod[Hub].asked
    BY DEF BusInv, HubInv
  <2>2. ~bus.status.disconnect
    BY <2>1 DEF BusInv, CauseInv
  <2>3. bus.over
    BY <2>2 DEF MustDelete
  <2>4. BagSize(NoMsgs) >= HighWaterMark
    BY <2>1, <2>3 DEF BusInv, CauseInv
  <2>5. QED
    BY <2>4, NoneToSend, BusAssumption
<1>3. next[current] # Hub
  BY <1>1, <1>2, RingFacts DEF Hub
<1>4. ASSUME next[current] = current PROVE FALSE
  <2>1. Ring(Connected, next, current)
    BY DEF BusInv, PoolInv
  <2>2. Connected = {current}
    BY <1>4, <2>1, RingOfOne
  <2>3. QED
    BY <1>3, <1>4, <2>2, RingFacts
<1>5. QED
  BY <1>3, <1>4

\* prepareNext that removes a connection.
LEMMA DeleteStep ==
  ASSUME BusInv, Prepare, MustDelete
  PROVE  /\ next' = [next EXCEPT ![current] = next[next[current]]] /\ current' = current
         /\ connected' = [connected EXCEPT ![next[current]] = FALSE]
         /\ Connected' = Connected \ {next[current]}
         /\ Ring(Connected', next', current')
         /\ pod' \in [Pods -> PodType]
         /\ \A p \in Pods : \A f \in {"on", "denied", "type", "asked"} : pod'[p][f] = pod[p][f]
         /\ UNCHANGED <<maxID, pending, failed>>
<1>1. bus.pc = "act" /\ deleteNext
  BY DEF Prepare
<1>2. next[current] # Hub /\ next[current] # current
  BY <1>1, DeleteFacts
<1>3. /\ next' = [next EXCEPT ![current] = next[next[current]]] /\ current' = current
      /\ connected' = [connected EXCEPT ![next[current]] = FALSE]
      /\ pod' = [pod EXCEPT ![next[current]].dead = TRUE]
      /\ UNCHANGED <<maxID, pending, failed>>
  BY <1>1, <1>2 DEF deleteNext
<1>4. /\ next \in [Pods -> Pods \cup {None}] /\ connected \in [Pods -> BOOLEAN]
      /\ pod \in [Pods -> PodType] /\ next[current] \in Pods
  BY RingFacts DEF BusInv, BusTypeOK
<1>5. Connected' = Connected \ {next[current]}
  BY <1>3, <1>4 DEF Connected
<1>6. Ring(Connected \ {next[current]}, next', current)
  BY <1>2, <1>3, <1>4, RingDelete, RingFacts DEF BusInv, PoolInv
<1>7. /\ pod' \in [Pods -> PodType]
      /\ \A p \in Pods : \A f \in {"on", "denied", "type", "asked"} : pod'[p][f] = pod[p][f]
  BY <1>3, <1>4, ZenonT(60) DEF PodType
<1>8. QED
  BY <1>3, <1>5, <1>6, <1>7

\* prepareNext that keeps it: messages go to the connection that was checked and to
\* the one that is next.
LEMMA KeepStep ==
  ASSUME BusInv, Prepare, ~MustDelete
  PROVE  /\ UNCHANGED <<poolVars, pod>> /\ bus.cand \in Pods
         /\ pending' \in [Pods -> Bag] /\ failed' \in [Pods -> Bag]
         /\ \A p \in Pods, m \in Msgs : pending'[p][m] >= pending[p][m]
         /\ \A p \in Pods : failed'[p] = failed[p] \/ (p = bus.cand /\ failed'[p] = NoMsgs)
         /\ \A p \in Pods, m \in Msgs :
              pending'[p][m] > pending[p][m] =>
                connected[p] /\ (failed[p][m] > 0 \/ BufferBag[m] > 0)
         /\ \A p \in Pods, m \in Msgs :
              connected[p] /\ failed[p][m] > 0 => failed'[p][m] > 0 \/ pending'[p][m] > 0
<1> DEFINE c == bus.cand
<1> DEFINE r == IF MustReplay THEN Sent(next[current], BufferBag) ELSE pending
<1> DEFINE b == [m \in Msgs |-> r[c][m] + IF connected[c] THEN failed[c][m] ELSE 0]
<1>1. bus.pc = "act" /\ KeepNext
  BY DEF Prepare
<1>2. /\ pending \in [Pods -> Bag] /\ failed \in [Pods -> Bag] /\ connected \in [Pods -> BOOLEAN]
      /\ buffer \in Seq(Msgs)
  BY DEF BusInv, BusTypeOK
<1>3. c \in Pods
  BY <1>1, RingFacts DEF BusInv, PoolInv, Pods
<1>4. /\ pending' = IF bus.status.success THEN [r EXCEPT ![c] = b] ELSE r
      /\ failed' = IF bus.status.success THEN [failed EXCEPT ![c] = NoMsgs] ELSE failed
      /\ UNCHANGED <<poolVars, pod>>
  <2>1. [r EXCEPT ![c] = [m \in Msgs |-> @[m] + IF connected[c] THEN failed[c][m] ELSE 0]]
           = [r EXCEPT ![c] = b]
    OBVIOUS
  <2>2. QED
    BY <1>1, <2>1 DEF KeepNext
<1>5. /\ r \in [Pods -> Bag]
      /\ \A p \in Pods, m \in Msgs : r[p][m] >= pending[p][m]
      /\ \A p \in Pods, m \in Msgs : r[p][m] > pending[p][m] => connected[p] /\ BufferBag[m] > 0
  <2>1. \A p \in Pods, m \in Msgs : pending[p][m] \in Nat
    BY <1>2 DEF Bag
  <2>2. CASE ~MustReplay
    BY <1>2, <2>1, <2>2
  <2>3. CASE MustReplay
    <3>1. next[current] \in Pods /\ BufferBag \in Bag
      BY <1>2, BufferIsBag, RingFacts
    <3>2. PICK n \in Pods : n = next[current]
      BY <3>1
    <3>3. PICK bb \in Bag : bb = BufferBag
      BY <3>1
    <3>4. /\ r = Sent(n, bb) /\ Sent(n, bb) \in [Pods -> Bag]
          /\ \A q \in Pods \ {n} : Sent(n, bb)[q] = pending[q]
          /\ \A m \in Msgs : Sent(n, bb)[n][m] = pending[n][m] + IF connected[n] THEN bb[m] ELSE 0
      BY <2>3, <1>2, <3>2, <3>3, SentIsBags
    <3> HIDE DEF r
    <3>5. \A m \in Msgs : bb[m] \in Nat
      BY DEF Bag
    <3>6. \A p \in Pods, m \in Msgs :
            r[p][m] >= pending[p][m] /\ (r[p][m] > pending[p][m] => connected[p] /\ bb[m] > 0)
      <4> SUFFICES ASSUME NEW p \in Pods, NEW m \in Msgs
                   PROVE  r[p][m] >= pending[p][m] /\ (r[p][m] > pending[p][m] => connected[p] /\ bb[m] > 0)
        OBVIOUS
      <4>1. CASE p = n
        BY <4>1, <3>4, <3>5, <2>1
      <4>2. CASE p # n
        BY <4>2, <3>4, <2>1
      <4>3. QED
        BY <4>1, <4>2
    <3>7. QED
      BY <3>3, <3>4, <3>6
  <2>4. QED
    BY <2>2, <2>3
<1> HIDE DEF r
<1>6. \A p \in Pods, m \in Msgs : r[p][m] \in Nat /\ failed[p][m] \in Nat /\ pending[p][m] \in Nat
  BY <1>2, <1>5 DEF Bag
<1>7. /\ b \in Bag
      /\ \A m \in Msgs : b[m] = r[c][m] + IF connected[c] THEN failed[c][m] ELSE 0
  <2>1. \A m \in Msgs : (r[c][m] + IF connected[c] THEN failed[c][m] ELSE 0) \in Nat
    BY <1>3, <1>6
  <2>2. QED
    BY <2>1 DEF Bag
<1> HIDE DEF b, c
<1>8. CASE ~bus.status.success
  BY <1>2, <1>3, <1>4, <1>5, <1>6, <1>8 DEF c
<1>9. CASE bus.status.success
  <2>1. /\ pending' \in [Pods -> Bag] /\ failed' \in [Pods -> Bag]
        /\ pending'[c] = b /\ failed'[c] = NoMsgs
        /\ \A p \in Pods \ {c} : pending'[p] = r[p] /\ failed'[p] = failed[p]
    BY <1>2, <1>3, <1>4, <1>5, <1>7, <1>9, BagsOfMessages
  <2>2. ASSUME NEW p \in Pods, NEW m \in Msgs
        PROVE  /\ pending'[p][m] >= pending[p][m]
               /\ pending'[p][m] > pending[p][m] => connected[p] /\ (failed[p][m] > 0 \/ BufferBag[m] > 0)
               /\ connected[p] /\ failed[p][m] > 0 => failed'[p][m] > 0 \/ pending'[p][m] > 0
    <3>1. CASE p # c
      BY <3>1, <2>1, <1>5, <1>6
    <3>2. CASE p = c
      <4>1. pending'[p][m] = r[p][m] + IF connected[p] THEN failed[p][m] ELSE 0
        BY <3>2, <2>1, <1>7
      <4>2. /\ r[p][m] >= pending[p][m]
            /\ r[p][m] > pending[p][m] => connected[p] /\ BufferBag[m] > 0
            /\ r[p][m] \in Nat /\ failed[p][m] \in Nat /\ pending[p][m] \in Nat
        BY <1>5, <1>6
      <4>3. QED
        BY <4>1, <4>2
    <3>3. QED
      BY <3>1, <3>2
  <2>3. QED
    BY <1>3, <1>4, <2>1, <2>2 DEF c
<1>10. QED
  BY <1>8, <1>9


\* The local variables of the bus after prepareNext.
LEMMA PrepareBus ==
  ASSUME BusInv, Prepare
  PROVE  /\ bus.pc = "act" /\ bus' \in BusType
         /\ bus'.pc = IF MustDelete /\ ~bus.walk THEN "peek" ELSE "advance"
         /\ \A f \in {"walk", "msg", "peeked"} : bus'[f] = bus[f]
         /\ bus'.start = IF MustDelete /\ bus.walk /\ bus.start = bus.peeked
                           THEN next'[bus.peeked] ELSE bus.start
         /\ bus'.astray <=> bus.astray \/ Swapped \/ Misled
         /\ UNCHANGED <<feedback, unsent, handled, owed, busChan, buffer, visits, maxID>>
<1>1. bus \in BusType /\ next \in [Pods -> Pods \cup {None}] /\ bus.pc = "act"
  BY DEF BusInv, BusTypeOK, Prepare
<1>2. next' \in [Pods -> Pods \cup {None}] /\ maxID' = maxID
  <2>1. CASE MustDelete
    BY <2>1, <1>1, DeleteStep, RingFacts
  <2>2. CASE ~MustDelete
    BY <2>2, <1>1, KeepStep DEF poolVars
  <2>3. QED
    BY <2>1, <2>2
<1>3. PICK w \in {"peek", "advance"} : w = IF MustDelete /\ ~bus.walk THEN "peek" ELSE "advance"
  OBVIOUS
<1>4. PICK s \in Pods \cup {None} :
        s = IF MustDelete /\ bus.walk /\ bus.start = bus.peeked THEN next'[bus.peeked] ELSE bus.start
  <2>1. bus.start \in Pods \cup {None}
    BY <1>1 DEF BusType
  <2>2. bus.walk => bus.peeked \in Pods
    BY <1>1 DEF BusInv, PoolInv
  <2>3. QED
    BY <1>2, <2>1, <2>2
<1>5. PICK a \in BOOLEAN : a = (bus.astray \/ Swapped \/ Misled)
  OBVIOUS
<1>6. /\ bus' = [bus EXCEPT !.pc = w, !.start = s, !.astray = a,
                           !.status = NoFeedback, !.over = FALSE, !.cand = None]
      /\ UNCHANGED <<feedback, unsent, handled, owed, busChan, buffer, visits>>
  BY <1>3, <1>4, <1>5, Zenon DEF Prepare
<1>7. /\ bus' \in BusType /\ bus'.pc = w /\ bus'.start = s /\ bus'.astray = a
      /\ \A f \in {"walk", "msg", "peeked"} : bus'[f] = bus[f]
  BY <1>1, <1>6, BagsOfMessages DEF BusType
<1>8. QED
  BY <1>1, <1>2, <1>3, <1>4, <1>5, <1>6, <1>7

LEMMA PrepareInv ==
  ASSUME BusInv, Prepare
  PROVE  BusInv'
<1>1. /\ Ring(Connected', next', current') /\ Connected' \subseteq Connected
      /\ pod' \in [Pods -> PodType] /\ \A p \in Pods : pod'[p].asked = pod[p].asked
      /\ pending' \in [Pods -> Bag] /\ failed' \in [Pods -> Bag]
      /\ failed'[Hub] = NoMsgs /\ connected'[Hub]
      /\ next' \in [Pods -> Pods \cup {None}] /\ current' \in Pods
      /\ connected' \in [Pods -> BOOLEAN]
  <2>1. BusTypeOK
    BY DEF BusInv
  <2>2. CASE MustDelete
    <3>1. next[current] # Hub
      BY <2>2, PrepareBus, DeleteFacts
    <3>2. connected'[Hub] /\ failed'[Hub] = NoMsgs
      BY <2>1, <2>2, <3>1, DeleteStep, RingFacts DEF BusInv, HubInv, BusTypeOK
    <3>3. next' \in [Pods -> Pods \cup {None}] /\ connected' \in [Pods -> BOOLEAN]
      BY <2>1, <2>2, DeleteStep, RingFacts DEF BusTypeOK
    <3>4. pending' \in [Pods -> Bag] /\ failed' \in [Pods -> Bag]
      BY <2>1, <2>2, DeleteStep DEF BusTypeOK
    <3>5. Connected' \subseteq Connected /\ current' \in Pods
      BY <2>2, DeleteStep, RingFacts
    <3>6. QED
      BY <2>2, <3>2, <3>3, <3>4, <3>5, DeleteStep
  <2>3. CASE ~MustDelete
    <3>1. failed'[Hub] = NoMsgs
      BY <2>3, KeepStep, RingFacts DEF BusInv, HubInv
    <3>2. UNCHANGED <<poolVars, pod>> /\ Connected' = Connected
      BY <2>3, KeepStep DEF poolVars, Connected
    <3>3. QED
      BY <2>1, <2>3, <3>1, <3>2, KeepStep, RingFacts DEF BusInv, BusTypeOK, PoolInv, HubInv, poolVars
  <2>4. QED
    BY <2>2, <2>3
<1>2. BusTypeOK'
  BY <1>1, PrepareBus DEF BusInv, BusTypeOK
<1>3. PoolInv'
  BY <1>1, PrepareBus DEF BusInv, PoolInv
<1>4. CauseInv'
  BY <1>1, PrepareBus DEF BusInv, CauseInv
<1>5. HubInv'
  BY <1>1, PrepareBus, RingFacts DEF BusInv, HubInv
<1>6. QED
  BY <1>2, <1>3, <1>4, <1>5 DEF BusInv

\* pool.next(): the walk ends, or goes on.
LEMMA AdvanceFacts ==
  ASSUME BusInv, Advance
  PROVE  /\ bus.pc = "advance" /\ current' = next[current] /\ bus' \in BusType
         /\ UNCHANGED <<next, maxID, connected, failed, pending, feedback, podVars, busChan, visits>>
         /\ \/ /\ bus.walk /\ bus.start = next[current] /\ bus' = IdleBus
               /\ buffer' = Push(bus.msg)
            \/ /\ ~(bus.walk /\ bus.start = next[current])
               /\ bus'.pc = "send" /\ bus'.walk
               /\ bus'.start = IF bus.walk THEN bus.start ELSE next[current]
               /\ \A f \in {"msg", "peeked", "astray"} : bus'[f] = bus[f]
               /\ UNCHANGED buffer
<1>1. bus \in BusType /\ next[current] \in Pods
  BY RingFacts DEF BusInv, BusTypeOK
<1>2. /\ bus.pc = "advance" /\ current' = next[current]
      /\ UNCHANGED <<next, maxID, connected, failed, pending, feedback, podVars, busChan, visits>>
  BY DEF Advance
<1>3. CASE bus.walk /\ bus.start = next[current]
  <2>1. bus' = IdleBus /\ buffer' = Push(bus.msg)
    BY <1>3 DEF Advance
  <2>2. IdleBus \in BusType
    BY BagsOfMessages DEF IdleBus, BusType
  <2>3. QED
    BY <1>2, <1>3, <2>1, <2>2
<1>4. CASE ~(bus.walk /\ bus.start = next[current])
  <2>1. PICK s \in Pods \cup {None} : s = IF bus.walk THEN bus.start ELSE next[current]
    BY <1>1 DEF BusType
  <2>2. bus' = [bus EXCEPT !.pc = "send", !.walk = TRUE, !.start = s] /\ UNCHANGED buffer
    BY <1>4, <2>1 DEF Advance
  <2>3. /\ bus' \in BusType /\ bus'.pc = "send" /\ bus'.walk /\ bus'.start = s
        /\ \A f \in {"msg", "peeked", "astray"} : bus'[f] = bus[f]
    BY <1>1, <2>2 DEF BusType
  <2>4. QED
    BY <1>2, <1>4, <2>1, <2>2, <2>3
<1>5. QED
  BY <1>3, <1>4


LEMMA PushIsSequence ==
  ASSUME buffer \in Seq(Msgs), NEW m \in Msgs
  PROVE  /\ Push(m) \in Seq(Msgs)
         /\ \A i \in 1 .. Len(Push(m)) : Push(m)[i] = m \/ \E j \in 1 .. Len(buffer) : Push(m)[i] = buffer[j]
<1> DEFINE b == Append(buffer, m)
<1>1. b \in Seq(Msgs) /\ Len(b) = Len(buffer) + 1 /\ Len(buffer) \in Nat
      /\ \A i \in 1 .. Len(buffer) : b[i] = buffer[i]
      /\ b[Len(buffer) + 1] = m
  OBVIOUS
<1>2. \A i \in 1 .. Len(b) : b[i] = m \/ \E j \in 1 .. Len(buffer) : b[i] = buffer[j]
  BY <1>1
<1>3. b # <<>>
  BY <1>1
<1> HIDE DEF b
<1>4. Tail(b) \in Seq(Msgs) /\ Len(Tail(b)) = Len(b) - 1
      /\ \A i \in 1 .. Len(b) - 1 : Tail(b)[i] = b[i + 1]
  BY <1>1, <1>3
<1>5. \A i \in 1 .. Len(Tail(b)) : i + 1 \in 1 .. Len(b) /\ Tail(b)[i] = b[i + 1]
  BY <1>1, <1>4
<1>6. \A i \in 1 .. Len(Tail(b)) : Tail(b)[i] = m \/ \E j \in 1 .. Len(buffer) : Tail(b)[i] = buffer[j]
  BY <1>2, <1>5
<1>7. Push(m) = IF Len(b) > BufferLimit THEN Tail(b) ELSE b
  BY DEF Push, b
<1>8. QED
  BY <1>1, <1>2, <1>4, <1>6, <1>7

LEMMA AdvanceInv ==
  ASSUME BusInv, Advance
  PROVE  BusInv'
<1>1. buffer' \in Seq(Msgs)
  <2>1. buffer \in Seq(Msgs) /\ bus.msg \in Msgs
    BY AdvanceFacts DEF BusInv, BusTypeOK, PoolInv
  <2>2. QED
    BY <2>1, AdvanceFacts, PushIsSequence
<1>2. BusTypeOK'
  BY <1>1, AdvanceFacts, RingFacts DEF BusInv, BusTypeOK, podVars
<1>3. Ring(Connected', next', current')
  BY AdvanceFacts, RingAdvance DEF BusInv, PoolInv, Connected
<1>4. PoolInv'
  BY <1>3, AdvanceFacts DEF BusInv, PoolInv, Connected, IdleBus
<1>5. CauseInv' /\ HubInv'
  BY AdvanceFacts DEF BusInv, CauseInv, HubInv, podVars, IdleBus
<1>6. QED
  BY <1>2, <1>4, <1>5 DEF BusInv

\* traverse: the message is sent to the current connection.
LEMMA SendFacts ==
  ASSUME BusInv, SendToCurrent
  PROVE  /\ bus.pc = "send" /\ bus' \in BusType /\ bus'.pc = "peek" /\ bus'.peeked = next[current]
         /\ \A f \in {"walk", "msg", "start", "astray"} : bus'[f] = bus[f]
         /\ pending' \in [Pods -> Bag]
         /\ \A p \in Pods, m \in Msgs : pending'[p][m] >= pending[p][m]
         /\ \A p \in Pods, m \in Msgs :
              pending'[p][m] > pending[p][m] => connected[p] /\ m = bus.msg
         /\ visits' \in [Pods -> Nat] /\ visits' = [visits EXCEPT ![current] = @ + 1]
         /\ UNCHANGED <<poolVars, failed, feedback, podVars, busChan, buffer>>
<1>1. /\ bus \in BusType /\ pending \in [Pods -> Bag] /\ connected \in [Pods -> BOOLEAN]
      /\ visits \in [Pods -> Nat] /\ current \in Pods /\ next[current] \in Pods
  BY RingFacts DEF BusInv, BusTypeOK
<1>2. /\ bus.pc = "send" /\ bus' = [bus EXCEPT !.pc = "peek", !.peeked = next[current]]
      /\ visits' = [visits EXCEPT ![current] = @ + 1] /\ pending' = Sent(current, One(bus.msg))
      /\ UNCHANGED <<poolVars, failed, feedback, podVars, busChan, buffer>>
  BY DEF SendToCurrent
<1>3. /\ bus' \in BusType /\ bus'.pc = "peek" /\ bus'.peeked = next[current]
      /\ \A f \in {"walk", "msg", "start", "astray"} : bus'[f] = bus[f]
  BY <1>1, <1>2 DEF BusType
<1>4. PICK o \in Bag : o = One(bus.msg)
  BY BagsOfMessages
<1>5. \A m \in Msgs : o[m] \in Nat /\ (o[m] > 0 => m = bus.msg)
  BY <1>4 DEF One
<1>6. /\ pending' \in [Pods -> Bag]
      /\ \A q \in Pods \ {current} : pending'[q] = pending[q]
      /\ \A m \in Msgs : pending'[current][m] = pending[current][m] + IF connected[current] THEN o[m] ELSE 0
  BY <1>1, <1>2, <1>4, SentIsBags
<1>7. \A p \in Pods, m \in Msgs : pending[p][m] \in Nat
  BY <1>1 DEF Bag
<1>8. \A p \in Pods, m \in Msgs :
        /\ pending'[p][m] >= pending[p][m]
        /\ pending'[p][m] > pending[p][m] => connected[p] /\ m = bus.msg
  <2> SUFFICES ASSUME NEW p \in Pods, NEW m \in Msgs
               PROVE  /\ pending'[p][m] >= pending[p][m]
                      /\ pending'[p][m] > pending[p][m] => connected[p] /\ m = bus.msg
    OBVIOUS
  <2>1. CASE p = current
    BY <2>1, <1>5, <1>6, <1>7
  <2>2. CASE p # current
    BY <2>2, <1>6, <1>7
  <2>3. QED
    BY <2>1, <2>2
<1>9. visits' \in [Pods -> Nat]
  BY <1>1, <1>2
<1>10. QED
  BY <1>2, <1>3, <1>6, <1>8, <1>9

LEMMA SendToCurrentInv ==
  ASSUME BusInv, SendToCurrent
  PROVE  BusInv'
<1>1. BusTypeOK'
  BY SendFacts DEF BusInv, BusTypeOK, poolVars, podVars
<1>2. PoolInv'
  <2>1. Connected' = Connected
    BY SendFacts DEF poolVars, Connected
  <2>2. bus'.peeked \in Pods
    BY SendFacts, RingFacts
  <2>3. QED
    BY SendFacts, <2>1, <2>2 DEF BusInv, PoolInv, poolVars
<1>3. CauseInv' /\ HubInv'
  BY SendFacts DEF BusInv, CauseInv, HubInv, poolVars, podVars
<1>4. QED
  BY <1>1, <1>2, <1>3 DEF BusInv

LEMMA BusStepInv ==
  ASSUME BusInv, [BusNext]_busVars
  PROVE  BusInv'
<1>1. CASE Connect
  BY <1>1, ConnectInv
<1>2. ASSUME NEW p \in Pods, PodStep(p) PROVE BusInv'
  BY <1>2, SendInv, HandleInv, AbandonInv, OnInv, DisconnectInv DEF PodStep
<1>3. CASE BusStep
  BY <1>3, TakeInv, PeekInv, CheckInv, PrepareInv, AdvanceInv, SendToCurrentInv DEF BusStep
<1>4. CASE UNCHANGED busVars
  BY <1>4 DEF BusInv, BusTypeOK, PoolInv, CauseInv, HubInv, busVars, poolVars, podVars, Connected
<1>5. QED
  BY <1>1, <1>2, <1>3, <1>4 DEF BusNext

\* insert, deleteNext, next: whatever is connected, removed and reported during the
\* walks, the links are a ring of exactly the connected pods and it is never empty.
THEOREM RingCorrect == BusSpec => []RingInvariant
<1>1. BusInv => RingInvariant
  BY DEF BusInv, PoolInv, Ring, RingInvariant, RingIsConnected
<1>2. QED
  BY BusInitInv, BusStepInv, <1>1, PTL DEF BusSpec

\* prepareNext, deleteNext: a connection is cut out for what its pod did, or because
\* it was inserted between the check of such a pod and deleteNext.
THEOREM RemovalHasCause == BusSpec => RemovedForCause
<1>1. ASSUME BusInv, [BusNext]_busVars, NEW p \in Pods, connected[p], ~connected'[p]
      PROVE  Cause(p) \/ (Cause(bus.cand) /\ bus.cand # p /\ p = maxID)
  <2>1. connected \in [Pods -> BOOLEAN]
    BY <1>1 DEF BusInv, BusTypeOK
  <2>2. CASE Prepare /\ MustDelete
    <3>1. p = next[current]
      BY <1>1, <2>1, <2>2, DeleteStep, RingFacts
    <3>2. Cause(bus.cand)
      BY <1>1, <2>2 DEF BusInv, CauseInv, Cause, MustDelete, Prepare
    <3>3. next[current] = bus.cand \/ next[current] = maxID
      BY <1>1, <2>2 DEF BusInv, PoolInv, Prepare
    <3>4. QED
      BY <3>1, <3>2, <3>3
  <2>3. CASE Prepare /\ ~MustDelete
    BY <1>1, <2>3, KeepStep DEF poolVars
  <2>4. CASE Connect
    <3>1. connected' = [connected EXCEPT ![maxID + 1] = TRUE]
      BY <2>4 DEF Connect
    <3>2. QED
      BY <1>1, <2>1, <3>1
  <2>5. CASE UNCHANGED connected
    BY <1>1, <2>5
  <2>6. QED
    BY <1>1, <2>2, <2>3, <2>4, <2>5
    DEF BusNext, BusStep, PodStep, busVars, poolVars, Send, Handle, Abandon, On, Disconnect,
        Take, PreparePeek, checkStatus, Advance, SendToCurrent
<1>2. BusInv /\ [BusNext]_busVars =>
        [\A p \in Pods : connected[p] /\ ~connected'[p] =>
           Cause(p) \/ (Cause(bus.cand) /\ bus.cand # p /\ p = maxID)]_busVars
  BY <1>1
<1>3. QED
  BY BusInitInv, BusStepInv, <1>2, PTL DEF BusSpec, RemovedForCause


-----------------------------------------------------------------------------
(* Failed messages *)

LEMMA CountsAreNat ==
  ASSUME BusTypeOK, NEW p \in Pods, NEW m \in Msgs
  PROVE  feedback[p].failed[m] \in Nat /\ failed[p][m] \in Nat /\ pending[p][m] \in Nat
BY DEF BusTypeOK, FeedbackType, Bag

\* Both invariants survive a step that sends nothing new, loses nothing of what a
\* connected pod owes and leaves the filters alone.
LEMMA OwedKept ==
  ASSUME BusInv, SentInv, OwedInv, UNCHANGED <<unsent, owed, maxID>>,
         \A p \in Pods : connected'[p] => connected[p],
         \A p \in Pods, m \in Msgs : Kept(p, m)' => m \notin unsent,
         \A p \in Pods, m \in Msgs : connected[p] /\ Kept(p, m) => Kept(p, m)',
         \A p \in Pods, m \in Msgs : pending'[p][m] > 0 => pending[p][m] > 0 \/ connected[p],
         \A p \in Pods : \A f \in {"on", "denied", "type"} : pod'[p][f] = pod[p][f],
         \A i \in 1 .. Len(busChan') : busChan'[i] \notin unsent,
         \A i \in 1 .. Len(buffer') : buffer'[i] \notin unsent,
         bus'.pc # "idle" => bus'.msg \notin unsent
  PROVE  SentInv' /\ OwedInv'
<1>1. SentInv'
  BY DEF SentInv
<1>2. \A p \in Pods, m \in Msgs : Allows(p, m) => Allows(p, m)'
  BY DEF Allows
<1>3. \A p \in Pods : p > maxID => ~connected[p]
  <2>1. \A p \in Pods : p \in Int
    BY RingFacts DEF Pods
  <2>2. QED
    BY <2>1, RingFacts DEF Connected
<1>4. owed \in [Pods -> SUBSET Msgs]
  BY DEF BusInv, BusTypeOK
<1>5. \A p \in Pods : p > maxID => \A m \in Msgs : ~(pending'[p][m] > 0)
  BY <1>3 DEF OwedInv
<1>6. QED
  BY <1>1, <1>2, <1>4, <1>5 DEF OwedInv

LEMMA SentInit == BusInit => SentInv /\ OwedInv
BY DEF BusInit, SentInv, OwedInv, Kept, NoMsgs, NoFeedback, IdleBus

LEMMA SentConnect ==
  ASSUME BusInv, SentInv, OwedInv, Connect
  PROVE  SentInv' /\ OwedInv'
<1>1. /\ maxID' = maxID + 1 /\ connected' = [connected EXCEPT ![maxID + 1] = TRUE]
      /\ UNCHANGED <<failed, pending, feedback, podVars, busChan, buffer, bus, visits>>
  BY DEF Connect
<1>2. SentInv'
  BY <1>1 DEF SentInv, Kept, podVars
<1>3. \A p \in Pods : p \in Int
  BY RingFacts DEF Pods
<1>4. maxID \in Int /\ connected \in [Pods -> BOOLEAN]
  BY RingFacts DEF BusInv, BusTypeOK
<1>5. \A p \in Pods : p > maxID' => p > maxID
  BY <1>1, <1>3, <1>4
<1>6. owed[maxID + 1] = {}
  <2>1. maxID + 1 \in Pods /\ maxID + 1 > maxID
    BY RingFacts DEF Connect, Pods
  <2>2. QED
    BY <2>1 DEF OwedInv
<1>7. \A p \in Pods : p # maxID + 1 => connected'[p] = connected[p]
  BY <1>1, <1>4
<1>8. OwedInv'
  BY <1>1, <1>5, <1>6, <1>7 DEF OwedInv, Kept, Allows, podVars
<1>9. QED
  BY <1>2, <1>8

LEMMA SentSend ==
  ASSUME BusInv, SentInv, OwedInv, NEW p \in Pods, NEW m \in Msgs, Send(p, m)
  PROVE  SentInv' /\ OwedInv'
<1>1. /\ UNCHANGED <<poolVars, failed, pending, feedback, buffer, bus, handled, owed, visits>>
      /\ unsent' = unsent \ {m} /\ m \in unsent
  BY DEF Send
<1>2. pod \in [Pods -> PodType] /\ busChan \in Seq(Msgs) /\ owed \in [Pods -> SUBSET Msgs]
  BY DEF BusInv, BusTypeOK
<1>3. \A i \in 1 .. Len(busChan') : busChan'[i] \notin unsent'
  <2>1. CASE busChan' = busChan
    BY <1>1, <2>1 DEF SentInv
  <2>2. CASE busChan' = Append(busChan, m)
    BY <1>1, <1>2, <2>2 DEF SentInv
  <2>3. QED
    BY <2>1, <2>2 DEF Send
<1>4. SentInv'
  BY <1>1, <1>3 DEF SentInv, Kept
<1>5. \A q \in Pods : /\ pod'[q].on = pod[q].on /\ pod'[q].type = pod[q].type
                      /\ pod'[q].denied \subseteq pod[q].denied \cup {m}
  <2>1. CASE pod' = pod
    BY <2>1
  <2>2. CASE pod' = [pod EXCEPT ![p].denied = @ \cup {m}]
    BY <1>2, <2>2 DEF PodType
  <2>3. QED
    BY <2>1, <2>2 DEF Send
<1>6. ASSUME NEW q \in Pods, NEW n \in owed[q]
      PROVE  pod'[q].on /\ Allows(q, n)' /\ n \notin unsent'
  <2>1. pod[q].on /\ Allows(q, n) /\ n \notin unsent /\ n # m
    BY <1>1 DEF OwedInv
  <2>2. QED
    BY <1>1, <1>5, <2>1 DEF Allows
<1>7. OwedInv'
  BY <1>1, <1>6 DEF OwedInv, Kept, poolVars
<1>8. QED
  BY <1>4, <1>7

LEMMA SentOn ==
  ASSUME BusInv, SentInv, OwedInv, NEW p \in Pods, On(p)
  PROVE  SentInv' /\ OwedInv'
<1>1. /\ ~pod[p].on
      /\ pod' = [pod EXCEPT ![p].on = TRUE, ![p].denied = {}, ![p].type = Wants[p]]
      /\ feedback' = [feedback EXCEPT ![p].replay = @ \/ p \in Replayers]
      /\ UNCHANGED <<poolVars, failed, pending, unsent, handled, owed, busChan, buffer, bus, visits>>
  BY DEF On
<1>2. \A q \in Pods : feedback'[q].failed = feedback[q].failed
  BY <1>1 DEF BusInv, BusTypeOK, FeedbackType
<1>3. \A q \in Pods, m \in Msgs : Kept(q, m)' <=> Kept(q, m)
  BY <1>1, <1>2 DEF Kept
<1>4. SentInv'
  BY <1>1, <1>3 DEF SentInv
<1>5. owed[p] = {} /\ owed \in [Pods -> SUBSET Msgs]
  BY <1>1 DEF OwedInv, BusInv, BusTypeOK
<1>6. \A q \in Pods \ {p} : pod'[q] = pod[q]
  BY <1>1 DEF BusInv, BusTypeOK
<1>7. OwedInv'
  BY <1>1, <1>3, <1>5, <1>6 DEF OwedInv, Allows, poolVars
<1>8. QED
  BY <1>4, <1>7

LEMMA SentDisconnect ==
  ASSUME BusInv, SentInv, OwedInv, NEW p \in Pods, Disconnect(p)
  PROVE  SentInv' /\ OwedInv'
<1>1. /\ pod' = [pod EXCEPT ![p].dead = TRUE, ![p].asked = TRUE]
      /\ feedback' = [feedback EXCEPT ![p].disconnect = TRUE]
      /\ UNCHANGED <<poolVars, failed, pending, unsent, handled, owed, busChan, buffer, bus, visits>>
  BY DEF Disconnect
<1>2. \A q \in Pods : feedback'[q].failed = feedback[q].failed
  BY <1>1 DEF BusInv, BusTypeOK, FeedbackType
<1>3. \A q \in Pods, m \in Msgs : Kept(q, m)' <=> Kept(q, m)
  BY <1>1, <1>2 DEF Kept
<1>4. \A q \in Pods : \A f \in {"on", "denied", "type"} : pod'[q][f] = pod[q][f]
  BY <1>1 DEF BusInv, BusTypeOK, PodType
<1>5. SentInv'
  BY <1>1, <1>3 DEF SentInv
<1>6. owed \in [Pods -> SUBSET Msgs]
  BY DEF BusInv, BusTypeOK
<1>7. OwedInv'
  BY <1>1, <1>3, <1>4, <1>6 DEF OwedInv, Allows, poolVars
<1>8. QED
  BY <1>5, <1>7


LEMMA SentHandle ==
  ASSUME BusInv, SentInv, OwedInv, NEW p \in Pods, NEW m \in Msgs, Handle(p, m)
  PROVE  SentInv' /\ OwedInv'
<1>1. BusTypeOK /\ UNCHANGED <<poolVars, failed, pod, unsent, busChan, buffer, bus, visits>>
  BY DEF Handle, BusInv
<1>2. m \notin unsent /\ ~(p > maxID)
  BY <1>1, HandleFacts DEF SentInv, OwedInv, Kept
<1>3. \A q \in Pods, n \in Msgs : <<q, n>> # <<p, m>> => (Kept(q, n)' <=> Kept(q, n))
  BY <1>1, HandleFacts DEF Kept
<1>4. SentInv'
  BY <1>1, <1>2, <1>3 DEF SentInv
<1>5. ASSUME NEW q \in Pods, NEW n \in owed'[q]
      PROVE  /\ pod[q].on /\ Allows(q, n) /\ n \notin unsent
             /\ connected[q] => Kept(q, n)'
  <2>1. n \in Msgs
    BY <1>1, HandleFacts
  <2>2. CASE <<q, n>> # <<p, m>>
    BY <1>1, <1>3, <2>1, <2>2, HandleFacts DEF OwedInv
  <2>3. CASE <<q, n>> = <<p, m>>
    <3>1. IF pod[p].on /\ Allows(p, m) THEN feedback'[p].failed[m] > 0 ELSE m \in owed[p]
      BY <1>1, <2>3, HandleFacts
    <3>2. pod[p].on /\ Allows(p, m) /\ feedback'[p].failed[m] > 0
      BY <3>1 DEF OwedInv
    <3>3. QED
      BY <1>2, <2>3, <3>2 DEF Kept
  <2>4. QED
    BY <2>2, <2>3
<1>6. ASSUME NEW q \in Pods, q > maxID
      PROVE  owed'[q] = {} /\ \A n \in Msgs : ~(pending'[q][n] > 0)
  BY <1>1, <1>2, <1>6, HandleFacts DEF OwedInv
<1>7. OwedInv'
  BY <1>1, <1>5, <1>6 DEF OwedInv, Allows, poolVars
<1>8. QED
  BY <1>4, <1>7

LEMMA SentAbandon ==
  ASSUME BusInv, SentInv, OwedInv, NEW p \in Pods, NEW m \in Msgs, Abandon(p, m)
  PROVE  SentInv' /\ OwedInv'
<1>1. /\ UNCHANGED <<poolVars, failed, feedback, podVars, busChan, buffer, bus, visits>>
      /\ ~connected[p] /\ pending' = [pending EXCEPT ![p][m] = @ - 1] /\ pending[p][m] > 0
  BY DEF Abandon
<1>2. pending \in [Pods -> Bag]
  BY DEF BusInv, BusTypeOK
<1>3. /\ \A q \in Pods \ {p} : pending'[q] = pending[q]
      /\ \A n \in Msgs : pending'[p][n] > 0 => pending[p][n] > 0
  BY <1>1, <1>2 DEF Bag
<1>4. \A q \in Pods, n \in Msgs : Kept(q, n)' => Kept(q, n)
  BY <1>1, <1>3 DEF Kept
<1>5. \A q \in Pods, n \in Msgs : connected[q] /\ Kept(q, n) => Kept(q, n)'
  BY <1>1, <1>3 DEF Kept
<1>6. QED
  BY <1>1, <1>3, <1>4, <1>5, OwedKept DEF SentInv, poolVars, podVars

LEMMA SentTake ==
  ASSUME BusInv, SentInv, OwedInv, Take
  PROVE  SentInv' /\ OwedInv'
<1>1. /\ busChan # <<>> /\ bus' = [IdleBus EXCEPT !.pc = "peek", !.msg = Head(busChan)]
      /\ busChan' = Tail(busChan) /\ busChan \in Seq(Msgs)
      /\ UNCHANGED <<poolVars, failed, pending, feedback, podVars, buffer>>
  BY DEF Take, BusInv, BusTypeOK
<1>2. bus'.msg = Head(busChan)
  BY <1>1 DEF IdleBus
<1>3. Head(busChan) = busChan[1] /\ 1 \in 1 .. Len(busChan)
  BY <1>1
<1>4. \A i \in 1 .. Len(busChan') : i + 1 \in 1 .. Len(busChan) /\ busChan'[i] = busChan[i + 1]
  BY <1>1
<1>5. \A p \in Pods, m \in Msgs : Kept(p, m)' <=> Kept(p, m)
  BY <1>1 DEF Kept
<1>6. QED
  BY <1>1, <1>2, <1>3, <1>4, <1>5, OwedKept DEF SentInv, poolVars, podVars

LEMMA SentPeek ==
  ASSUME BusInv, SentInv, OwedInv, PreparePeek
  PROVE  SentInv' /\ OwedInv'
<1>1. /\ bus.pc = "peek" /\ bus' = [bus EXCEPT !.pc = "check", !.cand = next[current]]
      /\ UNCHANGED <<poolVars, failed, pending, feedback, podVars, busChan, buffer, visits>>
  BY DEF PreparePeek
<1>2. bus'.msg = bus.msg
  BY <1>1 DEF BusInv, BusTypeOK, BusType
<1>3. \A p \in Pods, m \in Msgs : Kept(p, m)' <=> Kept(p, m)
  BY <1>1 DEF Kept
<1>4. QED
  BY <1>1, <1>2, <1>3, OwedKept DEF SentInv, poolVars, podVars

LEMMA SentCheck ==
  ASSUME BusInv, SentInv, OwedInv, checkStatus
  PROVE  SentInv' /\ OwedInv'
<1>1. /\ bus.pc = "check" /\ bus'.msg = bus.msg
      /\ UNCHANGED <<poolVars, pending, podVars, busChan, buffer, visits>>
  BY CheckFacts
<1>2. ASSUME NEW p \in Pods, NEW m \in Msgs
      PROVE  Kept(p, m)' <=> Kept(p, m)
  <2>1. CASE p # bus.cand
    BY <1>1, <2>1, CheckFacts DEF Kept
  <2>2. CASE p = bus.cand
    <3>1. feedback'[p].failed[m] = 0 /\ pending'[p][m] = pending[p][m]
      BY <1>1, <2>2, CheckFacts DEF NoFeedback, NoMsgs
    <3>2. failed'[p][m] = failed[p][m] + feedback[p].failed[m]
      BY <2>2, CheckFacts
    <3>3. failed[p][m] \in Nat /\ feedback[p].failed[m] \in Nat
      BY CountsAreNat DEF BusInv
    <3>4. QED
      BY <3>1, <3>2, <3>3 DEF Kept
  <2>3. QED
    BY <2>1, <2>2
<1>3. QED
  BY <1>1, <1>2, OwedKept DEF SentInv, poolVars, podVars

\* What the buffer repeats is in it.
LEMMA BufferHas ==
  ASSUME NEW m \in Msgs, BufferBag[m] > 0
  PROVE  \E i \in 1 .. Len(buffer) : buffer[i] = m
<1> DEFINE s == {i \in 1 .. Len(buffer) : buffer[i] = m}
<1>1. Cardinality(s) > 0
  BY DEF BufferBag
<1> HIDE DEF s
<1>2. s # {}
  BY <1>1, FS_EmptySet
<1>3. QED
  BY <1>2 DEF s

LEMMA SentPrepare ==
  ASSUME BusInv, SentInv, OwedInv, Prepare
  PROVE  SentInv' /\ OwedInv'
<1>1. /\ bus.pc = "act" /\ bus'.msg = bus.msg
      /\ UNCHANGED <<feedback, unsent, handled, owed, busChan, buffer, visits, maxID>>
  BY PrepareBus
<1>2. CASE MustDelete
  <2>1. UNCHANGED <<pending, failed>>
        /\ \A p \in Pods : \A f \in {"on", "denied", "type"} : pod'[p][f] = pod[p][f]
    BY <1>2, DeleteStep
  <2>2. \A p \in Pods : connected'[p] => connected[p]
    BY <1>2, DeleteStep, RingFacts DEF BusInv, BusTypeOK
  <2>3. \A p \in Pods, m \in Msgs : Kept(p, m)' <=> Kept(p, m)
    BY <1>1, <2>1 DEF Kept
  <2>4. QED
    BY <1>1, <2>1, <2>2, <2>3, OwedKept DEF SentInv
<1>3. CASE ~MustDelete
  <2>1. UNCHANGED <<poolVars, pod>>
    BY <1>3, KeepStep
  <2>2. ASSUME NEW p \in Pods, NEW m \in Msgs
        PROVE  /\ Kept(p, m)' => m \notin unsent
               /\ connected[p] /\ Kept(p, m) => Kept(p, m)'
               /\ pending'[p][m] > 0 => pending[p][m] > 0 \/ connected[p]
    <3>1. /\ feedback'[p].failed[m] = feedback[p].failed[m]
          /\ pending'[p][m] >= pending[p][m]
          /\ pending'[p][m] > pending[p][m] =>
               connected[p] /\ (failed[p][m] > 0 \/ BufferBag[m] > 0)
          /\ connected[p] /\ failed[p][m] > 0 => failed'[p][m] > 0 \/ pending'[p][m] > 0
      BY <1>1, <1>3, KeepStep
    <3>2. failed'[p][m] > 0 => failed[p][m] > 0
      BY <1>3, KeepStep DEF NoMsgs
    <3>3. pending[p][m] \in Nat /\ pending'[p][m] \in Nat
      <4>1. pending' \in [Pods -> Bag]
        BY <1>3, KeepStep
      <4>2. QED
        BY <4>1, CountsAreNat DEF BusInv, Bag
    <3>4. BufferBag[m] > 0 => m \notin unsent
      BY BufferHas DEF SentInv
    <3>5. QED
      BY <3>1, <3>2, <3>3, <3>4 DEF SentInv, Kept
  <2>3. QED
    BY <1>1, <2>1, <2>2, OwedKept DEF SentInv, poolVars
<1>4. QED
  BY <1>2, <1>3

LEMMA SentAdvance ==
  ASSUME BusInv, SentInv, OwedInv, Advance
  PROVE  SentInv' /\ OwedInv'
<1>1. /\ bus.pc = "advance" /\ UNCHANGED <<next, maxID, connected, failed, pending, feedback, podVars, busChan, visits>>
      /\ bus'.pc # "idle" => bus'.msg = bus.msg
  BY AdvanceFacts DEF IdleBus
<1>2. \A i \in 1 .. Len(buffer') : buffer'[i] \notin unsent
  <2>1. buffer \in Seq(Msgs) /\ bus.msg \in Msgs /\ bus.msg \notin unsent
    BY <1>1 DEF BusInv, BusTypeOK, PoolInv, SentInv
  <2>2. CASE buffer' = buffer
    BY <2>2 DEF SentInv
  <2>3. CASE buffer' = Push(bus.msg)
    BY <2>1, <2>3, PushIsSequence DEF SentInv
  <2>4. QED
    BY <2>2, <2>3, AdvanceFacts
<1>3. \A p \in Pods, m \in Msgs : Kept(p, m)' <=> Kept(p, m)
  BY <1>1 DEF Kept
<1>4. QED
  BY <1>1, <1>2, <1>3, OwedKept DEF SentInv, podVars

LEMMA SentToCurrent ==
  ASSUME BusInv, SentInv, OwedInv, SendToCurrent
  PROVE  SentInv' /\ OwedInv'
<1>1. /\ bus.pc = "send" /\ bus'.msg = bus.msg
      /\ UNCHANGED <<poolVars, failed, feedback, podVars, busChan, buffer>>
  BY SendFacts
<1>2. ASSUME NEW p \in Pods, NEW m \in Msgs
      PROVE  /\ Kept(p, m)' => m \notin unsent
             /\ Kept(p, m) => Kept(p, m)'
             /\ pending'[p][m] > 0 => pending[p][m] > 0 \/ connected[p]
  <2>1. /\ pending'[p][m] >= pending[p][m]
        /\ pending'[p][m] > pending[p][m] => connected[p] /\ m = bus.msg
    BY SendFacts
  <2>2. pending[p][m] \in Nat /\ pending'[p][m] \in Nat
    <3>1. pending' \in [Pods -> Bag]
      BY SendFacts
    <3>2. QED
      BY <3>1, CountsAreNat DEF BusInv, Bag
  <2>3. QED
    BY <1>1, <2>1, <2>2 DEF SentInv, Kept
<1>3. QED
  BY <1>1, <1>2, OwedKept DEF SentInv, poolVars, podVars

LEMMA SentStep ==
  ASSUME BusInv, SentInv, OwedInv, [BusNext]_busVars
  PROVE  SentInv' /\ OwedInv'
<1>1. CASE Connect
  BY <1>1, SentConnect
<1>2. ASSUME NEW p \in Pods, PodStep(p) PROVE SentInv' /\ OwedInv'
  BY <1>2, SentSend, SentHandle, SentAbandon, SentOn, SentDisconnect DEF PodStep
<1>3. CASE BusStep
  BY <1>3, SentTake, SentPeek, SentCheck, SentPrepare, SentAdvance, SentToCurrent DEF BusStep
<1>4. CASE UNCHANGED busVars
  BY <1>4 DEF SentInv, OwedInv, Kept, Allows, busVars, poolVars, podVars
<1>5. QED
  BY <1>1, <1>2, <1>3, <1>4 DEF BusNext

\* "Failed messages will be replayed when messages begin to succeed" (pod.go line
\* 122): through feedback, checkStatus, flushFailed and the next handler run no
\* message that a connected pod's handler has failed is dropped.
THEOREM NoneLost == BusSpec => []FailedIsNotLost
<1>1. BusInv /\ OwedInv => FailedIsNotLost
  <2> SUFFICES ASSUME BusInv, OwedInv, NEW p \in Pods, connected[p], NEW m \in owed[p]
               PROVE  feedback[p].failed[m] + failed[p][m] + pending[p][m] > 0
    BY DEF FailedIsNotLost
  <2>1. m \in Msgs
    BY DEF BusInv, BusTypeOK
  <2>2. feedback[p].failed[m] \in Nat /\ failed[p][m] \in Nat /\ pending[p][m] \in Nat
    BY <2>1, CountsAreNat DEF BusInv
  <2>3. Kept(p, m)
    BY DEF OwedInv
  <2>4. QED
    BY <2>2, <2>3 DEF Kept
<1>2. QED
  BY BusInitInv, BusStepInv, SentInit, SentStep, <1>1, PTL DEF BusSpec


-----------------------------------------------------------------------------
(* The walk *)

LEMMA ArcInsert ==
  ASSUME NEW C, NEW D, NEW E, NEW nx \in [D -> E], C \subseteq D, NEW c, NEW s, NEW V,
         Ring(C, nx, c), Arc(C, nx, c, s, V), NEW p \in D, p \notin C, p \notin V
  PROVE  Arc(C \cup {p}, [nx EXCEPT ![c] = p, ![p] = nx[c]], c, s, V)
<1> DEFINE ny == [nx EXCEPT ![c] = p, ![p] = nx[c]]
<1>1. /\ c \in C /\ c # p /\ ny[c] = p /\ ny[p] = nx[c]
      /\ \A q \in C \ {c} : ny[q] = nx[q]
  BY DEF Ring
<1> HIDE DEF ny
<1>2. Arc(C \cup {p}, ny, c, s, V)
  BY <1>1 DEF Arc
<1>3. QED
  BY <1>2 DEF ny

LEMMA ArcDelete ==
  ASSUME NEW C, NEW D, NEW E, NEW nx \in [D -> E], C \subseteq D, NEW c, NEW s, NEW V,
         Ring(C, nx, c), Arc(C, nx, c, s, V), nx[c] # c
  PROVE  LET n == nx[c]  ny == [nx EXCEPT ![c] = nx[n]]
         IN  /\ n # s => n \notin V /\ Arc(C \ {n}, ny, c, s, V)
             /\ n = s => Arc(C \ {n}, ny, c, nx[n], V)
<1> DEFINE n == nx[c]
<1> DEFINE ny == [nx EXCEPT ![c] = nx[n]]
<1>1. /\ c \in C /\ n \in C /\ n # c /\ nx[n] \in C
      /\ \A q, r \in C : nx[q] = nx[r] => q = r
      /\ \A q \in C : nx[q] \in C
  BY DEF Ring
<1>2. ny[c] = nx[n] /\ \A q \in C \ {c} : ny[q] = nx[q]
  BY <1>1
<1>3. nx[n] # n /\ \A q \in C \ {c} : nx[q] # n
  BY <1>1
<1>4. nx[c] = n
  OBVIOUS
<1> HIDE DEF n, ny
<1>5. CASE n # s
  <2>1. n \notin V
    BY <1>1, <1>4, <1>5 DEF Arc
  <2>2. Arc(C \ {n}, ny, c, s, V)
    BY <1>1, <1>2, <1>5, <2>1 DEF Arc
  <2>3. QED
    BY <1>5, <2>1, <2>2 DEF n, ny
<1>6. CASE n = s
  <2>1. nx[n] \in V
    BY <1>1, <1>6 DEF Arc
  <2>2. Arc(C \ {n}, ny, c, nx[n], V)
    BY <1>1, <1>2, <1>3, <1>6, <2>1 DEF Arc
  <2>3. QED
    BY <1>6, <2>2 DEF n, ny
<1>7. QED
  BY <1>5, <1>6

LEMMA ArcAdvance ==
  ASSUME NEW C, NEW nx, NEW c, NEW s, NEW V, Ring(C, nx, c), Arc(C, nx, c, s, V), nx[c] # s
  PROVE  nx[c] \notin V /\ Arc(C, nx, nx[c], s, V \cup {nx[c]})
<1> DEFINE n == nx[c]
<1>1. /\ c \in C /\ n \in C /\ nx[c] = n
      /\ \A q, r \in C : nx[q] = nx[r] => q = r
  BY DEF Ring
<1> HIDE DEF n
<1>2. n \notin V
  BY <1>1 DEF Arc
<1>3. Arc(C, nx, n, s, V \cup {n})
  BY <1>1, <1>2 DEF Arc
<1>4. QED
  BY <1>2, <1>3 DEF n

LEMMA ArcStart ==
  ASSUME NEW C, NEW nx, NEW c, Ring(C, nx, c)
  PROVE  Arc(C, nx, nx[c], nx[c], {nx[c]})
BY DEF Ring, Arc

\* When the next connection is the starting point the arc is the ring.
LEMMA ArcCloses ==
  ASSUME NEW C, NEW nx, NEW c, NEW s, NEW V, Ring(C, nx, c), Arc(C, nx, c, s, V), nx[c] = s
  PROVE  C \subseteq V
<1>1. /\ C \cap V \in SUBSET C /\ c \in C \cap V
      /\ \A p \in C \cap V : nx[p] \in C \cap V
  BY DEF Ring, Arc
<1>2. C \cap V = C
  BY <1>1 DEF Ring
<1>3. QED
  BY <1>2

\* A step that leaves ring, starting point and counts alone.
LEMMA WalkKept ==
  ASSUME WalkInv, UNCHANGED <<poolVars, visits>>,
         \A f \in {"walk", "start", "peeked"} : bus'[f] = bus[f],
         ~bus'.astray => ~bus.astray,
         bus.pc \in {"peek", "check", "act"}, bus'.pc \in {"peek", "check", "act", "advance"}
  PROVE  WalkInv'
<1>1. Visited' = Visited /\ Connected' = Connected
  BY DEF Visited, Connected, poolVars
<1>2. QED
  BY <1>1 DEF WalkInv, poolVars

LEMMA WalkInit == BusInit => WalkInv
BY DEF BusInit, WalkInv, IdleBus

LEMMA WalkConnect ==
  ASSUME BusInv, WalkInv, Connect
  PROVE  WalkInv'
<1> DEFINE p == maxID + 1
<1>1. /\ maxID' = p /\ connected' = [connected EXCEPT ![p] = TRUE]
      /\ next' = [next EXCEPT ![current] = p, ![p] = next[current]] /\ current' = current
      /\ UNCHANGED <<bus, visits>>
  BY RingFacts DEF Connect
<1>2. p \in Pods /\ p \notin Connected /\ p > maxID
  BY RingFacts DEF Connect, Pods
<1>3. next \in [Pods -> Pods \cup {None}] /\ connected \in [Pods -> BOOLEAN]
  BY DEF BusInv, BusTypeOK
<1>4. \A q \in Pods : q > p => q > maxID
  BY RingFacts DEF Pods
<1> HIDE DEF p
<1>5. Connected' = Connected \cup {p} /\ Visited' = Visited
  BY <1>1, <1>2, <1>3 DEF Connected, Visited
<1>6. p \notin Visited
  <2>1. visits[p] = 0 /\ p # current
    BY <1>2, RingFacts DEF WalkInv
  <2>2. QED
    BY <2>1 DEF Visited
<1>7. next'[current] = p
  BY <1>1, <1>2, <1>3, RingFacts
<1>8. ASSUME bus.walk, ~bus.astray
      PROVE  Arc(Connected', next', current', bus.start, Visited')
  <2>1. Arc(Connected, next, current, bus.start, Visited) /\ Ring(Connected, next, current)
    BY <1>8 DEF WalkInv, BusInv, PoolInv
  <2>2. QED
    BY <1>1, <1>2, <1>3, <1>5, <1>6, <2>1, ArcInsert, RingFacts
<1>9. QED
  BY <1>1, <1>4, <1>5, <1>6, <1>7, <1>8 DEF WalkInv

LEMMA WalkTake ==
  ASSUME BusInv, WalkInv, Take
  PROVE  WalkInv'
<1>1. /\ bus' = [IdleBus EXCEPT !.pc = "peek", !.msg = Head(busChan)]
      /\ visits' = [p \in Pods |-> 0] /\ UNCHANGED poolVars
  BY DEF Take
<1>2. bus'.pc = "peek" /\ ~bus'.walk
  BY <1>1 DEF IdleBus
<1>3. QED
  BY <1>1, <1>2 DEF WalkInv

LEMMA WalkPeek ==
  ASSUME BusInv, WalkInv, PreparePeek
  PROVE  WalkInv'
<1>1. /\ bus.pc = "peek" /\ bus' = [bus EXCEPT !.pc = "check", !.cand = next[current]]
      /\ UNCHANGED <<poolVars, visits>> /\ bus \in BusType
  BY DEF PreparePeek, BusInv, BusTypeOK
<1>2. bus'.pc = "check" /\ \A f \in {"walk", "start", "peeked", "astray"} : bus'[f] = bus[f]
  BY <1>1 DEF BusType
<1>3. QED
  BY <1>1, <1>2, WalkKept

LEMMA WalkCheck ==
  ASSUME BusInv, WalkInv, checkStatus
  PROVE  WalkInv'
BY CheckFacts, WalkKept

LEMMA WalkPrepare ==
  ASSUME BusInv, WalkInv, Prepare
  PROVE  WalkInv'
<1>1. CASE ~MustDelete
  BY <1>1, PrepareBus, KeepStep, WalkKept DEF MustDelete
<1>2. CASE MustDelete
  <2>1. /\ bus.pc = "act" /\ bus'.pc \in {"peek", "advance"} /\ bus'.walk = bus.walk
        /\ bus'.pc = "peek" => ~bus.walk
        /\ bus'.peeked = bus.peeked /\ UNCHANGED <<visits, maxID>>
        /\ ~bus'.astray => ~bus.astray /\ ~Swapped /\ ~Misled
    BY <1>2, PrepareBus
  <2>2. next[current] # current
    BY <1>2, <2>1, DeleteFacts
  <2>3. next \in [Pods -> Pods \cup {None}] /\ Ring(Connected, next, current)
    BY DEF BusInv, BusTypeOK, PoolInv
  <2>4. Connected' = Connected \ {next[current]} /\ current' = current
        /\ next' = [next EXCEPT ![current] = next[next[current]]]
    BY <1>2, DeleteStep
  <2>5. Visited' = Visited
    BY <2>1, <2>4 DEF Visited
  <2>6. ASSUME bus.walk, ~bus'.astray
        PROVE  Arc(Connected', next', current', bus'.start, Visited')
    <3>1. Arc(Connected, next, current, bus.start, Visited)
      BY <2>1, <2>6 DEF WalkInv
    <3>2. /\ next[current] # bus.start =>
               Arc(Connected \ {next[current]}, next', current, bus.start, Visited)
          /\ next[current] = bus.start =>
               Arc(Connected \ {next[current]}, next', current, next[next[current]], Visited)
      BY <2>2, <2>3, <2>4, <3>1, ArcDelete, RingFacts
    <3>3. next[current] = bus.cand /\ (bus.start = bus.peeked => bus.cand = bus.peeked)
      BY <1>2, <2>1, <2>6 DEF Swapped, Misled
    <3>4. next[current] = bus.start => bus.start = bus.peeked
      <4>1. bus.start \in Visited
        BY <3>1 DEF Arc
      <4>2. next[current] = bus.peeked \/ next[current] \notin Visited
        BY <2>1, <2>6 DEF WalkInv
      <4>3. QED
        BY <4>1, <4>2
    <3>5. bus'.start = IF bus.start = bus.peeked THEN next'[bus.peeked] ELSE bus.start
      BY <1>2, <2>6, PrepareBus
    <3>6. next[current] = bus.start => next'[bus.peeked] = next[next[current]]
      BY <2>2, <2>3, <2>4, <3>4, RingFacts
    <3>7. QED
      BY <2>4, <2>5, <3>2, <3>3, <3>4, <3>5, <3>6
  <2>7. QED
    BY <2>1, <2>6 DEF WalkInv
<1>3. QED
  BY <1>1, <1>2


LEMMA WalkAdvance ==
  ASSUME BusInv, WalkInv, Advance
  PROVE  /\ WalkInv'
         /\ bus.walk /\ ~bus.astray /\ bus'.pc = "idle" => \A p \in Connected : visits[p] = 1
<1>1. /\ bus.pc = "advance" /\ current' = next[current]
      /\ UNCHANGED <<next, maxID, connected, visits>> /\ Connected' = Connected
  BY AdvanceFacts DEF Connected
<1>2. Ring(Connected, next, current) /\ next[current] \in Connected /\ Connected \subseteq Pods
  BY RingFacts DEF BusInv, PoolInv
<1>3. Visited = {p \in Pods : visits[p] = 1}
  BY <1>1 DEF Visited
<1>4. CASE bus.walk /\ bus.start = next[current] /\ bus' = IdleBus
  <2>1. bus'.pc = "idle" /\ ~bus'.walk
    BY <1>4 DEF IdleBus
  <2>2. WalkInv'
    BY <1>1, <2>1 DEF WalkInv
  <2>3. ASSUME ~bus.astray PROVE \A p \in Connected : visits[p] = 1
    <3>1. Arc(Connected, next, current, bus.start, Visited)
      BY <1>4, <2>3 DEF WalkInv
    <3>2. Connected \subseteq Visited
      BY <1>2, <1>4, <3>1, ArcCloses
    <3>3. QED
      BY <1>3, <3>2
  <2>4. QED
    BY <2>2, <2>3
<1>5. CASE /\ ~(bus.walk /\ bus.start = next[current])
           /\ bus'.pc = "send" /\ bus'.walk
           /\ bus'.start = IF bus.walk THEN bus.start ELSE next[current]
           /\ \A f \in {"msg", "peeked", "astray"} : bus'[f] = bus[f]
  <2>1. Visited' = Visited \cup {next[current]}
    BY <1>1, <1>2, <1>3, <1>5 DEF Visited
  <2>2. CASE bus.walk
    <3>1. ASSUME ~bus.astray
          PROVE  /\ next[current] \notin Visited
                 /\ Arc(Connected, next, next[current], bus.start, Visited \cup {next[current]})
      BY <1>2, <1>5, <2>2, <3>1, ArcAdvance DEF WalkInv
    <3>2. ASSUME ~bus.astray
          PROVE  visits[next[current]] = 0
      BY <1>2, <1>3, <2>2, <3>1, <3>2 DEF WalkInv
    <3>3. QED
      BY <1>1, <1>5, <2>1, <2>2, <3>1, <3>2 DEF WalkInv
  <2>3. CASE ~bus.walk
    <3>1. \A p \in Pods : visits[p] = 0
      BY <1>1, <2>3 DEF WalkInv
    <3>2. Visited' = {next[current]}
      BY <1>3, <2>1, <3>1
    <3>3. Arc(Connected, next, next[current], next[current], {next[current]})
      BY <1>2, ArcStart
    <3>4. visits[next[current]] = 0
      BY <1>2, <3>1
    <3>5. QED
      BY <1>1, <1>5, <2>3, <3>1, <3>2, <3>3, <3>4 DEF WalkInv
  <2>4. QED
    BY <2>2, <2>3
<1>6. QED
  BY <1>4, <1>5, AdvanceFacts

LEMMA WalkSend ==
  ASSUME BusInv, WalkInv, SendToCurrent
  PROVE  WalkInv'
<1>1. /\ bus.pc = "send" /\ bus'.pc = "peek" /\ bus'.peeked = next[current]
      /\ bus'.walk = bus.walk /\ bus'.start = bus.start /\ bus'.astray = bus.astray
      /\ UNCHANGED poolVars /\ visits' = [visits EXCEPT ![current] = @ + 1]
  BY SendFacts
<1>2. visits \in [Pods -> Nat] /\ current \in Pods
  BY RingFacts DEF BusInv, BusTypeOK
<1>3. /\ \A p \in Pods \ {current} : visits'[p] = visits[p]
      /\ visits'[current] = visits[current] + 1
  BY <1>1, <1>2
<1>4. \A p \in Pods : p > maxID => p # current
  BY RingFacts DEF Pods
<1>5. bus.walk /\ UNCHANGED <<next, current, maxID>> /\ Connected' = Connected
  BY <1>1 DEF WalkInv, poolVars, Connected
<1>6. \A p \in Pods : p > maxID => visits'[p] = 0
  BY <1>3, <1>4 DEF WalkInv
<1>7. ASSUME ~bus.astray
      PROVE  /\ \A p \in Pods : visits'[p] \in {0, 1}
             /\ Visited' = Visited
             /\ Arc(Connected, next, current, bus.start, Visited)
  <2>1. visits[current] = 0 /\ (\A p \in Pods : visits[p] \in {0, 1})
        /\ Arc(Connected, next, current, bus.start, Visited)
    BY <1>1, <1>5, <1>7 DEF WalkInv
  <2>2. visits'[current] = 1
    BY <1>3, <2>1
  <2>3. \A p \in Pods : visits'[p] \in {0, 1}
    BY <1>3, <2>1, <2>2
  <2>4. Visited' = Visited
    BY <1>1, <1>2, <1>3, <2>1, <2>2 DEF Visited
  <2>5. QED
    BY <2>1, <2>3, <2>4
<1>8. QED
  BY <1>1, <1>5, <1>6, <1>7 DEF WalkInv

LEMMA WalkStep ==
  ASSUME BusInv, WalkInv, [BusNext]_busVars
  PROVE  WalkInv'
<1>1. CASE Connect
  BY <1>1, WalkConnect
<1>2. CASE BusStep
  BY <1>2, WalkTake, WalkPeek, WalkCheck, WalkPrepare, WalkAdvance, WalkSend DEF BusStep
<1>3. CASE UNCHANGED <<poolVars, bus, visits>>
  <2>1. Visited' = Visited /\ Connected' = Connected
    BY <1>3 DEF Visited, Connected, poolVars
  <2>2. QED
    BY <1>3, <2>1 DEF WalkInv, poolVars
<1>4. QED
  BY <1>1, <1>2, <1>3
  DEF BusNext, PodStep, busVars, Send, Handle, Abandon, On, Disconnect

\* start and traverse: a message is sent to no pod twice and, when its walk is over,
\* to every pod that is connected, however many come and go during the walk, unless
\* another connection was removed than the one that was peeked at.
THEOREM WalkCorrect == BusSpec => WalkIsExact
<1>1. ASSUME BusInv, WalkInv, [BusNext]_busVars, bus.pc # "idle", ~bus.astray
      PROVE  /\ \A p \in Pods : visits'[p] <= 1
             /\ bus'.pc = "idle" => \A p \in Pods : connected[p] => visits[p] = 1
  <2>1. \A p \in Pods : visits[p] \in {0, 1}
    BY <1>1 DEF WalkInv
  <2>2. CASE SendToCurrent
    <3>1. WalkInv' /\ bus'.walk /\ ~bus'.astray /\ bus'.pc # "idle"
      BY <1>1, <2>2, WalkSend, SendFacts DEF WalkInv
    <3>2. QED
      BY <3>1 DEF WalkInv
  <2>3. CASE Advance
    <3>1. UNCHANGED visits
      BY <1>1, <2>3, AdvanceFacts
    <3>2. bus'.pc = "idle" => bus.walk
      BY <1>1, <2>3, AdvanceFacts DEF IdleBus
    <3>3. QED
      BY <1>1, <2>1, <2>3, <3>1, <3>2, WalkAdvance DEF Connected
  <2>4. CASE UNCHANGED visits /\ bus'.pc # "idle"
    BY <2>1, <2>4
  <2>5. CASE Prepare
    BY <1>1, <2>1, <2>5, PrepareBus
  <2>6. CASE checkStatus
    BY <1>1, <2>1, <2>6, CheckFacts
  <2>7. CASE PreparePeek
    <3>1. bus \in BusType /\ UNCHANGED visits /\ bus' = [bus EXCEPT !.pc = "check", !.cand = next[current]]
      BY <1>1, <2>7 DEF PreparePeek, BusInv, BusTypeOK
    <3>2. bus'.pc # "idle"
      BY <3>1 DEF BusType
    <3>3. QED
      BY <2>1, <3>1, <3>2
  <2>8. QED
    BY <1>1, <2>2, <2>3, <2>4, <2>5, <2>6, <2>7
    DEF BusNext, BusStep, PodStep, busVars, Take, Connect, Send, Handle, Abandon, On, Disconnect
<1>2. BusInv /\ WalkInv /\ [BusNext]_busVars =>
        [bus.pc # "idle" /\ ~bus.astray =>
           /\ \A p \in Pods : visits'[p] <= 1
           /\ bus'.pc = "idle" => \A p \in Pods : connected[p] => visits[p] = 1]_busVars
  BY <1>1
<1>3. QED
  BY BusInitInv, BusStepInv, WalkInit, WalkStep, <1>2, PTL DEF BusSpec, WalkIsExact
=============================================================================
