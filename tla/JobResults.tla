----------------------------- MODULE JobResults -----------------------------
(***************************************************************************)
(* What the scheduler promises to whoever does a job: the Result it returns *)
(* gets one outcome, the job is run at most once, it has an outcome other   *)
(* than an error only if it was run, and one that is refused is not run.    *)
(***************************************************************************)
CONSTANT Jobs

VARIABLE status   \* of each job and its Result

TypeOK == status \in [Jobs -> {"new", "pending", "running", "ok", "err"}]

Init == status = [j \in Jobs |-> "new"]

\* Do takes the job, or refuses it because no worker handles it.
Do(j) ==
  /\ status[j] = "new"
  /\ \E s \in {"pending", "err"} : status' = [status EXCEPT ![j] = s]

\* One failure of the pool may refuse several pending jobs at once.
Refuse(js) ==
  /\ \A j \in js : status[j] = "pending"
  /\ status' = [j \in Jobs |-> IF j \in js THEN "err" ELSE status[j]]

Run(j) ==
  /\ status[j] = "pending"
  /\ status' = [status EXCEPT ![j] = "running"]

Finish(j) ==
  /\ status[j] = "running"
  /\ \E s \in {"ok", "err"} : status' = [status EXCEPT ![j] = s]

Next ==
  \/ \E j \in Jobs : Do(j) \/ Run(j) \/ Finish(j)
  \/ \E js \in SUBSET Jobs : Refuse(js)

Spec == Init /\ [][Next]_status
=============================================================================
