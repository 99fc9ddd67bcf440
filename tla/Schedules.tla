------------------------------ MODULE Schedules ------------------------------
(***************************************************************************)
(* foundation/scheduler: the schedules a Scheduler watches, and the syncer *)
(* that is kept up to date by one of them, Every(1, sync).                 *)
(*                                                                         *)
(* Syncer is extended with the watcher's loop and its clock.  A job that   *)
(* the loop hands to core.do is pending until a thread of the sync worker  *)
(* takes it; the worker itself is module Worker.  Other callers may add    *)
(* After schedules at any moment.                                          *)
(*                                                                         *)
(* Time goes in fractions of a second, so that a loop that is late looks   *)
(* at a schedule less than a second after it last did.                     *)
(***************************************************************************)
EXTENDS Syncer

CONSTANTS
  Sync,          \* the syncer's Every schedule
  Afters,        \* the After schedules that are added
  EverySeconds,  \* the seconds of Sync (1)
  AfterSeconds,  \* the seconds of each of Afters
  Resolution,    \* the parts of a second the clock tells apart
  MaxPending     \* bound: jobs that wait for a thread

ASSUME ScheduleAssumption ==
  /\ Sync \notin Afters
  /\ {EverySeconds, AfterSeconds, Resolution, MaxPending} \subseteq Nat \ {0}

VARIABLES
  schedules,  \* w.schedules
  age,        \* time since last (Every) or created (After), as far as it matters
  done,       \* the After schedules with a.done set
  loop,       \* the goroutine of the watcher
  remove,     \* its list of schedules to remove
  ticker,     \* time.Tick: when it fires next, and whether its channel is full
  pending,    \* sync jobs given to core.do that no thread has taken
  fired       \* how often the job of each After schedule was done, up to twice

timeVars == <<age, ticker>>
watchVars == <<schedules, done, loop, remove, fired>>
svars == <<vars, timeVars, watchVars, pending>>

Never == -1
Due(s) == IF s = Sync THEN EverySeconds * Resolution ELSE AfterSeconds * Resolution

ScheduleTypeOK ==
  /\ TypeOK
  /\ schedules \subseteq Afters \cup {Sync}
  /\ age \in [Afters \cup {Sync} -> {Never} \cup Nat]
  /\ done \subseteq Afters
  /\ loop \in {"none", "scan", "remove", "wait"}
  /\ remove \subseteq Afters
  /\ ticker \in [left : 1 .. Resolution, full : BOOLEAN]
  /\ pending \in 0 .. MaxPending
  /\ fired \in [Afters -> 0 .. 2]

SInit ==
  /\ Init
  /\ schedules = {} /\ done = {} /\ remove = {}
  /\ age = [s \in Afters \cup {Sync} |-> Never]
  /\ loop = "none"
  /\ ticker = [left |-> Resolution, full |-> FALSE]
  /\ pending = 0
  /\ fired = [s \in Afters |-> 0]

-----------------------------------------------------------------------------
(* Time.  The channel of a ticker has room for one tick: others are dropped. *)

Time ==
  /\ age' = [s \in DOMAIN age |->
               IF age[s] = Never \/ age[s] = Due(s) THEN age[s] ELSE age[s] + 1]
  /\ ticker' = CASE loop = "none" -> ticker
                 [] loop # "none" /\ ticker.left > 1 -> [ticker EXCEPT !.left = @ - 1]
                 [] OTHER -> [left |-> Resolution, full |-> TRUE]
  /\ UNCHANGED <<vars, watchVars, pending>>

-----------------------------------------------------------------------------
(* watcher *)

\* watch, with the write lock; the first call starts the loop.
watch(s) ==
  /\ schedules' = schedules \cup {s}
  /\ loop' = IF loop = "none" THEN "scan" ELSE loop

\* Syncer.Start, once the first sync was answered without an error.
ScheduleSync ==
  /\ start = "started" /\ Sync \notin schedules
  /\ watch(Sync)
  /\ UNCHANGED <<vars, timeVars, done, remove, pending, fired>>

\* After takes the time as it makes the schedule.
ScheduleAfter(s) ==
  /\ age[s] = Never
  /\ age' = [age EXCEPT ![s] = 0]
  /\ watch(s)
  /\ UNCHANGED <<vars, ticker, done, remove, pending, fired>>

\* Check of an Every and of an After schedule: is there a job?
Check(s) == age[s] = Due(s) \/ (s = Sync /\ age[s] = Never)

\* Fault: Check does not set a.done.
DoneNever(now) == {}

\* The After schedules that Check makes done.
DoneBy(now) == now \ {Sync}

\* One pass over the schedules with the read lock: those that are done are to
\* be removed, and the jobs of those that are due are handed to core.do.
Scan ==
  LET now == {s \in schedules \ done : Check(s)} IN
  /\ loop = "scan" /\ loop' = "remove"
  /\ remove' = schedules \cap done
  /\ done' = done \cup DoneBy(now)
  /\ fired' = [s \in Afters |-> IF s \in now /\ fired[s] < 2 THEN fired[s] + 1 ELSE fired[s]]
  /\ IF Sync \in now
     THEN /\ pending < MaxPending /\ pending' = pending + 1
          /\ age' = [age EXCEPT ![Sync] = 0]
     ELSE UNCHANGED <<pending, age>>
  /\ UNCHANGED <<vars, schedules, ticker>>

\* The write lock is taken anew: schedules may have been added since the pass.
Remove ==
  /\ loop = "remove" /\ loop' = "wait"
  /\ schedules' = schedules \ remove
  /\ remove' = {}
  /\ UNCHANGED <<vars, timeVars, done, pending, fired>>

Ticked ==
  /\ loop = "wait" /\ ticker.full
  /\ loop' = "scan"
  /\ ticker' = [ticker EXCEPT !.full = FALSE]
  /\ UNCHANGED <<vars, age, schedules, done, remove, pending, fired>>

-----------------------------------------------------------------------------
(* The jobs *)

\* Start does the job once itself.
StartSyncs ==
  /\ Start
  /\ pending' = IF start' = "syncing" THEN 1 ELSE 0
  /\ UNCHANGED <<timeVars, watchVars>>

\* A thread of the worker takes a pending job and runs it.
JobStep(r) ==
  /\ RunStep(r)
  /\ IF run[r].pc = "idle" THEN pending > 0 /\ pending' = pending - 1 ELSE UNCHANGED pending
  /\ UNCHANGED <<timeVars, watchVars>>

Changes == SourceChanges /\ UNCHANGED <<timeVars, watchVars, pending>>

Loop == Scan \/ Remove \/ Ticked

SNext ==
  \/ Time \/ Loop \/ ScheduleSync \/ \E s \in Afters : ScheduleAfter(s)
  \/ StartSyncs \/ Changes
  \/ \E r \in Runs : JobStep(r)

SSpec == SInit /\ [][SNext]_svars

\* Goroutines are scheduled, time passes, and the source does not fail for
\* ever.
ScheduleFairness ==
  /\ WF_svars(Time) /\ WF_svars(Loop) /\ WF_svars(ScheduleSync)
  /\ \A r \in Runs : WF_svars(JobStep(r))
  /\ <>[][\A r \in Runs : ~(JobStep(r) /\ Fails(r))]_svars

SFairSpec == SSpec /\ ScheduleFairness

-----------------------------------------------------------------------------
(* Properties *)

\* After, "will schedule the job ... one time x seconds after creation": a
\* schedule that was added, be it while the loop is between its pass and its
\* removals, has its job done once, is removed, and neither happens again.
AfterRunsOnce ==
  \A s \in Afters : (s \in schedules) ~> [](fired[s] = 1 /\ s \notin schedules)
=============================================================================
