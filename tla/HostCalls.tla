------------------------------ MODULE HostCalls ------------------------------
(***************************************************************************)
(* sat/engine2/api and the Ctx of a job: the calls that a running module   *)
(* makes to the host, on top of InstancePool.                              *)
(*                                                                         *)
(* A call leaves its outcome in the Ctx of the instance that the module's  *)
(* identifier stands for and returns its size, negative for an error; the  *)
(* module allocates as much and fetches it with get_ffi_result.  One       *)
(* outcome can be pending: until it is fetched further calls return -1.    *)
(*                                                                         *)
(* What the calls read or write (fields, headers, URLs, the log, the       *)
(* variables of add_ffi_var, which nothing uses) is left out.              *)
(***************************************************************************)
EXTENDS InstancePool

VARIABLES
  ffi,    \* per instance: the job whose outcome is the ffiResult of its Ctx
  mixed   \* a module has fetched an outcome of another job (not in the code)

hvars == <<vars, ffi, mixed>>

HostTypeOK ==
  /\ TypeOK
  /\ ffi \in [Insts -> Jobs \cup {None}]
  /\ mixed \in BOOLEAN

HInit ==
  /\ Init
  /\ ffi = [i \in Insts |-> None]
  /\ mixed = FALSE

-----------------------------------------------------------------------------

\* Fault: the Ctx of a job that is over is used for the next.
CtxKept == ffi' = ffi

\* Every job has a Ctx of its own, which its instance keeps until it is closed.
CtxOfRun == ffi' = [i \in Insts |-> IF \E j \in Jobs : job'[j].inst = i THEN ffi[i] ELSE None]

\* A step of the pool or of a run.
EngineStep == Next /\ CtxOfRun /\ UNCHANGED mixed

\* The instance of a module that calls with its identifier; -1 without one.
ForIdentifier(j) == mapper[job[j].ident]

Calls(j) == job[j].st = "running" /\ ForIdentifier(j) # None

\* SetFFIResult: a call that finds an outcome pending is refused, by
\* ForIdentifier, and changes nothing.
SetFFIResult(j) ==
  /\ Calls(j) /\ ffi[ForIdentifier(j)] = None
  /\ ffi' = [ffi EXCEPT ![ForIdentifier(j)] = j]
  /\ UNCHANGED <<vars, mixed>>

\* The body of the response, or an error for a failed request and for an error
\* status.  A body that breaks off is taken as it is.
fetchUrl(j) == SetFFIResult(j)

\* The value, empty for a key that is not there; other errors return at once.
requestGetField(j) == SetFFIResult(j)

\* The error of SetField is only logged: the outcome is that all went well.
requestSetField(j) == SetFFIResult(j)

\* UseFFIResult; -1 when nothing is pending.
getFfiResult(j) ==
  LET i == ForIdentifier(j) IN
  /\ Calls(j) /\ ffi[i] # None
  /\ ffi' = [ffi EXCEPT ![i] = None]
  /\ mixed' = (mixed \/ ffi[i] # j)
  /\ UNCHANGED vars

HNext ==
  \/ EngineStep
  \/ \E j \in Jobs : fetchUrl(j) \/ requestGetField(j) \/ requestSetField(j) \/ getFfiResult(j)

\* The fairness of InstancePool: a module comes to its end whatever it calls.
HSpec == HInit /\ [][HNext]_hvars /\ Fairness

-----------------------------------------------------------------------------
(* Properties *)

\* ExecutionResult, get_ffi_result: what a run returns, and what the host gives
\* to a module, is of its own calls: not what another run has left in the
\* instance, in its Ctx or under its identifier.
OwnOutput == HostTypeOK /\ OwnResult /\ ~mixed
=============================================================================
