----------------------------- MODULE AuthCache ------------------------------
(***************************************************************************)
(* e2core/auth/cache.go: AuthorizationCache.Get on top of LoadingCache.    *)
(*                                                                         *)
(* Each request goroutine (a caller) runs Get: Check, Put, Get, and when   *)
(* the decision has expired Refresh and a second Get, then Replace if the  *)
(* outcome is an error.  The mutex of the cache is released between those  *)
(* calls, so each is a step; what a caller keeps in `entry` between them   *)
(* may be stale by the time it is used.  A cached value is the instant at  *)
(* which it expires; the tenant it carries is left out.                    *)
(***************************************************************************)
EXTENDS LoadingCache

CONSTANTS
  TTL,        \* opts.AuthCacheTTL, in ticks of the clock
  MaxTime,    \* bound: the clock stops here
  MaxCalls    \* bound: requests per caller

ASSUME TimeAssumption == TTL \in Nat \ {0} /\ MaxTime \in Nat /\ MaxCalls \in Nat
ASSUME ValuesAssumption == Values = 0 .. MaxTime + TTL

VARIABLES
  now,        \* cache.clock
  req,        \* per caller: where it is in AuthorizationCache.Get
  calls       \* per caller: requests made so far

authVars == <<now, req, calls>>
vars == <<cacheVars, authVars>>

Steps == {"idle", "put", "get", "first", "refresh", "await", "second", "replace", "done"}

\* entry: the local variable of Get; start: the time of the request;
\* ok: what the caller got, an authorization or an error.
Request == [pc : Steps, key : Keys \cup {None}, start : 0 .. MaxTime,
            entry : Snapshot, ok : BOOLEAN]

NoRequest == [pc |-> "idle", key |-> None, start |-> 0, entry |-> NewEntry, ok |-> FALSE]

AuthTypeOK ==
  /\ CacheTypeOK
  /\ now \in 0 .. MaxTime
  /\ req \in [Callers -> Request]
  /\ calls \in [Callers -> 0 .. MaxCalls]

Init ==
  /\ CacheInit
  /\ now = 0
  /\ req = [c \in Callers |-> NoRequest]
  /\ calls = [c \in Callers |-> 0]

Goto(c, pc) == req' = [req EXCEPT ![c].pc = pc]

At(c, pc) == req[c].pc = pc /\ Idle(c)

-----------------------------------------------------------------------------

\* if !cache.cache.Check(key)
CheckKey(c, k) ==
  /\ At(c, "idle") /\ calls[c] < MaxCalls
  /\ calls' = [calls EXCEPT ![c] = @ + 1]
  /\ req' = [req EXCEPT ![c] = [NoRequest EXCEPT !.key = k, !.start = now,
                                  !.pc = IF Present(k) THEN "get" ELSE "put"]]
  /\ UNCHANGED <<cacheVars, now>>

\* _ = cache.cache.Put(key, ...), the lookup and then the insertion
AuthPut(c) ==
  /\ At(c, "put")
  /\ PutLookup(c, req[c].key)
  /\ Goto(c, "get")
  /\ UNCHANGED <<now, calls>>

AuthPutLocked(c) == PutLocked(c) /\ UNCHANGED authVars

\* entry := cache.cache.Get(key)
FirstGet(c) ==
  /\ At(c, "get")
  /\ Get(c, req[c].key)
  /\ Goto(c, "first")
  /\ UNCHANGED <<now, calls>>

\* entry = cache.cache.Get(key), after Refresh
SecondGet(c) ==
  /\ At(c, "await")
  /\ Get(c, req[c].key)
  /\ Goto(c, "second")
  /\ UNCHANGED <<now, calls>>

AuthWake(c) == (WakeAgain(c) \/ WakeReturn(c)) /\ UNCHANGED authVars

Finish(c, e, ok) ==
  req' = [req EXCEPT ![c].pc = "done", ![c].entry = e, ![c].ok = ok]

\* Fault: the expiry is not looked at.
LiveForever(e) == e.value # None

\* entry.Value.exp.After(cache.clock.Now())
Live(e) == e.value # None /\ e.value > now

\* What Get does with the first entry: return it, refresh it, or report.
UseFirst(c) ==
  LET e == call[c].ret IN
  /\ At(c, "first")
  /\ \/ Live(e) /\ Finish(c, e, e.err = "nil")
     \/ ~Live(e) /\ e.value # None /\ Goto(c, "refresh")
     \/ e.value = None /\ e.err # "nil"
        /\ req' = [req EXCEPT ![c].pc = "replace", ![c].entry = e]
     \/ e.value = None /\ e.err = "nil" /\ Finish(c, e, TRUE)
  /\ UNCHANGED <<cacheVars, now, calls>>

\* _ = cache.cache.Refresh(key)
AuthRefresh(c) ==
  /\ At(c, "refresh")
  /\ Refresh(c, req[c].key)
  /\ Goto(c, "await")
  /\ UNCHANGED <<now, calls>>

\* Fault: a refresh that failed is tried again at once.
UseSecondRetries(c) ==
  LET e == call[c].ret IN
  /\ At(c, "second")
  /\ IF e.err # "nil" THEN Goto(c, "refresh") ELSE Finish(c, e, TRUE)
  /\ UNCHANGED <<cacheVars, now, calls>>

\* What Get does with the refreshed entry: its expiry is not looked at again.
UseSecond(c) ==
  LET e == call[c].ret IN
  /\ At(c, "second")
  /\ IF e.err # "nil"
       THEN req' = [req EXCEPT ![c].pc = "replace", ![c].entry = e]
       ELSE Finish(c, e, TRUE)
  /\ UNCHANGED <<cacheVars, now, calls>>

\* cache.cache.Replace(key, ...); return nil, entry.Error
AuthReplace(c) ==
  /\ At(c, "replace")
  /\ Replace(c, req[c].key)
  /\ Finish(c, req[c].entry, FALSE)
  /\ UNCHANGED <<now, calls>>

\* The middleware has used the answer; the goroutine may serve another request.
NextRequest(c) ==
  /\ At(c, "done")
  /\ req' = [req EXCEPT ![c] = NoRequest]
  /\ call' = [call EXCEPT ![c] = IdleCall]
  /\ UNCHANGED <<table, heap, load, now, calls>>

\* loadingFunc: a successful decision expires TTL after the loader answered.
AuthLoaderReturns(l) ==
  /\ LoaderReturns(l, now + TTL) \/ LoaderReturns(l, None)
  /\ UNCHANGED authVars

AuthLoadDone(l) == LoadDone(l) /\ UNCHANGED authVars

\* Time passes.  A loader that has its answer takes the mutex within a tick: a
\* tick is minutes, waiting for the mutex is not.
Tick ==
  /\ now < MaxTime
  /\ \A l \in Loads : load[l].st # "returned"
  /\ now' = now + 1
  /\ UNCHANGED <<cacheVars, req, calls>>

CallerStep(c) ==
  \/ AuthPut(c) \/ AuthPutLocked(c) \/ FirstGet(c) \/ UseFirst(c)
  \/ AuthRefresh(c) \/ SecondGet(c) \/ UseSecond(c) \/ AuthReplace(c)
  \/ AuthWake(c)

LoaderStep(l) == AuthLoaderReturns(l) \/ AuthLoadDone(l)

Next ==
  \/ \E c \in Callers : \/ \E k \in Keys : CheckKey(c, k)
                        \/ CallerStep(c)
                        \/ NextRequest(c)
  \/ \E l \in Loads : LoaderStep(l)
  \/ Tick

Spec == Init /\ [][Next]_vars

\* A goroutine that can run does run: the Go scheduler is fair, the mutex is
\* granted in the end, and a loader's HTTP request has a timeout of 20 seconds.
Fairness ==
  /\ \A c \in Callers : WF_vars(CallerStep(c))
  /\ \A l \in Loads : WF_vars(LoaderStep(l))

FairSpec == Spec /\ Fairness

-----------------------------------------------------------------------------
(* Properties *)

\* "return entry.Value.ctx" never dereferences a nil entry.Value: whatever
\* Replace, Refresh and overlapping loads did to the entry while this caller
\* slept, a Get without an error holds a value.
NoNilDereference ==
  \A c \in Callers : req[c].pc = "done" /\ req[c].ok => req[c].entry.value # None

\* Until an entry has been loaded for the first time its key has one loader at
\* most: concurrent first requests for a token ask the control plane once.
FirstLoadIsShared ==
  \A e \in Entries :
    heap[e].value = None /\ heap[e].err = "nil" =>
      \A l1, l2 \in Loads : InFlight(l1, e) /\ InFlight(l2, e) => l1 = l2

\* "caches authorization successful policy decisions for up to 10 minutes": no
\* request is granted on a decision that had expired when the request began.
GrantedOnLiveDecision ==
  \A c \in Callers : req[c].pc = "done" /\ req[c].ok => req[c].entry.value > req[c].start

\* Every request is answered: no caller sleeps forever in cond.Wait.
EveryRequestAnswered ==
  \A c \in Callers : req[c].pc # "idle" ~> req[c].pc = "done"
=============================================================================
