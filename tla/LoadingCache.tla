---------------------------- MODULE LoadingCache ----------------------------
(***************************************************************************)
(* foundation/common/cache.go: the lazily loading key-value cache.         *)
(*                                                                         *)
(* Every public operation runs under the one mutex of the cache and is one *)
(* action here; a Get that has to wait gives the mutex up in cond.Wait, so *)
(* parking and waking are separate steps.  A loader runs in a goroutine of *)
(* its own, outside the mutex: the call of loadingFunc (LoaderReturns) and *)
(* the application of its result (LoadDone) are separate steps as well.    *)
(*                                                                         *)
(* An Entry is a heap object: callers and loaders keep the pointer they    *)
(* read, so an entry that was dropped from the table is still written to.  *)
(***************************************************************************)
EXTENDS Naturals, FiniteSets

CONSTANTS
  Keys,      \* keys of the cache
  Entries,   \* the pool of Entry objects (a bound: at most this many are live)
  Loads,     \* the pool of loader goroutines (a bound: at most this many run)
  Callers,   \* goroutines that call the cache
  Values,    \* what a loader can return
  None       \* Go's nil

ASSUME NoneAssumption == None \notin Values \cup Entries \cup Keys

VARIABLES
  table,     \* CacheStore: key -> *Entry
  heap,      \* the Entry objects
  load,      \* the loader goroutines started by asyncLoad
  call       \* what each caller is doing in the cache, and its last result

cacheVars == <<table, heap, load, call>>

States == {"init", "pending", "ready", "error", "canceled"}
Errors == {"nil", "load", "canceled", "missing"}

NewEntry == [state |-> "init", value |-> None, err |-> "nil"]
Missing  == [state |-> "error", value |-> None, err |-> "missing"]
IdleLoad == [st |-> "idle", ent |-> None, value |-> None, err |-> "nil"]
IdleCall == [op |-> "idle", key |-> None, ent |-> None, ret |-> NewEntry]

Snapshot == [state : States, value : Values \cup {None}, err : Errors]

Loader == [st : {"idle", "running", "returned"}, ent : Entries \cup {None},
           value : Values \cup {None}, err : Errors]

Caller == [op : {"idle", "put", "parked", "woken"}, key : Keys \cup {None},
           ent : Entries \cup {None}, ret : Snapshot]

CacheTypeOK ==
  /\ table \in [Keys -> Entries \cup {None}]
  /\ heap \in [Entries -> Snapshot]
  /\ load \in [Loads -> Loader]
  /\ call \in [Callers -> Caller]

CacheInit ==
  /\ table = [k \in Keys |-> None]
  /\ heap = [e \in Entries |-> NewEntry]
  /\ load = [l \in Loads |-> IdleLoad]
  /\ call = [c \in Callers |-> IdleCall]

-----------------------------------------------------------------------------

Present(k) == table[k] # None
Idle(c) == call[c].op = "idle"
InFlight(l, e) == load[l].st # "idle" /\ load[l].ent = e

\* No pointer to e is left: the object can be handed out by the allocator.
Garbage(e) ==
  /\ \A k \in Keys : table[k] # e
  /\ \A l \in Loads : load[l].ent # e
  /\ \A c \in Callers : call[c].ent # e

\* entries.Put(key, &Entry{state: EntryInit, ...})
Allocate(k) ==
  \E e \in Entries :
    /\ Garbage(e)
    /\ table' = [table EXCEPT ![k] = e]
    /\ heap' = [heap EXCEPT ![e] = NewEntry]

\* asyncLoad: the entry becomes pending and a loader goroutine is started,
\* whether or not another one is still running for the same entry.
AsyncLoad(e) ==
  /\ heap' = [heap EXCEPT ![e].state = "pending"]
  /\ \E l \in Loads :
       /\ load[l].st = "idle"
       /\ load' = [load EXCEPT ![l] = [IdleLoad EXCEPT !.st = "running", !.ent = e]]

\* cond.Broadcast: every caller parked on e contends for the mutex again.
Broadcast(e) ==
  [c \in Callers |->
     IF call[c].op = "parked" /\ call[c].ent = e
       THEN [call[c] EXCEPT !.op = "woken"]
       ELSE call[c]]

Return(c, r) == call' = [call EXCEPT ![c] = [IdleCall EXCEPT !.ret = r]]

Park(c, k, e) ==
  call' = [call EXCEPT ![c] = [IdleCall EXCEPT !.op = "parked", !.key = k, !.ent = e]]

-----------------------------------------------------------------------------
(* Get *)

GetAbsent(c, k) ==
  /\ Idle(c) /\ ~Present(k)
  /\ Return(c, Missing)
  /\ UNCHANGED <<table, heap, load>>

GetSettled(c, k) ==
  /\ Idle(c) /\ Present(k)
  /\ heap[table[k]].state \in {"ready", "error", "canceled"}
  /\ Return(c, heap[table[k]])
  /\ UNCHANGED <<table, heap, load>>

GetInit(c, k) ==
  /\ Idle(c) /\ Present(k)
  /\ heap[table[k]].state = "init"
  /\ AsyncLoad(table[k])
  /\ Park(c, k, table[k])
  /\ UNCHANGED table

\* Fault: a pending entry is loaded again.
GetPendingLoads(c, k) ==
  /\ Idle(c) /\ Present(k)
  /\ heap[table[k]].state = "pending"
  /\ AsyncLoad(table[k])
  /\ Park(c, k, table[k])
  /\ UNCHANGED table

GetPending(c, k) ==
  /\ Idle(c) /\ Present(k)
  /\ heap[table[k]].state = "pending"
  /\ Park(c, k, table[k])
  /\ UNCHANGED <<table, heap, load>>

Get(c, k) ==
  GetAbsent(c, k) \/ GetSettled(c, k) \/ GetInit(c, k) \/ GetPending(c, k)

\* The loop around cond.Wait: a woken caller that finds the entry pending
\* again goes back to sleep, any other state is returned as it is.
WakeAgain(c) ==
  /\ call[c].op = "woken"
  /\ heap[call[c].ent].state = "pending"
  /\ call' = [call EXCEPT ![c].op = "parked"]
  /\ UNCHANGED <<table, heap, load>>

WakeReturn(c) ==
  /\ call[c].op = "woken"
  /\ heap[call[c].ent].state # "pending"
  /\ Return(c, heap[call[c].ent])
  /\ UNCHANGED <<table, heap, load>>

-----------------------------------------------------------------------------
(* Put *)

\* Put first looks the key up without the mutex.  While another caller changes
\* the tree this read may miss a key that is there; it cannot find one that is
\* not, since it then comes after the insertion.
PutLookupSees(c, k) ==
  {Present(k)} \cup {FALSE : d \in {d \in Callers \ {c} : call[d].op = "put"}}

PutLookup(c, k) ==
  /\ Idle(c)
  /\ \E seen \in PutLookupSees(c, k) :
       call' = [call EXCEPT ![c] =
                  IF seen THEN IdleCall ELSE [IdleCall EXCEPT !.op = "put", !.key = k]]
  /\ UNCHANGED <<table, heap, load>>

\* The second lookup, under the mutex.
PutLocked(c) ==
  /\ call[c].op = "put"
  /\ IF Present(call[c].key) THEN UNCHANGED <<table, heap>> ELSE Allocate(call[c].key)
  /\ call' = [call EXCEPT ![c] = IdleCall]
  /\ UNCHANGED load

-----------------------------------------------------------------------------
(* Replace, Refresh, Cancel, Drop *)

\* Fault: Replace puts a new entry into the place of the old one.
ReplaceClears(c, k) ==
  /\ Idle(c)
  /\ IF Present(k)
       THEN /\ heap' = [heap EXCEPT ![table[k]] = NewEntry]
            /\ UNCHANGED table
       ELSE Allocate(k)
  /\ UNCHANGED <<load, call>>

\* Replace keeps value and err of an existing entry and wakes nobody.
Replace(c, k) ==
  /\ Idle(c)
  /\ IF Present(k)
       THEN /\ heap' = [heap EXCEPT ![table[k]].state = "init"]
            /\ UNCHANGED table
       ELSE Allocate(k)
  /\ UNCHANGED <<load, call>>

Refresh(c, k) ==
  /\ Idle(c)
  /\ IF Present(k) THEN AsyncLoad(table[k]) ELSE UNCHANGED <<heap, load>>
  /\ UNCHANGED <<table, call>>

\* Cancel broadcasts after it has released the mutex.  A caller that parks in
\* between is woken for nothing and parks again, so one step loses no behaviour.
Cancel(c, k) ==
  /\ Idle(c) /\ Present(k)
  /\ heap' = [heap EXCEPT ![table[k]] =
                IF @.state \in {"init", "pending"}
                  THEN [@ EXCEPT !.state = "canceled", !.err = "canceled"]
                  ELSE @]
  /\ call' = Broadcast(table[k])
  /\ UNCHANGED <<table, load>>

\* Fault: the waiters of a dropped entry are not woken.
DropQuiet(c, k) ==
  /\ Idle(c) /\ Present(k)
  /\ table' = [table EXCEPT ![k] = None]
  /\ heap' = [heap EXCEPT ![table[k]].state = IF @ = "pending" THEN "canceled" ELSE @]
  /\ UNCHANGED <<load, call>>

Drop(c, k) ==
  /\ Idle(c) /\ Present(k)
  /\ table' = [table EXCEPT ![k] = None]
  /\ heap' = [heap EXCEPT ![table[k]].state = IF @ = "pending" THEN "canceled" ELSE @]
  /\ call' = Broadcast(table[k])
  /\ UNCHANGED load

-----------------------------------------------------------------------------
(* The loader goroutine *)

\* value, err := entry.loadingFunc()
LoaderReturns(l, v) ==
  /\ load[l].st = "running"
  /\ load' = [load EXCEPT ![l] = [@ EXCEPT !.st = "returned", !.value = v,
                                           !.err = IF v = None THEN "load" ELSE "nil"]]
  /\ UNCHANGED <<table, heap, call>>

\* Fault: a successful load keeps the error of an earlier one.
LoadedKeepsError(entry, r) ==
  CASE entry.state = "canceled" -> [entry EXCEPT !.err = "canceled"]
    [] entry.state # "canceled" /\ r.err = "nil" ->
         [entry EXCEPT !.state = "ready", !.value = r.value]
    [] OTHER -> [entry EXCEPT !.state = "error", !.err = r.err]

\* The entry as the goroutine leaves it: a canceled entry keeps its state, an
\* error does not override the value.
Loaded(entry, r) ==
  CASE entry.state = "canceled" -> [entry EXCEPT !.err = "canceled"]
    [] entry.state # "canceled" /\ r.err = "nil" ->
         [state |-> "ready", value |-> r.value, err |-> "nil"]
    [] OTHER -> [entry EXCEPT !.state = "error", !.err = r.err]

LoadDone(l) ==
  LET e == load[l].ent IN
  /\ load[l].st = "returned"
  /\ heap' = [heap EXCEPT ![e] = Loaded(@, load[l])]
  /\ load' = [load EXCEPT ![l] = IdleLoad]
  /\ call' = IF heap[e].state = "canceled" THEN call ELSE Broadcast(e)
  /\ UNCHANGED table

-----------------------------------------------------------------------------
(* The cache with arbitrary callers. *)

CallerNext(c) ==
  \/ \E k \in Keys : \/ Get(c, k) \/ PutLookup(c, k) \/ Replace(c, k)
                     \/ Refresh(c, k) \/ Cancel(c, k) \/ Drop(c, k)
  \/ PutLocked(c) \/ WakeAgain(c) \/ WakeReturn(c)

LoaderNext(l) == (\E v \in Values \cup {None} : LoaderReturns(l, v)) \/ LoadDone(l)

CacheNext == (\E c \in Callers : CallerNext(c)) \/ (\E l \in Loads : LoaderNext(l))

CacheSpec == CacheInit /\ [][CacheNext]_cacheVars

-----------------------------------------------------------------------------
(* Properties *)

\* A pending entry always has a loader that will settle it, however Replace,
\* Refresh, Cancel and Drop are interleaved with running loads.
PendingHasLoader ==
  \A e \in Entries : heap[e].state = "pending" => \E l \in Loads : InFlight(l, e)

\* No lost wakeup: a caller asleep in cond.Wait sleeps on an entry with a loader
\* in flight, and that loader will broadcast because the entry is not canceled
\* (asyncLoad returns without a broadcast when it finds EntryCanceled).
NoLostWakeup ==
  \A c \in Callers :
    call[c].op = "parked" =>
      /\ heap[call[c].ent].state # "canceled"
      /\ \E l \in Loads : InFlight(l, call[c].ent)

\* A settled entry holds the evidence of its state: a ready entry has a value
\* and no error, a failed one has an error, whatever loads overlapped on it.
SettledEntryConsistent ==
  \A e \in Entries :
    /\ heap[e].state = "ready" => heap[e].value # None /\ heap[e].err = "nil"
    /\ heap[e].state = "error" => heap[e].err # "nil"
=============================================================================
