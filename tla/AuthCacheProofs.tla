-------------------------- MODULE AuthCacheProofs ---------------------------
(***************************************************************************)
(* Proofs about LoadingCache and AuthCache for every number of requests,   *)
(* keys, callers and loaders.                                              *)
(*                                                                         *)
(* The cache: its types, that no wakeup is lost, and that a settled entry  *)
(* is consistent, with Replace, Refresh, Cancel and Drop at any moment.    *)
(* CacheInv has a lemma for each operation of the cache.                   *)
(*                                                                         *)
(* The authorization over it: Get never dereferences a nil value, the      *)
(* first load of a token is shared by everyone who asks for it, and no     *)
(* request is granted on a decision that had expired when the request      *)
(* began.  The invariant adds to CacheInv what a request knows about the   *)
(* entry of its key at each point of Get.                                  *)
(***************************************************************************)
EXTENDS AuthCache, TLAPS

-----------------------------------------------------------------------------
(* The loading cache *)

\* Pointers that are followed are not nil, and a loader's answer is a value or
\* an error.
Pointers ==
  /\ \A l \in Loads : load[l].st # "idle" => load[l].ent \in Entries
  /\ \A l \in Loads : load[l].st = "returned" =>
       load[l].value # None \/ load[l].err # "nil"
  /\ \A c \in Callers : call[c].op \in {"parked", "woken"} => call[c].ent \in Entries
  /\ \A c \in Callers : call[c].op = "put" => call[c].key \in Keys

CacheInv ==
  CacheTypeOK /\ Pointers /\ PendingHasLoader /\ NoLostWakeup /\ SettledEntryConsistent

LEMMA CacheInitInv == CacheInit => CacheInv
  BY NoneAssumption
  DEF CacheInit, CacheInv, CacheTypeOK, Pointers, PendingHasLoader, NoLostWakeup,
      SettledEntryConsistent, NewEntry, IdleLoad, IdleCall, Snapshot, Loader, Caller, States, Errors

-----------------------------------------------------------------------------
(* One lemma per operation. *)

LEMMA StutterInv ==
  ASSUME CacheInv, UNCHANGED cacheVars
  PROVE  CacheInv'
  BY DEF cacheVars, CacheInv, CacheTypeOK, Pointers, PendingHasLoader, NoLostWakeup, InFlight,
      SettledEntryConsistent

LEMMA GetAbsentInv ==
  ASSUME CacheInv, NEW c \in Callers, NEW k \in Keys, GetAbsent(c, k)
  PROVE  CacheInv'
<1> USE NoneAssumption DEF CacheInv, CacheTypeOK, GetAbsent, Return, Missing, IdleCall, NewEntry
<1>1. CacheTypeOK'
  BY DEF Snapshot, States, Errors, Caller
<1>2. Pointers'
  BY DEF Pointers, Caller, Loader
<1>3. PendingHasLoader'
  BY DEF PendingHasLoader, InFlight, Pointers
<1>4. NoLostWakeup'
  BY DEF NoLostWakeup, PendingHasLoader, InFlight, Pointers
<1>5. SettledEntryConsistent'
  BY DEF SettledEntryConsistent, Pointers
<1>6. QED
  BY <1>1, <1>2, <1>3, <1>4, <1>5

LEMMA GetSettledInv ==
  ASSUME CacheInv, NEW c \in Callers, NEW k \in Keys, GetSettled(c, k)
  PROVE  CacheInv'
<1> USE NoneAssumption DEF CacheInv, CacheTypeOK, GetSettled, Present, Return, IdleCall, NewEntry
<1>1. CacheTypeOK'
  <2>1. heap[table[k]] \in Snapshot
    OBVIOUS
  <2>2. [IdleCall EXCEPT !.ret = heap[table[k]]] \in Caller
    BY <2>1 DEF Caller
  <2>3. QED
    BY <2>2
<1>2. Pointers'
  BY DEF Pointers, Caller, Loader
<1>3. PendingHasLoader'
  BY DEF PendingHasLoader, InFlight, Pointers
<1>4. NoLostWakeup'
  BY DEF NoLostWakeup, PendingHasLoader, InFlight, Pointers
<1>5. SettledEntryConsistent'
  BY DEF SettledEntryConsistent, Pointers
<1>6. QED
  BY <1>1, <1>2, <1>3, <1>4, <1>5

LEMMA GetInitInv ==
  ASSUME CacheInv, NEW c \in Callers, NEW k \in Keys, GetInit(c, k)
  PROVE  CacheInv'
<1> USE NoneAssumption DEF CacheInv, CacheTypeOK, GetInit, Present, AsyncLoad, Park, IdleCall, IdleLoad, NewEntry
<1>1. CacheTypeOK'
  <2>1. table[k] \in Entries
    OBVIOUS
  <2>2. [heap[table[k]] EXCEPT !.state = "pending"] \in Snapshot
    BY <2>1 DEF Snapshot, States
  <2>3. heap' \in [Entries -> Snapshot]
    BY <2>1, <2>2
  <2>4. [IdleLoad EXCEPT !.st = "running", !.ent = table[k]] \in Loader
    BY <2>1 DEF Loader, Errors
  <2>5. load' \in [Loads -> Loader]
    BY <2>4
  <2>6. [IdleCall EXCEPT !.op = "parked", !.key = k, !.ent = table[k]] \in Caller
    BY <2>1 DEF Caller, Snapshot, States, Errors
  <2>7. QED
    BY <2>3, <2>5, <2>6
<1>2. Pointers'
  BY DEF Pointers, Caller, Loader
<1>3. PendingHasLoader'
  BY DEF PendingHasLoader, InFlight, Pointers
<1>4. NoLostWakeup'
  BY DEF NoLostWakeup, PendingHasLoader, InFlight, Pointers
<1>5. SettledEntryConsistent'
  BY DEF SettledEntryConsistent, Pointers
<1>6. QED
  BY <1>1, <1>2, <1>3, <1>4, <1>5

LEMMA GetPendingInv ==
  ASSUME CacheInv, NEW c \in Callers, NEW k \in Keys, GetPending(c, k)
  PROVE  CacheInv'
<1> USE NoneAssumption DEF CacheInv, CacheTypeOK, GetPending, Present, Park, IdleCall, NewEntry
<1>1. CacheTypeOK'
  BY DEF Snapshot, States, Errors, Caller
<1>2. Pointers'
  BY DEF Pointers, Caller, Loader
<1>3. PendingHasLoader'
  BY DEF PendingHasLoader, InFlight, Pointers
<1>4. NoLostWakeup'
  BY DEF NoLostWakeup, PendingHasLoader, InFlight, Pointers
<1>5. SettledEntryConsistent'
  BY DEF SettledEntryConsistent, Pointers
<1>6. QED
  BY <1>1, <1>2, <1>3, <1>4, <1>5

LEMMA WakeAgainInv ==
  ASSUME CacheInv, NEW c \in Callers, WakeAgain(c)
  PROVE  CacheInv'
<1> USE NoneAssumption DEF CacheInv, CacheTypeOK, WakeAgain
<1>1. CacheTypeOK'
  <2>1. [call[c] EXCEPT !.op = "parked"] \in Caller
    BY DEF Caller
  <2>2. QED
    BY <2>1
<1>2. Pointers'
  BY DEF Pointers, Caller, Loader
<1>3. PendingHasLoader'
  BY DEF PendingHasLoader, InFlight, Pointers
<1>4. NoLostWakeup'
  BY DEF NoLostWakeup, PendingHasLoader, InFlight, Pointers
<1>5. SettledEntryConsistent'
  BY DEF SettledEntryConsistent, Pointers
<1>6. QED
  BY <1>1, <1>2, <1>3, <1>4, <1>5

LEMMA WakeReturnInv ==
  ASSUME CacheInv, NEW c \in Callers, WakeReturn(c)
  PROVE  CacheInv'
<1> USE NoneAssumption DEF CacheInv, CacheTypeOK, WakeReturn, Return, IdleCall, NewEntry
<1>1. CacheTypeOK'
  <2>1. heap[call[c].ent] \in Snapshot
    BY DEF Pointers
  <2>2. [IdleCall EXCEPT !.ret = heap[call[c].ent]] \in Caller
    BY <2>1 DEF Caller
  <2>3. QED
    BY <2>2
<1>2. Pointers'
  BY DEF Pointers, Caller, Loader
<1>3. PendingHasLoader'
  BY DEF PendingHasLoader, InFlight, Pointers
<1>4. NoLostWakeup'
  BY DEF NoLostWakeup, PendingHasLoader, InFlight, Pointers
<1>5. SettledEntryConsistent'
  BY DEF SettledEntryConsistent, Pointers
<1>6. QED
  BY <1>1, <1>2, <1>3, <1>4, <1>5

LEMMA PutLookupInv ==
  ASSUME CacheInv, NEW c \in Callers, NEW k \in Keys, PutLookup(c, k)
  PROVE  CacheInv'
<1> USE NoneAssumption DEF CacheInv, CacheTypeOK, PutLookup, IdleCall, NewEntry
<1>1. CacheTypeOK'
  <2>1. IdleCall \in Caller /\ [IdleCall EXCEPT !.op = "put", !.key = k] \in Caller
    BY DEF Caller, Snapshot, States, Errors
  <2>2. QED
    BY <2>1
<1>2. Pointers'
  BY DEF Pointers, Caller, Loader
<1>3. PendingHasLoader'
  BY DEF PendingHasLoader, InFlight, Pointers
<1>4. NoLostWakeup'
  BY DEF NoLostWakeup, PendingHasLoader, InFlight, Pointers
<1>5. SettledEntryConsistent'
  BY DEF SettledEntryConsistent, Pointers
<1>6. QED
  BY <1>1, <1>2, <1>3, <1>4, <1>5

LEMMA PutLockedInv ==
  ASSUME CacheInv, NEW c \in Callers, PutLocked(c)
  PROVE  CacheInv'
<1> USE NoneAssumption DEF CacheInv, CacheTypeOK, PutLocked, Present, Allocate, Garbage, IdleCall, NewEntry
<1>1. CacheTypeOK'
  <2>1. NewEntry \in Snapshot
    BY DEF Snapshot, States, Errors
  <2>2. IdleCall \in Caller
    BY <2>1 DEF Caller
  <2>3. table' \in [Keys -> Entries \cup {None}] /\ heap' \in [Entries -> Snapshot]
    BY <2>1
  <2>4. QED
    BY <2>2, <2>3
<1>2. Pointers'
  BY DEF Pointers, Caller, Loader
<1>3. PendingHasLoader'
  BY DEF PendingHasLoader, InFlight, Pointers
<1>4. NoLostWakeup'
  BY DEF NoLostWakeup, PendingHasLoader, InFlight, Pointers
<1>5. SettledEntryConsistent'
  BY DEF SettledEntryConsistent, Pointers
<1>6. QED
  BY <1>1, <1>2, <1>3, <1>4, <1>5

LEMMA ReplaceInv ==
  ASSUME CacheInv, NEW c \in Callers, NEW k \in Keys, Replace(c, k)
  PROVE  CacheInv'
<1> USE NoneAssumption DEF CacheInv, CacheTypeOK
<1>1. CASE Present(k)
  <2>1. table[k] \in Entries
    BY <1>1 DEF Present
  <2>2. heap' = [heap EXCEPT ![table[k]].state = "init"] /\ UNCHANGED <<table, load, call>>
    BY <1>1 DEF Replace
  <2>3. [heap[table[k]] EXCEPT !.state = "init"] \in Snapshot
    BY <2>1 DEF Snapshot, States
  <2>4. CacheTypeOK'
    BY <2>1, <2>2, <2>3
  <2>5. Pointers'
    BY <2>2 DEF Pointers
  <2>6. \A e \in Entries : heap'[e].state = heap[e].state \/ heap'[e].state = "init"
    BY <2>1, <2>2 DEF Snapshot
  <2>7. \A e \in Entries : heap'[e].value = heap[e].value /\ heap'[e].err = heap[e].err
    BY <2>1, <2>2 DEF Snapshot
  <2>8. PendingHasLoader'
    BY <2>2, <2>6 DEF PendingHasLoader, InFlight
  <2>9. NoLostWakeup'
    BY <2>2, <2>6 DEF NoLostWakeup, InFlight, Pointers
  <2>10. SettledEntryConsistent'
    BY <2>6, <2>7 DEF SettledEntryConsistent
  <2>11. QED
    BY <2>4, <2>5, <2>8, <2>9, <2>10
<1>2. CASE ~Present(k)
  <2>1. PICK e \in Entries :
          /\ Garbage(e)
          /\ table' = [table EXCEPT ![k] = e]
          /\ heap' = [heap EXCEPT ![e] = NewEntry]
          /\ UNCHANGED <<load, call>>
    BY <1>2 DEF Allocate, Replace
  <2>2. NewEntry \in Snapshot
    BY DEF NewEntry, Snapshot, States, Errors
  <2>3. CacheTypeOK'
    BY <2>1, <2>2
  <2>4. Pointers'
    BY <2>1 DEF Pointers
  <2>5. PendingHasLoader'
    BY <2>1 DEF PendingHasLoader, InFlight, NewEntry
  <2>6. NoLostWakeup'
    BY <2>1 DEF NoLostWakeup, InFlight, Garbage, Pointers
  <2>7. SettledEntryConsistent'
    BY <2>1 DEF SettledEntryConsistent, NewEntry
  <2>8. QED
    BY <2>3, <2>4, <2>5, <2>6, <2>7
<1>3. QED
  BY <1>1, <1>2

LEMMA RefreshInv ==
  ASSUME CacheInv, NEW c \in Callers, NEW k \in Keys, Refresh(c, k)
  PROVE  CacheInv'
<1> USE NoneAssumption DEF CacheInv, CacheTypeOK, Refresh
<1>1. CASE Present(k)
  <2>1. table[k] \in Entries
    BY <1>1 DEF Present
  <2>2. PICK l \in Loads :
          /\ load[l].st = "idle"
          /\ load' = [load EXCEPT ![l] = [IdleLoad EXCEPT !.st = "running", !.ent = table[k]]]
    BY <1>1 DEF AsyncLoad
  <2>3. heap' = [heap EXCEPT ![table[k]].state = "pending"] /\ UNCHANGED <<table, call>>
    BY <1>1 DEF AsyncLoad
  <2>4. load'[l].st = "running" /\ load'[l].ent = table[k]
    BY <2>2 DEF IdleLoad
  <2>5. CacheTypeOK'
    <3>1. [heap[table[k]] EXCEPT !.state = "pending"] \in Snapshot
      BY <2>1 DEF Snapshot, States
    <3>2. [IdleLoad EXCEPT !.st = "running", !.ent = table[k]] \in Loader
      BY <2>1 DEF IdleLoad, Loader, Errors
    <3>3. QED
      BY <2>1, <2>2, <2>3, <3>1, <3>2
  <2>6. Pointers'
    BY <2>1, <2>2, <2>3, <2>4 DEF Pointers
  <2>7. PendingHasLoader'
    BY <2>1, <2>2, <2>3, <2>4 DEF PendingHasLoader, InFlight
  <2>8. NoLostWakeup'
    BY <2>1, <2>2, <2>3, <2>4 DEF NoLostWakeup, InFlight, Pointers
  <2>9. SettledEntryConsistent'
    BY <2>1, <2>3 DEF SettledEntryConsistent
  <2>10. QED
    BY <2>5, <2>6, <2>7, <2>8, <2>9
<1>2. CASE ~Present(k)
  BY <1>2, StutterInv DEF cacheVars
<1>3. QED
  BY <1>1, <1>2

LEMMA CancelInv ==
  ASSUME CacheInv, NEW c \in Callers, NEW k \in Keys, Cancel(c, k)
  PROVE  CacheInv'
<1> USE NoneAssumption DEF CacheInv, CacheTypeOK, Cancel, Present, Broadcast
<1>1. CacheTypeOK'
  <2>1. table[k] \in Entries
    OBVIOUS
  <2>2. [heap[table[k]] EXCEPT !.state = "canceled", !.err = "canceled"] \in Snapshot
    BY <2>1 DEF Snapshot, States, Errors
  <2>3. heap' \in [Entries -> Snapshot]
    BY <2>1, <2>2
  <2>4. Broadcast(table[k]) \in [Callers -> Caller]
    BY DEF Caller
  <2>5. QED
    BY <2>3, <2>4
<1>2. Pointers'
  BY DEF Pointers, Caller, Loader
<1>3. PendingHasLoader'
  BY DEF PendingHasLoader, InFlight, Pointers
<1>4. NoLostWakeup'
  BY DEF NoLostWakeup, PendingHasLoader, InFlight, Pointers
<1>5. SettledEntryConsistent'
  BY DEF SettledEntryConsistent, Pointers
<1>6. QED
  BY <1>1, <1>2, <1>3, <1>4, <1>5

LEMMA DropInv ==
  ASSUME CacheInv, NEW c \in Callers, NEW k \in Keys, Drop(c, k)
  PROVE  CacheInv'
<1> USE NoneAssumption DEF CacheInv, CacheTypeOK, Drop, Present, Broadcast
<1>1. CacheTypeOK'
  <2>1. table[k] \in Entries
    OBVIOUS
  <2>2. heap[table[k]] \in Snapshot /\ [heap[table[k]] EXCEPT !.state = "canceled"] \in Snapshot
    BY <2>1 DEF Snapshot, States
  <2>3. heap' \in [Entries -> Snapshot]
    BY <2>1, <2>2 DEF Snapshot, States
  <2>4. Broadcast(table[k]) \in [Callers -> Caller]
    BY DEF Caller
  <2>5. QED
    BY <2>3, <2>4
<1>2. Pointers'
  BY DEF Pointers, Caller, Loader
<1>3. PendingHasLoader'
  BY DEF PendingHasLoader, InFlight, Pointers
<1>4. NoLostWakeup'
  BY DEF NoLostWakeup, PendingHasLoader, InFlight, Pointers
<1>5. SettledEntryConsistent'
  BY DEF SettledEntryConsistent, Pointers
<1>6. QED
  BY <1>1, <1>2, <1>3, <1>4, <1>5

LEMMA LoaderReturnsInv ==
  ASSUME CacheInv, NEW l \in Loads, NEW v \in Values \cup {None}, LoaderReturns(l, v)
  PROVE  CacheInv'
<1> USE NoneAssumption DEF CacheInv, CacheTypeOK, LoaderReturns
<1>1. CacheTypeOK'
  <2>1. [load[l] EXCEPT !.st = "returned", !.value = v,
                        !.err = IF v = None THEN "load" ELSE "nil"] \in Loader
    BY DEF Loader, Errors
  <2>2. QED
    BY <2>1
<1>2. Pointers'
  BY DEF Pointers, Caller, Loader
<1>3. PendingHasLoader'
  BY DEF PendingHasLoader, InFlight, Pointers
<1>4. NoLostWakeup'
  BY DEF NoLostWakeup, PendingHasLoader, InFlight, Pointers
<1>5. SettledEntryConsistent'
  BY DEF SettledEntryConsistent, Pointers
<1>6. QED
  BY <1>1, <1>2, <1>3, <1>4, <1>5

LEMMA LoadDoneInv ==
  ASSUME CacheInv, NEW l \in Loads, LoadDone(l)
  PROVE  CacheInv'
<1> USE NoneAssumption DEF CacheInv, CacheTypeOK, LoadDone, Loaded, Broadcast
<1>1. CacheTypeOK'
  <2>1. load[l].ent \in Entries
    BY DEF Pointers
  <2>2. Loaded(heap[load[l].ent], load[l]) \in Snapshot
    BY <2>1 DEF Snapshot, States, Errors, Loader
  <2>3. heap' \in [Entries -> Snapshot]
    BY <2>1, <2>2
  <2>4. IdleLoad \in Loader
    BY DEF IdleLoad, Loader, Errors
  <2>5. Broadcast(load[l].ent) \in [Callers -> Caller]
    BY DEF Caller
  <2>6. QED
    BY <2>3, <2>4, <2>5
<1>2. Pointers'
  BY DEF Pointers, IdleLoad
<1>3. PendingHasLoader'
  BY DEF PendingHasLoader, InFlight, Pointers, IdleLoad
<1>4. NoLostWakeup'
  BY DEF NoLostWakeup, PendingHasLoader, InFlight, Pointers
<1>5. SettledEntryConsistent'
  BY DEF SettledEntryConsistent, Pointers
<1>6. QED
  BY <1>1, <1>2, <1>3, <1>4, <1>5

LEMMA CacheStepInv == CacheInv /\ [CacheNext]_cacheVars => CacheInv'
<1> SUFFICES ASSUME CacheInv, [CacheNext]_cacheVars
             PROVE  CacheInv'
  OBVIOUS
<1>1. CASE UNCHANGED cacheVars
  BY <1>1, StutterInv
<1>2. ASSUME NEW c \in Callers, CallerNext(c)
      PROVE  CacheInv'
  <2>1. CASE PutLocked(c) \/ WakeAgain(c) \/ WakeReturn(c)
    BY <2>1, PutLockedInv, WakeAgainInv, WakeReturnInv
  <2>2. ASSUME NEW k \in Keys, Get(c, k) \/ PutLookup(c, k)
        PROVE  CacheInv'
    BY <2>2, GetAbsentInv, GetSettledInv, GetInitInv, GetPendingInv, PutLookupInv DEF Get
  <2>3. ASSUME NEW k \in Keys,
               Replace(c, k) \/ Refresh(c, k) \/ Cancel(c, k) \/ Drop(c, k)
        PROVE  CacheInv'
    BY <2>3, ReplaceInv, RefreshInv, CancelInv, DropInv
  <2>4. QED
    BY <1>2, <2>1, <2>2, <2>3 DEF CallerNext
<1>3. ASSUME NEW l \in Loads, LoaderNext(l)
      PROVE  CacheInv'
  BY <1>3, LoaderReturnsInv, LoadDoneInv DEF LoaderNext
<1>4. QED
  BY <1>1, <1>2, <1>3 DEF CacheNext

-----------------------------------------------------------------------------

\* Type correctness of the cache.
THEOREM CacheTypeCorrect == CacheSpec => []CacheTypeOK
<1>1. CacheInv => CacheTypeOK
  BY DEF CacheInv
<1>2. QED
  BY CacheInitInv, CacheStepInv, <1>1, PTL DEF CacheSpec

\* No caller of Get sleeps on an entry that nobody will settle and broadcast:
\* a load is in flight for it and the entry is not canceled.
THEOREM NoLostWakeupCorrect == CacheSpec => []NoLostWakeup
<1>1. CacheInv => NoLostWakeup
  BY DEF CacheInv
<1>2. QED
  BY CacheInitInv, CacheStepInv, <1>1, PTL DEF CacheSpec

\* A ready entry has a value and no error, a failed one has an error.
THEOREM SettledCorrect == CacheSpec => []SettledEntryConsistent
<1>1. CacheInv => SettledEntryConsistent
  BY DEF CacheInv
<1>2. QED
  BY CacheInitInv, CacheStepInv, <1>1, PTL DEF CacheSpec

-----------------------------------------------------------------------------
(* The authorization cache and its middleware *)

\* Some load of the entry has completed.
Evidence(s) == s.value # None \/ s.err # "nil"

\* The last load failed, or its decision is live at time t.
FreshFor(s, t) == s.err # "nil" \/ (s.value # None /\ s.value > t)

\* The entry of the caller's key.
Ent(c) == table[req[c].key]

\* Where a request can be, and that its key stays in the table.
Placed(c) ==
  /\ req[c].pc # "idle" => req[c].key \in Keys
  /\ req[c].start <= now
  /\ call[c].op = "put" => req[c].pc = "get" /\ call[c].key = req[c].key
  /\ call[c].op \in {"parked", "woken"} =>
       req[c].pc \in {"first", "second"} /\ call[c].ent = Ent(c)
  /\ req[c].pc \notin {"idle", "put"} /\ call[c].op # "put" => Ent(c) \in Entries

\* A request that has got past its first Get knows that its entry was loaded.
Informed(c) ==
  /\ req[c].pc \in {"first", "second"} /\ call[c].op = "idle" => Evidence(call[c].ret)
  /\ \/ call[c].op = "woken"
     \/ req[c].pc \in {"refresh", "await", "second", "replace"}
     \/ req[c].pc = "first" /\ call[c].op = "idle"
     => Evidence(heap[Ent(c)])

\* A request that has refreshed its entry waits for a load that has not
\* completed, or holds the outcome of one that completed after it began.
Refreshed(c) ==
  /\ req[c].pc = "await" \/ (req[c].pc = "second" /\ call[c].op = "parked") =>
       heap[Ent(c)].state \in {"init", "pending"} \/ FreshFor(heap[Ent(c)], req[c].start)
  /\ req[c].pc = "second" /\ call[c].op = "woken" => FreshFor(heap[Ent(c)], req[c].start)
  /\ req[c].pc = "second" /\ call[c].op = "idle" => FreshFor(call[c].ret, req[c].start)

\* A granted request holds a decision that was live when the request began.
Granted(c) ==
  req[c].pc = "done" /\ req[c].ok =>
    req[c].entry.value # None /\ req[c].entry.value > req[c].start

CallerOK(c) == Placed(c) /\ Informed(c) /\ Refreshed(c) /\ Granted(c)

\* Nothing cancels an entry here, and an entry that nobody has loaded is not
\* being loaded.
Untouched ==
  \A e \in Entries :
    /\ heap[e].state # "canceled"
    /\ heap[e].state = "init" /\ ~Evidence(heap[e]) => \A l \in Loads : ~InFlight(l, e)

\* A decision that is on its way into the cache was made now.
LoadIsRecent ==
  \A l \in Loads : load[l].st = "returned" /\ load[l].err = "nil" => load[l].value = now + TTL

AuthInv ==
  /\ CacheInv /\ AuthTypeOK
  /\ \A c \in Callers : CallerOK(c)
  /\ Untouched /\ FirstLoadIsShared /\ LoadIsRecent

\* A step that leaves the table's entries in place and their values and errors
\* alone; it may start loads.
Keeps ==
  /\ now \in Nat /\ now' \in Nat /\ now <= now'
  /\ \A k \in Keys : table[k] # None =>
       /\ table'[k] = table[k]
       /\ heap'[table[k]].value = heap[table[k]].value
       /\ heap'[table[k]].err = heap[table[k]].err
       /\ heap'[table[k]].state \in {heap[table[k]].state, "init", "pending"}

-----------------------------------------------------------------------------

\* What a caller knows survives such a step of anybody else.
LEMMA CallerKept ==
  ASSUME AuthInv, Keeps, NEW d \in Callers, req'[d] = req[d], call'[d] = call[d]
  PROVE  CallerOK(d)'
<1> USE NoneAssumption DEF AuthInv, CallerOK, Keeps, Ent
<1>1. CallerOK(d) /\ req[d] \in Request
  BY DEF AuthTypeOK
<1>2. Placed(d)'
  BY <1>1 DEF Placed, Request
<1>3. Informed(d)'
  BY <1>1 DEF Informed, Evidence, Placed
<1>4. Refreshed(d)'
  BY <1>1 DEF Refreshed, FreshFor, Placed
<1>5. Granted(d)'
  BY <1>1 DEF Granted
<1>6. QED
  BY <1>2, <1>3, <1>4, <1>5

\* An update of the fields of a request.
LEMMA RequestUpdate ==
  ASSUME NEW r \in Request, NEW p \in Steps
  PROVE  /\ [r EXCEPT !.pc = p] \in Request
         /\ \A e \in Snapshot : [r EXCEPT !.pc = p, !.entry = e] \in Request
         /\ \A e \in Snapshot, b \in BOOLEAN :
              [r EXCEPT !.pc = p, !.entry = e, !.ok = b] \in Request
  BY DEF Request

-----------------------------------------------------------------------------
(* One lemma per action of AuthCache. *)

LEMMA CheckKeyAuth ==
  ASSUME AuthInv, NEW c \in Callers, NEW k \in Keys, CheckKey(c, k)
  PROVE  AuthInv'
<1>1. UNCHANGED <<table, heap, load, call, now>>
  BY DEF CheckKey, cacheVars
<1>2. CacheInv'
  BY <1>1, StutterInv DEF AuthInv, cacheVars
<1>3. PICK p \in {"get", "put"} :
        /\ req' = [req EXCEPT ![c] = [NoRequest EXCEPT !.key = k, !.start = now, !.pc = p]]
        /\ p = "get" => table[k] # None
  BY DEF CheckKey, Present
<1>4. AuthTypeOK'
  <2>1. NewEntry \in Snapshot
    BY DEF NewEntry, Snapshot, States, Errors
  <2>2. [NoRequest EXCEPT !.key = k, !.start = now, !.pc = p] \in Request
    BY <2>1 DEF NoRequest, Request, Steps, AuthInv, AuthTypeOK
  <2>3. req' \in [Callers -> Request]
    BY <1>3, <2>2 DEF AuthInv, AuthTypeOK
  <2>4. calls' \in [Callers -> 0 .. MaxCalls]
    BY TimeAssumption DEF CheckKey, AuthInv, AuthTypeOK
  <2>5. QED
    BY <1>1, <1>2, <2>3, <2>4 DEF AuthTypeOK, AuthInv, CacheInv
<1>5. ASSUME NEW d \in Callers, d # c PROVE CallerOK(d)'
  BY <1>1, <1>3, <1>5, CallerKept, TimeAssumption DEF Keeps, AuthInv, AuthTypeOK
<1>6. CallerOK(c)'
  <2>1. req'[c].key = k /\ req'[c].start = now /\ req'[c].pc = p /\ call[c].op = "idle"
    BY <1>3, ZenonT(60) DEF NoRequest, AuthInv, AuthTypeOK, CheckKey, At, Idle
  <2>2. table[k] \in Entries \cup {None} /\ now \in Nat
    BY TimeAssumption DEF AuthInv, AuthTypeOK, CacheTypeOK
  <2>3. QED
    BY <1>1, <1>3, <2>1, <2>2 DEF CallerOK, Placed, Informed, Refreshed, Granted, Ent
<1>7. Untouched' /\ FirstLoadIsShared' /\ LoadIsRecent'
  BY <1>1 DEF AuthInv, Untouched, Evidence, InFlight, FirstLoadIsShared, LoadIsRecent
<1>8. QED
  BY <1>2, <1>4, <1>5, <1>6, <1>7 DEF AuthInv

LEMMA UseFirstAuth ==
  ASSUME AuthInv, NEW c \in Callers, UseFirst(c)
  PROVE  AuthInv'
<1> DEFINE e == call[c].ret
<1>1. UNCHANGED <<table, heap, load, call, now, calls>>
  BY DEF UseFirst, cacheVars
<1>2. CacheInv'
  BY <1>1, StutterInv DEF AuthInv, cacheVars
<1>3. /\ req[c] \in Request /\ e \in Snapshot /\ CallerOK(c)
      /\ req[c].pc = "first" /\ call[c].op = "idle"
  BY DEF AuthInv, AuthTypeOK, CacheTypeOK, Caller, UseFirst, At, Idle
<1>4. PICK r \in Request :
        /\ req' = [req EXCEPT ![c] = r]
        /\ r.key = req[c].key /\ r.start = req[c].start
        /\ r.pc \in {"done", "refresh", "replace"}
        /\ r.pc = "done" /\ r.ok => Live(r.entry)
  <2>1. Evidence(e)
    BY <1>3 DEF CallerOK, Informed
  <2>2. CASE Live(e) /\ Finish(c, e, e.err = "nil")
    <3> DEFINE s == [req[c] EXCEPT !.pc = "done", !.entry = e, !.ok = (e.err = "nil")]
    <3>1. s \in Request
      BY <1>3, RequestUpdate DEF Steps
    <3>2. req' = [req EXCEPT ![c] = s]
      BY <2>2 DEF Finish
    <3>3. s.key = req[c].key /\ s.start = req[c].start /\ s.pc = "done" /\ s.entry = e
      BY <1>3 DEF Request
    <3>4. QED
      BY <2>2, <3>1, <3>2, <3>3
  <2>3. CASE Goto(c, "refresh")
    <3> DEFINE s == [req[c] EXCEPT !.pc = "refresh"]
    <3>1. s \in Request
      BY <1>3, RequestUpdate DEF Steps
    <3>2. req' = [req EXCEPT ![c] = s]
      BY <2>3 DEF Goto
    <3>3. s.key = req[c].key /\ s.start = req[c].start /\ s.pc = "refresh"
      BY <1>3 DEF Request
    <3>4. QED
      BY <2>3, <3>1, <3>2, <3>3
  <2>4. CASE req' = [req EXCEPT ![c].pc = "replace", ![c].entry = e]
    <3> DEFINE s == [req[c] EXCEPT !.pc = "replace", !.entry = e]
    <3>1. s \in Request
      BY <1>3, RequestUpdate DEF Steps
    <3>2. req' = [req EXCEPT ![c] = s]
      BY <2>4
    <3>3. s.key = req[c].key /\ s.start = req[c].start /\ s.pc = "replace"
      BY <1>3 DEF Request
    <3>4. QED
      BY <2>4, <3>1, <3>2, <3>3
  <2>5. QED
    BY <2>1, <2>2, <2>3, <2>4 DEF UseFirst, Evidence
<1>5. AuthTypeOK'
  BY <1>1, <1>2, <1>4 DEF AuthTypeOK, AuthInv, CacheInv
<1>6. ASSUME NEW d \in Callers, d # c PROVE CallerOK(d)'
  BY <1>1, <1>4, <1>6, CallerKept, TimeAssumption DEF Keeps, AuthInv, AuthTypeOK
<1>7. CallerOK(c)'
  <2>1. req'[c] = r
    BY <1>4 DEF AuthInv, AuthTypeOK
  <2>2. Granted(c)'
    <3>1. ASSUME r.pc = "done", r.ok PROVE r.entry.value > r.start
      <4>1. r.entry.value \in Nat /\ r.entry.value > now
        BY <1>4, <3>1, ValuesAssumption, TimeAssumption DEF Live, Request, Snapshot
      <4>2. r.start \in Nat /\ r.start <= now /\ now \in Nat
        BY <1>3, <1>4, TimeAssumption DEF CallerOK, Placed, Request, AuthInv, AuthTypeOK
      <4>3. QED
        BY <4>1, <4>2
    <3>2. QED
      BY <1>4, <2>1, <3>1 DEF Granted, Live
  <2>3. QED
    BY <1>1, <1>3, <1>4, <2>1, <2>2 DEF CallerOK, Placed, Informed, Refreshed, Ent
<1>8. Untouched' /\ FirstLoadIsShared' /\ LoadIsRecent'
  BY <1>1 DEF AuthInv, Untouched, Evidence, InFlight, FirstLoadIsShared, LoadIsRecent
<1>9. QED
  BY <1>2, <1>5, <1>6, <1>7, <1>8 DEF AuthInv

LEMMA UseSecondAuth ==
  ASSUME AuthInv, NEW c \in Callers, UseSecond(c)
  PROVE  AuthInv'
<1> DEFINE e == call[c].ret
<1>1. UNCHANGED <<table, heap, load, call, now, calls>>
  BY DEF UseSecond, cacheVars
<1>2. CacheInv'
  BY <1>1, StutterInv DEF AuthInv, cacheVars
<1>3. /\ req[c] \in Request /\ e \in Snapshot /\ CallerOK(c)
      /\ req[c].pc = "second" /\ call[c].op = "idle"
  BY DEF AuthInv, AuthTypeOK, CacheTypeOK, Caller, UseSecond, At, Idle
<1>4. PICK r \in Request :
        /\ req' = [req EXCEPT ![c] = r]
        /\ r.key = req[c].key /\ r.start = req[c].start /\ r.entry = e
        /\ r.pc \in {"done", "replace"}
        /\ r.pc = "done" => e.err = "nil"
  <2>1. CASE e.err # "nil"
    <3> DEFINE s == [req[c] EXCEPT !.pc = "replace", !.entry = e]
    <3>1. s \in Request
      BY <1>3, RequestUpdate DEF Steps
    <3>2. req' = [req EXCEPT ![c] = s]
      BY <2>1 DEF UseSecond
    <3>3. s.key = req[c].key /\ s.start = req[c].start /\ s.pc = "replace" /\ s.entry = e
      BY <1>3 DEF Request
    <3>4. QED
      BY <2>1, <3>1, <3>2, <3>3
  <2>2. CASE e.err = "nil"
    <3> DEFINE s == [req[c] EXCEPT !.pc = "done", !.entry = e, !.ok = TRUE]
    <3>1. s \in Request
      BY <1>3, RequestUpdate DEF Steps
    <3>2. req' = [req EXCEPT ![c] = s]
      BY <2>2 DEF UseSecond, Finish
    <3>3. s.key = req[c].key /\ s.start = req[c].start /\ s.pc = "done" /\ s.entry = e
      BY <1>3 DEF Request
    <3>4. QED
      BY <2>2, <3>1, <3>2, <3>3
  <2>3. QED
    BY <2>1, <2>2
<1>5. AuthTypeOK'
  BY <1>1, <1>2, <1>4 DEF AuthTypeOK, AuthInv, CacheInv
<1>6. ASSUME NEW d \in Callers, d # c PROVE CallerOK(d)'
  BY <1>1, <1>4, <1>6, CallerKept, TimeAssumption DEF Keeps, AuthInv, AuthTypeOK
<1>7. CallerOK(c)'
  <2>1. req'[c] = r
    BY <1>4 DEF AuthInv, AuthTypeOK
  <2>2. Granted(c)'
    BY <1>3, <1>4, <2>1 DEF CallerOK, Granted, Refreshed, FreshFor
  <2>3. QED
    BY <1>1, <1>3, <1>4, <2>1, <2>2 DEF CallerOK, Placed, Informed, Refreshed, Ent
<1>8. Untouched' /\ FirstLoadIsShared' /\ LoadIsRecent'
  BY <1>1 DEF AuthInv, Untouched, Evidence, InFlight, FirstLoadIsShared, LoadIsRecent
<1>9. QED
  BY <1>2, <1>5, <1>6, <1>7, <1>8 DEF AuthInv

LEMMA TickAuth ==
  ASSUME AuthInv, Tick
  PROVE  AuthInv'
<1>1. UNCHANGED <<table, heap, load, call, req, calls>>
  BY DEF Tick, cacheVars
<1>2. CacheInv'
  BY <1>1, StutterInv DEF AuthInv, cacheVars
<1>3. AuthTypeOK'
  BY <1>1, <1>2, TimeAssumption DEF Tick, AuthTypeOK, AuthInv, CacheInv
<1>4. ASSUME NEW d \in Callers PROVE CallerOK(d)'
  BY <1>1, CallerKept, TimeAssumption DEF Tick, Keeps, AuthInv, AuthTypeOK
<1>5. Untouched' /\ FirstLoadIsShared' /\ LoadIsRecent'
  BY <1>1 DEF Tick, AuthInv, Untouched, Evidence, InFlight, FirstLoadIsShared, LoadIsRecent
<1>6. QED
  BY <1>2, <1>3, <1>4, <1>5 DEF AuthInv

\* Moving a caller on changes nothing else of its request.
LEMMA GotoFields ==
  ASSUME req \in [Callers -> Request], NEW c \in Callers, NEW p \in Steps, Goto(c, p)
  PROVE  /\ req' \in [Callers -> Request]
         /\ \A d \in Callers : d # c => req'[d] = req[d]
         /\ req'[c].pc = p /\ req'[c].key = req[c].key /\ req'[c].start = req[c].start
  BY DEF Goto, Request

LEMMA PutAuth ==
  ASSUME AuthInv, NEW c \in Callers, AuthPut(c)
  PROVE  AuthInv'
<1>1. /\ UNCHANGED <<table, heap, load, now, calls>>
      /\ req[c].pc = "put" /\ call[c].op = "idle" /\ CallerOK(c) /\ req[c].key \in Keys
  BY DEF AuthPut, PutLookup, At, Idle, AuthInv, CallerOK, Placed
<1>2. CacheInv'
  BY <1>1, PutLookupInv DEF AuthPut, AuthInv
<1>3. /\ req' \in [Callers -> Request]
      /\ \A d \in Callers : d # c => req'[d] = req[d]
      /\ req'[c].pc = "get" /\ req'[c].key = req[c].key /\ req'[c].start = req[c].start
  BY GotoFields DEF AuthPut, Steps, AuthInv, AuthTypeOK
<1>4. /\ \A d \in Callers : d # c => call'[d] = call[d]
      /\ \/ call'[c].op = "put" /\ call'[c].key = req[c].key
         \/ call'[c].op = "idle" /\ table[req[c].key] # None
  <2>1. PICK seen \in PutLookupSees(c, req[c].key) :
          call' = [call EXCEPT ![c] =
                     IF seen THEN IdleCall ELSE [IdleCall EXCEPT !.op = "put", !.key = req[c].key]]
    BY DEF AuthPut, PutLookup
  <2>2. seen => table[req[c].key] # None
    BY DEF PutLookupSees, Present
  <2>3. QED
    BY <2>1, <2>2 DEF IdleCall, AuthInv, AuthTypeOK, CacheTypeOK
<1>5. AuthTypeOK'
  BY <1>1, <1>2, <1>3 DEF AuthTypeOK, AuthInv, CacheInv
<1>6. ASSUME NEW d \in Callers, d # c PROVE CallerOK(d)'
  BY <1>1, <1>3, <1>4, <1>6, CallerKept, TimeAssumption DEF Keeps, AuthInv, AuthTypeOK
<1>7. CallerOK(c)'
  <2>1. table[req[c].key] \in Entries \cup {None}
    BY <1>1 DEF AuthInv, AuthTypeOK, CacheTypeOK
  <2>2. QED
    BY <1>1, <1>3, <1>4, <2>1 DEF CallerOK, Placed, Informed, Refreshed, Granted, Ent
<1>8. Untouched' /\ FirstLoadIsShared' /\ LoadIsRecent'
  BY <1>1 DEF AuthInv, Untouched, Evidence, InFlight, FirstLoadIsShared, LoadIsRecent
<1>9. QED
  BY <1>2, <1>5, <1>6, <1>7, <1>8 DEF AuthInv

\* A new entry disturbs nobody: no pointer to it existed.
LEMMA AllocateKept ==
  ASSUME AuthInv, NEW k \in Keys, table[k] = None, Allocate(k), UNCHANGED <<load, now>>
  PROVE  /\ Keeps
         /\ table'[k] \in Entries
         /\ Untouched' /\ FirstLoadIsShared' /\ LoadIsRecent'
<1>1. PICK e \in Entries : /\ Garbage(e)
                           /\ table' = [table EXCEPT ![k] = e]
                           /\ heap' = [heap EXCEPT ![e] = NewEntry]
  BY DEF Allocate
<1>2. /\ table \in [Keys -> Entries \cup {None}] /\ heap \in [Entries -> Snapshot]
      /\ now \in Nat
  BY TimeAssumption DEF AuthInv, AuthTypeOK, CacheTypeOK
<1>3. Keeps
  BY <1>1, <1>2 DEF Keeps, Garbage
<1>4. \A l \in Loads : ~InFlight(l, e)
  BY <1>1 DEF Garbage, InFlight
<1>5. Untouched' /\ FirstLoadIsShared'
  BY <1>1, <1>2, <1>4 DEF AuthInv, Untouched, Evidence, FirstLoadIsShared, InFlight, NewEntry
<1>6. LoadIsRecent'
  BY DEF AuthInv, LoadIsRecent
<1>7. QED
  BY <1>1, <1>2, <1>3, <1>5, <1>6

LEMMA PutLockedAuth ==
  ASSUME AuthInv, NEW c \in Callers, AuthPutLocked(c)
  PROVE  AuthInv'
<1> DEFINE k == req[c].key
<1>1. /\ UNCHANGED <<load, now, req, calls>>
      /\ call[c].op = "put" /\ CallerOK(c) /\ req[c].pc = "get"
      /\ k \in Keys /\ call[c].key = k
  BY DEF AuthPutLocked, PutLocked, authVars, AuthInv, CallerOK, Placed
<1>2. CacheInv'
  BY PutLockedInv DEF AuthPutLocked, AuthInv
<1>3. AuthTypeOK'
  BY <1>1, <1>2 DEF AuthTypeOK, AuthInv, CacheInv
<1>4. Keeps /\ table'[k] \in Entries /\ Untouched' /\ FirstLoadIsShared' /\ LoadIsRecent'
  <2>1. CASE table[k] = None
    BY <1>1, <2>1, AllocateKept DEF AuthPutLocked, PutLocked, Present
  <2>2. CASE table[k] # None
    <3>1. UNCHANGED <<table, heap>>
      BY <1>1, <2>2 DEF AuthPutLocked, PutLocked, Present
    <3>2. QED
      BY <1>1, <2>2, <3>1, TimeAssumption
      DEF Keeps, AuthInv, AuthTypeOK, CacheTypeOK, Untouched, Evidence, InFlight,
          FirstLoadIsShared, LoadIsRecent
  <2>3. QED
    BY <2>1, <2>2
<1>5. call' = [call EXCEPT ![c] = IdleCall] /\ call \in [Callers -> Caller]
  BY DEF AuthPutLocked, PutLocked, AuthInv, AuthTypeOK, CacheTypeOK
<1>6. ASSUME NEW d \in Callers, d # c PROVE CallerOK(d)'
  BY <1>1, <1>4, <1>5, <1>6, CallerKept
<1>7. CallerOK(c)'
  BY <1>1, <1>4, <1>5 DEF CallerOK, Placed, Informed, Refreshed, Granted, Ent, IdleCall
<1>8. QED
  BY <1>2, <1>3, <1>4, <1>6, <1>7 DEF AuthInv

\* Starting a load: allowed on an entry that was loaded before, and on one that
\* nobody is loading.
LEMMA AsyncLoadKept ==
  ASSUME AuthInv, NEW e \in Entries, AsyncLoad(e), UNCHANGED <<table, now>>,
         Evidence(heap[e]) \/ heap[e].state = "init"
  PROVE  Keeps /\ Untouched' /\ FirstLoadIsShared' /\ LoadIsRecent'
<1>1. PICK l \in Loads :
        /\ load[l].st = "idle"
        /\ load' = [load EXCEPT ![l] = [IdleLoad EXCEPT !.st = "running", !.ent = e]]
        /\ heap' = [heap EXCEPT ![e].state = "pending"]
  BY DEF AsyncLoad
<1>2. /\ heap \in [Entries -> Snapshot] /\ load \in [Loads -> Loader] /\ now \in Nat
      /\ table \in [Keys -> Entries \cup {None}]
  BY TimeAssumption DEF AuthInv, AuthTypeOK, CacheTypeOK
<1>3. /\ heap'[e].state = "pending" /\ heap'[e].value = heap[e].value /\ heap'[e].err = heap[e].err
      /\ \A x \in Entries : x # e => heap'[x] = heap[x]
  BY <1>1, <1>2 DEF Snapshot
<1>4. Keeps
  BY <1>2, <1>3, NoneAssumption DEF Keeps
<1>5. \A m \in Loads, x \in Entries :
        InFlight(m, x)' => (InFlight(m, x) /\ m # l) \/ (m = l /\ x = e)
  BY <1>1, <1>2 DEF InFlight, IdleLoad
<1>6. Untouched'
  BY <1>3, <1>5 DEF AuthInv, Untouched, Evidence
<1>7. FirstLoadIsShared'
  BY <1>3, <1>5 DEF AuthInv, Untouched, Evidence, FirstLoadIsShared
<1>8. LoadIsRecent'
  BY <1>1, <1>2 DEF AuthInv, LoadIsRecent, IdleLoad
<1>9. QED
  BY <1>4, <1>6, <1>7, <1>8

\* Both calls of cache.Get: from "get" to "first", from "await" to "second".
LEMMA GetAuth ==
  ASSUME AuthInv, NEW c \in Callers, NEW from, NEW to,
         \/ from = "get" /\ to = "first"
         \/ from = "await" /\ to = "second",
         At(c, from), Get(c, req[c].key), Goto(c, to), UNCHANGED <<now, calls>>
  PROVE  AuthInv'
<1> DEFINE k == req[c].key
           e == table[k]
<1>1. /\ req[c].pc = from /\ call[c].op = "idle" /\ CallerOK(c)
      /\ k \in Keys /\ e \in Entries
  BY DEF At, Idle, AuthInv, CallerOK, Placed, Ent
<1>2. CacheInv'
  BY <1>1, GetAbsentInv, GetSettledInv, GetInitInv, GetPendingInv DEF Get, AuthInv
<1>3. /\ req' \in [Callers -> Request]
      /\ \A d \in Callers : d # c => req'[d] = req[d]
      /\ req'[c].pc = to /\ req'[c].key = k /\ req'[c].start = req[c].start
  BY GotoFields DEF Steps, AuthInv, AuthTypeOK
<1>4. AuthTypeOK'
  BY <1>2, <1>3 DEF AuthTypeOK, AuthInv, CacheInv
<1>5. call \in [Callers -> Caller] /\ heap \in [Entries -> Snapshot] /\ now \in Nat
  BY TimeAssumption DEF AuthInv, AuthTypeOK, CacheTypeOK
<1>6. CASE GetSettled(c, k)
  <2>1. /\ UNCHANGED <<table, heap, load>>
        /\ call' = [call EXCEPT ![c] = [IdleCall EXCEPT !.ret = heap[e]]]
        /\ heap[e].state \in {"ready", "error"}
    BY <1>1, <1>6 DEF GetSettled, Return, AuthInv, Untouched
  <2>2. Keeps
    BY <1>5, <2>1 DEF Keeps
  <2>3. ASSUME NEW d \in Callers, d # c PROVE CallerOK(d)'
    BY <1>3, <1>5, <2>1, <2>2, <2>3, CallerKept
  <2>4. Evidence(heap[e])
    BY <1>1, <2>1 DEF AuthInv, CacheInv, SettledEntryConsistent, Evidence
  <2>5. call'[c].op = "idle" /\ call'[c].ret = heap[e]
    BY <1>5, <2>1 DEF IdleCall
  <2>6. CallerOK(c)'
    BY <1>1, <1>3, <2>1, <2>4, <2>5
    DEF CallerOK, Placed, Informed, Refreshed, Granted, Ent
  <2>7. Untouched' /\ FirstLoadIsShared' /\ LoadIsRecent'
    BY <2>1 DEF AuthInv, Untouched, Evidence, InFlight, FirstLoadIsShared, LoadIsRecent
  <2>8. QED
    BY <1>2, <1>4, <2>3, <2>6, <2>7 DEF AuthInv
<1>7. CASE GetInit(c, k) \/ GetPending(c, k)
  <2>1. call' = [call EXCEPT ![c] = [IdleCall EXCEPT !.op = "parked", !.key = k, !.ent = e]]
    BY <1>7 DEF GetInit, GetPending, Park
  <2>2. call'[c].op = "parked" /\ call'[c].ent = e
    BY <1>5, <2>1 DEF IdleCall
  <2>3. /\ UNCHANGED table
        /\ Keeps /\ Untouched' /\ FirstLoadIsShared' /\ LoadIsRecent'
        /\ heap'[e].state = "pending"
    <3>1. CASE GetInit(c, k)
      <4>1. UNCHANGED table /\ AsyncLoad(e) /\ heap[e].state = "init"
        BY <3>1 DEF GetInit
      <4>2. heap'[e].state = "pending"
        BY <1>1, <1>5, <4>1 DEF AsyncLoad, Snapshot
      <4>3. QED
        BY <1>1, <4>1, <4>2, AsyncLoadKept
    <3>2. CASE GetPending(c, k)
      BY <1>5, <3>2
      DEF GetPending, Keeps, AuthInv, Untouched, Evidence, InFlight, FirstLoadIsShared,
          LoadIsRecent
    <3>3. QED
      BY <1>7, <3>1, <3>2
  <2>4. ASSUME NEW d \in Callers, d # c PROVE CallerOK(d)'
    BY <1>3, <1>5, <2>1, <2>3, <2>4, CallerKept
  <2>5. Evidence(heap[e]) => Evidence(heap'[e])
    BY <1>1, <2>3, NoneAssumption DEF Keeps, Evidence
  <2>6. CallerOK(c)'
    BY <1>1, <1>3, <2>2, <2>3, <2>5
    DEF CallerOK, Placed, Informed, Refreshed, Granted, Ent
  <2>7. QED
    BY <1>2, <1>4, <2>3, <2>4, <2>6 DEF AuthInv
<1>8. QED
  BY <1>1, <1>6, <1>7, NoneAssumption DEF Get, GetAbsent, Present

LEMMA WakeAuth ==
  ASSUME AuthInv, NEW c \in Callers, AuthWake(c)
  PROVE  AuthInv'
<1>1. /\ UNCHANGED <<table, heap, load, now, req, calls>>
      /\ call[c].op = "woken" /\ CallerOK(c) /\ call[c].ent = Ent(c)
      /\ req[c].pc \in {"first", "second"}
  BY DEF AuthWake, WakeAgain, WakeReturn, authVars, AuthInv, CallerOK, Placed
<1>2. CacheInv'
  BY WakeAgainInv, WakeReturnInv DEF AuthWake, AuthInv
<1>3. AuthTypeOK'
  BY <1>1, <1>2 DEF AuthTypeOK, AuthInv, CacheInv
<1>4. call \in [Callers -> Caller] /\ now \in Nat
  BY TimeAssumption DEF AuthInv, AuthTypeOK, CacheTypeOK
<1>5. PICK r : call' = [call EXCEPT ![c] = r]
  BY DEF AuthWake, WakeAgain, WakeReturn, Return
<1>6. ASSUME NEW d \in Callers, d # c PROVE CallerOK(d)'
  BY <1>1, <1>4, <1>5, <1>6, CallerKept DEF Keeps
<1>7. CallerOK(c)'
  <2>1. CASE WakeAgain(c)
    <3>1. call'[c].op = "parked" /\ call'[c].ent = Ent(c)
      BY <1>1, <1>4, <2>1 DEF WakeAgain, Caller
    <3>2. QED
      BY <1>1, <3>1 DEF CallerOK, Placed, Informed, Refreshed, Granted, Ent
  <2>2. CASE WakeReturn(c)
    <3>1. call'[c].op = "idle" /\ call'[c].ret = heap[Ent(c)]
      BY <1>1, <1>4, <2>2 DEF WakeReturn, Return, IdleCall
    <3>2. QED
      BY <1>1, <3>1 DEF CallerOK, Placed, Informed, Refreshed, Granted, Ent
  <2>3. QED
    BY <2>1, <2>2 DEF AuthWake
<1>8. Untouched' /\ FirstLoadIsShared' /\ LoadIsRecent'
  BY <1>1 DEF AuthInv, Untouched, Evidence, InFlight, FirstLoadIsShared, LoadIsRecent
<1>9. QED
  BY <1>2, <1>3, <1>6, <1>7, <1>8 DEF AuthInv

LEMMA RefreshAuth ==
  ASSUME AuthInv, NEW c \in Callers, AuthRefresh(c)
  PROVE  AuthInv'
<1> DEFINE e == Ent(c)
<1>1. /\ UNCHANGED <<table, call, now, calls>>
      /\ req[c].pc = "refresh" /\ call[c].op = "idle" /\ CallerOK(c)
      /\ req[c].key \in Keys /\ e \in Entries
  BY DEF AuthRefresh, Refresh, At, Idle, AuthInv, CallerOK, Placed
<1>2. CacheInv'
  BY <1>1, RefreshInv DEF AuthRefresh, AuthInv
<1>3. /\ req' \in [Callers -> Request]
      /\ \A d \in Callers : d # c => req'[d] = req[d]
      /\ req'[c].pc = "await" /\ req'[c].key = req[c].key /\ req'[c].start = req[c].start
  BY GotoFields DEF AuthRefresh, Steps, AuthInv, AuthTypeOK
<1>4. AuthTypeOK'
  BY <1>1, <1>2, <1>3 DEF AuthTypeOK, AuthInv, CacheInv
<1>5. AsyncLoad(e) /\ Evidence(heap[e])
  BY <1>1, NoneAssumption DEF AuthRefresh, Refresh, Present, Ent, CallerOK, Informed
<1>6. Keeps /\ Untouched' /\ FirstLoadIsShared' /\ LoadIsRecent'
  BY <1>1, <1>5, AsyncLoadKept
<1>7. ASSUME NEW d \in Callers, d # c PROVE CallerOK(d)'
  BY <1>1, <1>3, <1>6, <1>7, CallerKept
<1>8. CallerOK(c)'
  <2>1. heap'[e].state = "pending" /\ Evidence(heap'[e])
    BY <1>1, <1>5, <1>6, NoneAssumption
    DEF AsyncLoad, Keeps, Evidence, Ent, AuthInv, AuthTypeOK, CacheTypeOK, Snapshot
  <2>2. QED
    BY <1>1, <1>3, <2>1 DEF CallerOK, Placed, Informed, Refreshed, Granted, Ent
<1>9. QED
  BY <1>2, <1>4, <1>6, <1>7, <1>8 DEF AuthInv

LEMMA ReplaceAuth ==
  ASSUME AuthInv, NEW c \in Callers, AuthReplace(c)
  PROVE  AuthInv'
<1> DEFINE e == Ent(c)
<1>1. /\ UNCHANGED <<load, call, now, calls>>
      /\ req[c].pc = "replace" /\ call[c].op = "idle" /\ CallerOK(c) /\ req[c] \in Request
      /\ req[c].key \in Keys /\ e \in Entries /\ Evidence(heap[e])
  BY DEF AuthReplace, Replace, At, Idle, AuthInv, AuthTypeOK, CallerOK, Placed, Informed
<1>2. CacheInv'
  BY <1>1, ReplaceInv DEF AuthReplace, AuthInv
<1>3. /\ req' \in [Callers -> Request]
      /\ \A d \in Callers : d # c => req'[d] = req[d]
      /\ req'[c].pc = "done" /\ req'[c].key = req[c].key /\ req'[c].start = req[c].start
      /\ req'[c].ok = FALSE
  BY <1>1 DEF AuthReplace, Finish, Request, Steps, AuthInv, AuthTypeOK
<1>4. AuthTypeOK'
  BY <1>1, <1>2, <1>3 DEF AuthTypeOK, AuthInv, CacheInv
<1>5. UNCHANGED table /\ heap' = [heap EXCEPT ![e].state = "init"]
  BY <1>1, NoneAssumption DEF AuthReplace, Replace, Present, Ent
<1>6. /\ heap'[e].state = "init" /\ heap'[e].value = heap[e].value /\ heap'[e].err = heap[e].err
      /\ \A x \in Entries : x # e => heap'[x] = heap[x]
      /\ now \in Nat /\ table \in [Keys -> Entries \cup {None}]
  BY <1>1, <1>5, TimeAssumption DEF AuthInv, AuthTypeOK, CacheTypeOK, Snapshot
<1>7. Keeps
  BY <1>1, <1>5, <1>6, NoneAssumption DEF Keeps
<1>8. Untouched' /\ FirstLoadIsShared' /\ LoadIsRecent'
  BY <1>1, <1>6 DEF AuthInv, Untouched, Evidence, InFlight, FirstLoadIsShared, LoadIsRecent
<1>9. ASSUME NEW d \in Callers, d # c PROVE CallerOK(d)'
  BY <1>1, <1>3, <1>7, <1>9, CallerKept
<1>10. CallerOK(c)'
  BY <1>1, <1>3, <1>5 DEF CallerOK, Placed, Informed, Refreshed, Granted, Ent
<1>11. QED
  BY <1>2, <1>4, <1>8, <1>9, <1>10 DEF AuthInv

LEMMA NextRequestAuth ==
  ASSUME AuthInv, NEW c \in Callers, NextRequest(c)
  PROVE  AuthInv'
<1>1. /\ UNCHANGED <<table, heap, load, now, calls>> /\ call[c].op = "idle"
      /\ call' = [call EXCEPT ![c] = IdleCall] /\ req' = [req EXCEPT ![c] = NoRequest]
      /\ call \in [Callers -> Caller] /\ req \in [Callers -> Request]
  BY DEF NextRequest, At, Idle, AuthInv, AuthTypeOK, CacheTypeOK
<1>2. NewEntry \in Snapshot
  BY DEF NewEntry, Snapshot, States, Errors
<1>3. IdleCall \in Caller /\ NoRequest \in Request
  BY <1>2, TimeAssumption DEF IdleCall, NoRequest, Caller, Request, Steps
<1>4. CacheInv'
  <2>1. \A d \in Callers : call'[d].op \in {"put", "parked", "woken"} => call'[d] = call[d]
    BY <1>1 DEF IdleCall
  <2>2. CacheTypeOK'
    BY <1>1, <1>3 DEF AuthInv, CacheInv, CacheTypeOK
  <2>3. Pointers' /\ NoLostWakeup'
    BY <1>1, <2>1 DEF AuthInv, CacheInv, Pointers, NoLostWakeup, InFlight
  <2>4. PendingHasLoader' /\ SettledEntryConsistent'
    BY <1>1 DEF AuthInv, CacheInv, PendingHasLoader, InFlight, SettledEntryConsistent
  <2>5. QED
    BY <2>2, <2>3, <2>4 DEF CacheInv
<1>5. AuthTypeOK'
  BY <1>1, <1>3, <1>4 DEF AuthTypeOK, AuthInv, CacheInv
<1>6. ASSUME NEW d \in Callers, d # c PROVE CallerOK(d)'
  BY <1>1, <1>6, CallerKept, TimeAssumption DEF Keeps, AuthInv, AuthTypeOK
<1>7. CallerOK(c)'
  <2>1. req'[c] = NoRequest /\ call'[c] = IdleCall /\ now \in Nat
    BY <1>1, TimeAssumption DEF AuthInv, AuthTypeOK
  <2>2. QED
    BY <1>1, <2>1
    DEF CallerOK, Placed, Informed, Refreshed, Granted, NoRequest, IdleCall
<1>8. Untouched' /\ FirstLoadIsShared' /\ LoadIsRecent'
  BY <1>1 DEF AuthInv, Untouched, Evidence, InFlight, FirstLoadIsShared, LoadIsRecent
<1>9. QED
  BY <1>4, <1>5, <1>6, <1>7, <1>8 DEF AuthInv

LEMMA LoaderReturnsAuth ==
  ASSUME AuthInv, NEW l \in Loads, AuthLoaderReturns(l)
  PROVE  AuthInv'
<1>1. now \in Nat /\ now + TTL \in Values /\ now + TTL # None /\ load \in [Loads -> Loader]
  BY TimeAssumption, ValuesAssumption, NoneAssumption
  DEF AuthInv, AuthTypeOK, CacheTypeOK
<1>2. PICK v \in {now + TTL, None} : LoaderReturns(l, v)
  BY DEF AuthLoaderReturns
<1>3. UNCHANGED <<table, heap, call, now, req, calls>>
  BY <1>2 DEF AuthLoaderReturns, LoaderReturns, authVars
<1>4. CacheInv'
  BY <1>1, <1>2, LoaderReturnsInv DEF AuthInv
<1>5. AuthTypeOK'
  BY <1>3, <1>4 DEF AuthTypeOK, AuthInv, CacheInv
<1>6. ASSUME NEW d \in Callers PROVE CallerOK(d)'
  BY <1>1, <1>3, CallerKept DEF Keeps
<1>7. \A m \in Loads, e \in Entries : InFlight(m, e)' = InFlight(m, e)
  BY <1>1, <1>2 DEF LoaderReturns, InFlight, Loader
<1>8. Untouched' /\ FirstLoadIsShared'
  BY <1>3, <1>7 DEF AuthInv, Untouched, Evidence, FirstLoadIsShared
<1>9. LoadIsRecent'
  BY <1>1, <1>2, <1>3 DEF AuthInv, LoadIsRecent, LoaderReturns, Loader
<1>10. QED
  BY <1>4, <1>5, <1>6, <1>8, <1>9 DEF AuthInv

LEMMA LoadDoneAuth ==
  ASSUME AuthInv, NEW l \in Loads, AuthLoadDone(l)
  PROVE  AuthInv'
<1> DEFINE e == load[l].ent
<1>1. /\ UNCHANGED <<table, now, req, calls>>
      /\ load[l].st = "returned" /\ load[l] \in Loader /\ e \in Entries
      /\ heap \in [Entries -> Snapshot] /\ load \in [Loads -> Loader]
      /\ call \in [Callers -> Caller] /\ req \in [Callers -> Request] /\ now \in Nat
      /\ heap[e].state # "canceled"
  BY TimeAssumption DEF AuthLoadDone, LoadDone, authVars, AuthInv, AuthTypeOK, CacheTypeOK, CacheInv,
     Pointers, Untouched
<1>2. CacheInv'
  BY LoadDoneInv DEF AuthLoadDone, AuthInv
<1>3. AuthTypeOK'
  BY <1>1, <1>2 DEF AuthTypeOK, AuthInv, CacheInv
<1>4. /\ heap'[e].state \in {"ready", "error"}
      /\ Evidence(heap'[e])
      /\ heap'[e].err # "nil" \/ heap'[e].value = now + TTL
      /\ \A x \in Entries : x # e => heap'[x] = heap[x]
  <2>1. heap' = [heap EXCEPT ![e] = Loaded(heap[e], load[l])]
    BY <1>1 DEF AuthLoadDone, LoadDone
  <2>2. CASE load[l].err = "nil"
    <3>1. load[l].value # None /\ load[l].value = now + TTL
      BY <1>1, <2>2 DEF AuthInv, CacheInv, Pointers, LoadIsRecent
    <3>2. QED
      BY <1>1, <2>1, <2>2, <3>1 DEF Loaded, Evidence
  <2>3. CASE load[l].err # "nil"
    BY <1>1, <2>1, <2>3 DEF Loaded, Evidence, Snapshot
  <2>4. QED
    BY <2>2, <2>3
<1>5. \A m \in Loads, x \in Entries : InFlight(m, x)' => InFlight(m, x)
  BY <1>1 DEF AuthLoadDone, LoadDone, InFlight, IdleLoad
<1>6. Untouched' /\ FirstLoadIsShared'
  BY <1>4, <1>5 DEF AuthInv, Untouched, Evidence, FirstLoadIsShared
<1>7. LoadIsRecent'
  BY <1>1 DEF AuthLoadDone, LoadDone, AuthInv, LoadIsRecent, IdleLoad
<1>8. ASSUME NEW d \in Callers PROVE CallerOK(d)'
  <2>1. CallerOK(d) /\ req[d] \in Request
    BY <1>1 DEF AuthInv
  <2>2. CASE ~(call[d].op = "parked" /\ call[d].ent = e)
    <3>1. call'[d] = call[d]
      BY <1>1, <2>2 DEF AuthLoadDone, LoadDone, Broadcast
    <3>2. Placed(d)' /\ Granted(d)'
      BY <1>1, <2>1, <3>1 DEF CallerOK, Placed, Granted, Ent
    <3>3. Informed(d)'
      BY <1>1, <1>4, <2>1, <3>1 DEF CallerOK, Informed, Placed, Ent
    <3>4. now + TTL > req[d].start /\ now + TTL # None
      BY <1>1, <2>1, TimeAssumption, ValuesAssumption, NoneAssumption
      DEF CallerOK, Placed, Request, AuthInv, AuthTypeOK
    <3>5. FreshFor(heap'[e], req[d].start)
      BY <1>4, <3>4 DEF FreshFor
    <3>6. Refreshed(d)'
      BY <1>1, <1>4, <2>1, <3>1, <3>5 DEF CallerOK, Refreshed, Placed, Ent
    <3>7. QED
      BY <3>2, <3>3, <3>6 DEF CallerOK
  <2>3. CASE call[d].op = "parked" /\ call[d].ent = e
    <3>1. call'[d].op = "woken" /\ call'[d].ent = e
      BY <1>1, <2>3 DEF AuthLoadDone, LoadDone, Broadcast, Caller
    <3>2. Ent(d)' = e /\ req[d].pc \in {"first", "second"}
      BY <1>1, <2>1, <2>3 DEF CallerOK, Placed, Ent
    <3>3. now + TTL > req[d].start /\ now + TTL # None
      BY <1>1, <2>1, TimeAssumption, ValuesAssumption, NoneAssumption
      DEF CallerOK, Placed, Request, AuthInv, AuthTypeOK
    <3>4. FreshFor(heap'[e], req[d].start)
      BY <1>4, <3>3 DEF FreshFor
    <3>5. QED
      BY <1>1, <1>4, <2>1, <3>1, <3>2, <3>4
      DEF CallerOK, Placed, Informed, Refreshed, Granted
  <2>4. QED
    BY <2>2, <2>3
<1>9. QED
  BY <1>2, <1>3, <1>6, <1>7, <1>8 DEF AuthInv

-----------------------------------------------------------------------------

LEMMA AuthInitInv == Init => AuthInv
<1> SUFFICES ASSUME Init PROVE AuthInv
  OBVIOUS
<1>1. CacheInv
  BY CacheInitInv DEF Init
<1>2. NewEntry \in Snapshot
  BY DEF NewEntry, Snapshot, States, Errors
<1>3. NoRequest \in Request
  BY <1>2, TimeAssumption DEF NoRequest, Request, Steps
<1>4. AuthTypeOK
  BY <1>1, <1>3, TimeAssumption DEF Init, AuthTypeOK, CacheInv
<1>5. ASSUME NEW c \in Callers PROVE CallerOK(c)
  BY DEF Init, CacheInit, CallerOK, Placed, Informed, Refreshed, Granted, NoRequest, IdleCall
<1>6. Untouched /\ FirstLoadIsShared /\ LoadIsRecent
  BY DEF Init, CacheInit, Untouched, FirstLoadIsShared, LoadIsRecent, InFlight, IdleLoad, NewEntry
<1>7. QED
  BY <1>1, <1>4, <1>5, <1>6 DEF AuthInv

LEMMA AuthStepInv == AuthInv /\ [Next]_vars => AuthInv'
<1> SUFFICES ASSUME AuthInv, [Next]_vars
             PROVE  AuthInv'
  OBVIOUS
<1>1. CASE UNCHANGED vars
  <2>1. CacheInv'
    BY <1>1, StutterInv DEF vars, AuthInv
  <2>2. UNCHANGED <<table, heap, load, call, now, req, calls>>
    BY <1>1 DEF vars, cacheVars, authVars
  <2>3. AuthTypeOK'
    BY <2>1, <2>2 DEF AuthInv, AuthTypeOK, CacheInv
  <2>4. ASSUME NEW d \in Callers PROVE CallerOK(d)'
    BY <2>2, CallerKept, TimeAssumption DEF Keeps, AuthInv, AuthTypeOK
  <2>5. Untouched' /\ FirstLoadIsShared' /\ LoadIsRecent'
    BY <2>2 DEF AuthInv, Untouched, Evidence, InFlight, FirstLoadIsShared, LoadIsRecent
  <2>6. QED
    BY <2>1, <2>3, <2>4, <2>5 DEF AuthInv
<1>2. ASSUME NEW c \in Callers, CallerStep(c) \/ NextRequest(c)
      PROVE  AuthInv'
  <2>1. CASE FirstGet(c)
    BY <2>1, GetAuth DEF FirstGet
  <2>2. CASE SecondGet(c)
    BY <2>2, GetAuth DEF SecondGet
  <2>3. QED
    BY <1>2, <2>1, <2>2, PutAuth, PutLockedAuth, UseFirstAuth, RefreshAuth, UseSecondAuth,
       ReplaceAuth, WakeAuth, NextRequestAuth DEF CallerStep
<1>3. ASSUME NEW l \in Loads, LoaderStep(l)
      PROVE  AuthInv'
  BY <1>3, LoaderReturnsAuth, LoadDoneAuth DEF LoaderStep
<1>4. QED
  BY <1>1, <1>2, <1>3, CheckKeyAuth, TickAuth DEF Next

LEMMA AuthInvariant == Spec => []AuthInv
  BY AuthInitInv, AuthStepInv, PTL DEF Spec

-----------------------------------------------------------------------------

\* Type correctness of the authorization cache.
THEOREM AuthTypeCorrect == Spec => []AuthTypeOK
<1>1. AuthInv => AuthTypeOK
  BY DEF AuthInv
<1>2. QED
  BY AuthInvariant, <1>1, PTL

\* AuthorizationCache.Get never dereferences a nil entry.Value, whatever other
\* requests and overlapping loads did to the entry in between.
THEOREM NoNilDereferenceCorrect == Spec => []NoNilDereference
<1>1. AuthInv => NoNilDereference
  BY DEF AuthInv, CallerOK, Granted, NoNilDereference
<1>2. QED
  BY AuthInvariant, <1>1, PTL

\* Concurrent first requests for a token share one load.
THEOREM FirstLoadIsSharedCorrect == Spec => []FirstLoadIsShared
<1>1. AuthInv => FirstLoadIsShared
  BY DEF AuthInv
<1>2. QED
  BY AuthInvariant, <1>1, PTL

\* No request is granted on a decision that had expired when it began, although
\* Get does not look at the expiry of the refreshed entry.
THEOREM GrantedOnLiveDecisionCorrect == Spec => []GrantedOnLiveDecision
<1>1. AuthInv => GrantedOnLiveDecision
  BY DEF AuthInv, CallerOK, Granted, GrantedOnLiveDecision
<1>2. QED
  BY AuthInvariant, <1>1, PTL
=============================================================================
