----------------------------- MODULE HubProofs ------------------------------
(***************************************************************************)
(* Proofs about Balancer, Hub and SatProcess for every number of peers and *)
(* connections.                                                            *)
(*                                                                         *)
(* The balancer: the index is in range and the turns go round.  The hub:   *)
(* map and balancer are in step whatever happens; and but for connections  *)
(* that raced past the check for a duplicate, no handler is out of reach   *)
(* and only closed connections are forgotten.  The process that leaves:    *)
(* every connection that it found is closed before the server is.          *)
(***************************************************************************)
EXTENDS SatProcess, FiniteSetTheorems, TLAPS

(* The balancer *)

\* How many calls of Next come before the one that chooses place i.
Ahead(i) == IF i >= index THEN i - index ELSE i - index + len

\* Every peer of the list has a place that its turn comes to in time.
TurnInv == \A u \in LB!Listed : \E i \in 0 .. len - 1 : uuids[i] = u /\ turns[u] + Ahead(i) < len

\* The index of an empty list is 0, where the first Add will put an entry.
BalancerInv == LB!TypeOK /\ (len > 0 => index < len) /\ (len = 0 => index = 0) /\ TurnInv

MaxLen == Cardinality(Conns)

LEMMA MaxLenIsNat == MaxLen \in Nat
  BY ConnsAssumption, FS_CardinalityType DEF MaxLen

\* The balancer counts as everybody does.
LEMMA SameCardinality == \A S : LB!Cardinality(S) = Cardinality(S)
  BY DEF LB!Cardinality, Cardinality

LEMMA AheadInRange ==
  ASSUME NEW n \in Nat, NEW x \in Nat, n > 0 => x < n, NEW i \in 0 .. n - 1
  PROVE  (IF i >= x THEN i - x ELSE i - x + n) \in 0 .. n - 1
  OBVIOUS

\* When all turns are 0, an index in range is enough.
LEMMA NewTurns ==
  ASSUME len' \in Nat, index' \in Nat, len' > 0 => index' < len', turns' = LB!NoTurns,
         uuids' \in [0 .. len' - 1 -> Peers]
  PROVE  TurnInv'
<1> SUFFICES ASSUME NEW u \in LB!Listed'
             PROVE  \E i \in 0 .. len' - 1 : uuids'[i] = u /\ turns'[u] + Ahead(i)' < len'
  BY DEF TurnInv
<1>1. PICK i \in 0 .. len' - 1 : uuids'[i] = u
  BY DEF LB!Listed
<1>2. turns'[u] = 0
  BY <1>1 DEF LB!NoTurns
<1>3. Ahead(i)' \in 0 .. len' - 1
  BY AheadInRange DEF Ahead
<1>4. 0 + Ahead(i)' < len'
  BY <1>3
<1>5. QED
  BY <1>1, <1>2, <1>4

LEMMA AddKeeps ==
  ASSUME BalancerInv, NEW p \in Peers, LB!Add(p)
  PROVE  BalancerInv' /\ LB!Listed' = LB!Listed \cup {p}
<1> USE MaxLenIsNat DEF BalancerInv, LB!TypeOK, MaxLen
<1>1. /\ len' = len + 1 /\ len < MaxLen /\ index' = index
      /\ uuids' = [i \in 0 .. len |-> IF i = len THEN p ELSE uuids[i]]
      /\ turns' = LB!NoTurns
  BY DEF LB!Add
<1>2. uuids' \in [0 .. len' - 1 -> Peers]
  BY <1>1
<1>3. turns' \in [Peers -> 0 .. MaxLen]
  BY <1>1 DEF LB!NoTurns
<1>4. LB!TypeOK' /\ (len' > 0 => index' < len') /\ (len' = 0 => index' = 0)
  BY <1>1, <1>2, <1>3
<1>5. TurnInv'
  BY <1>1, <1>2, <1>4, NewTurns
<1>6. LB!Listed' = LB!Listed \cup {p}
  <2>1. LB!Listed' = {uuids'[i] : i \in 0 .. len}
    BY <1>1 DEF LB!Listed
  <2>2. \A i \in 0 .. len : uuids'[i] = IF i = len THEN p ELSE uuids[i]
    BY <1>1
  <2>3. \A i : i \in 0 .. len <=> i = len \/ i \in 0 .. len - 1
    OBVIOUS
  <2>4. ASSUME NEW u PROVE u \in LB!Listed' <=> u \in LB!Listed \/ u = p
    <3>1. u \in LB!Listed' <=> \E i \in 0 .. len : u = uuids'[i]
      BY <2>1
    <3>2. u \in LB!Listed <=> \E i \in 0 .. len - 1 : u = uuids[i]
      BY DEF LB!Listed
    <3>3. len \in 0 .. len
      OBVIOUS
    <3>4. QED
      BY <2>2, <2>3, <3>1, <3>2, <3>3
  <2>5. QED
    BY <2>4
<1>7. QED
  BY <1>4, <1>5, <1>6

LEMMA NextKeeps ==
  ASSUME BalancerInv, LB!NextUUID
  PROVE  BalancerInv' /\ LB!Listed' = LB!Listed
<1> USE MaxLenIsNat DEF BalancerInv, LB!TypeOK, MaxLen
<1>1. /\ len > 0 /\ len' = len /\ uuids' = uuids
      /\ index' = IF index >= len - 1 THEN 0 ELSE index + 1
      /\ turns' = [u \in Peers |-> IF u = uuids[index] \/ u \notin LB!Listed THEN 0 ELSE turns[u] + 1]
  BY DEF LB!NextUUID
<1>2. LB!Listed' = LB!Listed /\ LB!Listed \subseteq Peers
  BY <1>1 DEF LB!Listed
<1>3. index' \in 0 .. len - 1
  BY <1>1
<1>4. ASSUME NEW u \in LB!Listed
      PROVE  \E i \in 0 .. len - 1 : uuids[i] = u /\ turns'[u] + Ahead(i)' < len
  <2>1. CASE u = uuids[index]
    <3>1. PICK i \in 0 .. len - 1 : i = index
      BY <1>1
    <3>2. turns'[u] = 0
      BY <1>1, <1>2, <2>1
    <3>3. turns'[u] + Ahead(i)' < len
      BY <1>1, <1>3, <3>2 DEF Ahead
    <3>4. QED
      BY <2>1, <3>1, <3>3
  <2>2. CASE u # uuids[index]
    <3>1. PICK i \in 0 .. len - 1 : uuids[i] = u /\ turns[u] + Ahead(i) < len
      BY DEF TurnInv
    <3>2. turns'[u] = turns[u] + 1 /\ turns[u] \in Nat
      BY <1>1, <1>2, <2>2
    <3>3. Ahead(i)' = Ahead(i) - 1 /\ Ahead(i) \in Int
      BY <1>1, <2>2, <3>1 DEF Ahead
    <3>4. QED
      BY <3>1, <3>2, <3>3
  <2>3. QED
    BY <2>1, <2>2
<1>5. TurnInv'
  BY <1>1, <1>2, <1>4 DEF TurnInv
<1>6. ASSUME NEW u \in Peers PROVE turns'[u] \in 0 .. MaxLen
  <2>1. CASE u \in LB!Listed
    <3>1. PICK i \in 0 .. len - 1 : turns'[u] + Ahead(i)' < len
      BY <1>4, <2>1
    <3>2. Ahead(i)' \in Nat /\ turns'[u] \in Nat
      BY <1>1, <1>3, <2>1 DEF Ahead
    <3>3. QED
      BY <3>1, <3>2
  <2>2. CASE u \notin LB!Listed
    BY <1>1, <2>2
  <2>3. QED
    BY <2>1, <2>2
<1>7. turns' \in [Peers -> 0 .. MaxLen]
  BY <1>1, <1>6
<1>8. QED
  BY <1>1, <1>2, <1>3, <1>5, <1>7

\* How many members of K are smaller than j.
Rank(K, j) == Cardinality({k \in K : k < j})

\* The ranks of a finite set of n numbers are different, and are all of 0 .. n - 1.
LEMMA RankIsBijection ==
  ASSUME NEW K \in SUBSET Nat, IsFiniteSet(K)
  PROVE  /\ Cardinality(K) \in Nat
         /\ \A j \in K : Rank(K, j) \in 0 .. Cardinality(K) - 1
         /\ \A j, l \in K : Rank(K, j) = Rank(K, l) => j = l
         /\ \A i \in 0 .. Cardinality(K) - 1 : \E j \in K : Rank(K, j) = i
<1> DEFINE n == Cardinality(K)
           Below(j) == {k \in K : k < j}
           f == [j \in K |-> Rank(K, j)]
<1>1. n \in Nat
  BY FS_CardinalityType
<1>2. \A j \in K : IsFiniteSet(Below(j)) /\ Rank(K, j) = Cardinality(Below(j)) /\ Rank(K, j) \in Nat
  <2>1. TAKE j \in K
  <2>2. Below(j) \in SUBSET K
    OBVIOUS
  <2>3. QED
    BY <2>2, FS_Subset, FS_CardinalityType DEF Rank
<1>3. ASSUME NEW j \in K PROVE Rank(K, j) < n
  <2>1. Below(j) \in SUBSET K /\ j \notin Below(j)
    OBVIOUS
  <2>2. Cardinality(Below(j)) <= n /\ Cardinality(Below(j)) # n
    BY <2>1, FS_Subset
  <2>3. QED
    BY <1>1, <1>2, <2>2
<1>4. ASSUME NEW j \in K, NEW l \in K, j < l PROVE Rank(K, j) < Rank(K, l)
  <2>1. Below(j) \in SUBSET Below(l) /\ j \in Below(l) /\ j \notin Below(j)
    <3>1. j \in Nat /\ l \in Nat /\ \A k \in K : k \in Nat
      OBVIOUS
    <3>2. \A k \in K : k < j => k < l
      BY <1>4, <3>1
    <3>3. j \notin Below(j) /\ j \in Below(l)
      BY <1>4, <3>1
    <3>4. QED
      BY <3>2, <3>3
  <2>2. Cardinality(Below(j)) <= Cardinality(Below(l)) /\ Cardinality(Below(j)) # Cardinality(Below(l))
    BY <1>2, <2>1, FS_Subset
  <2>3. QED
    BY <1>2, <2>2
<1>5. \A j, l \in K : Rank(K, j) = Rank(K, l) => j = l
  <2>1. ASSUME NEW j \in K, NEW l \in K, Rank(K, j) = Rank(K, l), j # l PROVE FALSE
    <3>1. j < l \/ l < j
      BY <2>1
    <3>2. Rank(K, j) < Rank(K, l) \/ Rank(K, l) < Rank(K, j)
      BY <1>4, <3>1
    <3>3. Rank(K, j) \in Nat /\ Rank(K, l) \in Nat
      BY <1>2
    <3>4. QED
      BY <2>1, <3>2, <3>3
  <2>2. QED
    BY <2>1
<1>6. \A j \in K : Rank(K, j) \in 0 .. n - 1
  <2>1. TAKE j \in K
  <2>2. Rank(K, j) \in Nat /\ Rank(K, j) < n
    BY <1>2, <1>3
  <2> HIDE DEF n
  <2>3. QED
    BY <1>1, <2>2
<1>7. f \in Injection(K, 0 .. n - 1)
  BY <1>5, <1>6 DEF Injection, IsInjective
<1>8. IsFiniteSet(0 .. n - 1) /\ Cardinality(0 .. n - 1) = n
  <2>1. 0 \in Int /\ n - 1 \in Int
    BY <1>1
  <2>2. IsFiniteSet(0 .. n - 1) /\ Cardinality(0 .. n - 1) = IF 0 > n - 1 THEN 0 ELSE n - 1 - 0 + 1
    BY <2>1, FS_Interval
  <2>3. QED
    BY <1>1, <2>2
<1>9. f \in Surjection(K, 0 .. n - 1)
  BY <1>7, <1>8, FS_Injection
<1>10. \A i \in 0 .. n - 1 : \E j \in K : Rank(K, j) = i
  BY <1>9 DEF Surjection
<1>11. QED
  BY <1>1, <1>5, <1>6, <1>10

LEMMA RemoveKeeps ==
  ASSUME BalancerInv, NEW p \in Peers, LB!Remove(p)
  PROVE  BalancerInv' /\ LB!Listed' = LB!Listed \ {p}
<1> USE MaxLenIsNat DEF BalancerInv, LB!TypeOK, MaxLen
<1> DEFINE K == LB!Kept(p)
           n == Cardinality(K)
<1>1. K \in SUBSET (0 .. len - 1) /\ IsFiniteSet(0 .. len - 1) /\ Cardinality(0 .. len - 1) = len
  <2>1. 0 \in Int /\ len - 1 \in Int
    OBVIOUS
  <2>2. IsFiniteSet(0 .. len - 1) /\ Cardinality(0 .. len - 1) = IF 0 > len - 1 THEN 0 ELSE len - 1 - 0 + 1
    BY <2>1, FS_Interval
  <2>3. QED
    BY <2>2 DEF LB!Kept
<1>2. IsFiniteSet(K) /\ K \in SUBSET Nat /\ n \in Nat /\ n <= len
  BY <1>1, FS_Subset, FS_CardinalityType
<1>3. /\ \A j \in K : Rank(K, j) \in 0 .. n - 1
      /\ \A j, l \in K : Rank(K, j) = Rank(K, l) => j = l
      /\ \A i \in 0 .. n - 1 : \E j \in K : Rank(K, j) = i
  BY <1>2, RankIsBijection
<1>4. \A i \in 0 .. n - 1 : LB!Place(p, i) \in K /\ Rank(K, LB!Place(p, i)) = i
  <2>1. ASSUME NEW i \in 0 .. n - 1 PROVE LB!Place(p, i) = CHOOSE j \in K : Rank(K, j) = i
    BY SameCardinality DEF LB!Place, Rank
  <2> HIDE DEF K, n
  <2>2. QED
    BY <1>3, <2>1
<1>5. /\ len' = n /\ uuids' = [i \in 0 .. n - 1 |-> uuids[LB!Place(p, i)]]
      /\ index' = IF index >= n - 1 THEN n \div 2 ELSE index
      /\ turns' = LB!NoTurns
  BY SameCardinality DEF LB!Remove
<1>6. \A j \in K : uuids[j] \in Peers /\ uuids[j] # p
  BY DEF LB!Kept
<1>7. \A j \in 0 .. len - 1 : uuids[j] # p => j \in K
  BY DEF LB!Kept
<1> HIDE DEF K, n
<1>8. uuids' \in [0 .. len' - 1 -> Peers]
  BY <1>4, <1>5, <1>6
<1>9. index' \in 0 .. len /\ (len' > 0 => index' < len') /\ (len' = 0 => index' = 0)
  BY <1>2, <1>5
<1>10. turns' \in [Peers -> 0 .. MaxLen]
  BY <1>5 DEF LB!NoTurns
<1>11. TurnInv'
  BY <1>2, <1>5, <1>8, <1>9, NewTurns
<1>12. ASSUME NEW u PROVE u \in LB!Listed' <=> u \in LB!Listed /\ u # p
  <2>1. u \in LB!Listed' <=> \E i \in 0 .. n - 1 : u = uuids[LB!Place(p, i)]
    BY <1>5 DEF LB!Listed
  <2>2. u \in LB!Listed <=> \E j \in 0 .. len - 1 : u = uuids[j]
    BY DEF LB!Listed
  <2>3. \A j \in K : LB!Place(p, Rank(K, j)) = j /\ Rank(K, j) \in 0 .. n - 1
    BY <1>3, <1>4
  <2>4. ASSUME u \in LB!Listed' PROVE u \in LB!Listed /\ u # p
    BY <1>1, <1>4, <1>6, <2>1, <2>2, <2>4
  <2>5. ASSUME u \in LB!Listed, u # p PROVE u \in LB!Listed'
    <3>1. PICK j \in K : u = uuids[j]
      BY <1>7, <2>2, <2>5
    <3>2. QED
      BY <2>1, <2>3, <3>1
  <2>6. QED
    BY <2>4, <2>5
<1>13. len' \in 0 .. MaxLen /\ index' \in 0 .. MaxLen
  BY <1>2, <1>5, <1>9
<1>14. LB!TypeOK'
  BY <1>8, <1>10, <1>13
<1>15. LB!Listed' = LB!Listed \ {p}
  BY <1>12
<1>16. QED
  BY <1>9, <1>11, <1>14, <1>15

\* What the calls of Next rely on.
LEMMA BalancerIsSound == BalancerInv => LB!IndexInBounds /\ LB!RoundRobin
<1> SUFFICES ASSUME BalancerInv PROVE LB!IndexInBounds /\ LB!RoundRobin
  OBVIOUS
<1> USE MaxLenIsNat DEF BalancerInv, LB!TypeOK, MaxLen
<1>1. LB!IndexInBounds
  BY DEF LB!IndexInBounds
<1>2. ASSUME NEW u \in LB!Listed PROVE turns[u] < len
  <2>1. PICK i \in 0 .. len - 1 : uuids[i] = u /\ turns[u] + Ahead(i) < len
    BY DEF TurnInv
  <2>2. Ahead(i) \in 0 .. len - 1
    BY AheadInRange DEF Ahead
  <2>3. turns[u] \in Nat
    BY <2>1
  <2>4. QED
    BY <2>1, <2>2, <2>3
<1>3. QED
  BY <1>1, <1>2 DEF LB!RoundRobin

LEMMA BalancerStarts == LB!Init => BalancerInv /\ LB!Listed = {}
<1> SUFFICES ASSUME LB!Init PROVE BalancerInv /\ LB!Listed = {}
  OBVIOUS
<1> USE MaxLenIsNat DEF LB!Init, MaxLen
<1>1. LB!Listed = {}
  BY DEF LB!Listed
<1>2. uuids \in [0 .. len - 1 -> Peers]
  OBVIOUS
<1>3. LB!TypeOK
  BY <1>2 DEF LB!TypeOK
<1>4. QED
  BY <1>1, <1>3 DEF BalancerInv, TurnInv

\* After any mixture of Add, Remove and Next, the empty list and a list that
\* shrinks to one included, Next does not read outside the slice, and no peer
\* waits for more calls of Next than the list has entries.
THEOREM BalancerCorrect == LB!Spec => [](LB!IndexInBounds /\ LB!RoundRobin)
<1>1. BalancerInv /\ [LB!Next]_LB!vars => BalancerInv'
  <2> SUFFICES ASSUME BalancerInv, [LB!Next]_LB!vars PROVE BalancerInv'
    OBVIOUS
  <2>1. CASE LB!Next
    BY <2>1, AddKeeps, RemoveKeeps, NextKeeps DEF LB!Next
  <2>2. CASE UNCHANGED LB!vars
    BY <2>2 DEF LB!vars, BalancerInv, LB!TypeOK, TurnInv, LB!Listed, Ahead
  <2>3. QED
    BY <2>1, <2>2
<1>2. QED
  BY BalancerStarts, BalancerIsSound, <1>1, PTL DEF LB!Spec

-----------------------------------------------------------------------------
(* The hub: what its steps leave alone *)

\* What is done or has raced stays so.
Flags(r, q) == (q.done => r.done) /\ (q.raced => r.raced)
USE DEF Flags

\* A connection that has passed the check and is not yet added.
Past(q) == q.setup \in {"checked", "adding"}

\* Nothing that is closed opens again, and nothing that is up is set up anew.
ConnStays ==
  /\ conn' \in [Conns -> ConnType]
  /\ \A c \in Conns :
       /\ conn[c].wire = "closed" => conn'[c].wire = "closed"
       /\ conn'[c].wire = "open" => conn[c].wire = "open"
       /\ conn'[c].setup = "up" <=> conn[c].setup = "up"
       /\ Flags(conn'[c], conn[c])

NonePasses == \A c \in Conns : Past(conn'[c]) => Past(conn[c])

ConnKeeps == ConnStays /\ NonePasses

LEMMA OneConnMoves ==
  ASSUME conn \in [Conns -> ConnType], NEW c \in Conns, NEW r \in ConnType,
         conn' = [conn EXCEPT ![c] = r],
         r.wire = conn[c].wire \/ r.wire = "closed" \/ (r.wire = "broken" /\ conn[c].wire = "open"),
         \/ r.setup = conn[c].setup
         \/ r.setup # "up" /\ conn[c].setup # "up" /\ (Past(r) => Past(conn[c])),
         Flags(r, conn[c])
  PROVE  ConnKeeps
<1>1. conn'[c] = r /\ \A d \in Conns : d # c => conn'[d] = conn[d]
  OBVIOUS
<1>2. conn' \in [Conns -> ConnType]
  OBVIOUS
<1>3. conn[c] \in ConnType
  OBVIOUS
<1>4. ConnStays
  BY <1>1, <1>2, <1>3 DEF ConnStays
<1>5. NonePasses
  BY <1>1 DEF NonePasses, Past
<1>6. QED
  BY <1>4, <1>5 DEF ConnKeeps

\* What setting one field does to the record of a connection.
LEMMA SetupField ==
  ASSUME NEW q \in ConnType, NEW v \in {"refused", "dialling", "handshake", "shaken", "checked", "adding", "up"}
  PROVE  \E r \in ConnType : /\ r = [q EXCEPT !.setup = v]
                             /\ r.wire = q.wire /\ r.setup = v /\ Flags(r, q)
<1>1. [q EXCEPT !.setup = v] \in ConnType
  BY DEF ConnType
<1>2. LET r == [q EXCEPT !.setup = v] IN r.wire = q.wire /\ r.setup = v /\ Flags(r, q)
  BY DEF ConnType
<1>3. QED
  BY <1>1, <1>2

LEMMA WireField ==
  ASSUME NEW q \in ConnType, NEW v \in {"broken", "closed"}
  PROVE  \E r \in ConnType : /\ r = [q EXCEPT !.wire = v]
                             /\ r.wire = v /\ r.setup = q.setup /\ Flags(r, q)
<1>1. [q EXCEPT !.wire = v] \in ConnType
  BY DEF ConnType
<1>2. LET r == [q EXCEPT !.wire = v] IN r.wire = v /\ r.setup = q.setup /\ Flags(r, q)
  BY DEF ConnType
<1>3. QED
  BY <1>1, <1>2

LEMMA ReaderField ==
  ASSUME NEW q \in ConnType, NEW v \in {"reading", "posting", "done"}
  PROVE  \E r \in ConnType : /\ r = [q EXCEPT !.reader = v]
                             /\ r.wire = q.wire /\ r.setup = q.setup /\ Flags(r, q)
<1>1. [q EXCEPT !.reader = v] \in ConnType
  BY DEF ConnType
<1>2. LET r == [q EXCEPT !.reader = v] IN r.wire = q.wire /\ r.setup = q.setup /\ Flags(r, q)
  BY DEF ConnType
<1>3. QED
  BY <1>1, <1>2

LEMMA ListenerField ==
  ASSUME NEW q \in ConnType, NEW v \in {"waiting", "posting", "done"}
  PROVE  \E r \in ConnType : /\ r = [q EXCEPT !.listener = v]
                             /\ r.wire = q.wire /\ r.setup = q.setup /\ Flags(r, q)
<1>1. [q EXCEPT !.listener = v] \in ConnType
  BY DEF ConnType
<1>2. LET r == [q EXCEPT !.listener = v] IN r.wire = q.wire /\ r.setup = q.setup /\ Flags(r, q)
  BY DEF ConnType
<1>3. QED
  BY <1>1, <1>2

LEMMA PeerField ==
  ASSUME NEW q \in ConnType
  PROVE  \E r \in ConnType : /\ r = [q EXCEPT !.peer = TRUE]
                             /\ r.wire = q.wire /\ r.setup = q.setup /\ Flags(r, q)
<1>1. [q EXCEPT !.peer = TRUE] \in ConnType
  BY DEF ConnType
<1>2. LET r == [q EXCEPT !.peer = TRUE] IN r.wire = q.wire /\ r.setup = q.setup /\ Flags(r, q)
  BY DEF ConnType
<1>3. QED
  BY <1>1, <1>2

LEMMA DoneField ==
  ASSUME NEW q \in ConnType
  PROVE  \E r \in ConnType : /\ r = [q EXCEPT !.done = TRUE]
                             /\ r.wire = q.wire /\ r.setup = q.setup /\ Flags(r, q)
<1>1. [q EXCEPT !.done = TRUE] \in ConnType
  BY DEF ConnType
<1>2. LET r == [q EXCEPT !.done = TRUE] IN r.wire = q.wire /\ r.setup = q.setup /\ Flags(r, q)
  BY DEF ConnType
<1>3. QED
  BY <1>1, <1>2

LEMMA SelfField ==
  ASSUME NEW q \in ConnType
  PROVE  \E r \in ConnType : /\ r = [q EXCEPT !.self = TRUE]
                             /\ r.wire = q.wire /\ r.setup = q.setup /\ Flags(r, q)
<1>1. [q EXCEPT !.self = TRUE] \in ConnType
  BY DEF ConnType
<1>2. LET r == [q EXCEPT !.self = TRUE] IN r.wire = q.wire /\ r.setup = q.setup /\ Flags(r, q)
  BY DEF ConnType
<1>3. QED
  BY <1>1, <1>2

LEMMA ConnMoves ==
  ASSUME conn \in [Conns -> ConnType], NEW c \in Conns
  PROVE  /\ \A s \in {"refused", "dialling", "handshake", "shaken"} :
              conn[c].setup # "up" /\ conn' = [conn EXCEPT ![c].setup = s] => ConnKeeps
         /\ conn[c].setup = "checked" /\ conn' = [conn EXCEPT ![c].setup = "adding"] => ConnKeeps
         /\ conn[c].setup # "up" /\ conn' = Refused(c) => ConnKeeps
         /\ conn' = Closed(c) => ConnKeeps /\ conn'[c].wire = "closed"
         /\ conn[c].wire = "open" /\ conn' = [conn EXCEPT ![c].wire = "broken"] => ConnKeeps
         /\ \A s \in {"posting", "done"} : conn' = [conn EXCEPT ![c].reader = s] => ConnKeeps
         /\ conn' = [conn EXCEPT ![c].listener = "posting"] => ConnKeeps
         /\ conn' = [conn EXCEPT ![c].peer = TRUE, ![c].reader = "done"] => ConnKeeps
         /\ conn' = [conn EXCEPT ![c].listener = "done", ![c].done = TRUE] => ConnKeeps
         /\ conn' = [conn EXCEPT ![c].reader = "done", ![c].wire = "closed"]
              => ConnKeeps /\ conn'[c].wire = "closed"
         /\ conn' = [conn EXCEPT ![c].listener = "done", ![c].done = TRUE, ![c].wire = "closed"]
              => ConnKeeps /\ conn'[c].wire = "closed"
<1>1. PICK q \in ConnType : q = conn[c]
  OBVIOUS
<1>2. ASSUME NEW s \in {"refused", "dialling", "handshake", "shaken", "adding"},
             conn[c].setup # "up", s = "adding" => conn[c].setup = "checked",
             conn' = [conn EXCEPT ![c].setup = s]
      PROVE  ConnKeeps
  <2>1. PICK r \in ConnType : /\ r = [q EXCEPT !.setup = s]
                              /\ r.wire = q.wire /\ r.setup = s /\ Flags(r, q)
    <3>1. s \in {"refused", "dialling", "handshake", "shaken", "checked", "adding", "up"}
      OBVIOUS
    <3>2. QED
      BY <3>1, SetupField, ZenonT(60)
  <2>2. conn' = [conn EXCEPT ![c] = r]
    BY <1>1, <1>2, <2>1
  <2>3. Past(r) => Past(conn[c])
    BY <1>2, <2>1 DEF Past
  <2>4. r.wire = conn[c].wire /\ r.setup # "up" /\ Flags(r, conn[c])
    BY <1>1, <1>2, <2>1
  <2>5. QED
    BY <1>2, <2>2, <2>3, <2>4, OneConnMoves
<1>3. ASSUME conn[c].setup # "up", conn' = Refused(c) PROVE ConnKeeps
  <2>1. PICK s \in ConnType : /\ s = [q EXCEPT !.setup = "refused"]
                              /\ s.wire = q.wire /\ s.setup = "refused" /\ Flags(s, q)
    BY SetupField
  <2>2. PICK r \in ConnType : /\ r = [s EXCEPT !.wire = "closed"]
                              /\ r.wire = "closed" /\ r.setup = s.setup /\ Flags(r, s)
    BY WireField
  <2>3. conn' = [conn EXCEPT ![c] = r]
    BY <1>1, <1>3, <2>1, <2>2 DEF Refused
  <2>4. /\ r.wire = "closed" /\ r.setup # "up" /\ conn[c].setup # "up" /\ Flags(r, conn[c])
        /\ ~Past(r)
    BY <1>1, <1>3, <2>1, <2>2 DEF Past
  <2>5. QED
    BY <2>3, <2>4, OneConnMoves
<1>4. ASSUME conn' = Closed(c) PROVE ConnKeeps /\ conn'[c].wire = "closed"
  <2>1. PICK r \in ConnType : /\ r = [q EXCEPT !.wire = "closed"]
                              /\ r.wire = "closed" /\ r.setup = q.setup /\ Flags(r, q)
    BY WireField
  <2>2. conn' = [conn EXCEPT ![c] = r]
    BY <1>1, <1>4, <2>1 DEF Closed
  <2>3. QED
    BY <1>1, <2>1, <2>2, OneConnMoves
<1>5. ASSUME conn[c].wire = "open", conn' = [conn EXCEPT ![c].wire = "broken"] PROVE ConnKeeps
  <2>1. PICK r \in ConnType : /\ r = [q EXCEPT !.wire = "broken"]
                              /\ r.wire = "broken" /\ r.setup = q.setup /\ Flags(r, q)
    BY WireField
  <2>2. conn' = [conn EXCEPT ![c] = r]
    BY <1>1, <1>5, <2>1
  <2>3. r.wire = "broken" /\ r.setup = conn[c].setup /\ Flags(r, conn[c])
    BY <1>1, <2>1
  <2>4. QED
    BY <1>5, <2>2, <2>3, OneConnMoves
<1>6. ASSUME NEW s \in {"posting", "done"}, conn' = [conn EXCEPT ![c].reader = s] PROVE ConnKeeps
  <2>1. PICK r \in ConnType : /\ r = [q EXCEPT !.reader = s]
                              /\ r.wire = q.wire /\ r.setup = q.setup /\ Flags(r, q)
    <3>1. s \in {"reading", "posting", "done"}
      OBVIOUS
    <3>2. QED
      BY <3>1, ReaderField
  <2>2. conn' = [conn EXCEPT ![c] = r]
    BY <1>1, <1>6, <2>1
  <2>3. QED
    BY <1>1, <2>1, <2>2, OneConnMoves
<1>7. ASSUME conn' = [conn EXCEPT ![c].listener = "posting"] PROVE ConnKeeps
  <2>1. PICK r \in ConnType : /\ r = [q EXCEPT !.listener = "posting"]
                              /\ r.wire = q.wire /\ r.setup = q.setup /\ Flags(r, q)
    BY ListenerField
  <2>2. conn' = [conn EXCEPT ![c] = r]
    BY <1>1, <1>7, <2>1
  <2>3. QED
    BY <1>1, <2>1, <2>2, OneConnMoves
<1>8. ASSUME conn' = [conn EXCEPT ![c].peer = TRUE, ![c].reader = "done"] PROVE ConnKeeps
  <2>1. PICK s \in ConnType : /\ s = [q EXCEPT !.peer = TRUE]
                              /\ s.wire = q.wire /\ s.setup = q.setup /\ Flags(s, q)
    BY PeerField
  <2>2. PICK r \in ConnType : /\ r = [s EXCEPT !.reader = "done"]
                              /\ r.wire = s.wire /\ r.setup = s.setup /\ Flags(r, s)
    BY ReaderField
  <2>3. conn' = [conn EXCEPT ![c] = r]
    BY <1>1, <1>8, <2>1, <2>2
  <2>4. QED
    BY <1>1, <2>1, <2>2, <2>3, OneConnMoves
<1>9. PICK d \in ConnType : /\ d = [[q EXCEPT !.listener = "done"] EXCEPT !.done = TRUE]
                            /\ d.wire = q.wire /\ d.setup = q.setup /\ Flags(d, q)
  <2>1. PICK s \in ConnType : /\ s = [q EXCEPT !.listener = "done"]
                              /\ s.wire = q.wire /\ s.setup = q.setup /\ Flags(s, q)
    BY ListenerField
  <2>2. PICK r \in ConnType : /\ r = [s EXCEPT !.done = TRUE]
                              /\ r.wire = s.wire /\ r.setup = s.setup /\ Flags(r, s)
    BY DoneField
  <2>3. QED
    BY <2>1, <2>2
<1>10. ASSUME conn' = [conn EXCEPT ![c].listener = "done", ![c].done = TRUE] PROVE ConnKeeps
  <2>1. conn' = [conn EXCEPT ![c] = d]
    BY <1>1, <1>9, <1>10
  <2>2. QED
    BY <1>1, <1>9, <2>1, OneConnMoves
<1>11. ASSUME conn' = [conn EXCEPT ![c].reader = "done", ![c].wire = "closed"]
       PROVE  ConnKeeps /\ conn'[c].wire = "closed"
  <2>1. PICK s \in ConnType : /\ s = [q EXCEPT !.reader = "done"]
                              /\ s.wire = q.wire /\ s.setup = q.setup /\ Flags(s, q)
    BY ReaderField
  <2>2. PICK r \in ConnType : /\ r = [s EXCEPT !.wire = "closed"]
                              /\ r.wire = "closed" /\ r.setup = s.setup /\ Flags(r, s)
    BY WireField
  <2>3. conn' = [conn EXCEPT ![c] = r]
    BY <1>1, <1>11, <2>1, <2>2
  <2>4. QED
    BY <1>1, <2>1, <2>2, <2>3, OneConnMoves
<1>12. ASSUME conn' = [conn EXCEPT ![c].listener = "done", ![c].done = TRUE, ![c].wire = "closed"]
       PROVE  ConnKeeps /\ conn'[c].wire = "closed"
  <2>1. PICK r \in ConnType : /\ r = [d EXCEPT !.wire = "closed"]
                              /\ r.wire = "closed" /\ r.setup = d.setup /\ Flags(r, d)
    BY WireField
  <2>2. conn' = [conn EXCEPT ![c] = r]
    BY <1>1, <1>9, <1>12, <2>1
  <2>3. QED
    BY <1>1, <1>9, <2>1, <2>2, OneConnMoves
<1>13. QED
  BY <1>2, <1>3, <1>4, <1>5, <1>6, <1>7, <1>8, <1>10, <1>11, <1>12

-----------------------------------------------------------------------------
(* The hub: map and balancer *)

\* The map leads to connections that are up, each under its own peer.
MapInv == \A p \in Peers : mesh[p] # None => PeerOf[mesh[p]] = p /\ conn[mesh[p]].setup = "up"

\* A try is under way only if there is one left.
TriesInv ==
  \A t \in Tunnels : tunnel[t].pc \in {"check", "write", "posting"} => tunnel[t].tries < RetryCount

HubInv == TypeOK /\ BalancerInv /\ BalancerMatchesMesh /\ MapInv /\ TriesInv

\* Everything that a hub can do, whoever owns it.
HubAct ==
  \/ Next
  \/ \E c \in Conns : ListenerSends(c)
  \/ LockToWithdraw \/ withdraw \/ WithdrawDone \/ WithdrawTimeout \/ stop

\* Steps that leave the map and the balancer alone.
LEMMA KeepsInv ==
  ASSUME HubInv, ConnStays, UNCHANGED <<mesh, lbVars>>,
         cast' \in [Broadcasts -> CastType], tunnel' \in [Tunnels -> TunnelType], TriesInv',
         scan' \in ScanType, leave' \in LeaveType
  PROVE  HubInv'
<1>1. TypeOK'
  BY DEF HubInv, TypeOK, ConnStays, LB!TypeOK, lbVars
<1>2. BalancerInv' /\ BalancerMatchesMesh'
  BY DEF HubInv, BalancerInv, BalancerMatchesMesh, LB!TypeOK, TurnInv, Ahead, LB!Listed, Present, lbVars
<1>3. MapInv'
  <2>1. SUFFICES ASSUME NEW p \in Peers, mesh[p] # None
                 PROVE  PeerOf[mesh[p]] = p /\ conn'[mesh[p]].setup = "up"
    BY DEF MapInv
  <2>2. mesh[p] \in Conns
    BY <2>1 DEF HubInv, TypeOK
  <2>3. QED
    BY <2>1, <2>2 DEF HubInv, MapInv, ConnStays
<1>4. QED
  BY <1>1, <1>2, <1>3 DEF HubInv

LEMMA SameConns == ASSUME HubInv, conn' = conn PROVE ConnKeeps
  BY DEF HubInv, TypeOK, ConnKeeps, ConnStays, NonePasses

\* A connection passes the check; those to its peer that are past it have raced.
LEMMA PassActs ==
  ASSUME HubInv, NEW c \in Conns, conn[c].setup = "shaken", conn' = Passed(c)
  PROVE  /\ ConnStays /\ conn'[c].setup = "checked" /\ (conn'[c].raced \/ Rivals(c) = {})
         /\ \A d \in Conns \ {c} : /\ conn'[d].setup = conn[d].setup /\ conn'[d].wire = conn[d].wire
                                   /\ conn'[d].raced \/ d \notin Rivals(c)
<1> USE DEF HubInv, TypeOK
<1>1. ASSUME NEW q \in ConnType, NEW b \in BOOLEAN
      PROVE  \E r \in ConnType : /\ r = [q EXCEPT !.raced = @ \/ b] /\ Flags(r, q)
                                 /\ r.wire = q.wire /\ r.setup = q.setup /\ (b => r.raced)
  <2>1. PICK v \in BOOLEAN : v = (q.raced \/ b)
    OBVIOUS
  <2>2. [q EXCEPT !.raced = v] \in ConnType
    BY DEF ConnType
  <2>3. LET r == [q EXCEPT !.raced = v] IN r.wire = q.wire /\ r.setup = q.setup /\ r.done = q.done /\ r.raced = v
    BY DEF ConnType
  <2>4. QED
    BY <2>1, <2>2, <2>3
<1>2. /\ conn'[c] \in ConnType /\ conn'[c].setup = "checked" /\ conn'[c].wire = conn[c].wire
      /\ Flags(conn'[c], conn[c]) /\ (conn'[c].raced \/ Rivals(c) = {})
  <2>1. PICK b \in BOOLEAN : b = (Rivals(c) # {})
    OBVIOUS
  <2>2. PICK q \in ConnType : q = conn[c]
    OBVIOUS
  <2>3. PICK s \in ConnType : /\ s = [q EXCEPT !.setup = "checked"]
                              /\ s.wire = q.wire /\ s.setup = "checked" /\ Flags(s, q)
    BY SetupField
  <2>4. PICK r \in ConnType : /\ r = [s EXCEPT !.raced = @ \/ b] /\ Flags(r, s)
                              /\ r.wire = s.wire /\ r.setup = s.setup /\ (b => r.raced)
    BY <1>1
  <2>5. conn'[c] = [q EXCEPT !.setup = "checked", !.raced = @ \/ b]
    BY <2>1, <2>2 DEF Passed
  <2>6. conn'[c] = r
    BY <2>3, <2>4, <2>5
  <2>7. QED
    BY <2>1, <2>2, <2>3, <2>4, <2>6
<1>3. ASSUME NEW d \in Conns, d # c
      PROVE  /\ conn'[d] \in ConnType /\ conn'[d].setup = conn[d].setup /\ conn'[d].wire = conn[d].wire
             /\ Flags(conn'[d], conn[d]) /\ (conn'[d].raced \/ d \notin Rivals(c))
  <2>1. PICK q \in ConnType : q = conn[d]
    OBVIOUS
  <2>2. CASE d \in Rivals(c)
    <3>1. PICK b \in BOOLEAN : b = TRUE
      OBVIOUS
    <3>2. PICK r \in ConnType : /\ r = [q EXCEPT !.raced = @ \/ b] /\ Flags(r, q)
                                /\ r.wire = q.wire /\ r.setup = q.setup /\ (b => r.raced)
      BY <1>1
    <3>3. conn'[d] = r
      BY <1>3, <2>1, <2>2, <3>1, <3>2 DEF Passed
    <3>4. QED
      BY <2>1, <2>2, <3>1, <3>2, <3>3
  <2>3. CASE d \notin Rivals(c)
    <3>1. PICK b \in BOOLEAN : b = FALSE
      OBVIOUS
    <3>2. PICK r \in ConnType : /\ r = [q EXCEPT !.raced = @ \/ b] /\ Flags(r, q)
                                /\ r.wire = q.wire /\ r.setup = q.setup /\ (b => r.raced)
      BY <1>1
    <3>3. conn'[d] = r
      BY <1>3, <2>1, <2>3, <3>1, <3>2 DEF Passed
    <3>4. QED
      BY <2>1, <2>3, <3>1, <3>2, <3>3
  <2>4. QED
    BY <2>2, <2>3
<1>4. conn' = [d \in Conns |-> conn'[d]]
  BY DEF Passed
<1>5. ConnStays
  BY <1>2, <1>3, <1>4 DEF ConnStays
<1>6. QED
  BY <1>2, <1>3, <1>5

\* Steps of one connection up to its insertion, and of its goroutines.
LEMMA ConnActs ==
  ASSUME HubInv, NEW c \in Conns,
         \/ Discovered(c) \/ Connect(c) \/ Incoming(c) \/ OutgoingHandshake(c) \/ IncomingHandshake(c)
         \/ setupNewConnection(c) \/ LockToAdd(c) \/ WireBreaks(c) \/ ReadWithdraw(c) \/ ReadFails(c)
         \/ ListenerSends(c)
  PROVE  /\ ConnStays /\ UNCHANGED <<mesh, lbVars, cast, tunnel, scan, leave>>
         /\ NonePasses \/ setupNewConnection(c)
<1> USE DEF HubInv, TypeOK, ConnKeeps
<1>1. CASE Discovered(c)
  BY <1>1, ConnMoves DEF Discovered
<1>2. CASE Connect(c)
  BY <1>2, ConnMoves DEF Connect
<1>3. CASE Incoming(c)
  BY <1>3, ConnMoves DEF Incoming
<1>4. CASE OutgoingHandshake(c)
  BY <1>4, ConnMoves DEF OutgoingHandshake
<1>5. CASE IncomingHandshake(c)
  BY <1>5, ConnMoves DEF IncomingHandshake
<1>6. CASE setupNewConnection(c)
  <2>1. CASE conn' = Refused(c)
    BY <1>6, <2>1, ConnMoves DEF setupNewConnection
  <2>2. CASE conn' = Passed(c)
    BY <1>6, <2>2, PassActs DEF setupNewConnection
  <2>3. QED
    BY <1>6, <2>1, <2>2 DEF setupNewConnection
<1>7. CASE LockToAdd(c)
  BY <1>7, ConnMoves DEF LockToAdd
<1>8. CASE WireBreaks(c)
  BY <1>8, ConnMoves DEF WireBreaks
<1>9. CASE ReadWithdraw(c)
  BY <1>9, ConnMoves DEF ReadWithdraw
<1>10. CASE ReadFails(c)
  BY <1>10, ConnMoves DEF ReadFails
<1>11. CASE ListenerSends(c)
  BY <1>11, ConnMoves DEF ListenerSends
<1>12. QED
  BY <1>1, <1>2, <1>3, <1>4, <1>5, <1>6, <1>7, <1>8, <1>9, <1>10, <1>11

\* withdraw changes no connection in what matters here, and stop closes those of the map.
LEMMA LeaveActs ==
  ASSUME HubInv
  PROVE  /\ withdraw => ConnKeeps /\ leave' \in LeaveType
         /\ stop =>
              /\ ConnKeeps /\ leave' \in LeaveType
              /\ \A c \in Conns : mesh[PeerOf[c]] = c => conn'[c].wire = "closed"
         /\ LockToWithdraw \/ WithdrawDone \/ WithdrawTimeout =>
              ConnKeeps /\ leave' \in LeaveType /\ leave'.awaited = leave.awaited
<1> USE PeerOfAssumption DEF HubInv, TypeOK
<1>1. ASSUME withdraw
      PROVE  ConnKeeps /\ leave' \in LeaveType
  <2> DEFINE cs == {mesh[p] : p \in Present}
  <2>1. cs \subseteq Conns
    BY DEF Present
  <2>2. /\ leave' = [pc |-> "waiting", awaited |-> cs]
        /\ conn' = [c \in Conns |-> IF c \in cs THEN [conn[c] EXCEPT !.self = TRUE] ELSE conn[c]]
    BY <1>1 DEF withdraw
  <2> HIDE DEF cs
  <2>3. leave' \in LeaveType
    BY <2>1, <2>2 DEF LeaveType
  <2>4. ASSUME NEW c \in Conns
        PROVE  /\ conn'[c] \in ConnType
               /\ conn'[c].wire = conn[c].wire /\ conn'[c].setup = conn[c].setup
               /\ Flags(conn'[c], conn[c])
    <3>1. PICK q \in ConnType : q = conn[c]
      OBVIOUS
    <3>2. PICK r \in ConnType : /\ r = [q EXCEPT !.self = TRUE]
                                /\ r.wire = q.wire /\ r.setup = q.setup /\ Flags(r, q)
      BY SelfField
    <3>3. conn'[c] = IF c \in cs THEN r ELSE q
      BY <2>2, <3>1, <3>2
    <3>4. QED
      BY <3>1, <3>2, <3>3
  <2>5. ConnKeeps
    BY <2>2, <2>4 DEF ConnKeeps, ConnStays, NonePasses, Past
  <2>6. QED
    BY <2>1, <2>3, <2>4, <2>5
<1>2. ASSUME stop
      PROVE  /\ ConnKeeps /\ leave' \in LeaveType
             /\ \A c \in Conns : mesh[PeerOf[c]] = c => conn'[c].wire = "closed"
  <2>1. leave' \in LeaveType
    BY <1>2 DEF stop, LeaveType
  <2>2. conn' = [c \in Conns |-> IF mesh[PeerOf[c]] = c
                                 THEN [conn[c] EXCEPT !.wire = "closed"] ELSE conn[c]]
    BY <1>2 DEF stop
  <2>3. ASSUME NEW c \in Conns
        PROVE  /\ conn'[c] \in ConnType
               /\ conn'[c].wire = "closed" \/ conn'[c].wire = conn[c].wire
               /\ conn'[c].setup = conn[c].setup /\ Flags(conn'[c], conn[c])
               /\ mesh[PeerOf[c]] = c => conn'[c].wire = "closed"
    <3>1. PICK q \in ConnType : q = conn[c]
      OBVIOUS
    <3>2. PICK r \in ConnType : /\ r = [q EXCEPT !.wire = "closed"]
                                /\ r.wire = "closed" /\ r.setup = q.setup /\ Flags(r, q)
      BY WireField
    <3>3. conn'[c] = IF mesh[PeerOf[c]] = c THEN r ELSE q
      BY <2>2, <3>1, <3>2
    <3>4. QED
      BY <3>1, <3>2, <3>3
  <2>4. ConnKeeps
    BY <2>2, <2>3 DEF ConnKeeps, ConnStays, NonePasses, Past
  <2>5. QED
    BY <2>1, <2>3, <2>4
<1>3. ASSUME LockToWithdraw \/ WithdrawDone \/ WithdrawTimeout
      PROVE  ConnKeeps /\ leave' \in LeaveType /\ leave'.awaited = leave.awaited
  <2>1. leave' \in LeaveType /\ leave'.awaited = leave.awaited
    BY <1>3 DEF LockToWithdraw, WithdrawDone, WithdrawTimeout, LeaveType
  <2>2. QED
    BY <1>3, <2>1, SameConns DEF LockToWithdraw, WithdrawDone, WithdrawTimeout
<1>4. QED
  BY <1>1, <1>2, <1>3

LEMMA CastActs ==
  ASSUME HubInv, NEW m \in Broadcasts
  PROVE  /\ CastBegins(m) \/ CastStep(m) => cast' \in [Broadcasts -> CastType]
         /\ cast' = [cast EXCEPT ![m].pc = "next"] => cast' \in [Broadcasts -> CastType]
<1> USE DEF HubInv, TypeOK
<1>1. \A r \in CastType : [cast EXCEPT ![m] = r] \in [Broadcasts -> CastType]
  OBVIOUS
<1>2. PICK q \in CastType : q = cast[m]
  OBVIOUS
<1>3. \A s \in {"next", "write", "posting", "over"} : [q EXCEPT !.pc = s] \in CastType
  BY DEF CastType
<1>4. \A s \in {"next", "write", "posting", "over"} :
        [cast EXCEPT ![m].pc = s] \in [Broadcasts -> CastType]
  BY <1>1, <1>2, <1>3
<1>5. ASSUME CastBegins(m) PROVE cast' \in [Broadcasts -> CastType]
  <2>1. [pc |-> "next", todo |-> Present, at |-> None] \in CastType
    BY DEF CastType, Present
  <2>2. QED
    BY <1>1, <1>5, <2>1 DEF CastBegins
<1>6. ASSUME CastNext(m) PROVE cast' \in [Broadcasts -> CastType]
  <2>1. CASE cast' = [cast EXCEPT ![m].pc = "over"]
    BY <1>4, <2>1
  <2>2. CASE \E p \in cast[m].todo :
          cast' = [cast EXCEPT ![m] =
                     [pc |-> IF conn[mesh[p]].peer THEN "next" ELSE "write",
                      todo |-> @.todo \ {p}, at |-> mesh[p]]]
    <3>1. PICK p \in q.todo :
          cast' = [cast EXCEPT ![m] =
                     [pc |-> IF conn[mesh[p]].peer THEN "next" ELSE "write",
                      todo |-> q.todo \ {p}, at |-> mesh[p]]]
      BY <1>2, <2>2
    <3>2. p \in Peers /\ q.todo \ {p} \in SUBSET Peers /\ mesh[p] \in Conns \cup {None}
      BY DEF CastType
    <3>3. PICK s \in {"next", "write"} : s = IF conn[mesh[p]].peer THEN "next" ELSE "write"
      OBVIOUS
    <3>4. [pc |-> s, todo |-> q.todo \ {p}, at |-> mesh[p]] \in CastType
      BY <3>2 DEF CastType
    <3>5. QED
      BY <1>1, <3>1, <3>3, <3>4
  <2>3. QED
    BY <1>6, <2>1, <2>2 DEF CastNext
<1>7. ASSUME CastWrites(m) PROVE cast' \in [Broadcasts -> CastType]
  BY <1>4, <1>7 DEF CastWrites
<1>8. QED
  BY <1>4, <1>5, <1>6, <1>7 DEF CastStep

\* A tunnel moves on, tries again, or gives up.
LEMMA TunnelMoves ==
  ASSUME HubInv, NEW t \in Tunnels
  PROVE  /\ \A s \in {"pick", "write", "posting", "sent", "failed"} :
              /\ tunnel' = [tunnel EXCEPT ![t].pc = s]
              /\ s \in {"write", "posting"} => tunnel[t].pc \in {"check", "write", "posting"}
              => tunnel' \in [Tunnels -> TunnelType] /\ TriesInv'
         /\ tunnel[t].tries < RetryCount /\ tunnel' = [tunnel EXCEPT ![t].tries = @ + 1]
              /\ tunnel[t].pc = "pick"
              => tunnel' \in [Tunnels -> TunnelType] /\ TriesInv'
         /\ tunnel[t].tries < RetryCount /\ tunnel' = Retry(t)
              => tunnel' \in [Tunnels -> TunnelType] /\ TriesInv'
         /\ \A c \in Conns :
              tunnel[t].tries < RetryCount /\ tunnel' = [tunnel EXCEPT ![t].pc = "check", ![t].at = c]
              => tunnel' \in [Tunnels -> TunnelType] /\ TriesInv'
<1> USE RetryCountAssumption DEF HubInv, TypeOK
<1>1. PICK q \in TunnelType : q = tunnel[t]
  OBVIOUS
<1>2. ASSUME NEW r \in TunnelType, tunnel' = [tunnel EXCEPT ![t] = r],
             r.pc \in {"check", "write", "posting"} => r.tries < RetryCount
      PROVE  tunnel' \in [Tunnels -> TunnelType] /\ TriesInv'
  BY <1>2 DEF TriesInv
<1>3. q.tries \in 0 .. RetryCount
  BY DEF TunnelType
<1>4. ASSUME NEW s \in {"pick", "write", "posting", "sent", "failed"}, tunnel' = [tunnel EXCEPT ![t].pc = s],
             s \in {"write", "posting"} => tunnel[t].pc \in {"check", "write", "posting"}
      PROVE  tunnel' \in [Tunnels -> TunnelType] /\ TriesInv'
  <2>1. PICK r \in TunnelType : r = [q EXCEPT !.pc = s] /\ r.pc = s /\ r.tries = q.tries
    <3>1. [q EXCEPT !.pc = s] \in TunnelType
      BY DEF TunnelType
    <3>2. [q EXCEPT !.pc = s].pc = s /\ [q EXCEPT !.pc = s].tries = q.tries
      BY DEF TunnelType
    <3>3. QED
      BY <3>1, <3>2
  <2>2. tunnel' = [tunnel EXCEPT ![t] = r]
    BY <1>1, <1>4, <2>1
  <2>3. r.pc \in {"check", "write", "posting"} => r.tries < RetryCount
    BY <1>1, <1>4, <2>1 DEF TriesInv
  <2>4. QED
    BY <1>2, <2>2, <2>3
<1>5. ASSUME q.tries < RetryCount
      PROVE  \E r \in TunnelType : r = [q EXCEPT !.tries = @ + 1] /\ r.pc = q.pc
  <2>1. q.tries + 1 \in 0 .. RetryCount
    BY <1>3, <1>5
  <2>2. [q EXCEPT !.tries = @ + 1] \in TunnelType /\ [q EXCEPT !.tries = @ + 1].pc = q.pc
    BY <2>1 DEF TunnelType
  <2>3. QED
    BY <2>2
<1>6. ASSUME tunnel[t].tries < RetryCount, tunnel' = [tunnel EXCEPT ![t].tries = @ + 1],
             tunnel[t].pc = "pick"
      PROVE  tunnel' \in [Tunnels -> TunnelType] /\ TriesInv'
  <2>1. PICK r \in TunnelType : r = [q EXCEPT !.tries = @ + 1] /\ r.pc = q.pc
    BY <1>1, <1>5, <1>6
  <2>2. tunnel' = [tunnel EXCEPT ![t] = r]
    BY <1>1, <1>6, <2>1
  <2>3. QED
    BY <1>1, <1>2, <1>6, <2>1, <2>2
<1>7. ASSUME tunnel[t].tries < RetryCount, tunnel' = Retry(t)
      PROVE  tunnel' \in [Tunnels -> TunnelType] /\ TriesInv'
  <2>1. q.tries + 1 \in 0 .. RetryCount
    BY <1>1, <1>3, <1>7
  <2>2. PICK r \in TunnelType : r = [q EXCEPT !.pc = "pick", !.tries = @ + 1, !.at = None] /\ r.pc = "pick"
    <3>1. PICK a \in TunnelType : a = [q EXCEPT !.pc = "pick"] /\ a.pc = "pick" /\ a.tries = q.tries
      <4>1. [q EXCEPT !.pc = "pick"] \in TunnelType
        BY DEF TunnelType
      <4>2. [q EXCEPT !.pc = "pick"].pc = "pick" /\ [q EXCEPT !.pc = "pick"].tries = q.tries
        BY DEF TunnelType
      <4>3. QED
        BY <4>1, <4>2
    <3>2. PICK b \in TunnelType : b = [a EXCEPT !.tries = @ + 1] /\ b.pc = "pick"
      <4>1. [a EXCEPT !.tries = @ + 1] \in TunnelType /\ [a EXCEPT !.tries = @ + 1].pc = "pick"
        BY <2>1, <3>1 DEF TunnelType
      <4>2. QED
        BY <4>1
    <3>3. [b EXCEPT !.at = None] \in TunnelType /\ [b EXCEPT !.at = None].pc = "pick"
      BY <3>2 DEF TunnelType
    <3>4. QED
      BY <3>1, <3>2, <3>3
  <2>3. tunnel' = [tunnel EXCEPT ![t] = r]
    BY <1>1, <1>7, <2>2 DEF Retry
  <2>4. QED
    BY <1>2, <2>2, <2>3
<1>8. ASSUME NEW c \in Conns, tunnel[t].tries < RetryCount,
             tunnel' = [tunnel EXCEPT ![t].pc = "check", ![t].at = c]
      PROVE  tunnel' \in [Tunnels -> TunnelType] /\ TriesInv'
  <2>1. PICK a \in TunnelType : a = [q EXCEPT !.pc = "check"] /\ a.tries = q.tries
    <3>1. [q EXCEPT !.pc = "check"] \in TunnelType
      BY DEF TunnelType
    <3>2. [q EXCEPT !.pc = "check"].tries = q.tries
      BY DEF TunnelType
    <3>3. QED
      BY <3>1, <3>2
  <2>2. PICK r \in TunnelType : r = [a EXCEPT !.at = c] /\ r.tries = a.tries
    <3>1. [a EXCEPT !.at = c] \in TunnelType
      BY DEF TunnelType
    <3>2. [a EXCEPT !.at = c].tries = a.tries
      BY DEF TunnelType
    <3>3. QED
      BY <3>1, <3>2
  <2>3. tunnel' = [tunnel EXCEPT ![t] = r]
    BY <1>1, <1>8, <2>1, <2>2
  <2>4. QED
    BY <1>1, <1>2, <1>8, <2>1, <2>2, <2>3
<1>9. QED
  BY <1>4, <1>6, <1>7, <1>8

LEMMA TunnelActs ==
  ASSUME HubInv, NEW t \in Tunnels, TunnelBegins(t) \/ TunnelStep(t)
  PROVE  HubInv'
<1> USE RetryCountAssumption
<1>1. CASE TunnelPick(t) /\ LB!NextUUID
  <2>1. BalancerInv' /\ LB!Listed' = LB!Listed
    BY <1>1, NextKeeps DEF HubInv
  <2>2. UNCHANGED <<conn, mesh, cast, scan, leave, balanced>>
    BY <1>1 DEF TunnelPick, lbVars
  <2>3. tunnel' \in [Tunnels -> TunnelType] /\ TriesInv'
    <3>1. tunnel[t].pc = "pick" /\ tunnel[t].tries < RetryCount
      BY <1>1 DEF TunnelPick
    <3>2. CASE len = 0
      BY <1>1, <3>2 DEF LB!NextUUID, HubInv, BalancerInv, LB!TypeOK
    <3>3. CASE len # 0
      <4>1. PICK c \in Conns \cup {None} : c = mesh[uuids[index]]
        <5>1. index \in 0 .. len - 1
          BY <1>1, MaxLenIsNat DEF LB!NextUUID, HubInv, BalancerInv, LB!TypeOK, MaxLen
        <5>2. uuids[index] \in Peers
          BY <5>1 DEF HubInv, BalancerInv, LB!TypeOK
        <5>3. QED
          BY <5>2 DEF HubInv, TypeOK
      <4>2. tunnel' = IF c = None THEN [tunnel EXCEPT ![t].tries = @ + 1]
                      ELSE [tunnel EXCEPT ![t].pc = "check", ![t].at = c]
        BY <1>1, <3>3, <4>1 DEF TunnelPick
      <4>3. CASE c = None
        BY <3>1, <4>2, <4>3, TunnelMoves
      <4>4. CASE c # None
        <5>1. c \in Conns
          BY <4>4
        <5>2. QED
          BY <3>1, <4>2, <4>4, <5>1, TunnelMoves
      <4>5. QED
        BY <4>3, <4>4
    <3>4. QED
      BY <3>2, <3>3
  <2>4. TypeOK'
    BY <2>1, <2>2, <2>3 DEF HubInv, TypeOK, BalancerInv
  <2>5. BalancerMatchesMesh' /\ MapInv'
    BY <2>1, <2>2 DEF HubInv, BalancerMatchesMesh, Present, MapInv
  <2>6. QED
    BY <2>1, <2>3, <2>4, <2>5 DEF HubInv
<1>2. CASE UNCHANGED <<conn, mesh, lbVars, cast, scan, leave>>
           /\ tunnel' \in [Tunnels -> TunnelType] /\ TriesInv'
  <2>1. ConnStays
    BY <1>2, SameConns DEF ConnKeeps
  <2>2. QED
    BY <1>2, <2>1, KeepsInv DEF HubInv, TypeOK
<1>3. CASE TunnelPick(t) /\ ~LB!NextUUID
  <2>1. /\ tunnel[t].pc = "pick" /\ tunnel[t].tries < RetryCount
        /\ tunnel' = [tunnel EXCEPT ![t].tries = @ + 1]
        /\ UNCHANGED <<conn, mesh, lbVars, cast, scan, leave>>
    BY <1>3 DEF TunnelPick
  <2>2. QED
    BY <1>2, <2>1, TunnelMoves
<1>4. CASE TunnelBegins(t) \/ TunnelGivesUp(t)
  BY <1>2, <1>4, TunnelMoves DEF TunnelBegins, TunnelGivesUp
<1>5. CASE TunnelChecks(t)
  <2>1. tunnel[t].pc = "check" /\ tunnel[t].tries < RetryCount
    BY <1>5 DEF TunnelChecks, HubInv, TriesInv
  <2>2. QED
    BY <1>2, <1>5, <2>1, TunnelMoves DEF TunnelChecks
<1>6. CASE TunnelWrites(t)
  BY <1>2, <1>6, TunnelMoves DEF TunnelWrites
<1>7. QED
  BY <1>1, <1>3, <1>4, <1>5, <1>6 DEF TunnelStep

\* Whoever posted the error, its connection is closed when it is received.
LEMMA ReceivedActs ==
  ASSUME HubInv, NEW c \in Conns, Received(c)
  PROVE  /\ ConnKeeps /\ conn'[c].wire = "closed"
         /\ cast' \in [Broadcasts -> CastType] /\ tunnel' \in [Tunnels -> TunnelType] /\ TriesInv'
<1> USE DEF HubInv, TypeOK
<1>1. CASE \/ /\ conn' = [conn EXCEPT ![c].reader = "done", ![c].wire = "closed"]
              /\ UNCHANGED <<cast, tunnel>>
           \/ /\ conn' = [conn EXCEPT ![c].listener = "done", ![c].done = TRUE, ![c].wire = "closed"]
              /\ UNCHANGED <<cast, tunnel>>
  BY <1>1, ConnMoves DEF TriesInv
<1>2. CASE \E m \in Broadcasts :
             cast' = [cast EXCEPT ![m].pc = "next"] /\ conn' = Closed(c) /\ UNCHANGED tunnel
  BY <1>2, ConnMoves, CastActs DEF TriesInv
<1>3. CASE \E t \in Tunnels :
             tunnel[t].pc = "posting" /\ tunnel' = Retry(t) /\ conn' = Closed(c) /\ UNCHANGED cast
  <2>1. PICK t \in Tunnels :
             tunnel[t].pc = "posting" /\ tunnel' = Retry(t) /\ conn' = Closed(c) /\ UNCHANGED cast
    BY <1>3
  <2>2. tunnel[t].tries < RetryCount
    BY <2>1 DEF TriesInv
  <2>3. QED
    BY <2>1, <2>2, ConnMoves, TunnelMoves
<1>4. QED
  BY <1>1, <1>2, <1>3 DEF Received

\* The scanner: it visits, and a peer that is to go has a connection it closed.
LEMMA VisitActs ==
  ASSUME HubInv, NEW p \in Peers, ScanVisits(p)
  PROVE  /\ ConnKeeps /\ UNCHANGED <<mesh, lbVars, leave>>
         /\ cast' \in [Broadcasts -> CastType] /\ tunnel' \in [Tunnels -> TunnelType] /\ TriesInv'
         /\ scan' \in ScanType
         /\ scan'.gone = scan.gone
            \/ (scan'.gone = scan.gone \cup {p} /\ mesh[p] \in Conns /\ conn'[mesh[p]].wire = "closed")
<1>1. PICK c \in Conns : c = mesh[p]
  BY DEF ScanVisits, HubInv, TypeOK
<1>2. UNCHANGED <<mesh, lbVars, leave>>
  BY DEF ScanVisits
<1>3. scan \in ScanType
  BY DEF HubInv, TypeOK
<1>4. ASSUME scan' = [scan EXCEPT !.seen = @ \cup {p}, !.gone = @ \cup {p}]
      PROVE  scan' \in ScanType /\ scan'.gone = scan.gone \cup {p}
  <2>1. PICK q \in ScanType : q = [scan EXCEPT !.seen = @ \cup {p}] /\ q.gone = scan.gone
    <3>1. [scan EXCEPT !.seen = @ \cup {p}] \in ScanType
      BY <1>3 DEF ScanType
    <3>2. [scan EXCEPT !.seen = @ \cup {p}].gone = scan.gone
      BY <1>3 DEF ScanType
    <3>3. QED
      BY <3>1, <3>2
  <2>2. scan' = [q EXCEPT !.gone = @ \cup {p}]
    BY <1>4, <2>1
  <2>3. QED
    BY <2>1, <2>2 DEF ScanType
<1>5. CASE Received(c) /\ scan' = [scan EXCEPT !.seen = @ \cup {p}, !.gone = @ \cup {p}]
  BY <1>1, <1>2, <1>4, <1>5, ReceivedActs
<1>6. CASE /\ conn' = Closed(c) /\ UNCHANGED <<cast, tunnel>>
           /\ scan' = [scan EXCEPT !.seen = @ \cup {p}, !.gone = @ \cup {p}]
  BY <1>1, <1>2, <1>4, <1>6, ConnMoves DEF HubInv, TypeOK, TriesInv
<1>7. CASE scan' = [scan EXCEPT !.seen = @ \cup {p}] /\ UNCHANGED <<conn, cast, tunnel>>
  <2>1. scan' \in ScanType /\ scan'.gone = scan.gone
    BY <1>3, <1>7 DEF ScanType
  <2>2. QED
    BY <1>2, <1>7, <2>1, SameConns DEF HubInv, TypeOK, TriesInv
<1>8. QED
  BY <1>1, <1>5, <1>6, <1>7 DEF ScanVisits

LEMMA ScanActs ==
  ASSUME HubInv, ScanBegins \/ ScanEnds
  PROVE  /\ ConnKeeps /\ UNCHANGED <<mesh, lbVars, cast, tunnel, leave>>
         /\ scan' \in ScanType
         /\ scan'.gone = {} \/ scan'.gone = scan.gone
<1>1. scan \in ScanType
  BY DEF HubInv, TypeOK
<1>2. CASE ScanBegins
  <2>1. scan' \in ScanType /\ scan'.gone = {}
    BY <1>1, <1>2 DEF ScanBegins, ScanType, Present
  <2>2. QED
    BY <1>2, <2>1, SameConns DEF ScanBegins
<1>3. CASE ScanEnds
  <2>1. PICK s \in {"idle", "remove"} :
          scan' = [scan EXCEPT !.pc = s, !.must = {}, !.seen = {}]
    BY <1>3 DEF ScanEnds
  <2>2. PICK q \in ScanType : q = [scan EXCEPT !.pc = s] /\ q.gone = scan.gone
    <3>1. [scan EXCEPT !.pc = s] \in ScanType
      BY <1>1 DEF ScanType
    <3>2. [scan EXCEPT !.pc = s].gone = scan.gone
      BY <1>1 DEF ScanType
    <3>3. QED
      BY <3>1, <3>2
  <2>3. PICK r \in ScanType : r = [q EXCEPT !.must = {}] /\ r.gone = scan.gone
    <3>1. [q EXCEPT !.must = {}] \in ScanType
      BY DEF ScanType
    <3>2. [q EXCEPT !.must = {}].gone = scan.gone
      BY <2>2 DEF ScanType
    <3>3. QED
      BY <3>1, <3>2
  <2>4. scan' = [r EXCEPT !.seen = {}]
    BY <2>1, <2>2, <2>3
  <2>5. scan' \in ScanType /\ scan'.gone = scan.gone
    BY <2>3, <2>4 DEF ScanType
  <2>6. QED
    BY <1>3, <2>5, SameConns DEF ScanEnds
<1>4. QED
  BY <1>2, <1>3

LEMMA AddActs ==
  ASSUME HubInv, NEW c \in Conns, addConnection(c)
  PROVE  /\ HubInv'
         /\ conn[c].setup = "adding" /\ conn'[c].setup = "up"
         /\ conn'[c].wire = conn[c].wire /\ Flags(conn'[c], conn[c])
         /\ \A d \in Conns : d # c => conn'[d] = conn[d]
         /\ mesh' = [mesh EXCEPT ![PeerOf[c]] = c] /\ UNCHANGED <<cast, tunnel, scan, leave>>
<1> USE PeerOfAssumption
<1>1. /\ conn[c].setup = "adding" /\ LB!Add(PeerOf[c]) /\ balanced' = TRUE
      /\ mesh' = [mesh EXCEPT ![PeerOf[c]] = c] /\ UNCHANGED <<cast, tunnel, scan, leave>>
      /\ conn' = [conn EXCEPT ![c].setup = "up", ![c].reader = "reading", ![c].listener = "waiting"]
  BY DEF addConnection
<1>2. conn \in [Conns -> ConnType] /\ mesh \in [Peers -> Conns \cup {None}] /\ PeerOf[c] \in Peers
  BY DEF HubInv, TypeOK
<1>3. PICK q \in ConnType : q = conn[c]
  BY <1>2
<1>4. PICK r \in ConnType : r.wire = q.wire /\ r.setup = "up" /\ Flags(r, q)
                            /\ conn' = [conn EXCEPT ![c] = r]
  <2>1. PICK a \in ConnType : /\ a = [q EXCEPT !.setup = "up"]
                              /\ a.wire = q.wire /\ a.setup = "up" /\ Flags(a, q)
    BY SetupField
  <2>2. PICK b \in ConnType : /\ b = [a EXCEPT !.reader = "reading"]
                              /\ b.wire = a.wire /\ b.setup = a.setup /\ Flags(b, a)
    BY ReaderField
  <2>3. PICK r \in ConnType : /\ r = [b EXCEPT !.listener = "waiting"]
                              /\ r.wire = b.wire /\ r.setup = b.setup /\ Flags(r, b)
    BY ListenerField
  <2>4. conn' = [conn EXCEPT ![c] = r]
    BY <1>1, <1>3, <2>1, <2>2, <2>3
  <2>5. QED
    BY <2>1, <2>2, <2>3, <2>4
<1>5. /\ conn' \in [Conns -> ConnType] /\ conn'[c] = r
      /\ \A d \in Conns : d # c => conn'[d] = conn[d]
  BY <1>2, <1>4
<1>6. /\ mesh' \in [Peers -> Conns \cup {None}]
      /\ mesh'[PeerOf[c]] = c /\ \A p \in Peers : p # PeerOf[c] => mesh'[p] = mesh[p]
  BY <1>1, <1>2
<1>7. BalancerInv' /\ LB!Listed' = LB!Listed \cup {PeerOf[c]}
  BY <1>1, <1>2, AddKeeps DEF HubInv
<1>8. Present' = Present \cup {PeerOf[c]}
  BY <1>2, <1>6 DEF Present
<1>9. TypeOK'
  BY <1>1, <1>5, <1>6, <1>7 DEF HubInv, TypeOK, BalancerInv
<1>10. MapInv'
  <2>1. SUFFICES ASSUME NEW p \in Peers, mesh'[p] # None
                 PROVE  PeerOf[mesh'[p]] = p /\ conn'[mesh'[p]].setup = "up"
    BY DEF MapInv
  <2>2. CASE p = PeerOf[c]
    BY <1>4, <1>5, <1>6, <2>2
  <2>3. CASE p # PeerOf[c]
    <3>1. mesh'[p] = mesh[p] /\ mesh[p] \in Conns
      BY <1>2, <1>6, <2>1, <2>3
    <3>2. PeerOf[mesh[p]] = p /\ conn[mesh[p]].setup = "up"
      BY <2>1, <3>1 DEF HubInv, MapInv
    <3>3. QED
      BY <1>4, <1>5, <3>1, <3>2
  <2>4. QED
    BY <2>2, <2>3
<1>11. BalancerMatchesMesh' /\ TriesInv'
  BY <1>1, <1>7, <1>8 DEF HubInv, BalancerMatchesMesh, TriesInv
<1>12. QED
  BY <1>1, <1>3, <1>4, <1>5, <1>7, <1>9, <1>10, <1>11 DEF HubInv

LEMMA RemoveActs ==
  ASSUME HubInv, NEW p \in Peers, removeMeshConnection(p)
  PROVE  /\ HubInv' /\ UNCHANGED <<conn, cast, tunnel, leave>>
         /\ p \in scan.gone /\ scan'.gone = scan.gone \ {p}
         /\ mesh' = [mesh EXCEPT ![p] = None]
<1> USE PeerOfAssumption
<1>1. /\ p \in scan.gone /\ LB!Remove(p) /\ mesh' = [mesh EXCEPT ![p] = None]
      /\ UNCHANGED <<conn, cast, tunnel, leave, balanced>>
  BY DEF removeMeshConnection
<1>2. mesh \in [Peers -> Conns \cup {None}] /\ scan \in ScanType
  BY DEF HubInv, TypeOK
<1>3. scan' \in ScanType /\ scan'.gone = scan.gone \ {p}
  <2>1. PICK s \in {"idle", "remove"} : scan' = [scan EXCEPT !.gone = @ \ {p}, !.pc = s]
    BY DEF removeMeshConnection
  <2>2. PICK q \in ScanType : q = [scan EXCEPT !.gone = @ \ {p}] /\ q.gone = scan.gone \ {p}
    <3>1. [scan EXCEPT !.gone = @ \ {p}] \in ScanType
      BY <1>2 DEF ScanType
    <3>2. [scan EXCEPT !.gone = @ \ {p}].gone = scan.gone \ {p}
      BY <1>2 DEF ScanType
    <3>3. QED
      BY <3>1, <3>2
  <2>3. scan' = [q EXCEPT !.pc = s]
    BY <2>1, <2>2
  <2>4. QED
    BY <2>2, <2>3 DEF ScanType
<1>4. /\ mesh' \in [Peers -> Conns \cup {None}]
      /\ mesh'[p] = None /\ \A q \in Peers : q # p => mesh'[q] = mesh[q]
  BY <1>1, <1>2
<1>5. BalancerInv' /\ LB!Listed' = LB!Listed \ {p}
  BY <1>1, RemoveKeeps DEF HubInv
<1>6. Present' = Present \ {p}
  BY <1>4 DEF Present
<1>7. TypeOK'
  BY <1>1, <1>3, <1>4, <1>5 DEF HubInv, TypeOK, BalancerInv
<1>8. BalancerMatchesMesh' /\ TriesInv'
  BY <1>1, <1>5, <1>6 DEF HubInv, BalancerMatchesMesh, TriesInv
<1>9. MapInv'
  BY <1>1, <1>4 DEF HubInv, MapInv
<1>10. QED
  BY <1>1, <1>3, <1>5, <1>7, <1>8, <1>9 DEF HubInv

\* A peer is newly to go only when its connection has been closed.
GoneClosed ==
  \A p \in scan'.gone : p \in scan.gone \/ (mesh[p] \in Conns /\ conn'[mesh[p]].wire = "closed")

\* Every step of the hub is one that adds, one that removes, or one that leaves
\* the map alone.
LEMMA HubActKinds ==
  ASSUME HubInv, HubAct
  PROVE  \/ \E c \in Conns : addConnection(c)
         \/ \E p \in Peers : removeMeshConnection(p)
         \/ /\ HubInv' /\ ConnStays /\ UNCHANGED mesh /\ GoneClosed
            /\ NonePasses \/ \E c \in Conns : setupNewConnection(c)
<1> USE DEF HubInv, ConnKeeps
<1>0. TypeOK
  OBVIOUS
<1>1. CASE \E c \in Conns :
             \/ Discovered(c) \/ Connect(c) \/ Incoming(c) \/ OutgoingHandshake(c) \/ IncomingHandshake(c)
             \/ setupNewConnection(c) \/ LockToAdd(c) \/ WireBreaks(c) \/ ReadWithdraw(c) \/ ReadFails(c)
             \/ ListenerSends(c)
  <2>1. /\ ConnStays /\ UNCHANGED <<mesh, lbVars, cast, tunnel, scan, leave>>
        /\ NonePasses \/ \E c \in Conns : setupNewConnection(c)
    BY <1>1, ConnActs
  <2>2. QED
    BY <2>1, KeepsInv DEF TypeOK, TriesInv, GoneClosed
<1>2. CASE \E m \in Broadcasts : CastBegins(m) \/ CastStep(m)
  <2>1. /\ UNCHANGED <<conn, mesh, lbVars, tunnel, scan, leave>>
        /\ cast' \in [Broadcasts -> CastType]
    BY <1>2, CastActs DEF CastBegins, CastStep, CastNext, CastWrites
  <2>2. QED
    BY <2>1, KeepsInv, SameConns DEF TypeOK, TriesInv, GoneClosed
<1>3. CASE \E t \in Tunnels : TunnelBegins(t) \/ TunnelStep(t)
  <2>1. UNCHANGED <<conn, mesh, scan>>
    BY <1>3 DEF TunnelBegins, TunnelStep, TunnelPick, TunnelGivesUp, TunnelChecks, TunnelWrites
  <2>2. QED
    BY <1>3, <2>1, TunnelActs, SameConns DEF GoneClosed
<1>4. CASE \E p \in Peers : ScanVisits(p)
  BY <1>4, VisitActs, KeepsInv DEF TypeOK, GoneClosed
<1>5. CASE ScanBegins \/ ScanEnds
  BY <1>5, ScanActs, KeepsInv DEF TypeOK, TriesInv, GoneClosed
<1>6. CASE LockToWithdraw \/ withdraw \/ WithdrawDone \/ WithdrawTimeout \/ stop
  <2>1. UNCHANGED <<mesh, lbVars, cast, tunnel, scan>>
    BY <1>6 DEF LockToWithdraw, withdraw, WithdrawDone, WithdrawTimeout, stop
  <2>2. ConnKeeps /\ leave' \in LeaveType
    BY <1>6, LeaveActs
  <2>3. QED
    BY <2>1, <2>2, KeepsInv DEF TypeOK, TriesInv, GoneClosed
<1>7. QED
  BY <1>1, <1>2, <1>3, <1>4, <1>5, <1>6 DEF HubAct, Next, SetupStep, ScanStep

LEMMA HubInitInv == Init => HubInv
<1> SUFFICES ASSUME Init PROVE HubInv
  OBVIOUS
<1> USE RetryCountAssumption DEF Init
<1>1. BalancerInv /\ LB!Listed = {}
  BY BalancerStarts
<1>2. conn \in [Conns -> ConnType]
  BY DEF ConnType
<1>3. cast \in [Broadcasts -> CastType] /\ tunnel \in [Tunnels -> TunnelType]
  BY DEF CastType, TunnelType
<1>4. scan \in ScanType /\ leave \in LeaveType
  BY DEF ScanType, LeaveType
<1>5. TypeOK
  BY <1>1, <1>2, <1>3, <1>4 DEF TypeOK, BalancerInv
<1>6. BalancerMatchesMesh /\ MapInv /\ TriesInv
  BY <1>1 DEF BalancerMatchesMesh, Present, MapInv, TriesInv
<1>7. QED
  BY <1>1, <1>5, <1>6 DEF HubInv

LEMMA HubStepInv == HubInv /\ [HubAct]_vars => HubInv'
<1> SUFFICES ASSUME HubInv, [HubAct]_vars PROVE HubInv'
  OBVIOUS
<1>1. CASE HubAct
  BY <1>1, HubActKinds, AddActs, RemoveActs
<1>2. CASE UNCHANGED vars
  BY <1>2, KeepsInv, SameConns DEF vars, HubInv, TypeOK, TriesInv, ConnKeeps
<1>3. QED
  BY <1>1, <1>2

\* MeshInvariant for any peers, connections, broadcasts and tunnels: map and
\* balancer agree, the index is in range, and the turns go round, even when two
\* connections to a peer are added.
THEOREM MeshCorrect == Spec => []MeshInvariant
<1>1. HubInv => MeshInvariant
  BY BalancerIsSound DEF HubInv, MeshInvariant, IndexInBounds, RoundRobin
<1>2. HubInv /\ [Next]_vars => HubInv'
  BY HubStepInv DEF HubAct
<1>3. QED
  BY HubInitInv, <1>1, <1>2, PTL DEF Spec

-----------------------------------------------------------------------------
(* The hub: no handler out of reach *)

\* A connection that passed the check alone is alone until it leaves the map, and
\* finds no entry for its peer when it is added.
RaceInv ==
  \A c \in Conns : ~conn[c].raced =>
    /\ Past(conn[c]) => mesh[PeerOf[c]] = None
    /\ Past(conn[c]) \/ (conn[c].setup = "up" /\ mesh[PeerOf[c]] = c) => Rivals(c) = {}

\* The peers that are to go have connections, which are closed or have raced.
GoneInv ==
  \A p \in scan.gone : mesh[p] \in Conns /\ (conn[mesh[p]].wire = "closed" \/ conn[mesh[p]].raced)

ReachInv == NoOrphanHandler /\ RaceInv /\ GoneInv

\* What the map forgets is closed or has raced, in one step.
ForgetsClosed ==
  \A p \in Peers : mesh[p] # None /\ mesh'[p] # mesh[p] =>
    conn[mesh[p]].wire = "closed" \/ conn[mesh[p]].raced

\* A connection that is added over another one has raced, and so has the other.
LEMMA AddRaces ==
  ASSUME HubInv, RaceInv, NEW c \in Conns, conn[c].setup = "adding", mesh[PeerOf[c]] # None
  PROVE  conn[c].raced /\ mesh[PeerOf[c]] \in Conns \ {c} /\ conn[mesh[PeerOf[c]]].raced
<1> USE PeerOfAssumption
<1>1. conn[c].raced
  BY DEF RaceInv, Past
<1>2. PICK d \in Conns : d = mesh[PeerOf[c]]
  BY DEF HubInv, TypeOK
<1>3. PeerOf[d] = PeerOf[c] /\ conn[d].setup = "up" /\ d # c
  BY <1>2 DEF HubInv, MapInv
<1>4. c \in Rivals(d)
  BY <1>3 DEF Rivals
<1>5. conn[d].raced
  BY <1>2, <1>3, <1>4 DEF RaceInv
<1>6. QED
  BY <1>1, <1>2, <1>3, <1>5

LEMMA ReachStep ==
  ASSUME HubInv, ReachInv, HubAct
  PROVE  ReachInv' /\ ForgetsClosed
<1> USE PeerOfAssumption DEF ReachInv
<1>1. mesh \in [Peers -> Conns \cup {None}] /\ scan.gone \subseteq Peers
  BY DEF HubInv, TypeOK, ScanType
<1>2. ASSUME NEW c \in Conns, addConnection(c)
      PROVE  ReachInv' /\ ForgetsClosed
  <2>1. conn[c].setup = "adding" /\ PeerOf[c] \in Peers
    BY <1>2 DEF addConnection
  <2>2. /\ conn'[c].setup = "up" /\ conn'[c].wire = conn[c].wire /\ Flags(conn'[c], conn[c])
        /\ \A d \in Conns : d # c => conn'[d] = conn[d]
        /\ mesh' = [mesh EXCEPT ![PeerOf[c]] = c] /\ scan' = scan
    BY <1>2, AddActs
  <2>3. mesh'[PeerOf[c]] = c /\ \A p \in Peers : p # PeerOf[c] => mesh'[p] = mesh[p]
    BY <1>1, <2>1, <2>2
  <2>4. mesh[PeerOf[c]] # None =>
          conn[c].raced /\ mesh[PeerOf[c]] \in Conns \ {c} /\ conn[mesh[PeerOf[c]]].raced
    BY <2>1, AddRaces
  <2>5. ForgetsClosed
    <3>1. SUFFICES ASSUME NEW p \in Peers, mesh[p] # None, mesh'[p] # mesh[p]
                   PROVE  conn[mesh[p]].raced
      BY DEF ForgetsClosed
    <3>2. p = PeerOf[c]
      BY <2>3, <3>1
    <3>3. QED
      BY <2>4, <3>1, <3>2
  <2>6. ASSUME NEW d \in Conns, conn'[d].setup = "up", conn'[d].wire = "open", ~conn'[d].raced
        PROVE  mesh'[PeerOf[d]] = d
    <3>1. CASE d = c
      BY <2>3, <3>1
    <3>2. CASE d # c
      <4>1. mesh[PeerOf[d]] = d /\ ~conn[d].raced
        BY <2>2, <2>6, <3>2 DEF NoOrphanHandler
      <4>2. PeerOf[d] # PeerOf[c] /\ PeerOf[d] \in Peers
        BY <2>4, <4>1
      <4>3. QED
        BY <2>3, <4>1, <4>2
    <3>3. QED
      BY <3>1, <3>2
  <2>7. ASSUME NEW d \in Conns, ~conn'[d].raced
        PROVE  /\ Past(conn'[d]) => mesh'[PeerOf[d]] = None
               /\ Past(conn'[d]) \/ (conn'[d].setup = "up" /\ mesh'[PeerOf[d]] = d) => Rivals(d)' = {}
    <3>1. Rivals(d)' \subseteq Rivals(d)
      BY <2>1, <2>2 DEF Rivals
    <3>2. CASE d = c
      <4>1. Rivals(c) = {}
        BY <2>1, <2>2, <2>7, <3>2 DEF RaceInv, Past
      <4>2. ~Past(conn'[c])
        BY <2>2 DEF Past
      <4>3. QED
        BY <3>1, <3>2, <4>1, <4>2
    <3>3. CASE d # c
      <4>1. conn'[d] = conn[d] /\ PeerOf[d] \in Peers
        BY <2>2, <3>3
      <4>2. PeerOf[d] = PeerOf[c] => mesh'[PeerOf[d]] # d /\ c \in Rivals(d)
        BY <2>1, <2>3, <3>3 DEF Rivals
      <4>3. QED
        BY <2>3, <2>7, <3>1, <4>1, <4>2 DEF RaceInv
    <3>4. QED
      BY <3>2, <3>3
  <2>8. ASSUME NEW p \in scan'.gone
        PROVE  mesh'[p] \in Conns /\ (conn'[mesh'[p]].wire = "closed" \/ conn'[mesh'[p]].raced)
    <3>1. p \in Peers /\ mesh[p] \in Conns /\ (conn[mesh[p]].wire = "closed" \/ conn[mesh[p]].raced)
      BY <1>1, <2>2, <2>8 DEF GoneInv
    <3>2. CASE p = PeerOf[c]
      BY <2>2, <2>3, <2>4, <3>1, <3>2
    <3>3. CASE p # PeerOf[c]
      <4>1. mesh'[p] = mesh[p]
        BY <2>3, <3>1, <3>3
      <4>2. CASE mesh[p] = c
        BY <2>2, <3>1, <4>1, <4>2
      <4>3. CASE mesh[p] # c
        BY <2>2, <3>1, <4>1, <4>3
      <4>4. QED
        BY <4>2, <4>3
    <3>4. QED
      BY <3>2, <3>3
  <2>9. NoOrphanHandler'
    BY <2>6 DEF NoOrphanHandler
  <2>10. RaceInv'
    BY <2>7 DEF RaceInv
  <2>11. QED
    BY <2>5, <2>8, <2>9, <2>10 DEF GoneInv
<1>3. ASSUME NEW p \in Peers, removeMeshConnection(p)
      PROVE  ReachInv' /\ ForgetsClosed
  <2>1. /\ conn' = conn /\ p \in scan.gone /\ scan'.gone = scan.gone \ {p}
        /\ mesh' = [mesh EXCEPT ![p] = None]
    BY <1>3, RemoveActs
  <2>2. mesh'[p] = None /\ \A q \in Peers : q # p => mesh'[q] = mesh[q]
    BY <1>1, <2>1
  <2>3. mesh[p] \in Conns /\ (conn[mesh[p]].wire = "closed" \/ conn[mesh[p]].raced)
    BY <2>1 DEF GoneInv
  <2>4. ASSUME NEW d \in Conns, conn[d].setup = "up", conn[d].wire = "open", ~conn[d].raced
        PROVE  mesh'[PeerOf[d]] = d
    <3>1. mesh[PeerOf[d]] = d /\ PeerOf[d] \in Peers
      BY <2>4 DEF NoOrphanHandler
    <3>2. PeerOf[d] # p
      BY <2>3, <2>4, <3>1
    <3>3. QED
      BY <2>2, <3>1, <3>2
  <2>5. NoOrphanHandler'
    BY <2>1, <2>4 DEF NoOrphanHandler
  <2>6. RaceInv'
    <3>1. ASSUME NEW d \in Conns
          PROVE  /\ mesh[PeerOf[d]] = None => mesh'[PeerOf[d]] = None
                 /\ mesh'[PeerOf[d]] = d => mesh[PeerOf[d]] = d
                 /\ Rivals(d)' = Rivals(d)
      BY <2>1, <2>2 DEF Rivals
    <3>2. QED
      BY <2>1, <3>1 DEF RaceInv
  <2>7. GoneInv' /\ ForgetsClosed
    BY <1>1, <2>1, <2>2, <2>3 DEF GoneInv, ForgetsClosed
  <2>8. QED
    BY <2>5, <2>6, <2>7
<1>4. ASSUME ConnStays, UNCHANGED mesh, GoneClosed
      PROVE  NoOrphanHandler' /\ GoneInv' /\ ForgetsClosed
  <2>1. NoOrphanHandler'
    BY <1>4 DEF NoOrphanHandler, ConnStays
  <2>2. GoneInv'
    BY <1>4 DEF GoneInv, GoneClosed, ConnStays
  <2>3. QED
    BY <1>4, <2>1, <2>2 DEF ForgetsClosed
<1>5. ASSUME ConnStays, NonePasses, UNCHANGED mesh
      PROVE  RaceInv'
  <2>1. ASSUME NEW c \in Conns PROVE Rivals(c)' \subseteq Rivals(c)
    BY <1>5 DEF Rivals, NonePasses, Past
  <2>2. ASSUME NEW c \in Conns, ~conn'[c].raced
        PROVE  /\ ~conn[c].raced /\ (Past(conn'[c]) => Past(conn[c]))
               /\ conn'[c].setup = "up" => conn[c].setup = "up"
    BY <1>5, <2>2 DEF ConnStays, NonePasses
  <2>3. QED
    BY <1>5, <2>1, <2>2 DEF RaceInv
<1>6. ASSUME NEW c \in Conns, setupNewConnection(c), conn' = Passed(c), mesh[PeerOf[c]] = None
      PROVE  RaceInv'
  <2>1. mesh' = mesh /\ conn[c].setup = "shaken"
    BY <1>6 DEF setupNewConnection
  <2>2. /\ ConnStays /\ conn'[c].setup = "checked" /\ (conn'[c].raced \/ Rivals(c) = {})
        /\ \A d \in Conns \ {c} : conn'[d].setup = conn[d].setup /\ (conn'[d].raced \/ d \notin Rivals(c))
    BY <1>6, <2>1, PassActs
  <2>3. ASSUME NEW d \in Conns, ~conn'[d].raced
        PROVE  /\ Past(conn'[d]) => mesh'[PeerOf[d]] = None
               /\ Past(conn'[d]) \/ (conn'[d].setup = "up" /\ mesh'[PeerOf[d]] = d) => Rivals(d)' = {}
    <3>1. CASE d = c
      <4>1. Rivals(c)' = Rivals(c)
        BY <2>2 DEF Rivals
      <4>2. QED
        BY <1>6, <2>1, <2>2, <2>3, <3>1, <4>1
    <3>2. CASE d # c
      <4>1. conn'[d].setup = conn[d].setup /\ d \notin Rivals(c) /\ ~conn[d].raced
        BY <2>2, <2>3, <3>2 DEF ConnStays
      <4>2. Past(conn'[d]) = Past(conn[d])
        BY <4>1 DEF Past
      <4>3. CASE PeerOf[d] = PeerOf[c]
        <5>1. ~Past(conn[d])
          BY <3>2, <4>1, <4>3 DEF Rivals, Past
        <5>2. QED
          BY <1>6, <2>1, <4>2, <4>3, <5>1
      <4>4. CASE PeerOf[d] # PeerOf[c]
        <5>1. Rivals(d)' = Rivals(d)
          BY <2>2, <4>4 DEF Rivals
        <5>2. QED
          BY <2>1, <4>1, <4>2, <5>1 DEF RaceInv
      <4>5. QED
        BY <4>3, <4>4
    <3>3. QED
      BY <3>1, <3>2
  <2>4. QED
    BY <2>3 DEF RaceInv
<1>7. ASSUME NEW c \in Conns, setupNewConnection(c), ConnStays
      PROVE  RaceInv'
  <2>1. CASE connectionExists(c)
    <3>1. ConnKeeps /\ UNCHANGED mesh
      BY <1>7, <2>1, ConnMoves DEF setupNewConnection, HubInv, TypeOK
    <3>2. QED
      BY <1>5, <3>1 DEF ConnKeeps
  <2>2. CASE ~connectionExists(c)
    BY <1>6, <1>7, <2>2 DEF setupNewConnection, connectionExists
  <2>3. QED
    BY <2>1, <2>2
<1>8. QED
  BY <1>2, <1>3, <1>4, <1>5, <1>7, HubActKinds

LEMMA ReachStepInv ==
  ASSUME HubInv, ReachInv, [HubAct]_vars
  PROVE  ReachInv' /\ [ForgetsClosed]_vars
<1>1. CASE UNCHANGED vars
  BY <1>1 DEF vars, ReachInv, NoOrphanHandler, RaceInv, Rivals, GoneInv
<1>2. CASE HubAct
  BY <1>2, ReachStep
<1>3. QED
  BY <1>1, <1>2

LEMMA ReachInit == Init => ReachInv
  BY DEF Init, ReachInv, NoOrphanHandler, RaceInv, Past, GoneInv

\* A handler whose connection is open is in the map, where the scanner, withdraw
\* and stop find it, unless its connection was between check and insertion at the
\* same time as another one to its peer; peers may come back as often as they like.
THEOREM NoOrphanCorrect == Spec => []NoOrphanHandler
<1>1. HubInv /\ [Next]_vars => HubInv'
  BY HubStepInv DEF HubAct
<1>2. HubInv /\ ReachInv /\ [Next]_vars => ReachInv'
  BY ReachStepInv DEF HubAct
<1>3. ReachInv => NoOrphanHandler
  BY DEF ReachInv
<1>4. QED
  BY HubInitInv, ReachInit, <1>1, <1>2, <1>3, PTL DEF Spec

\* The map only forgets connections that are closed, or that raced in this way.
THEOREM ForgetsOnlyClosed == Spec => RemovedIsClosed
<1>1. HubInv /\ [Next]_vars => HubInv'
  BY HubStepInv DEF HubAct
<1>2. HubInv /\ ReachInv /\ [Next]_vars => ReachInv' /\ [ForgetsClosed]_vars
  BY ReachStepInv DEF HubAct
<1>3. [ForgetsClosed]_vars =>
        [\A p \in Peers : mesh[p] # None /\ mesh'[p] # mesh[p] =>
            conn[mesh[p]].wire = "closed" \/ conn[mesh[p]].raced]_vars
  BY DEF ForgetsClosed
<1>4. QED
  BY HubInitInv, ReachInit, <1>1, <1>2, <1>3, PTL DEF Spec, RemovedIsClosed

-----------------------------------------------------------------------------
(* The process that leaves *)

\* What withdraw found is closed, has raced, or is still in the map, where stop will
\* find it; stop has closed it.  If withdraw did not time out, it was all done.
AwaitInv ==
  /\ \A c \in leave.awaited : conn[c].wire = "closed" \/ conn[c].raced \/ mesh[PeerOf[c]] = c
  /\ leave.pc \in {"stopped", "cutoff"} =>
       \A c \in leave.awaited : conn[c].wire = "closed" \/ conn[c].raced
  /\ leave.pc \in {"done", "stopped"} => \A c \in leave.awaited : conn[c].done

\* Where main is tells what has been stopped; only a process with a monitor has a
\* file to delete.
MainInv ==
  /\ transport /\ main \in {"deleting", "closing", "exited"} => leave.pc \in {"stopped", "cutoff"}
  /\ main \in {"shutdown", "withdrawing", "deleting", "closing", "exited", "panicked"}
       => monitor \in {"none", "stopped"}
  /\ monitor = "none" => file = "none"
  /\ file = "deleted" => monitor = "stopped"

LEMMA LeaveKinds ==
  ASSUME HubInv, HubAct
  PROVE  \/ leave' = leave
         \/ withdraw \/ stop
         \/ /\ leave'.awaited = leave.awaited /\ leave.pc \notin {"stopped", "cutoff"} /\ conn' = conn
            /\ leave'.pc \notin {"stopped", "cutoff"}
            /\ leave'.pc = "done" => \A c \in leave.awaited : conn[c].done
<1>1. CASE LockToWithdraw \/ WithdrawDone \/ WithdrawTimeout
  BY <1>1 DEF LockToWithdraw, WithdrawDone, WithdrawTimeout, HubInv, TypeOK, LeaveType
<1>2. CASE \E c \in Conns :
             \/ Discovered(c) \/ Connect(c) \/ Incoming(c) \/ OutgoingHandshake(c) \/ IncomingHandshake(c)
             \/ setupNewConnection(c) \/ LockToAdd(c) \/ WireBreaks(c) \/ ReadWithdraw(c) \/ ReadFails(c)
             \/ ListenerSends(c)
  BY <1>2, ConnActs
<1>3. CASE \E c \in Conns : addConnection(c)
  BY <1>3 DEF addConnection
<1>4. CASE \E m \in Broadcasts : CastBegins(m) \/ CastStep(m)
  BY <1>4 DEF CastBegins, CastStep, CastNext, CastWrites
<1>5. CASE \E t \in Tunnels : TunnelBegins(t) \/ TunnelStep(t)
  BY <1>5 DEF TunnelBegins, TunnelStep, TunnelPick, TunnelGivesUp, TunnelChecks, TunnelWrites
<1>6. CASE ScanStep
  BY <1>6 DEF ScanStep, ScanBegins, ScanVisits, removeMeshConnection, ScanEnds
<1>7. QED
  BY <1>1, <1>2, <1>3, <1>4, <1>5, <1>6 DEF HubAct, Next, SetupStep

LEMMA AwaitStep ==
  ASSUME HubInv, ReachInv, AwaitInv, HubAct
  PROVE  AwaitInv'
<1> USE PeerOfAssumption
<1>1. leave.awaited \subseteq Conns /\ mesh \in [Peers -> Conns \cup {None}]
  BY DEF HubInv, TypeOK, LeaveType
<1>2. ASSUME NEW c \in Conns
      PROVE  (conn[c].wire = "closed" => conn'[c].wire = "closed") /\ Flags(conn'[c], conn[c])
  <2>1. ASSUME NEW d \in Conns, addConnection(d)
        PROVE  conn'[c].wire = conn[c].wire /\ Flags(conn'[c], conn[c])
    BY <2>1, AddActs
  <2>2. QED
    BY <2>1, HubActKinds, RemoveActs DEF ConnStays
<1>3. ForgetsClosed
  BY ReachStep
<1>4. ASSUME NEW c \in leave.awaited
      PROVE  conn'[c].wire = "closed" \/ conn'[c].raced \/ mesh'[PeerOf[c]] = c
  <2>1. c \in Conns /\ PeerOf[c] \in Peers
    BY <1>1
  <2>2. CASE mesh[PeerOf[c]] = c /\ mesh'[PeerOf[c]] # c
    <3>1. conn[c].wire = "closed" \/ conn[c].raced
      BY <1>3, <2>1, <2>2 DEF ForgetsClosed
    <3>2. QED
      BY <1>2, <2>1, <3>1
  <2>3. QED
    BY <1>2, <2>1, <2>2 DEF AwaitInv
<1>5. CASE leave' = leave
  BY <1>1, <1>2, <1>4, <1>5 DEF AwaitInv
<1>6. CASE /\ leave'.awaited = leave.awaited /\ leave'.pc \notin {"stopped", "cutoff"} /\ conn' = conn
           /\ leave'.pc = "done" => \A c \in leave.awaited : conn[c].done
  BY <1>4, <1>6 DEF AwaitInv
<1>7. CASE withdraw
  <2>1. leave'.pc = "waiting" /\ leave'.awaited = {mesh[p] : p \in Present} /\ mesh' = mesh
    BY <1>7 DEF withdraw
  <2>2. ASSUME NEW c \in leave'.awaited
        PROVE  mesh'[PeerOf[c]] = c
    <3>1. PICK p \in Present : c = mesh[p]
      BY <2>1
    <3>2. p \in Peers /\ mesh[p] # None /\ PeerOf[c] = p
      BY <3>1 DEF Present, HubInv, MapInv
    <3>3. QED
      BY <2>1, <3>1, <3>2
  <2>3. QED
    BY <2>1, <2>2 DEF AwaitInv
<1>8. CASE stop
  <2>1. /\ \A c \in Conns : mesh[PeerOf[c]] = c => conn'[c].wire = "closed"
        /\ leave'.awaited = leave.awaited
        /\ leave'.pc = IF leave.pc = "done" THEN "stopped" ELSE "cutoff"
    BY <1>8, LeaveActs DEF stop, HubInv, TypeOK, LeaveType
  <2>2. ASSUME NEW c \in leave.awaited PROVE conn'[c].wire = "closed" \/ conn'[c].raced
    BY <1>1, <1>2, <2>1 DEF AwaitInv
  <2>3. leave.pc = "done" => \A c \in leave.awaited : conn'[c].done
    BY <1>1, <1>2 DEF AwaitInv
  <2>4. QED
    BY <1>4, <2>1, <2>2, <2>3 DEF AwaitInv
<1>9. QED
  BY <1>5, <1>6, <1>7, <1>8, LeaveKinds

\* What the process does to its hub.
LEMMA SatActs == SatNext => [HubAct]_vars
  BY DEF SatNext, HubStep, HubAct, Next, SetupStep, LeaveStep, ScanStep, Alive, ServerStarts, setupBus,
         MonitorFinds, MonitorExpires, FileRemoved, Signal, MainStep, ServerError, Stop,
         ShutdownBegins, StopsBus, Delete, CloseServer

LEMMA MainStepInv ==
  ASSUME HubInv, SatTypeOK, MainInv, [SatNext]_procVars
  PROVE  SatTypeOK' /\ MainInv'
<1> USE DEF SatTypeOK, MainInv
<1>1. CASE HubStep /\ Alive
  <2>1. HubAct
    BY <1>1 DEF HubStep, HubAct, Next, SetupStep, LeaveStep, ScanStep
  <2>2. leave.pc \in {"stopped", "cutoff"} => leave' = leave
    BY <2>1, LeaveKinds DEF withdraw, stop
  <2>3. QED
    BY <1>1, <2>2 DEF Alive, satVars
<1>2. CASE ServerStarts
  BY <1>2 DEF ServerStarts, vars
<1>3. CASE setupBus \/ MonitorFinds \/ MonitorExpires \/ FileRemoved
  BY <1>3 DEF setupBus, MonitorFinds, MonitorExpires, FileRemoved, Ended, vars
<1>4. CASE Signal \/ ServerError \/ Stop
  BY <1>4 DEF Signal, ServerError, Stop, vars
<1>5. CASE ShutdownBegins
  BY <1>5 DEF ShutdownBegins, LockToWithdraw, vars
<1>6. CASE StopsBus
  <2>1. leave'.pc \in {"stopped", "cutoff"}
    BY <1>6 DEF StopsBus, stop, HubInv, TypeOK, LeaveType
  <2>2. QED
    BY <1>6, <2>1 DEF StopsBus
<1>7. CASE Delete
  BY <1>7 DEF Delete, vars
<1>8. CASE CloseServer
  BY <1>8 DEF CloseServer, vars
<1>9. CASE UNCHANGED procVars
  BY <1>9 DEF procVars, satVars, vars
<1>10. QED
  BY <1>1, <1>2, <1>3, <1>4, <1>5, <1>6, <1>7, <1>8, <1>9 DEF SatNext, MainStep

SatInv == HubInv /\ ReachInv /\ AwaitInv /\ SatTypeOK /\ MainInv

LEMMA SatInitInv == SatInit => SatInv
  BY HubInitInv, ReachInit DEF SatInit, SatInv, Init, AwaitInv, SatTypeOK, MainInv

LEMMA SatStepInv == SatInv /\ [SatNext]_procVars => SatInv'
<1> SUFFICES ASSUME SatInv, [SatNext]_procVars PROVE SatInv'
  OBVIOUS
<1> USE DEF SatInv
<1>1. SatTypeOK' /\ MainInv'
  BY MainStepInv
<1>2. [HubAct]_vars
  BY SatActs DEF procVars
<1>3. HubInv' /\ ReachInv'
  BY <1>2, HubStepInv, ReachStepInv
<1>4. AwaitInv'
  <2>1. CASE UNCHANGED vars
    BY <2>1 DEF vars, AwaitInv
  <2>2. CASE ~UNCHANGED vars
    BY <1>2, <2>2, AwaitStep
  <2>3. QED
    BY <2>1, <2>2
<1>5. QED
  BY <1>1, <1>3, <1>4

\* A process that shuts down in order has closed every connection that Withdraw
\* found before its server closes, whatever failed, was sent, scanned or came up in
\* between, unless the connection raced with a duplicate; unless Withdraw timed out,
\* each had sent its withdraw message or had its error taken; and its monitor never
\* takes the deletion of the file for its removal by somebody else.
THEOREM ExitIsOrderlyCorrect == FairSatSpec => []ExitIsOrderly
<1>1. SatInv => ExitIsOrderly
  BY BalancerIsSound
  DEF SatInv, HubInv, AwaitInv, MainInv, ExitIsOrderly, MeshInvariant, IndexInBounds, RoundRobin
<1>2. QED
  BY SatInitInv, SatStepInv, <1>1, PTL DEF FairSatSpec, SatSpec
=============================================================================
