---------------------------- MODULE ActivityProofs --------------------------
(***************************************************************************)
(* Proofs about Activity, for any finite sets of hosts and requests, any   *)
(* other log entries, any capacity of the map, the ring and the buffer.    *)
(***************************************************************************)
EXTENDS Activity, FoldLemmas

\* Who has still to get an object to count in.
Early == {"serving", "stamped", "evicting", "creating"}

\* StatsTracker.mu is held by who makes room or creates, and by nobody else.
HoldsMu ==
    \A q \in Requests : pc[q] \in {"evicting", "creating"} <=> mu = q

\* What the holder knows of the map: its host is not in it, the scan has only
\* seen routes that are still there, and once room was made there is room.
HolderKnows ==
    \A q \in Requests :
      /\ pc[q] \in {"evicting", "creating"} => routes[host[q]] = None
      /\ pc[q] = "evicting" =>
           /\ Cardinality(Mapped) >= MaxRoutes
           /\ scan[q].seen \subseteq Mapped
           /\ scan[q] = NoScan \/ scan[q].oldest \in scan[q].seen
      /\ pc[q] # "evicting" => scan[q] = NoScan
      /\ pc[q] = "creating" => Cardinality(Mapped) < MaxRoutes

\* What StatsTracker keeps under its mutex.
MapInv == TypeOK /\ HoldsMu /\ HolderKnows /\ RoutesBounded

\* An object whose request has not created it is empty, and nobody has it.
FreshObjects ==
    \A o \in Requests : pc[o] \in Early =>
      /\ stats[o].total = 0
      /\ \A h \in Hosts : routes[h] # o
      /\ \A q \in Requests : object[q] # o

\* Objects count requests of one host, the one of the request that made them.
ObjectsBelong ==
    /\ \A h \in Hosts : routes[h] # None => host[routes[h]] = h
    /\ \A q \in Requests : pc[q] = "found" =>
         object[q] \in Requests /\ host[object[q]] = host[q]

\* A host that was never dropped has one object, in which all its requests
\* are counted.
OneObject ==
    \A h \in Hosts \ dropped, q \in Requests :
        host[q] = h /\ pc[q] \in {"found", "done"} =>
          /\ routes[h] # None
          /\ pc[q] = "found" => object[q] = routes[h]

\* The invariant of the statistics.
IInv ==
    /\ MapInv
    /\ FreshObjects /\ ObjectsBelong /\ OneObject /\ NoRequestLost

-----------------------------------------------------------------------------
(* Types.                                                                  *)

\* None is no host and no request.
LEMMA NoneIsNothing == None \notin Hosts /\ None \notin Requests
  BY NoneAssumption

\* Each step keeps the types.
LEMMA ServeType ==
  ASSUME TypeOK, NEW q \in Requests, Serve(q)
  PROVE  TypeOK'
<1>1. statusCode' \in [Requests -> Statuses] /\ failed' \in [Requests -> BOOLEAN]
  BY DEF Serve, TypeOK, Statuses
<1>2. now' \in [Requests -> Time] /\ pc' \in [Requests -> PCs]
  BY DEF Serve, TypeOK, Goto, PCs
<1> QED  BY <1>1, <1>2 DEF Serve, TypeOK

LEMMA LookupType ==
  ASSUME TypeOK, NEW q \in Requests, Lookup(q)
  PROVE  TypeOK'
<1>1. host[q] \in Hosts /\ routes[host[q]] \in Requests \cup {None}  BY DEF TypeOK
<1>2. object' \in [Requests -> Requests \cup {None}] /\ mu' \in Requests \cup {None}
  BY <1>1 DEF Lookup, TypeOK
<1>3. pc' \in [Requests -> PCs]  BY DEF Lookup, TypeOK, Goto, PCs
<1> QED  BY <1>2, <1>3 DEF Lookup, TypeOK, history

LEMMA ScanType ==
  ASSUME TypeOK, NEW q \in Requests, Scan(q)
  PROVE  TypeOK'
<1>1. PICK h \in Mapped \ scan[q].seen :
        LET last == stats[routes[h]].lastSeen
            seen == scan[q].seen \cup {h}
        IN scan' = [scan EXCEPT ![q] =
                      IF @.oldest = None \/ last < @.at
                        THEN [seen |-> seen, oldest |-> h, at |-> last]
                        ELSE [@ EXCEPT !.seen = seen]]
  BY DEF Scan
<1>2. h \in Hosts /\ routes[h] \in Requests  BY DEF Mapped, TypeOK
<1>3. stats[routes[h]].lastSeen \in Int  BY <1>2 DEF TypeOK, Counters
<1> DEFINE S == [seen : SUBSET Hosts, oldest : Hosts \cup {None}, at : Int]
           next == IF scan[q].oldest = None \/ stats[routes[h]].lastSeen < scan[q].at
                     THEN [seen |-> scan[q].seen \cup {h}, oldest |-> h,
                           at |-> stats[routes[h]].lastSeen]
                     ELSE [scan[q] EXCEPT !.seen = scan[q].seen \cup {h}]
<1>4. scan \in [Requests -> S] /\ scan[q] \in S  BY DEF TypeOK
<1>5. scan' = [scan EXCEPT ![q] = next]  BY <1>1, <1>4
<1>6. next \in S
  <2>1. scan[q].seen \cup {h} \in SUBSET Hosts  BY <1>2, <1>4
  <2>2. [seen |-> scan[q].seen \cup {h}, oldest |-> h,
         at |-> stats[routes[h]].lastSeen] \in S
    BY <1>2, <1>3, <2>1
  <2>3. [scan[q] EXCEPT !.seen = scan[q].seen \cup {h}] \in S  BY <1>4, <2>1
  <2> QED  BY <2>2, <2>3
<1>7. scan' \in [Requests -> S]
  <2> HIDE DEF next, S
  <2> QED  BY <1>4, <1>5, <1>6
<1> QED  BY <1>7 DEF Scan, TypeOK, history

\* The scan of a full map has seen a route, so there is an oldest one.
LEMMA SomeOldest ==
  ASSUME MapInv, NEW q \in Requests, Evict(q)
  PROVE  scan[q].oldest \in Mapped
<1>1. Cardinality(Mapped) >= MaxRoutes /\ scan[q].seen = Mapped
  BY DEF MapInv, HolderKnows, Evict
<1>2. CASE Mapped = {}
  <2>1. Cardinality(Mapped) = 0  BY <1>2, FS_EmptySet
  <2> QED  BY <2>1, <1>1, RoutesAssumption
<1>3. CASE Mapped # {}
  BY <1>1, <1>3 DEF MapInv, HolderKnows, Evict, NoScan
<1> QED  BY <1>2, <1>3

LEMMA EvictType ==
  ASSUME MapInv, NEW q \in Requests, Evict(q)
  PROVE  TypeOK'
<1>1. TypeOK /\ scan[q].oldest \in Hosts  BY SomeOldest DEF MapInv, Mapped
<1>2. routes' \in [Hosts -> Requests \cup {None}] /\ dropped' \in SUBSET Hosts
  BY <1>1 DEF Evict, TypeOK
<1>3. scan' \in [Requests -> [seen : SUBSET Hosts, oldest : Hosts \cup {None},
                              at : Int]]
  BY <1>1 DEF Evict, TypeOK, NoScan
<1>4. pc' \in [Requests -> PCs]  BY <1>1 DEF Evict, TypeOK, Goto, PCs
<1> QED  BY <1>1, <1>2, <1>3, <1>4 DEF Evict, TypeOK

LEMMA CreateType ==
  ASSUME TypeOK, NEW q \in Requests, Create(q)
  PROVE  TypeOK'
<1>1. pc' \in [Requests -> PCs]  BY DEF Create, TypeOK, Goto, PCs
<1>2. /\ routes' \in [Hosts -> Requests \cup {None}]
      /\ object' \in [Requests -> Requests \cup {None}]
      /\ mu' \in Requests \cup {None}
  BY DEF Create, TypeOK
<1> QED  BY <1>1, <1>2 DEF Create, TypeOK, history

LEMMA SlotType == ASSUME NEW t \in Nat PROVE Slot(t) \in 0..Buckets - 1
  BY BucketsAssumption DEF Slot

\* What a bucket counts is changed, and what it is of is not.
LEMMA CountedInBucket ==
  ASSUME NEW b \in Bucket, NEW e \in Nat
  PROVE  [b EXCEPT !.requests = @ + 1, !.errors = @ + e] \in Bucket
<1> DEFINE c == [b EXCEPT !.requests = @ + 1]
<1>1. b.requests + 1 \in Nat  BY DEF Bucket
<1>2. c \in Bucket  BY <1>1 DEF Bucket
<1>3. c.errors + e \in Nat  BY <1>2 DEF Bucket
<1>4. [c EXCEPT !.errors = @ + e] \in Bucket
  <2> HIDE DEF c
  <2> QED  BY <1>2, <1>3 DEF Bucket
<1> QED  BY <1>4

\* A request that is counted has an object to be counted in.
LEMMA RecordEventType ==
  ASSUME TypeOK, NEW q \in Requests, RecordEvent(q), object[q] \in Requests
  PROVE  /\ TypeOK'
         /\ stats'[object[q]].total = stats[object[q]].total + 1
         /\ \A o \in Requests : o # object[q] => stats'[o] = stats[o]
<1> DEFINE o == object[q]
           t == now[q]
           b == Zeroed(stats[o].buckets[Slot(t)], t)
           counted == [b EXCEPT !.requests = @ + 1, !.errors = @ + ErrorCount(q)]
           after == [buckets  |-> [stats[o].buckets EXCEPT ![Slot(t)] = counted],
                     total    |-> stats[o].total + 1,
                     errors   |-> stats[o].errors + ErrorCount(q),
                     lastSeen |-> t]
<1>1. o \in Requests /\ t \in Time /\ t \in Nat /\ Slot(t) \in 0..Buckets - 1
  BY SlotType, TimeAssumption DEF TypeOK, Time
<1>2. stats[o] \in Counters  BY <1>1 DEF TypeOK
<1>3. ErrorCount(q) \in Nat  BY DEF ErrorCount
<1>4. stats[o].buckets[Slot(t)] \in Bucket  BY <1>1, <1>2 DEF Counters
<1>5. b \in Bucket  BY <1>1, <1>4 DEF Zeroed, Bucket
<1>6. counted \in Bucket
  <2> HIDE DEF b
  <2> QED  BY <1>3, <1>5, CountedInBucket
<1>7. after \in Counters
  <2> HIDE DEF counted
  <2>1. stats[o].buckets \in [0..Buckets - 1 -> Bucket]  BY <1>2 DEF Counters
  <2>2. [stats[o].buckets EXCEPT ![Slot(t)] = counted] \in [0..Buckets - 1 -> Bucket]
    BY <1>6, <2>1
  <2>3. stats[o].total + 1 \in Nat /\ stats[o].errors + ErrorCount(q) \in Nat
    BY <1>2, <1>3 DEF Counters
  <2>4. t \in Int  BY <1>1
  <2> QED  BY <2>2, <2>3, <2>4 DEF Counters
<1>8. stats' = [stats EXCEPT ![o] = after]
  BY <1>1 DEF RecordEvent, TypeOK
<1>9. stats' \in [Requests -> Counters]
  <2> HIDE DEF after
  <2> QED  BY <1>1, <1>7, <1>8 DEF TypeOK
<1>10. events' \in [Requests -> [Time -> Nat]]
  <2>1. events[o] \in [Time -> Nat] /\ events[o][t] \in Nat  BY <1>1 DEF TypeOK
  <2>2. events' = [events EXCEPT ![o] = [events[o] EXCEPT ![t] = events[o][t] + 1]]
    BY <1>1 DEF RecordEvent, TypeOK
  <2> QED  BY <1>1, <2>1, <2>2 DEF TypeOK
<1>11. /\ pc' \in [Requests -> PCs] /\ failed' \in [Requests -> BOOLEAN]
       /\ now' \in [Requests -> Time] /\ object' \in [Requests -> Requests \cup {None}]
  <2>1. 0 \in Time  BY TimeAssumption DEF Time
  <2>2. now' \in [Requests -> Time]  BY <2>1 DEF RecordEvent, TypeOK
  <2>3. pc' \in [Requests -> PCs]  BY DEF RecordEvent, TypeOK, Goto, PCs
  <2> QED  BY <2>2, <2>3 DEF RecordEvent, TypeOK
<1>12. TypeOK'  BY <1>9, <1>10, <1>11 DEF RecordEvent, TypeOK
<1>13. stats'[o].total = stats[o].total + 1
  BY <1>1, <1>8 DEF TypeOK
<1>14. \A p \in Requests : p # o => stats'[p] = stats[p]
  <2> HIDE DEF after
  <2> QED  BY <1>8 DEF TypeOK
<1> QED  BY <1>12, <1>13, <1>14

LEMMA ForgetType ==
  ASSUME TypeOK, NEW h \in Hosts, Forget(h)
  PROVE  TypeOK'
  BY DEF Forget, TypeOK, locals

LEMMA TickType ==
  ASSUME TypeOK, Tick
  PROVE  TypeOK'
<1>1. clock' \in Time  BY TimeAssumption DEF Tick, TypeOK, Time
<1> QED  BY <1>1 DEF Tick, TypeOK, locals, history

-----------------------------------------------------------------------------
(* The map of routes stays within its bound.                               *)

\* The map has finitely many routes.
LEMMA MappedFinite ==
  ASSUME NEW S \in SUBSET Hosts
  PROVE  IsFiniteSet(S) /\ Cardinality(S) \in Nat
  BY FiniteAssumption, FS_Subset, FS_CardinalityType

\* Each step keeps what is known of the map: a request that is served is not in
\* Record yet,
LEMMA ServeMap ==
  ASSUME MapInv, NEW q \in Requests, Serve(q)
  PROVE  MapInv'
<1>1. TypeOK'  BY ServeType DEF MapInv
<1>2. Mapped' = Mapped  BY DEF Serve, Mapped
<1>3. pc[q] = "serving" /\ pc' = [pc EXCEPT ![q] = "stamped"]
  BY DEF Serve, Goto
<1>4. UNCHANGED <<mu, host, routes, scan>>  BY DEF Serve
<1>5. HoldsMu'  BY <1>3, <1>4 DEF MapInv, HoldsMu, TypeOK
<1>6. HolderKnows'  BY <1>2, <1>3, <1>4 DEF MapInv, HolderKnows, TypeOK
<1> QED  BY <1>1, <1>2, <1>5, <1>6 DEF MapInv, RoutesBounded

\* the holder of the mutex was looked for while nobody held it,
LEMMA LookupMap ==
  ASSUME MapInv, NEW q \in Requests, Lookup(q)
  PROVE  MapInv'
<1>1. TypeOK'  BY LookupType DEF MapInv
<1>2. Mapped' = Mapped /\ UNCHANGED <<host, routes, scan>>
  BY DEF Lookup, Mapped
<1>3. pc[q] = "stamped" /\ mu = None  BY DEF Lookup
<1>4. \A p \in Requests : pc[p] \notin {"evicting", "creating"}
  BY <1>3, NoneIsNothing DEF MapInv, HoldsMu
<1>5. Cardinality(Mapped) \in Nat  BY MappedFinite DEF Mapped
<1>6. scan[q] = NoScan  BY <1>3 DEF MapInv, HolderKnows
<1>7. CASE pc' = [pc EXCEPT ![q] = "found"] /\ UNCHANGED mu
  <2>1. HoldsMu'  BY <1>3, <1>4, <1>7, NoneIsNothing DEF MapInv, HoldsMu, TypeOK
  <2>2. HolderKnows'  BY <1>2, <1>4, <1>7, <1>3 DEF MapInv, HolderKnows, TypeOK
  <2> QED  BY <1>1, <1>2, <2>1, <2>2 DEF MapInv, RoutesBounded
<1>8. CASE /\ routes[host[q]] = None /\ mu' = q
           /\ pc' = [pc EXCEPT ![q] = IF Cardinality(Mapped) >= MaxRoutes
                                        THEN "evicting" ELSE "creating"]
  <2>1. HoldsMu'  BY <1>3, <1>4, <1>8 DEF MapInv, HoldsMu, TypeOK
  <2>2. HolderKnows'
    BY <1>2, <1>4, <1>5, <1>6, <1>8, RoutesAssumption
    DEF MapInv, HolderKnows, TypeOK, NoScan
  <2> QED  BY <1>1, <1>2, <2>1, <2>2 DEF MapInv, RoutesBounded
<1> QED  BY <1>7, <1>8 DEF Lookup, Goto

\* a scan sees routes that are in the map, which only its holder changes,
LEMMA ScanMap ==
  ASSUME MapInv, NEW q \in Requests, Scan(q)
  PROVE  MapInv'
<1>1. TypeOK'  BY ScanType DEF MapInv
<1>2. Mapped' = Mapped /\ UNCHANGED <<mu, pc, host, routes>>
  BY DEF Scan, Mapped
<1>3. PICK h \in Mapped \ scan[q].seen :
        LET last == stats[routes[h]].lastSeen
            seen == scan[q].seen \cup {h}
        IN scan' = [scan EXCEPT ![q] =
                      IF @.oldest = None \/ last < @.at
                        THEN [seen |-> seen, oldest |-> h, at |-> last]
                        ELSE [@ EXCEPT !.seen = seen]]
  BY DEF Scan
<1>4. pc[q] = "evicting" /\ scan[q].seen \subseteq Mapped
      /\ (scan[q] = NoScan \/ scan[q].oldest \in scan[q].seen)
  BY DEF Scan, MapInv, HolderKnows
<1>5. scan[q] \in [seen : SUBSET Hosts, oldest : Hosts \cup {None}, at : Int]
  BY DEF MapInv, TypeOK
<1>6. scan'[q].seen = scan[q].seen \cup {h}
      /\ scan'[q].oldest \in {h, scan[q].oldest}
      /\ (scan[q].oldest = None => scan'[q].oldest = h)
  BY <1>3, <1>5 DEF MapInv, TypeOK
<1>7. \A p \in Requests : p # q => scan'[p] = scan[p]
  BY <1>3 DEF MapInv, TypeOK
<1>8. scan'[q].oldest \in scan'[q].seen
  <2>1. CASE scan[q] = NoScan  BY <1>6, <2>1 DEF NoScan
  <2>2. CASE scan[q] # NoScan  BY <1>4, <1>6, <2>2
  <2> QED  BY <2>1, <2>2
<1>9. HoldsMu'  BY <1>2 DEF MapInv, HoldsMu
<1>10. HolderKnows'
  BY <1>2, <1>3, <1>4, <1>6, <1>7, <1>8 DEF MapInv, HolderKnows
<1> QED  BY <1>1, <1>2, <1>9, <1>10 DEF MapInv, RoutesBounded

\* an eviction makes room for one,
LEMMA EvictMap ==
  ASSUME MapInv, NEW q \in Requests, Evict(q)
  PROVE  MapInv'
<1> DEFINE h == scan[q].oldest
<1>1. TypeOK'  BY EvictType
<1>2. h \in Mapped /\ h \in Hosts /\ TypeOK  BY SomeOldest DEF MapInv, Mapped
<1>3. /\ pc[q] = "evicting" /\ pc' = [pc EXCEPT ![q] = "creating"]
      /\ routes' = [routes EXCEPT ![h] = None]
      /\ scan' = [scan EXCEPT ![q] = NoScan]
      /\ UNCHANGED <<mu, host>>
  BY DEF Evict, Goto
<1>4. Mapped' = Mapped \ {h}
  BY <1>2, <1>3, NoneIsNothing DEF Mapped, TypeOK
<1>5. Cardinality(Mapped') = Cardinality(Mapped) - 1
  <2>1. IsFiniteSet(Mapped)  BY MappedFinite DEF Mapped
  <2> QED  BY <1>2, <1>4, <2>1, FS_RemoveElement
<1>6. Cardinality(Mapped) \in Nat /\ Cardinality(Mapped) <= MaxRoutes
  BY MappedFinite DEF Mapped, MapInv, RoutesBounded
<1>7. mu = q /\ \A p \in Requests : pc[p] \in {"evicting", "creating"} <=> p = q
  BY <1>3 DEF MapInv, HoldsMu
<1>8. HoldsMu'  BY <1>2, <1>3, <1>7 DEF HoldsMu, TypeOK
<1>9. routes'[host'[q]] = None
  BY <1>2, <1>3 DEF MapInv, HolderKnows, TypeOK
<1>10. HolderKnows'
  <2> SUFFICES ASSUME NEW p \in Requests
               PROVE  /\ pc'[p] \in {"evicting", "creating"} => routes'[host'[p]] = None
                      /\ pc'[p] # "evicting"
                      /\ scan'[p] = NoScan
                      /\ pc'[p] = "creating" => Cardinality(Mapped') < MaxRoutes
    BY DEF HolderKnows
  <2>1. CASE p = q
    BY <1>2, <1>3, <1>5, <1>6, <1>9, <2>1, RoutesAssumption DEF TypeOK
  <2>2. CASE p # q
    BY <1>2, <1>3, <1>7, <2>2 DEF TypeOK, MapInv, HolderKnows
  <2> QED  BY <2>1, <2>2
<1> QED  BY <1>1, <1>5, <1>6, <1>8, <1>10, RoutesAssumption DEF MapInv, RoutesBounded

\* which the holder takes before it lets go,
LEMMA CreateMap ==
  ASSUME MapInv, NEW q \in Requests, Create(q)
  PROVE  MapInv'
<1>1. TypeOK /\ TypeOK' /\ host[q] \in Hosts  BY CreateType DEF MapInv, TypeOK
<1>2. /\ pc[q] = "creating" /\ pc' = [pc EXCEPT ![q] = "found"]
      /\ routes' = [routes EXCEPT ![host[q]] = q] /\ mu' = None
      /\ UNCHANGED <<host, scan>>
  BY DEF Create, Goto
<1>3. routes[host[q]] = None /\ Cardinality(Mapped) < MaxRoutes
  BY <1>2 DEF MapInv, HolderKnows
<1>4. Mapped' = Mapped \cup {host[q]} /\ host[q] \notin Mapped
  BY <1>1, <1>2, <1>3, NoneIsNothing DEF Mapped, TypeOK
<1>5. Cardinality(Mapped') = Cardinality(Mapped) + 1 /\ Cardinality(Mapped) \in Nat
  <2>1. IsFiniteSet(Mapped) /\ Cardinality(Mapped) \in Nat  BY MappedFinite DEF Mapped
  <2> QED  BY <1>4, <2>1, FS_AddElement
<1>6. \A p \in Requests : pc[p] \in {"evicting", "creating"} <=> p = q
  BY <1>2 DEF MapInv, HoldsMu
<1>7. \A p \in Requests : pc'[p] \notin {"evicting", "creating"}
  BY <1>1, <1>2, <1>6 DEF TypeOK
<1>8. HoldsMu'  BY <1>2, <1>7, NoneIsNothing DEF HoldsMu
<1>9. HolderKnows'
  BY <1>1, <1>2, <1>6, <1>7 DEF MapInv, HolderKnows, TypeOK
<1> QED  BY <1>1, <1>3, <1>5, <1>8, <1>9, RoutesAssumption DEF MapInv, RoutesBounded

\* a route is forgotten while nobody holds the mutex,
LEMMA ForgetMap ==
  ASSUME MapInv, NEW h \in Hosts, Forget(h)
  PROVE  MapInv'
<1>1. TypeOK /\ TypeOK'  BY ForgetType DEF MapInv
<1>2. /\ mu = None /\ routes' = [routes EXCEPT ![h] = None]
      /\ UNCHANGED <<mu, pc, host, scan>>
  BY DEF Forget, locals
<1>3. Mapped' \subseteq Mapped  BY <1>1, <1>2 DEF Mapped, TypeOK
<1>4. Cardinality(Mapped') <= Cardinality(Mapped)
      /\ Cardinality(Mapped') \in Nat /\ Cardinality(Mapped) \in Nat
  <2>1. /\ IsFiniteSet(Mapped) /\ Cardinality(Mapped) \in Nat
        /\ IsFiniteSet(Mapped') /\ Cardinality(Mapped') \in Nat
    BY MappedFinite DEF Mapped
  <2> QED  BY <1>3, <2>1, FS_Subset
<1>5. \A p \in Requests : pc[p] \notin {"evicting", "creating"}
  BY <1>2, NoneIsNothing DEF MapInv, HoldsMu
<1>6. HoldsMu'  BY <1>2 DEF MapInv, HoldsMu
<1>7. HolderKnows'  BY <1>2, <1>5 DEF MapInv, HolderKnows
<1> QED  BY <1>1, <1>4, <1>6, <1>7, RoutesAssumption DEF MapInv, RoutesBounded

\* and counters and the clock are not in the map.
LEMMA RecordEventMap ==
  ASSUME MapInv, NEW q \in Requests, RecordEvent(q), object[q] \in Requests
  PROVE  MapInv'
<1>1. TypeOK /\ TypeOK'  BY RecordEventType DEF MapInv
<1>2. /\ pc[q] = "found" /\ pc' = [pc EXCEPT ![q] = "done"]
      /\ UNCHANGED <<mu, host, routes, scan>>
  BY DEF RecordEvent, Goto
<1>3. Mapped' = Mapped  BY <1>2 DEF Mapped
<1>4. HoldsMu'  BY <1>1, <1>2 DEF MapInv, HoldsMu, TypeOK
<1>5. HolderKnows'  BY <1>1, <1>2, <1>3 DEF MapInv, HolderKnows, TypeOK
<1> QED  BY <1>1, <1>3, <1>4, <1>5 DEF MapInv, RoutesBounded

LEMMA TickMap ==
  ASSUME MapInv, Tick
  PROVE  MapInv'
<1>1. TypeOK'  BY TickType DEF MapInv
<1>2. Mapped' = Mapped /\ UNCHANGED <<routes, mu, pc, host, scan>>
  BY DEF Tick, locals, Mapped
<1> QED
  BY <1>1, <1>2 DEF MapInv, HoldsMu, HolderKnows, RoutesBounded

-----------------------------------------------------------------------------
(* No request is lost.                                                     *)

\* The requests of a host that were recorded.
Finished(h) == {q \in Requests : host[q] = h /\ pc[q] = "done"}

\* A step that counts and drops nothing, and only moves a request to where it is
\* still not counted.
LEMMA CountsNothing ==
  ASSUME IInv, MapInv',
         UNCHANGED <<routes, stats, host, dropped>>,
         \A q \in Requests :
            \/ pc'[q] = pc[q] /\ object'[q] = object[q]
            \/ /\ pc[q] \in Early /\ pc'[q] \in Early /\ object'[q] = object[q]
            \/ /\ pc[q] \in Early /\ pc'[q] = "found"
               /\ routes[host[q]] # None /\ object'[q] = routes[host[q]]
  PROVE  IInv'
<1>0. TypeOK  BY DEF IInv, MapInv
<1>1. FreshObjects'
  <2> SUFFICES ASSUME NEW o \in Requests, pc'[o] \in Early
               PROVE  /\ stats[o].total = 0
                      /\ \A h \in Hosts : routes[h] # o
                      /\ \A q \in Requests : object'[q] # o
    BY DEF FreshObjects
  <2>1. pc[o] \in Early  BY DEF Early
  <2>2. /\ stats[o].total = 0
        /\ \A h \in Hosts : routes[h] # o
        /\ \A q \in Requests : object[q] # o
    BY <2>1 DEF IInv, FreshObjects
  <2> QED  BY <1>0, <2>2 DEF TypeOK
<1>2. ObjectsBelong'
  <2>1. \A q \in Requests : host[q] \in Hosts /\ routes[host[q]] \in Requests \cup {None}
    BY <1>0 DEF TypeOK
  <2> QED  BY <2>1 DEF IInv, ObjectsBelong, Early
<1>3. OneObject'  BY DEF IInv, OneObject, Early
<1>4. \A h \in Hosts : Finished(h)' = Finished(h)
  BY DEF Finished, Early
<1>5. NoRequestLost'
  BY <1>4 DEF IInv, NoRequestLost, Finished
<1> QED  BY <1>1, <1>2, <1>3, <1>5 DEF IInv

\* A step that only takes a route from the map: its host is dropped.
LEMMA DropsRoute ==
  ASSUME IInv, MapInv', NEW h \in Hosts,
         routes' = [routes EXCEPT ![h] = None], dropped' = dropped \cup {h},
         UNCHANGED <<stats, host, object>>,
         \A q \in Requests : pc'[q] = pc[q] \/ (pc[q] \in Early /\ pc'[q] \in Early)
  PROVE  IInv'
<1>0. TypeOK  BY DEF IInv, MapInv
<1>1. \A g \in Hosts : routes'[g] = IF g = h THEN None ELSE routes[g]
  BY <1>0 DEF TypeOK
<1>2. FreshObjects'  BY <1>1, NoneIsNothing DEF IInv, FreshObjects, Early
<1>3. ObjectsBelong'  BY <1>1 DEF IInv, ObjectsBelong, Early
<1>4. OneObject'  BY <1>1 DEF IInv, OneObject, Early
<1>5. \A g \in Hosts : Finished(g)' = Finished(g)
  BY DEF Finished, Early
<1>6. NoRequestLost'
  BY <1>1, <1>5 DEF IInv, NoRequestLost, Finished
<1> QED  BY <1>2, <1>3, <1>4, <1>6 DEF IInv

\* A new object has counted nothing, and its host had no request before.
LEMMA CreateCounts ==
  ASSUME IInv, NEW q \in Requests, Create(q)
  PROVE  IInv'
<1>0. TypeOK /\ MapInv' /\ host[q] \in Hosts  BY CreateMap DEF IInv, MapInv, TypeOK
<1>1. /\ pc[q] = "creating" /\ pc' = [pc EXCEPT ![q] = "found"]
      /\ routes' = [routes EXCEPT ![host[q]] = q]
      /\ object' = [object EXCEPT ![q] = q]
      /\ UNCHANGED <<stats, host, dropped>>
  BY DEF Create, Goto, history
<1>2. routes[host[q]] = None  BY <1>1 DEF IInv, MapInv, HolderKnows
<1>3. \A g \in Hosts : routes'[g] = IF g = host[q] THEN q ELSE routes[g]
  BY <1>0, <1>1 DEF TypeOK
<1>4. \A p \in Requests : /\ pc'[p] = IF p = q THEN "found" ELSE pc[p]
                          /\ object'[p] = IF p = q THEN q ELSE object[p]
  BY <1>0, <1>1 DEF TypeOK
<1>5. FreshObjects'
  BY <1>1, <1>3, <1>4 DEF IInv, FreshObjects, Early
<1>6. ObjectsBelong'
  BY <1>0, <1>1, <1>3, <1>4 DEF IInv, ObjectsBelong
<1>7. OneObject'
  BY <1>0, <1>1, <1>2, <1>3, <1>4, NoneIsNothing DEF IInv, OneObject
<1>8. \A g \in Hosts : Finished(g)' = Finished(g)
  BY <1>1, <1>4 DEF Finished
<1>9. NoRequestLost'
  <2> SUFFICES ASSUME NEW g \in Hosts \ dropped
               PROVE  IF routes'[g] = None THEN Finished(g) = {}
                        ELSE stats[routes'[g]].total = Cardinality(Finished(g))
    BY <1>1, <1>8 DEF NoRequestLost, Finished
  <2>1. CASE g = host[q]
    <3>1. Finished(g) = {}
      BY <1>2, <2>1 DEF IInv, NoRequestLost, Finished
    <3>2. stats[q].total = 0  BY <1>1 DEF IInv, FreshObjects, Early
    <3> QED  BY <1>3, <2>1, <3>1, <3>2, NoneIsNothing, FS_EmptySet
  <2>2. CASE g # host[q]
    BY <1>3, <2>2 DEF IInv, NoRequestLost, Finished
  <2> QED  BY <2>1, <2>2
<1> QED  BY <1>0, <1>5, <1>6, <1>7, <1>9 DEF IInv

\* A request is counted in the object of its host, if that was never dropped.
LEMMA RecordEventCounts ==
  ASSUME IInv, NEW q \in Requests, RecordEvent(q)
  PROVE  IInv'
<1> DEFINE o == object[q]
<1>1. pc[q] = "found" /\ o \in Requests /\ host[o] = host[q]
  BY DEF RecordEvent, IInv, ObjectsBelong
<1>2. /\ TypeOK /\ MapInv' /\ host[q] \in Hosts
      /\ stats'[o].total = stats[o].total + 1
      /\ \A p \in Requests : p # o => stats'[p] = stats[p]
  BY <1>1, RecordEventType, RecordEventMap DEF IInv, MapInv, TypeOK
<1>3. UNCHANGED <<routes, host, dropped>>  BY DEF RecordEvent
<1>4. \A p \in Requests : /\ pc'[p] = IF p = q THEN "done" ELSE pc[p]
                          /\ object'[p] = IF p = q THEN None ELSE object[p]
  BY <1>2 DEF RecordEvent, Goto, TypeOK
<1>5. FreshObjects'
  <2>1. \A p \in Requests : pc[p] \in Early => p # o
    BY DEF IInv, FreshObjects
  <2> QED
    BY <1>1, <1>2, <1>3, <1>4, <2>1, NoneIsNothing DEF IInv, FreshObjects, Early
<1>6. ObjectsBelong'  BY <1>3, <1>4 DEF IInv, ObjectsBelong
<1>7. OneObject'  BY <1>1, <1>3, <1>4 DEF IInv, OneObject
<1>8. NoRequestLost'
  <2> SUFFICES ASSUME NEW g \in Hosts \ dropped
               PROVE  IF routes[g] = None THEN Finished(g)' = {}
                        ELSE stats'[routes[g]].total = Cardinality(Finished(g)')
    BY <1>3 DEF NoRequestLost, Finished
  <2>1. CASE g = host[q]
    <3>1. routes[g] = o /\ routes[g] # None
      BY <1>1, <2>1 DEF IInv, OneObject
    <3>2. Finished(g)' = Finished(g) \cup {q} /\ q \notin Finished(g)
      BY <1>1, <1>3, <1>4, <2>1 DEF Finished
    <3>3. IsFiniteSet(Finished(g))  BY FiniteAssumption, FS_Subset DEF Finished
    <3>4. Cardinality(Finished(g)') = Cardinality(Finished(g)) + 1
      BY <3>2, <3>3, FS_AddElement
    <3>5. stats[o].total = Cardinality(Finished(g))
      BY <3>1 DEF IInv, NoRequestLost, Finished
    <3> QED  BY <1>2, <3>1, <3>4, <3>5
  <2>2. CASE g # host[q]
    <3>1. Finished(g)' = Finished(g)
      BY <1>3, <1>4, <2>2 DEF Finished
    <3>2. routes[g] # None => routes[g] \in Requests /\ routes[g] # o
      BY <1>1, <1>2, <2>2 DEF IInv, ObjectsBelong, TypeOK
    <3> QED  BY <1>2, <3>1, <3>2 DEF IInv, NoRequestLost, Finished
  <2> QED  BY <2>1, <2>2
<1> QED  BY <1>2, <1>5, <1>6, <1>7, <1>8 DEF IInv

-----------------------------------------------------------------------------
(* The statistics, with the log beside them.                               *)

\* Nothing is counted at first.
LEMMA InitIInv == Init => IInv
<1> SUFFICES ASSUME Init PROVE IInv  OBVIOUS
<1>1. TypeOK
  <2>1. NewStats \in Counters
    BY BucketsAssumption DEF NewStats, Counters, Bucket
  <2>2. 0 \in Time  BY TimeAssumption DEF Time
  <2>3. NoScan \in [seen : SUBSET Hosts, oldest : Hosts \cup {None}, at : Int]
    BY DEF NoScan
  <2> QED  BY <2>1, <2>2, <2>3 DEF Init, TypeOK, PCs, Statuses
<1>2. Mapped = {}  BY DEF Init, Mapped
<1>3. Cardinality(Mapped) = 0  BY <1>2, FS_EmptySet
<1>4. MapInv
  BY <1>1, <1>3, RoutesAssumption, NoneIsNothing
  DEF Init, MapInv, HoldsMu, HolderKnows, RoutesBounded
<1>5. \A h \in Hosts : Finished(h) = {}  BY DEF Init, Finished
<1>6. NoRequestLost  BY <1>5 DEF Init, NoRequestLost, Finished
<1> QED
  BY <1>4, <1>6, NoneIsNothing
  DEF Init, IInv, FreshObjects, ObjectsBelong, OneObject, NewStats

\* A step of the log leaves the statistics alone, but for a status nobody looks
\* at again.
LEMMA LogKeepsIInv ==
  ASSUME IInv, statusCode' \in [Requests -> Statuses],
         UNCHANGED <<clock, routes, stats, mu, pc, host, now, object, scan, history>>
  PROVE  IInv'
<1>1. TypeOK'  BY DEF IInv, MapInv, TypeOK, history
<1>2. Mapped' = Mapped  BY DEF Mapped
<1>3. MapInv'
  BY <1>1, <1>2 DEF IInv, MapInv, HoldsMu, HolderKnows, RoutesBounded
<1>4. UNCHANGED dropped  BY DEF history
<1> QED  BY <1>3, <1>4, CountsNothing

\* The steps of the statistics keep their invariant,
LEMMA NextKeepsIInv == ASSUME IInv, Next PROVE IInv'
<1>0. MapInv /\ TypeOK  BY DEF IInv, MapInv
<1>1. ASSUME NEW q \in Requests, Serve(q) PROVE IInv'
  <2>1. MapInv'  BY <1>0, <1>1, ServeMap
  <2>2. UNCHANGED <<routes, stats, host, object, dropped>>  BY <1>1 DEF Serve
  <2>3. pc[q] \in Early /\ \A p \in Requests : pc'[p] = IF p = q THEN "stamped" ELSE pc[p]
    BY <1>0, <1>1 DEF Serve, Goto, TypeOK, Early
  <2> QED  BY <2>1, <2>2, <2>3, CountsNothing DEF Early
<1>2. ASSUME NEW q \in Requests, Lookup(q) PROVE IInv'
  <2>1. MapInv'  BY <1>0, <1>2, LookupMap
  <2>2. UNCHANGED <<routes, stats, host, dropped>>  BY <1>2 DEF Lookup, history
  <2>3. pc[q] \in Early  BY <1>2 DEF Lookup, Early
  <2>4. \A p \in Requests : p # q => pc'[p] = pc[p] /\ object'[p] = object[p]
    BY <1>0, <1>2 DEF Lookup, Goto, TypeOK
  <2>5. \/ /\ pc'[q] = "found" /\ routes[host[q]] # None
           /\ object'[q] = routes[host[q]]
        \/ pc'[q] \in Early /\ object'[q] = object[q]
    BY <1>0, <1>2 DEF Lookup, Goto, TypeOK, Early
  <2> QED  BY <2>1, <2>2, <2>3, <2>4, <2>5, CountsNothing
<1>3. ASSUME NEW q \in Requests, Scan(q) PROVE IInv'
  <2>1. MapInv'  BY <1>0, <1>3, ScanMap
  <2>2. UNCHANGED <<routes, stats, pc, host, object, dropped>>
    BY <1>3 DEF Scan, history
  <2> QED  BY <2>1, <2>2, CountsNothing
<1>4. ASSUME NEW q \in Requests, Evict(q) PROVE IInv'
  <2>1. MapInv' /\ scan[q].oldest \in Hosts
    BY <1>0, <1>4, EvictMap, SomeOldest DEF Mapped
  <2>2. /\ routes' = [routes EXCEPT ![scan[q].oldest] = None]
        /\ dropped' = dropped \cup {scan[q].oldest}
        /\ UNCHANGED <<stats, host, object>>
    BY <1>4 DEF Evict
  <2>3. \A p \in Requests : pc'[p] = pc[p] \/ (pc[p] \in Early /\ pc'[p] \in Early)
    BY <1>0, <1>4 DEF Evict, Goto, TypeOK, Early
  <2> QED  BY <2>1, <2>2, <2>3, DropsRoute
<1>5. ASSUME NEW q \in Requests, Create(q) PROVE IInv'
  BY <1>5, CreateCounts
<1>6. ASSUME NEW q \in Requests, RecordEvent(q) PROVE IInv'
  BY <1>6, RecordEventCounts
<1>7. ASSUME NEW h \in Hosts, Forget(h) PROVE IInv'
  <2>1. MapInv'  BY <1>0, <1>7, ForgetMap
  <2>2. /\ routes' = [routes EXCEPT ![h] = None] /\ dropped' = dropped \cup {h}
        /\ UNCHANGED <<stats, pc, host, object>>
    BY <1>7 DEF Forget, locals
  <2> QED  BY <2>1, <2>2, DropsRoute
<1>8. ASSUME Tick PROVE IInv'
  <2>1. MapInv'  BY <1>0, <1>8, TickMap
  <2>2. UNCHANGED <<routes, stats, pc, host, object, dropped>>
    BY <1>8 DEF Tick, locals, history
  <2> QED  BY <2>1, <2>2, CountsNothing
<1> QED
  BY <1>1, <1>2, <1>3, <1>4, <1>5, <1>6, <1>7, <1>8 DEF Next, Record

\* and so do those of the log.
LEMMA ANextKeepsIInv == IInv /\ [ANext]_allVars => IInv'
<1> SUFFICES ASSUME IInv, [ANext]_allVars PROVE IInv'  OBVIOUS
<1>0. statusCode \in [Requests -> Statuses]  BY DEF IInv, MapInv, TypeOK
<1>1. CASE Next  BY <1>1, NextKeepsIInv
<1>2. CASE UNCHANGED vars  BY <1>0, <1>2, LogKeepsIInv DEF vars, locals
<1>3. ASSUME NEW q \in Requests, LogRequest(q) PROVE IInv'
  <2>1. statusCode' \in [Requests -> Statuses]
    BY <1>0, <1>3 DEF LogRequest, Statuses
  <2> QED  BY <1>3, <2>1, LogKeepsIInv DEF LogRequest
<1> QED  BY <1>1, <1>2, <1>3 DEF ANext, allVars, LogNote, AddEntry

\* What the statistics rest on, whatever the log does beside them.
THEOREM StatsInvariant == ASpec => []IInv
<1>1. AInit => IInv  BY InitIInv DEF AInit
<1> QED  BY <1>1, ANextKeepsIInv, PTL DEF ASpec

\* StatsTracker never tracks more than statsMaxHostnames hosts, however many
\* requests record, scan and evict at once (evictOldestLocked).
THEOREM MapStaysBounded == ASpec => []RoutesBounded
<1>1. IInv => RoutesBounded  BY DEF IInv, MapInv
<1> QED  BY <1>1, StatsInvariant, PTL

\* The total of a host that was never evicted or forgotten is the number of its
\* finished requests: Record loses none between its two locks.
THEOREM NothingLost == ASpec => []NoRequestLost
<1>1. IInv => NoRequestLost  BY DEF IInv
<1> QED  BY <1>1, StatsInvariant, PTL

-----------------------------------------------------------------------------
(* The log's types and the bound of its buffer.                            *)

\* The types of the log, and the bound of its buffer.
LogTypes ==
    /\ buffer \in Seq(Entries) /\ Len(buffer) <= Capacity
    /\ logPc \in [Loggers -> {"silent", "stamped", "logged"}]
    /\ entry \in [Loggers -> Entries]

\* An entry that is not there is one.
LEMMA NoEntryType == NoEntry \in Entries
  BY DEF NoEntry, Entries, LogEntry, Levels

\* Whoever stamps an entry stamps one of the right shape.
LEMMA StampType ==
  ASSUME IInv, LogTypes, NEW l \in Loggers, NEW level \in Levels,
         NEW isRequest \in BOOLEAN, NEW hs \in SUBSET Hosts,
         NEW code \in Statuses \cup {0}, Stamp(l, level, isRequest, hs, code)
  PROVE  LogTypes'
<1> DEFINE e == [time |-> clock, level |-> level, isRequest |-> isRequest,
                 hosts |-> hs, status |-> code]
<1>1. clock \in Nat  BY TimeAssumption DEF IInv, MapInv, TypeOK, Time
<1>2. e \in Entries  BY <1>1 DEF Entries, LogEntry
<1>3. entry' = [entry EXCEPT ![l] = e]
      /\ logPc' = [logPc EXCEPT ![l] = "stamped"] /\ UNCHANGED buffer
  BY DEF Stamp
<1> HIDE DEF e
<1> QED  BY <1>2, <1>3 DEF LogTypes, Entries

\* The buffer keeps its bound: its oldest entry makes room.
LEMMA AddEntryType ==
  ASSUME LogTypes, NEW l \in Loggers, AddEntry(l)
  PROVE  LogTypes'
<1>1. entry[l] \in Entries /\ buffer \in Seq(Entries) /\ Len(buffer) <= Capacity
  BY DEF LogTypes
<1>2. buffer' = Append(IF Len(buffer) >= Capacity THEN Tail(buffer) ELSE buffer,
                       entry[l])
  BY DEF AddEntry, Add
<1>3. buffer' \in Seq(Entries) /\ Len(buffer') <= Capacity
  <2>1. CASE Len(buffer) >= Capacity
    <3>1. Len(buffer) # 0  BY <1>1, <2>1, CapacityAssumption
    <3>2. Tail(buffer) \in Seq(Entries) /\ Len(Tail(buffer)) = Len(buffer) - 1
      BY <1>1, <3>1
    <3> QED  BY <1>1, <1>2, <2>1, <3>2, CapacityAssumption
  <2>2. CASE ~(Len(buffer) >= Capacity)
    BY <1>1, <1>2, <2>2, CapacityAssumption
  <2> QED  BY <2>1, <2>2
<1>4. /\ logPc' \in [Loggers -> {"silent", "stamped", "logged"}]
      /\ entry' \in [Loggers -> Entries]
  BY NoEntryType DEF AddEntry, LogTypes
<1> QED  BY <1>3, <1>4 DEF LogTypes, Entries

\* The types of statistics and log; the buffer keeps at most Capacity entries
\* (LogBuffer.Add).
THEOREM TypeCorrect == ASpec => []LogTypeOK
<1>1. AInit => LogTypes
  <2> SUFFICES ASSUME AInit PROVE LogTypes  OBVIOUS
  <2>1. buffer = <<>> /\ Len(buffer) = 0  BY DEF AInit, InitBuffer
  <2> QED  BY <2>1, NoEntryType, CapacityAssumption DEF AInit, LogTypes
<1>2. IInv /\ LogTypes /\ [ANext]_allVars => LogTypes'
  <2> SUFFICES ASSUME IInv, LogTypes, [ANext]_allVars PROVE LogTypes'  OBVIOUS
  <2>1. CASE UNCHANGED logs  BY <2>1 DEF LogTypes, logs, Entries
  <2>2. ASSUME NEW q \in Requests, LogRequest(q) PROVE LogTypes'
    <3>1. statusCode[q] \in Statuses /\ host[q] \in Hosts
      BY DEF IInv, MapInv, TypeOK
    <3>2. Stamp(q, "info", TRUE, {host[q]}, statusCode[q])
      BY <2>2 DEF LogRequest
    <3> QED  BY <3>1, <3>2, StampType DEF Loggers, Levels
  <2>3. ASSUME NEW n \in Notes, LogNote(n) PROVE LogTypes'
    <3>1. PICK level \in {"info", "error"}, hs \in {{}} \cup {{h} : h \in Hosts} :
            Stamp(n, level, FALSE, hs, 0)
      BY <2>3 DEF LogNote
    <3> QED  BY <3>1, StampType DEF Loggers, Levels
  <2>4. ASSUME NEW l \in Loggers, AddEntry(l) PROVE LogTypes'
    BY <2>4, AddEntryType
  <2> QED  BY <2>1, <2>2, <2>3, <2>4 DEF ANext, allVars, logs
<1>3. IInv /\ LogTypes => LogTypeOK
  BY DEF IInv, MapInv, LogTypes, LogTypeOK
<1> QED  BY <1>1, <1>2, <1>3, StatsInvariant, PTL DEF ASpec

-----------------------------------------------------------------------------
(* Bars and windows.                                                       *)

\* The half-open window that a click on a bar selects holds exactly the entries
\* counted in that bar, wherever the bars begin and however wide they are: the
\* index of buildLogTimeline and the comparisons of handleLogsHTML agree.
THEOREM BarIsItsWindow ==
  ASSUME NEW e, e.time \in Nat, NEW g, g.start \in Int, g.dur \in Nat \ {0},
         NEW i \in Nat \ {0}
  PROVE  BarOf(e, g) = i <=> Start(g, i) <= e.time /\ e.time < End(g, i)
<1> DEFINE d == e.time - g.start
<1>1. Start(g, i) <= e.time <=> (i - 1) * g.dur <= d  BY DEF Start
<1>2. e.time < End(g, i) <=> d < ((i - 1) + 1) * g.dur  BY DEF End
<1>3. CASE d >= 0
  <2>1. BarOf(e, g) = i <=> d \div g.dur = i - 1  BY <1>3 DEF BarOf
  <2>2. \A n \in Nat, w \in Nat \ {0}, j \in Int :
          n \div w = j <=> j * w <= n /\ n < (j + 1) * w
    OBVIOUS
  <2>3. d \in Nat /\ i - 1 \in Int  BY <1>3
  <2>4. d \div g.dur = i - 1 <=>
          (i - 1) * g.dur <= d /\ d < ((i - 1) + 1) * g.dur
    <3> HIDE DEF d
    <3> QED  BY <2>2, <2>3
  <2> QED  BY <1>1, <1>2, <2>1, <2>4
<1>4. CASE d < 0
  <2>1. BarOf(e, g) = 0  BY <1>4 DEF BarOf
  <2>2. (i - 1) * g.dur >= 0  OBVIOUS
  <2> QED  BY <1>1, <1>4, <2>1, <2>2
<1> QED  BY <1>3, <1>4

\* Whatever window is selected, its rows are counted in bars that are marked:
\* buildLogTimeline marks by overlap.
THEOREM RowsAreMarked ==
  ASSUME NEW e, e.time \in Nat, NEW g, g.start \in Int, g.dur \in Nat \ {0},
         NEW i \in Nat \ {0}, NEW from \in Int, NEW to \in Int,
         BarOf(e, g) = i, from <= e.time, e.time < to
  PROVE  Selected(g, i, from, to)
<1>1. Start(g, i) <= e.time /\ e.time < End(g, i)  BY BarIsItsWindow
<1>2. Start(g, i) \in Int /\ End(g, i) \in Int  BY DEF Start, End
<1> QED  BY <1>1, <1>2 DEF Selected

\* Bars have a width.
LEMMA BarWidth ==
  ASSUME NEW span \in Int
  PROVE  ChooseBucketDur(span) \in Nat \ {0}
<1> DEFINE wide == {d \in NiceBucketDurations : d * BucketTarget >= span}
<1>1. wide \subseteq Nat \ {0} /\ LongestBar \in Nat \ {0}
  BY BarsAssumption
<1>2. CASE wide = {}  BY <1>1, <1>2 DEF ChooseBucketDur
<1>3. CASE wide # {}
  <2>1. \E x \in wide : \A y \in wide : x <= y
    <3> HIDE DEF wide
    <3>1. wide \in SUBSET Nat  BY <1>1
    <3> QED  BY <3>1, <1>3, LeastNumber
  <2>2. Min(wide) \in wide  BY <2>1 DEF Min
  <2> QED  BY <1>1, <1>3, <2>2 DEF ChooseBucketDur
<1> QED  BY <1>2, <1>3

\* The times of the entries have a first and a last one.
LEMMA TimesHaveEnds ==
  ASSUME NEW B, \A e \in B : e.time \in Nat, NEW es \in Seq(B), es # <<>>,
         NEW T, T = {e.time : e \in Range(es)}
  PROVE  /\ Min(T) \in T /\ Max(T) \in T /\ T \in SUBSET Nat
         /\ \A t \in T : Min(T) <= t /\ t <= Max(T)
<1>1. IsFiniteSet(Range(es))
  BY FiniteRange
<1>2. IsFiniteSet(T)
  <2> DEFINE R == Range(es)
             m == [e \in R |-> e.time]
  <2>1. m \in Surjection(R, T)
    BY DEF Surjection
  <2> HIDE DEF R, m
  <2> QED
    BY <1>1, <2>1, FS_Surjection DEF R
<1>3. T \in SUBSET Nat
  <2>1. \A e \in Range(es) : e \in B
    BY DEF Range
  <2> QED
    BY <2>1
<1>4. T # {}
  <2>1. 1 \in DOMAIN es /\ es[1] \in Range(es)
    BY DEF Range
  <2> QED
    BY <2>1
<1>5. \E x \in T : \A y \in T : x <= y
  BY <1>3, <1>4, LeastNumber
<1>6. \E x \in T : \A y \in T : x >= y
  BY <1>2, <1>3, <1>4, GreatestNumber
<1>7. Min(T) \in T /\ \A t \in T : Min(T) <= t
  BY <1>5 DEF Min
<1>8. Max(T) \in T /\ \A t \in T : Max(T) >= t
  BY <1>6 DEF Max
<1>9. \A t \in T : t \in Nat
  BY <1>3
<1>10. \A t \in T : t <= Max(T)
  BY <1>8, <1>9
<1> QED
  BY <1>3, <1>7, <1>8, <1>10

\* The lesser of two numbers.
LEMMA LesserOf ==
  ASSUME NEW x \in Nat, NEW y \in Nat
  PROVE  Min({x, y}) \in {x, y} /\ Min({x, y}) <= x /\ Min({x, y}) <= y
<1>1. \E z \in {x, y} : \A w \in {x, y} : z <= w
  BY x <= y \/ y <= x
<1> QED
  BY <1>1 DEF Min

\* Bars are equally wide, begin at a multiple of their width, and the last of them
\* holds the last entry; unless as many as fit are shown, the first holds the first.
LEMMA GridIs ==
  ASSUME NEW B, \A e \in B : e.time \in Nat, NEW es \in Seq(B), es # <<>>
  PROVE  /\ Grid(es).dur \in Nat \ {0} /\ Grid(es).start \in Nat
         /\ Grid(es).bars \in Nat \ {0} /\ Grid(es).bars <= BucketMax
         /\ \E m \in Nat : Grid(es).start = m * Grid(es).dur
         /\ \A e \in Range(es) : e.time < End(Grid(es), Grid(es).bars)
         /\ Grid(es).bars < BucketMax => \A e \in Range(es) : Grid(es).start <= e.time
<1> DEFINE times == {e.time : e \in Range(es)}
           lo    == Min(times)
           hi    == Max(times)
           dur   == ChooseBucketDur(hi - lo)
           first == lo \div dur
           last  == hi \div dur
           n     == Min({last + 1 - first, BucketMax})
<1>1. lo \in Nat /\ hi \in Nat /\ lo <= hi /\ \A t \in times : t \in Nat /\ lo <= t /\ t <= hi
  <2> HIDE DEF times
  <2>1. /\ Min(times) \in times /\ Max(times) \in times /\ times \in SUBSET Nat
        /\ \A t \in times : Min(times) <= t /\ t <= Max(times)
    BY TimesHaveEnds DEF times
  <2> QED
    BY <2>1
<1>2. Grid(es) = [start |-> (last + 1 - n) * dur, dur |-> dur, bars |-> n]
  BY DEF Grid
<1>3. \A e \in Range(es) : e.time \in times
  OBVIOUS
<1> HIDE DEF times, lo, hi
<1>4. dur \in Nat \ {0}
  BY <1>1, BarWidth
<1> HIDE DEF dur
<1>5. /\ first \in Nat /\ last \in Nat /\ first <= last
      /\ first * dur <= lo /\ hi < (last + 1) * dur
  <2>1. \A x \in Nat, w \in Nat \ {0} :
          x \div w \in Nat /\ (x \div w) * w <= x /\ x < ((x \div w) + 1) * w
    OBVIOUS
  <2>2. /\ first \in Nat /\ first * dur <= lo /\ lo < (first + 1) * dur
        /\ last \in Nat /\ last * dur <= hi /\ hi < (last + 1) * dur
    BY <1>1, <1>4, <2>1
  <2> HIDE DEF first, last
  <2>3. first * dur < (last + 1) * dur
    <3>1. first * dur \in Nat /\ (last + 1) * dur \in Nat
      BY <2>2, <1>4
    <3> QED
      BY <3>1, <2>2, <1>1
  <2>4. \A x \in Nat, y \in Nat, w \in Nat \ {0} : x * w < y * w => x < y
    OBVIOUS
  <2>5. last + 1 \in Nat
    BY <2>2
  <2>6. first < last + 1
    BY <2>2, <2>3, <2>4, <2>5, <1>4
  <2> QED
    BY <2>2, <2>6
<1> HIDE DEF first, last
<1>6. /\ n \in Nat \ {0} /\ n <= BucketMax /\ n <= last + 1 - first
      /\ n < BucketMax => n = last + 1 - first
  <2>1. last + 1 - first \in Nat \ {0} /\ BucketMax \in Nat \ {0}
    BY <1>5, BarsAssumption
  <2>2. n \in {last + 1 - first, BucketMax} /\ n <= last + 1 - first /\ n <= BucketMax
    BY <2>1, LesserOf
  <2> HIDE DEF n
  <2> QED
    BY <2>1, <2>2
<1> HIDE DEF n
<1>7. last + 1 - n \in Nat /\ (last + 1 - n) * dur \in Nat
  <2>1. last + 1 - n \in Nat
    BY <1>5, <1>6
  <2>2. \A x \in Nat, w \in Nat : x * w \in Nat
    OBVIOUS
  <2> QED
    BY <2>1, <2>2, <1>4
<1>8. End(Grid(es), Grid(es).bars) = (last + 1) * dur
  <2>1. End(Grid(es), Grid(es).bars) = (last + 1 - n) * dur + n * dur
    BY <1>2 DEF End
  <2>2. \A x, y \in Int, w \in Int : ((x - y) * w) + (y * w) = x * w
    OBVIOUS
  <2> QED
    BY <2>1, <2>2, <1>4, <1>5, <1>6
<1>9. ASSUME NEW e \in Range(es)
      PROVE  e.time < End(Grid(es), Grid(es).bars)
  <2>1. e.time \in Nat /\ e.time <= hi /\ hi < (last + 1) * dur
    BY <1>1, <1>3, <1>5
  <2>2. (last + 1) * dur \in Int
    BY <1>4, <1>5
  <2> QED
    BY <2>1, <2>2, <1>1, <1>8
<1>10. ASSUME Grid(es).bars < BucketMax, NEW e \in Range(es)
       PROVE  Grid(es).start <= e.time
  <2>1. n < BucketMax
    BY <1>2, <1>10
  <2>2. last + 1 - n = first
    BY <2>1, <1>5, <1>6
  <2>3. Grid(es).start = first * dur
    BY <1>2, <2>2
  <2>4. e.time \in Nat /\ lo <= e.time
    BY <1>1, <1>3
  <2>5. first * dur \in Int
    BY <1>4, <1>5
  <2> QED
    BY <2>3, <2>4, <2>5, <1>1, <1>5
<1>11. Grid(es).dur \in Nat \ {0} /\ Grid(es).start \in Nat
  BY <1>2, <1>4, <1>7
<1>12. Grid(es).bars \in Nat \ {0} /\ Grid(es).bars <= BucketMax
  BY <1>2, <1>6
<1>13. \E m \in Nat : Grid(es).start = m * Grid(es).dur
  BY <1>2, <1>7
<1> QED
  BY <1>9, <1>10, <1>11, <1>12, <1>13

\* Bars that are equally wide share their boundaries, whatever the entries are.
LEMMA GridsAgree ==
  ASSUME NEW B, \A e \in B : e.time \in Nat, NEW es \in Seq(B), es # <<>>,
         NEW fs \in Seq(B), fs # <<>>, Grid(es).dur = Grid(fs).dur
  PROVE  (Grid(es).start - Grid(fs).start) % Grid(es).dur = 0
<1>1. Grid(es).dur \in Nat \ {0} /\ \E m \in Nat : Grid(es).start = m * Grid(es).dur
  BY GridIs
<1>2. \E m \in Nat : Grid(fs).start = m * Grid(fs).dur
  BY GridIs
<1>3. PICK m \in Nat : Grid(es).start = m * Grid(es).dur
  BY <1>1
<1>4. PICK k \in Nat : Grid(fs).start = k * Grid(fs).dur
  BY <1>2
<1> DEFINE w == Grid(es).dur
<1>5. w \in Nat \ {0} /\ m \in Int /\ k \in Int /\ m - k \in Int
  BY <1>1
<1>6. Grid(es).start = m * w /\ Grid(fs).start = k * w
  BY <1>3, <1>4
<1> HIDE DEF w
<1>7. (m * w) - (k * w) = (m - k) * w
  BY <1>5
<1>8. ((m - k) * w) % w = 0
  BY <1>5, MultipleLeavesNothing
<1>9. (Grid(es).start - Grid(fs).start) % w = 0
  BY <1>6, <1>7, <1>8
<1> QED
  BY <1>9 DEF w

\* The rows of a window, by position.
LEMMA RowsAre ==
  ASSUME NEW es, NEW from, NEW to
  PROVE  Rows(es, from, to) =
           Reverse(At(es, {j \in DOMAIN es : /\ from = NoTime \/ es[j].time >= from
                                             /\ to = NoTime \/ es[j].time < to}))
  BY DEF Rows, Select

\* The entries that a bar counts, by position.
LEMMA CountedAre ==
  ASSUME NEW es, NEW g, NEW i
  PROVE  Counted(es, g, i) = At(es, {j \in DOMAIN es : BarOf(es[j], g) = i})
  BY DEF Counted, Select

\* The window of a bar has the rows that are counted in it.
LEMMA RowsOfBar ==
  ASSUME NEW B, \A e \in B : e.time \in Nat, NEW es \in Seq(B),
         NEW g, g.start \in Nat, g.dur \in Nat \ {0}, NEW i \in Nat \ {0}
  PROVE  Rows(es, Start(g, i), End(g, i)) = Reverse(Counted(es, g, i))
<1> DEFINE s == Start(g, i)
           t == End(g, i)
           I == {j \in DOMAIN es : /\ s = NoTime \/ es[j].time >= s
                                   /\ t = NoTime \/ es[j].time < t}
           J == {j \in DOMAIN es : BarOf(es[j], g) = i}
<1>1. s \in Nat /\ t \in Nat /\ s # NoTime /\ t # NoTime
  <2>1. \A x, y, z \in Nat : x + (y * z) \in Nat
    OBVIOUS
  <2>2. i - 1 \in Nat
    OBVIOUS
  <2>3. s \in Nat /\ t \in Nat
    BY <2>1, <2>2 DEF Start, End
  <2> HIDE DEF s, t
  <2> QED
    BY <2>3 DEF NoTime
<1>2. \A j \in DOMAIN es : es[j].time \in Nat
  OBVIOUS
<1>3. \A j \in DOMAIN es : BarOf(es[j], g) = i <=> s <= es[j].time /\ es[j].time < t
  <2> SUFFICES ASSUME NEW j \in DOMAIN es
               PROVE  BarOf(es[j], g) = i <=> Start(g, i) <= es[j].time /\ es[j].time < End(g, i)
    OBVIOUS
  <2>1. es[j].time \in Nat /\ g.start \in Int
    BY <1>2
  <2> QED
    BY <2>1, BarIsItsWindow
<1> HIDE DEF s, t
<1>4. I = J
  BY <1>1, <1>2, <1>3
<1>5. Rows(es, s, t) = Reverse(At(es, I))
  BY RowsAre
<1>6. Counted(es, g, i) = At(es, J)
  BY CountedAre
<1> QED
  BY <1>4, <1>5, <1>6 DEF s, t

\* As many of the rows as of the entries are errors.
LEMMA ErrorsOfRows ==
  ASSUME NEW B, NEW seq \in Seq(B)
  PROVE  /\ Len(Reverse(seq)) = Len(seq)
         /\ Len(Select(Reverse(seq), IsErrorLogEntry)) = Len(Select(seq, IsErrorLogEntry))
<1> DEFINE t == Reverse(seq)
           I == {i \in DOMAIN seq : IsErrorLogEntry(seq[i])}
           J == {i \in DOMAIN t : IsErrorLogEntry(t[i])}
<1>1. /\ DOMAIN t = 1..Len(seq) /\ Len(t) = Len(seq) /\ Len(seq) \in Nat
      /\ DOMAIN seq = 1..Len(seq) /\ \A i \in 1..Len(seq) : t[i] = seq[Len(seq) - i + 1]
  BY DEF Reverse
<1> HIDE DEF t
<1>2. ASSUME NEW i \in 1..Len(seq)
      PROVE  i \in J <=> Len(seq) + 1 - i \in I
  <2>1. Len(seq) + 1 - i \in 1..Len(seq) /\ Len(seq) + 1 - i = Len(seq) - i + 1
    BY <1>1
  <2>2. t[i] = seq[Len(seq) + 1 - i]
    BY <1>1, <2>1
  <2> QED
    BY <1>1, <2>1, <2>2
<1> HIDE DEF I, J
<1>3. Len(At(t, J)) = Len(At(seq, I))
  BY <1>2, ReverseLen DEF t
<1>4. Select(t, IsErrorLogEntry) = At(t, J) /\ Select(seq, IsErrorLogEntry) = At(seq, I)
  BY DEF Select, I, J
<1> QED
  BY <1>1, <1>3, <1>4 DEF t

\* A timeline accounts for the entries it is of.
LEMMA TimelineAccounts ==
  ASSUME NEW B, \A e \in B : e.time \in Nat, NEW es \in Seq(B), es # <<>>,
         NEW g, g = Grid(es)
  PROVE  SumFunctionOnSet([i \in 1..g.bars |-> Total(es, g, i)], 1..g.bars)
           = Len(Rows(es, IF g.bars < BucketMax THEN NoTime ELSE g.start, NoTime))
<1> DEFINE n == g.bars
           f == [i \in 1..n |-> Total(es, g, i)]
           D == DOMAIN es
           c == [j \in D |-> BarOf(es[j], g)]
           from == IF n < BucketMax THEN NoTime ELSE g.start
           I == {j \in D : from = NoTime \/ es[j].time >= from}
<1>1. /\ g.dur \in Nat \ {0} /\ g.start \in Nat /\ n \in Nat \ {0} /\ n <= BucketMax
      /\ \A e \in Range(es) : e.time < End(g, n)
      /\ n < BucketMax => \A e \in Range(es) : g.start <= e.time
  BY GridIs
<1>2. /\ D = 1..Len(es) /\ Len(es) \in Nat /\ IsFiniteSet(D)
      /\ \A j \in D : es[j].time \in Nat /\ es[j] \in Range(es)
  BY FS_Interval DEF Range
<1>3. ASSUME NEW i \in 1..n
      PROVE  f[i] = Cardinality({j \in D : c[j] = i})
  <2> DEFINE J == {j \in DOMAIN es : BarOf(es[j], g) = i}
  <2>1. Counted(es, g, i) = At(es, J)
    BY CountedAre
  <2>2. J \cap (1..Len(es)) = {j \in D : c[j] = i}
    BY <1>2
  <2> HIDE DEF J
  <2>3. Len(At(es, J)) = Cardinality(J \cap (1..Len(es)))
    BY AtLen
  <2> QED
    BY <2>1, <2>2, <2>3 DEF Total
<1>4. SumFunctionOnSet(f, 1..n) = Cardinality({j \in D : c[j] \in 1..n})
  <2> HIDE DEF D, c, f, n
  <2>1. n \in Nat /\ IsFiniteSet(D)
    BY <1>1, <1>2
  <2>2. \A i \in 1..n : f[i] = Cardinality(Within(D, c, {i}))
    <3>1. \A i \in 1..n : Within(D, c, {i}) = {j \in D : c[j] = i}
      BY DEF Within
    <3> QED
      BY <1>3, <3>1
  <2>3. SumFunctionOnSet(f, 1..n) = Cardinality(Within(D, c, 1..n))
    BY <2>1, <2>2, PartsAddUp
  <2> QED
    BY <2>3 DEF Within
<1>5. Len(Rows(es, from, NoTime)) = Cardinality(I)
  <2> DEFINE J == {j \in DOMAIN es : /\ from = NoTime \/ es[j].time >= from
                                     /\ NoTime = NoTime \/ es[j].time < NoTime}
  <2>1. Rows(es, from, NoTime) = Reverse(At(es, J))
    BY RowsAre
  <2>2. J = I /\ I \cap (1..Len(es)) = I
    BY <1>2
  <2> HIDE DEF J, I, from
  <2>3. At(es, J) \in Seq(B)
    BY AtType
  <2>4. Len(Reverse(At(es, J))) = Len(At(es, J))
    BY <2>3, ErrorsOfRows
  <2>5. Len(At(es, J)) = Cardinality(J \cap (1..Len(es)))
    BY AtLen
  <2> QED
    BY <2>1, <2>2, <2>4, <2>5
<1>6. ASSUME NEW j \in D
      PROVE  c[j] \in 1..n <=> (from = NoTime \/ es[j].time >= from)
  <2> DEFINE e == es[j]
             d == e.time - g.start
             w == g.dur
  <2>1. e.time \in Nat /\ e.time < End(g, n) /\ (n < BucketMax => g.start <= e.time)
    BY <1>1, <1>2
  <2>2. c[j] = BarOf(e, g)
    OBVIOUS
  <2>3. CASE e.time < g.start
    <3>1. c[j] = 0 /\ 0 \notin 1..n
      BY <2>2, <2>3 DEF BarOf
    <3>2. ~ (n < BucketMax)
      BY <1>1, <2>1, <2>3
    <3>3. from = g.start /\ from # NoTime
      BY <1>1, <3>2 DEF NoTime
    <3>4. ~ (e.time >= from)
      BY <1>1, <2>1, <2>3, <3>3
    <3> QED
      BY <3>1, <3>3, <3>4
  <2>4. CASE ~ (e.time < g.start)
    <3>1. d \in Nat /\ d < n * w
      <4>1. End(g, n) = g.start + (n * w)
        BY DEF End
      <4>2. n * w \in Int
        BY <1>1
      <4> QED
        BY <1>1, <2>1, <2>4, <4>1, <4>2
    <3>2. c[j] = (d \div w) + 1
      BY <2>2, <2>4 DEF BarOf
    <3>3. d \div w \in Nat /\ d \div w < n
      <4>1. \A x \in Nat, y \in Nat \ {0} : x \div y \in Nat /\ (x \div y) * y <= x
        OBVIOUS
      <4>2. d \div w \in Nat /\ (d \div w) * w <= d
        BY <3>1, <1>1, <4>1
      <4>3. (d \div w) * w < n * w
        <5>1. (d \div w) * w \in Nat /\ n * w \in Nat
          BY <4>2, <1>1
        <5> HIDE DEF d, w
        <5> QED
          BY <3>1, <4>2, <5>1
      <4>4. \A x \in Nat, y \in Nat, z \in Nat \ {0} : x * z < y * z => x < y
        OBVIOUS
      <4> HIDE DEF d, w, n
      <4>5. w \in Nat \ {0} /\ n \in Nat
        BY <1>1 DEF w
      <4> QED
        BY <4>2, <4>3, <4>4, <4>5
    <3>4. c[j] \in 1..n
      BY <1>1, <3>2, <3>3
    <3>5. from = NoTime \/ e.time >= from
      BY <1>1, <2>1, <2>4
    <3> QED
      BY <3>4, <3>5
  <2> QED
    BY <2>3, <2>4
<1>7. {j \in D : c[j] \in 1..n} = I
  <2> HIDE DEF D, c, n, from
  <2> QED
    BY <1>6
<1> QED
  BY <1>4, <1>5, <1>7

\* A bar that is not marked has none of the rows that are shown.
LEMMA OnlyMarkedBars ==
  ASSUME NEW B, \A e \in B : e.time \in Nat, NEW es \in Seq(B),
         NEW g, g.start \in Nat, g.dur \in Nat \ {0}, NEW i \in Nat \ {0},
         NEW from \in Nat, NEW to \in Nat, NEW e \in Range(Rows(es, from, to)),
         BarOf(e, g) = i
  PROVE  Selected(g, i, from, to)
<1> DEFINE J == {j \in DOMAIN es : /\ from = NoTime \/ es[j].time >= from
                                   /\ to = NoTime \/ es[j].time < to}
           s == At(es, J)
<1>1. Rows(es, from, to) = Reverse(s)
  BY RowsAre
<1>2. s \in Seq(B) /\ Range(s) = {es[j] : j \in J \cap (1..Len(es))}
  <2> HIDE DEF J
  <2> QED
    BY AtType, AtRange
<1>3. e \in Range(s)
  <2> HIDE DEF s
  <2>1. PICK j \in DOMAIN Reverse(s) : e = Reverse(s)[j]
    BY <1>1 DEF Range
  <2>2. j \in 1..Len(s) /\ e = s[Len(s) - j + 1] /\ Len(s) - j + 1 \in DOMAIN s
    BY <2>1, <1>2 DEF Reverse
  <2> QED
    BY <2>2 DEF Range
<1>4. PICK j \in J : e = es[j]
  BY <1>2, <1>3
<1>5. from # NoTime /\ to # NoTime
  BY DEF NoTime
<1>6. e.time \in Nat /\ from <= e.time /\ e.time < to
  BY <1>4, <1>5
<1>7. g.start \in Int /\ from \in Int /\ to \in Int
  OBVIOUS
<1> QED
  BY <1>6, <1>7, RowsAreMarked

\* The log of a page is a sequence of entries.
LEMMA HostScopedType ==
  ASSUME buffer \in Seq(Entries), NEW f
  PROVE  HostScoped(f) \in Seq(Entries) /\ \A e \in Entries : e.time \in Nat
<1> DEFINE I == {i \in DOMAIN buffer : f = {} \/ f \cap buffer[i].hosts # {}}
<1>1. HostScoped(f) = At(buffer, I)
  BY DEF HostScoped, Select
<1>2. At(buffer, I) \in Seq(Entries)
  <2> HIDE DEF I
  <2> QED
    BY AtType
<1>3. \A e \in Entries : e.time \in Nat
  BY DEF Entries, LogEntry
<1> QED
  BY <1>1, <1>2, <1>3

\* The timeline shows what the page lists, whatever is in the buffer.
LEMMA BarsShowRows ==
  ASSUME LogTypeOK
  PROVE  BarsShowTheirRows
<1> SUFFICES ASSUME NEW f \in HostFilters, NEW es, es = HostScoped(f), Plotted(es),
                    NEW g, g = Grid(es)
             PROVE  /\ g.bars <= BucketMax
                    /\ \A i \in 1..g.bars :
                         LET rows == Rows(es, Start(g, i), End(g, i))
                         IN /\ Total(es, g, i) = Len(rows)
                            /\ Errors(es, g, i) = Len(Select(rows, IsErrorLogEntry))
                    /\ SumFunctionOnSet([i \in 1..g.bars |-> Total(es, g, i)], 1..g.bars)
                         = Len(Rows(es, IF g.bars < BucketMax THEN NoTime ELSE g.start, NoTime))
                    /\ \A from \in Time, to \in Time, i \in 1..g.bars :
                         Selected(g, i, from, to)
                           \/ \A e \in Range(Rows(es, from, to)) : BarOf(e, g) # i
  BY Zenon DEF BarsShowTheirRows
<1>1. es \in Seq(Entries) /\ \A e \in Entries : e.time \in Nat
  BY HostScopedType DEF LogTypeOK
<1>2. es # <<>>
  BY <1>1 DEF Plotted
<1>3. /\ g.dur \in Nat \ {0} /\ g.start \in Nat
      /\ g.bars \in Nat \ {0} /\ g.bars <= BucketMax
  BY <1>1, <1>2, GridIs
<1>4. ASSUME NEW i \in 1..g.bars
      PROVE  /\ Total(es, g, i) = Len(Rows(es, Start(g, i), End(g, i)))
             /\ Errors(es, g, i) = Len(Select(Rows(es, Start(g, i), End(g, i)), IsErrorLogEntry))
  <2>1. i \in Nat \ {0}
    OBVIOUS
  <2>2. Rows(es, Start(g, i), End(g, i)) = Reverse(Counted(es, g, i))
    BY <1>1, <1>3, <2>1, RowsOfBar
  <2>3. Counted(es, g, i) \in Seq(Entries)
    BY <1>1, CountedAre, AtType
  <2>4. /\ Len(Reverse(Counted(es, g, i))) = Len(Counted(es, g, i))
        /\ Len(Select(Reverse(Counted(es, g, i)), IsErrorLogEntry))
             = Len(Select(Counted(es, g, i), IsErrorLogEntry))
    BY <2>3, ErrorsOfRows
  <2> QED
    BY <2>2, <2>4, Zenon DEF Total, Errors
<1>5. SumFunctionOnSet([i \in 1..g.bars |-> Total(es, g, i)], 1..g.bars)
        = Len(Rows(es, IF g.bars < BucketMax THEN NoTime ELSE g.start, NoTime))
  BY <1>1, <1>2, TimelineAccounts
<1>6. ASSUME NEW from \in Time, NEW to \in Time, NEW i \in 1..g.bars,
             NEW e \in Range(Rows(es, from, to)), BarOf(e, g) = i
      PROVE  Selected(g, i, from, to)
  <2>1. from \in Nat /\ to \in Nat /\ i \in Nat \ {0}
    BY TimeAssumption DEF Time
  <2> QED
    BY <1>1, <1>3, <1>6, <2>1, OnlyMarkedBars
<1> QED
  BY <1>3, <1>4, <1>5, <1>6, Zenon

\* The timeline accounts for the page in every state: a bar has as many rows and
\* errors as the page lists when it is clicked, no entry is in two bars or in none,
\* and bars that are not marked have none of the rows shown, whatever order the
\* entries came in (buildLogTimeline against handleLogsHTML).
THEOREM BarsTellTheTruth == ASpec => []BarsShowTheirRows
<1>1. LogTypeOK => BarsShowTheirRows
  BY BarsShowRows
<1> QED
  BY <1>1, TypeCorrect, PTL

\* A new entry never moves the bars: while they keep their width, they keep their
\* boundaries (buildLogTimeline aligns them to multiples of it).
THEOREM BarsDoNotMove == ASpec => BarsStayAligned
<1> DEFINE A == \A f \in HostFilters :
                  LET g == Grid(HostScoped(f))
                      h == Grid(HostScoped(f)')
                  IN /\ buffer # buffer'
                     /\ Plotted(HostScoped(f)) /\ Plotted(HostScoped(f)')
                     /\ g.dur = h.dur
                     => (g.start - h.start) % g.dur = 0
<1>1. LogTypeOK /\ LogTypeOK' => A
  <2> SUFFICES ASSUME LogTypeOK, LogTypeOK', NEW f \in HostFilters,
                      NEW es, es = HostScoped(f), NEW fs, fs = HostScoped(f)',
                      Plotted(es), Plotted(fs), Grid(es).dur = Grid(fs).dur
               PROVE  (Grid(es).start - Grid(fs).start) % Grid(es).dur = 0
    BY Zenon
  <2>1. es \in Seq(Entries) /\ \A e \in Entries : e.time \in Nat
    BY HostScopedType DEF LogTypeOK
  <2>2. fs \in Seq(Entries)
    <3> DEFINE J == {i \in DOMAIN buffer' : f = {} \/ f \cap buffer'[i].hosts # {}}
    <3>1. fs = At(buffer', J)
      BY DEF HostScoped, Select, At
    <3>2. buffer' \in Seq(Entries)
      BY DEF LogTypeOK
    <3> HIDE DEF J
    <3> QED
      BY <3>1, <3>2, AtType
  <2>3. es # <<>> /\ fs # <<>>
    BY <2>1, <2>2 DEF Plotted
  <2> QED
    BY <2>1, <2>2, <2>3, GridsAgree
<1> HIDE DEF A
<1>2. ASpec => [][A]_buffer
  BY <1>1, TypeCorrect, PTL
<1> QED
  BY <1>2 DEF A, BarsStayAligned

-----------------------------------------------------------------------------
(* The status the client gets, and the one that is recorded.               *)

\* A statusWriter holds the first code, or 200 if a body comes first or nothing.
LEMMA CapturedIs ==
  ASSUME NEW calls \in Seq(Nat)
  PROVE  Captured(calls) = IF calls = <<>> \/ calls[1] = Body THEN 200 ELSE calls[1]
<1> DEFINE n == Len(calls)
           first == IF calls[1] = Body THEN 200 ELSE calls[1]
           start == [statusCode |-> 200, written |-> FALSE]
           held == [statusCode |-> first, written |-> TRUE]
           Eq(w) == w = [i \in 0..n |-> IF i = 0 THEN start ELSE Latch(w[i - 1], calls[i])]
           F == [i \in 0..n |-> IF i = 0 THEN start ELSE held]
           G == CHOOSE w : Eq(w)
<1>1. Captured(calls) = G[n].statusCode
  BY DEF Captured
<1>2. n \in Nat /\ (n = 0 <=> calls = <<>>)
  OBVIOUS
<1>3. Latch(start, calls[1]) = held
  BY DEF Latch
<1>4. \A c : Latch(held, c) = held
  BY DEF Latch
<1> HIDE DEF start, held
<1>5. Eq(F)
  <2> SUFFICES ASSUME NEW i \in 1..n
               PROVE  Latch(F[i - 1], calls[i]) = held
    OBVIOUS
  <2>1. CASE i = 1
    BY <1>3, <2>1
  <2>2. CASE i # 1
    <3>1. i - 1 \in 0..n /\ i - 1 # 0
      BY <2>2
    <3>2. F[i - 1] = held
      BY <3>1
    <3> QED
      BY <1>4, <3>2
  <2> QED
    BY <2>1, <2>2
<1>6. Eq(G)
  <2> HIDE DEF Eq
  <2> QED
    BY <1>5
<1> HIDE DEF F, G
<1>7. G[0] = start /\ \A i \in 1..n : G[i] = Latch(G[i - 1], calls[i])
  <2>1. \A i \in 0..n : G[i] = IF i = 0 THEN start ELSE Latch(G[i - 1], calls[i])
    BY <1>6
  <2>2. 0 \in 0..n /\ \A i \in 1..n : i \in 0..n /\ i # 0
    BY <1>2
  <2> HIDE DEF n
  <2> QED
    BY <2>1, <2>2, Zenon
<1> DEFINE N == {i \in Nat : i + 1 \in 1..n => G[i + 1] = held}
<1>8. 0 \in N
  <2> SUFFICES ASSUME 1 \in 1..n
               PROVE  G[1] = held
    OBVIOUS
  <2>1. G[1] = Latch(G[0], calls[1])
    BY <1>7
  <2> QED
    BY <2>1, <1>3, <1>7
<1>9. ASSUME NEW i \in Nat, i \in N
      PROVE  i + 1 \in N
  <2> SUFFICES ASSUME (i + 1) + 1 \in 1..n
               PROVE  G[(i + 1) + 1] = held
    OBVIOUS
  <2>1. i + 1 \in 1..n /\ ((i + 1) + 1) - 1 = i + 1
    OBVIOUS
  <2>2. G[i + 1] = held
    BY <1>9, <2>1
  <2>3. G[(i + 1) + 1] = Latch(G[i + 1], calls[(i + 1) + 1])
    BY <1>7, <2>1
  <2> QED
    BY <2>2, <2>3, <1>4
<1>10. \A i \in Nat : i \in N
  <2> HIDE DEF N
  <2> QED
    BY <1>8, <1>9, Induction
<1>11. CASE n = 0
  BY <1>1, <1>2, <1>7, <1>11 DEF start
<1>12. CASE n # 0
  <2>1. n - 1 \in Nat /\ (n - 1) + 1 = n /\ n \in 1..n
    BY <1>2, <1>12
  <2>2. G[n] = held
    BY <1>10, <2>1
  <2> QED
    BY <1>1, <1>2, <1>12, <2>2 DEF held
<1> QED
  BY <1>11, <1>12

\* An error is only captured if it is what the client gets.
LEMMA CapturedErrorIsReal ==
  ASSUME NEW calls \in Seq(Nat), \A i \in DOMAIN calls : calls[i] # Body => calls[i] >= 100,
         IsErr(Captured(calls))
  PROVE  ClientStatus(calls) >= 500
<1> DEFINE I == {i \in DOMAIN calls : calls[i] # 103}
           final == At(calls, I)
<1>1. ClientStatus(calls) = IF final = <<>> \/ final[1] = Body THEN 200 ELSE final[1]
  BY DEF ClientStatus, Select
<1>2. /\ calls # <<>> /\ calls[1] # Body /\ calls[1] \in Nat
      /\ Captured(calls) = calls[1] /\ calls[1] >= 500
  <2>1. ~IsErr(200)
    BY DEF IsErr
  <2>2. calls # <<>> /\ calls[1] # Body /\ Captured(calls) = calls[1]
    BY <2>1, CapturedIs
  <2>3. 1 \in DOMAIN calls
    BY <2>2
  <2> QED
    BY <2>2, <2>3 DEF IsErr
<1>3. 1 \in I
  BY <1>2
<1>4. final # <<>> /\ final[1] = calls[1]
  <2> HIDE DEF I
  <2> QED
    BY <1>2, <1>3, AtFirst
<1> QED
  BY <1>1, <1>2, <1>4

\* Codes have three digits.
LEMMA CallsAre ==
  ASSUME NEW calls \in Calls
  PROVE  calls \in Seq(Nat) /\ \A i \in DOMAIN calls : calls[i] # Body => calls[i] >= 100
<1> DEFINE C == {Body, 103, 200, 502}
<1>1. CASE calls = <<>>
  BY <1>1
<1>2. ASSUME NEW a \in C, calls = <<a>>
      PROVE  calls \in Seq(C)
  BY <1>2
<1>3. ASSUME NEW a \in C, NEW b \in C, calls = <<a, b>>
      PROVE  calls \in Seq(C)
  BY <1>3
<1>4. calls = <<>> \/ (\E a \in C : calls = <<a>>) \/ \E a, b \in C : calls = <<a, b>>
  BY DEF Calls
<1>5. \A c \in C : c \in Nat /\ (c # Body => c >= 100)
  BY DEF Body
<1>6. calls \in Seq(C) => calls \in Seq(Nat) /\ \A i \in DOMAIN calls : calls[i] # Body => calls[i] >= 100
  <2> HIDE DEF C
  <2> QED
    BY <1>5
<1> QED
  BY <1>1, <1>2, <1>3, <1>4, <1>6

\* Whatever a request goes through, its status is an error only if the client got one.
LEMMA ErrorsStep == TypeOK /\ ErrorsAreReal /\ [ANext]_allVars => ErrorsAreReal'
<1> SUFFICES ASSUME TypeOK, ErrorsAreReal, [ANext]_allVars
             PROVE  ErrorsAreReal'
  OBVIOUS
<1>1. ASSUME NEW q \in Requests, Serve(q)
      PROVE  ErrorsAreReal'
  <2>0. PICK calls \in Calls :
           /\ statusCode' = [statusCode EXCEPT ![q] = Captured(calls)]
           /\ \E handlerErr \in BOOLEAN :
                /\ handlerErr => calls = <<>>
                /\ failed' = [failed EXCEPT ![q] = handlerErr \/ ClientStatus(calls) >= 500]
    BY <1>1 DEF Serve
  <2>1. PICK handlerErr \in BOOLEAN :
           /\ statusCode' = [statusCode EXCEPT ![q] = Captured(calls)]
           /\ failed' = [failed EXCEPT ![q] = handlerErr \/ ClientStatus(calls) >= 500]
    BY <2>0
  <2>2. calls \in Seq(Nat) /\ \A i \in DOMAIN calls : calls[i] # Body => calls[i] >= 100
    BY CallsAre
  <2>3. IsErr(Captured(calls)) => ClientStatus(calls) >= 500
    BY <2>2, CapturedErrorIsReal
  <2>4. \A p \in Requests : p # q => pc'[p] = pc[p]
    BY <1>1 DEF Serve, Goto, TypeOK
  <2>5. ASSUME NEW p \in Requests, p # q, pc'[p] # "done", IsErr(statusCode'[p])
        PROVE  failed'[p]
    BY <2>1, <2>4, <2>5 DEF ErrorsAreReal, TypeOK
  <2>6. IsErr(statusCode'[q]) => failed'[q]
    BY <2>1, <2>3 DEF TypeOK
  <2> QED
    BY <2>5, <2>6 DEF ErrorsAreReal
<1>2. ASSUME NEW q \in Requests, RecordEvent(q)
      PROVE  ErrorsAreReal'
  <2>1. /\ pc' = [pc EXCEPT ![q] = "done"] /\ failed' = [failed EXCEPT ![q] = FALSE]
        /\ statusCode' = statusCode
    BY <1>2 DEF RecordEvent, Goto
  <2> QED
    BY <2>1 DEF ErrorsAreReal, TypeOK
<1>3. ASSUME NEW q \in Requests, LogRequest(q)
      PROVE  ErrorsAreReal'
  <2>1. pc[q] = "done" /\ statusCode' = [statusCode EXCEPT ![q] = 200] /\ pc' = pc /\ failed' = failed
    BY <1>3 DEF LogRequest, history
  <2> QED
    BY <2>1 DEF ErrorsAreReal, TypeOK
<1>4. ASSUME NEW q \in Requests, Lookup(q) \/ Scan(q) \/ Evict(q) \/ Create(q)
      PROVE  ErrorsAreReal'
  <2>1. statusCode' = statusCode /\ failed' = failed /\ pc[q] # "done"
    BY <1>4 DEF Lookup, Scan, Evict, Create, history
  <2>2. \A p \in Requests : p # q => pc'[p] = pc[p]
    BY <1>4 DEF Lookup, Scan, Evict, Create, Goto, TypeOK
  <2> QED
    BY <2>1, <2>2 DEF ErrorsAreReal
<1>5. ASSUME UNCHANGED <<pc, statusCode, failed>>
      PROVE  ErrorsAreReal'
  BY <1>5 DEF ErrorsAreReal
<1>6. CASE Next
  <2>1. CASE \E h \in Hosts : Forget(h)
    BY <2>1, <1>5 DEF Forget, locals
  <2>2. CASE Tick
    BY <2>2, <1>5 DEF Tick, locals, history
  <2> QED
    BY <1>1, <1>2, <1>4, <1>6, <2>1, <2>2 DEF Next, Record
<1>7. CASE UNCHANGED vars
  BY <1>5, <1>7 DEF vars, locals, history
<1> QED
  BY <1>3, <1>6, <1>7 DEF ANext, allVars, LogNote, AddEntry

\* No request is counted as an error whose client got something else than a 5xx:
\* the statusWriter may hold an informational code, and 200 if nothing was written,
\* but never an error that the client did not get (WriteHeader, Write and isErr).
THEOREM NoFalseAlarms == ASpec => []ErrorsAreReal
<1>1. AInit => ErrorsAreReal
  BY DEF AInit, Init, ErrorsAreReal, IsErr
<1>2. IInv => TypeOK
  BY DEF IInv, MapInv
<1> QED
  BY <1>1, <1>2, ErrorsStep, StatsInvariant, PTL DEF ASpec

-----------------------------------------------------------------------------
(* The ring of buckets.                                                    *)

\* Who has still to be counted.
Busy == {"stamped", "evicting", "creating", "found"}

\* A Record counts in a bucket that is still shown.
InTime ==
  \A q \in Requests : pc[q] \in Busy => now[q] <= clock /\ clock - now[q] < Buckets

\* A slot that was written counts all of one bucket, and errors among its requests.
SlotsCount ==
  \A o \in Requests, s \in 0..Buckets - 1 :
    LET b == stats[o].buckets[s]
    IN  IF b.idx = -1 THEN b.requests = 0 /\ b.errors = 0
        ELSE /\ b.idx \in 0..clock /\ Slot(b.idx) = s
             /\ b.requests = events[o][b.idx] /\ b.errors <= b.requests

\* A bucket that is shown, or yet to come, is in its slot or empty.
SlotsKeep ==
  \A o \in Requests, t \in Time :
    t > clock - Buckets /\ stats[o].buckets[Slot(t)].idx # t => events[o][t] = 0

\* The total of an object counts all of its buckets.
TotalsCount == \A o \in Requests : stats[o].total = SumFunctionOnSet(events[o], Time)

\* The invariant of the ring.
RingInv == InTime /\ SlotsCount /\ SlotsKeep /\ TotalsCount

\* Two buckets of a window have different slots.
LEMMA OneSlotEach ==
  ASSUME NEW t \in Nat, NEW u \in Nat, Slot(t) = Slot(u), t - u < Buckets, u - t < Buckets
  PROVE  t = u
<1>1. Buckets \in Nat \ {0}
  BY BucketsAssumption
<1>2. \A n \in Nat : n = Buckets * (n \div Buckets) + (n % Buckets) /\ n \div Buckets \in Nat
  BY <1>1
<1>3. PICK i \in Nat, j \in Nat, r \in Int : t = Buckets * i + r /\ u = Buckets * j + r
  <2>1. t % Buckets = u % Buckets /\ t % Buckets \in Int
    BY <1>1 DEF Slot
  <2> QED
    BY <1>2, <2>1
<1>4. t - u = Buckets * (i - j)
  BY <1>1, <1>3
<1>5. i - j >= 1 => Buckets * (i - j) >= Buckets
  BY <1>1
<1>6. i - j <= -1 => Buckets * (i - j) <= -Buckets
  BY <1>1
<1>7. i = j
  BY <1>1, <1>4, <1>5, <1>6
<1> QED
  BY <1>3, <1>7

\* What the page shows of a ring of buckets.
LEMMA WindowOfRing ==
  ASSUME TypeOK, RingInv
  PROVE  WindowIsExact
<1> SUFFICES ASSUME NEW o \in Requests
             PROVE  LET window == {t \in clock - Buckets + 1 .. clock : t >= 0}
                    IN  /\ WindowReq(o) = SumFunctionOnSet(events[o], window)
                        /\ WindowErr(o) <= WindowReq(o) /\ WindowReq(o) <= stats[o].total
  BY DEF WindowIsExact
<1> DEFINE window == {t \in clock - Buckets + 1 .. clock : t >= 0}
           live == Live(o)
           req == [t \in live |-> stats[o].buckets[Slot(t)].requests]
           err == [t \in live |-> stats[o].buckets[Slot(t)].errors]
           ev == events[o]
<1>1. clock \in Nat /\ clock <= MaxTime /\ Buckets \in Nat \ {0} /\ MaxTime \in Nat
  BY TimeAssumption, BucketsAssumption DEF TypeOK, Time
<1>2. window \subseteq Time /\ \A t \in window : t \in Nat /\ t > clock - Buckets
  BY <1>1 DEF Time
<1>3. IsFiniteSet(Time) /\ IsFiniteSet(window)
  <2>1. IsFiniteSet(Time)
    BY <1>1, FS_Interval DEF Time
  <2> QED
    BY <2>1, <1>2, FS_Subset
<1>4. live \subseteq window /\ \A t \in window : t \in live <=> stats[o].buckets[Slot(t)].idx = t
  BY DEF Live
<1>5. ev \in [Time -> Nat] /\ stats[o] \in Counters
  BY DEF TypeOK
<1>6. IsFiniteSet(live)
  BY <1>3, <1>4, FS_Subset
<1>7. ASSUME NEW t \in live
      PROVE  req[t] \in Int /\ req[t] = ev[t] /\ err[t] \in Int /\ err[t] <= req[t]
  <2> DEFINE b == stats[o].buckets[Slot(t)]
  <2>1. Slot(t) \in 0..Buckets - 1 /\ b.idx = t /\ t # -1
    BY <1>2, <1>4, SlotType
  <2>2. b.requests \in Nat /\ b.errors \in Nat
    BY <2>1, <1>5 DEF Counters, Bucket
  <2>3. b.requests = ev[t] /\ b.errors <= b.requests
    BY <2>1 DEF RingInv, SlotsCount
  <2> QED
    BY <2>2, <2>3
<1>8. \A t \in window \ live : ev[t] = 0
  BY <1>2, <1>4 DEF RingInv, SlotsKeep
<1>9. WindowReq(o) = SumFunctionOnSet(req, live) /\ WindowErr(o) = SumFunctionOnSet(err, live)
  BY DEF WindowReq, WindowErr
<1>10. stats[o].total = SumFunctionOnSet(ev, Time)
  BY DEF RingInv, TotalsCount
<1> HIDE DEF req, err, live, window, ev
<1>11. SumFunctionOnSet(req, live) = SumFunctionOnSet(ev, live)
  BY <1>6, <1>7, SumCongruent
<1>12. SumFunctionOnSet(ev, window) = SumFunctionOnSet(ev, live)
  <2>1. \A t \in window : ev[t] \in Int
    BY <1>2, <1>5
  <2> QED
    BY <2>1, <1>3, <1>4, <1>8, SumOfZeros
<1>13. SumFunctionOnSet(err, live) <= SumFunctionOnSet(req, live)
  BY <1>6, <1>7, SumMonotonic
<1>14. SumFunctionOnSet(ev, window) <= SumFunctionOnSet(ev, Time)
  BY <1>2, <1>3, <1>5, SumOfPart
<1> QED
  BY <1>9, <1>10, <1>11, <1>12, <1>13, <1>14 DEF window, ev

\* The zero ring counts nothing.
LEMMA RingInvInit == Init => RingInv
<1> SUFFICES ASSUME Init
             PROVE  RingInv
  OBVIOUS
<1>1. IsFiniteSet(Time)
  BY TimeAssumption, FS_Interval DEF Time
<1>2. ASSUME NEW o \in Requests
      PROVE  SumFunctionOnSet(events[o], Time) = 0
  <2> DEFINE f == events[o]
  <2>1. \A t \in Time : f[t] = 0
    BY DEF Init
  <2> HIDE DEF f
  <2>2. \A t \in Time : f[t] \in Int
    BY <2>1
  <2>3. SumFunctionOnSet(f, Time) = SumFunctionOnSet(f, {})
    BY <1>1, <2>1, <2>2, SumOfZeros
  <2> QED
    BY <2>3, SumEmpty DEF f
<1>3. InTime
  BY DEF Init, InTime, Busy
<1>4. SlotsCount
  BY DEF Init, SlotsCount, NewStats
<1>5. SlotsKeep
  BY DEF Init, SlotsKeep
<1>6. TotalsCount
  BY <1>2 DEF Init, TotalsCount, NewStats
<1> QED
  BY <1>3, <1>4, <1>5, <1>6 DEF RingInv

\* Steps that count nothing.
LEMMA RingKept ==
  ASSUME RingInv, UNCHANGED <<clock, stats, events>>, InTime'
  PROVE  RingInv'
<1>1. SlotsCount'
  BY DEF RingInv, SlotsCount
<1>2. SlotsKeep'
  BY DEF RingInv, SlotsKeep
<1>3. TotalsCount'
  BY DEF RingInv, TotalsCount
<1> QED
  BY <1>1, <1>2, <1>3 DEF RingInv

\* Record counts in a bucket that is shown, and takes over its slot from one that is
\* not shown any more.
LEMMA RecordEventRing ==
  ASSUME TypeOK, RingInv, NEW q \in Requests, RecordEvent(q), object[q] \in Requests
  PROVE  RingInv'
<1> DEFINE o == object[q]
           t == now[q]
           b == Zeroed(stats[o].buckets[Slot(t)], t)
           n == ErrorCount(q)
           counted == [b EXCEPT !.requests = @ + 1, !.errors = @ + n]
<1>1. /\ o \in Requests /\ t \in Time /\ t \in Nat /\ Slot(t) \in 0..Buckets - 1
      /\ t <= clock /\ clock - t < Buckets /\ t > clock - Buckets
      /\ clock \in Nat /\ clock \in Time /\ Buckets \in Nat \ {0}
  <2>1. t \in Time /\ clock \in Time /\ \A u \in Time : u \in Nat
    BY TimeAssumption DEF TypeOK, Time
  <2>2. t <= clock /\ clock - t < Buckets
    BY DEF RecordEvent, RingInv, InTime, Busy
  <2> QED
    BY <2>1, <2>2, SlotType, BucketsAssumption
<1>2. stats \in [Requests -> Counters] /\ events \in [Requests -> [Time -> Nat]]
  BY DEF TypeOK
<1>3. stats[o].buckets \in [0..Buckets - 1 -> Bucket] /\ stats[o].total \in Nat
  BY <1>1, <1>2 DEF Counters
<1>4. stats' = [stats EXCEPT ![o] =
                  [buckets  |-> [stats[o].buckets EXCEPT ![Slot(t)] = counted],
                   total    |-> stats[o].total + 1,
                   errors   |-> stats[o].errors + n,
                   lastSeen |-> t]]
  BY <1>1 DEF RecordEvent, TypeOK
<1>5. events' = [events EXCEPT ![o] = [events[o] EXCEPT ![t] = @ + 1]]
  BY <1>1, <1>2 DEF RecordEvent
<1>6. clock' = clock /\ n \in {0, 1}
  BY DEF RecordEvent, ErrorCount
<1>7. stats[o].buckets[Slot(t)] \in Bucket
  BY <1>1, <1>3
<1>8. /\ b.requests = events[o][t] /\ b.errors <= b.requests /\ b.idx = t
      /\ b.requests \in Nat /\ b.errors \in Nat /\ b \in Bucket
  <2> DEFINE c == stats[o].buckets[Slot(t)]
  <2>1. CASE c.idx = t
    <3>1. b = c /\ c.idx # -1
      BY <1>1, <2>1 DEF Zeroed
    <3>2. c.requests = events[o][t] /\ c.errors <= c.requests
      BY <1>1, <2>1, <3>1 DEF RingInv, SlotsCount
    <3>3. c.requests \in Nat /\ c.errors \in Nat
      BY <1>7 DEF Bucket
    <3> QED
      BY <1>7, <2>1, <3>1, <3>2, <3>3
  <2>2. CASE c.idx # t
    <3>1. events[o][t] = 0
      BY <1>1, <2>2 DEF RingInv, SlotsKeep
    <3>2. b = [requests |-> 0, errors |-> 0, idx |-> t]
      BY <2>2 DEF Zeroed
    <3> QED
      BY <1>1, <3>1, <3>2 DEF Bucket
  <2> QED
    BY <2>1, <2>2
<1> HIDE DEF b, n
<1>9. counted.requests = events[o][t] + 1 /\ counted.errors <= counted.requests /\ counted.idx = t
  BY <1>6, <1>8 DEF Bucket
<1> HIDE DEF counted, o, t
<1>10. /\ stats'[o].buckets[Slot(t)] = counted
       /\ \A s \in 0..Buckets - 1 : s # Slot(t) => stats'[o].buckets[s] = stats[o].buckets[s]
       /\ stats'[o].total = stats[o].total + 1
       /\ \A p \in Requests : p # o => stats'[p] = stats[p] /\ events'[p] = events[p]
       /\ events'[o] = [events[o] EXCEPT ![t] = @ + 1]
  BY <1>1, <1>2, <1>3, <1>4, <1>5
<1>11. /\ events'[o][t] = events[o][t] + 1
       /\ \A u \in Time : u # t => events'[o][u] = events[o][u]
  BY <1>1, <1>2, <1>10
<1>12. InTime'
  <2>1. \A p \in Requests : p # q => pc'[p] = pc[p] /\ now'[p] = now[p]
    BY DEF RecordEvent, Goto, TypeOK
  <2>2. pc'[q] = "done"
    BY DEF RecordEvent, Goto, TypeOK
  <2> QED
    BY <1>6, <2>1, <2>2 DEF RingInv, InTime, Busy
<1>13. SlotsCount'
  <2> SUFFICES ASSUME NEW p \in Requests, NEW s \in 0..Buckets - 1
               PROVE  LET c == stats'[p].buckets[s]
                      IN  IF c.idx = -1 THEN c.requests = 0 /\ c.errors = 0
                          ELSE /\ c.idx \in 0..clock /\ Slot(c.idx) = s
                               /\ c.requests = events'[p][c.idx] /\ c.errors <= c.requests
    BY <1>6 DEF SlotsCount
  <2>1. CASE p # o
    BY <1>10, <2>1 DEF RingInv, SlotsCount
  <2>2. CASE p = o /\ s = Slot(t)
    <3>1. stats'[p].buckets[s] = counted
      BY <1>10, <2>2
    <3>2. t \in 0..clock /\ counted.idx # -1
      BY <1>1, <1>9
    <3>3. counted.requests = events'[p][counted.idx]
      BY <1>9, <1>11, <2>2
    <3> QED
      BY <1>9, <2>2, <3>1, <3>2, <3>3
  <2>3. CASE p = o /\ s # Slot(t)
    <3> DEFINE c == stats[o].buckets[s]
    <3>1. stats'[p].buckets[s] = c
      BY <1>10, <2>3
    <3>2. IF c.idx = -1 THEN c.requests = 0 /\ c.errors = 0
          ELSE /\ c.idx \in 0..clock /\ Slot(c.idx) = s
               /\ c.requests = events[o][c.idx] /\ c.errors <= c.requests
      BY <1>1 DEF RingInv, SlotsCount
    <3> HIDE DEF c
    <3>3. c.idx # -1 => c.idx # t /\ c.idx \in Time
      <4>1. clock <= MaxTime /\ MaxTime \in Nat /\ clock \in Nat
        BY <1>1, TimeAssumption DEF Time
      <4>2. c.idx # -1 => c.idx \in 0..clock /\ Slot(c.idx) # Slot(t)
        BY <2>3, <3>2
      <4> QED
        BY <4>1, <4>2 DEF Time
    <3> QED
      BY <1>11, <2>3, <3>1, <3>2, <3>3
  <2> QED
    BY <2>1, <2>2, <2>3
<1>14. SlotsKeep'
  <2> SUFFICES ASSUME NEW p \in Requests, NEW u \in Time, u > clock - Buckets,
                      stats'[p].buckets[Slot(u)].idx # u
               PROVE  events'[p][u] = 0
    BY <1>6 DEF SlotsKeep
  <2>1. CASE p # o
    BY <1>10, <2>1 DEF RingInv, SlotsKeep
  <2>2. CASE p = o
    <3>1. u # t
      BY <1>9, <1>10, <2>2
    <3>2. events'[o][u] = events[o][u]
      BY <1>11, <3>1
    <3>3. u \in Nat /\ Slot(u) \in 0..Buckets - 1
      BY TimeAssumption, SlotType DEF Time
    <3>4. stats[o].buckets[Slot(u)].idx # u
      <4>1. CASE Slot(u) # Slot(t)
        BY <1>10, <2>2, <3>3, <4>1
      <4>2. CASE Slot(u) = Slot(t)
        <5> SUFFICES ASSUME stats[o].buckets[Slot(u)].idx = u
                     PROVE  FALSE
          OBVIOUS
        <5>1. u <= clock
          BY <1>1, <3>3 DEF RingInv, SlotsCount
        <5>2. t - u < Buckets /\ u - t < Buckets
          BY <1>1, <3>3, <5>1
        <5>3. t = u
          BY <1>1, <3>3, <4>2, <5>2, OneSlotEach
        <5> QED
          BY <3>1, <5>3
      <4> QED
        BY <4>1, <4>2
    <3> QED
      BY <1>1, <2>2, <3>2, <3>4 DEF RingInv, SlotsKeep
  <2> QED
    BY <2>1, <2>2
<1>15. TotalsCount'
  <2> SUFFICES ASSUME NEW p \in Requests
               PROVE  stats'[p].total = SumFunctionOnSet(events'[p], Time)
    BY DEF TotalsCount
  <2>1. CASE p # o
    BY <1>10, <2>1 DEF RingInv, TotalsCount
  <2>2. CASE p = o
    <3> DEFINE f == events[o]
    <3>1. f \in [Time -> Nat] /\ IsFiniteSet(Time)
      BY <1>1, <1>2, TimeAssumption, FS_Interval DEF Time
    <3>2. events'[o] = [f EXCEPT ![t] = @ + 1]
      BY <1>10
    <3>3. stats[o].total = SumFunctionOnSet(f, Time)
      BY <1>1 DEF RingInv, TotalsCount
    <3> HIDE DEF f
    <3>4. SumFunctionOnSet([f EXCEPT ![t] = @ + 1], Time) = SumFunctionOnSet(f, Time) + 1
      BY <1>1, <3>1, SumOneMore
    <3> QED
      BY <1>10, <2>2, <3>2, <3>3, <3>4
  <2> QED
    BY <2>1, <2>2
<1> QED
  BY <1>12, <1>13, <1>14, <1>15 DEF RingInv

\* Every step keeps the invariant of the ring: a Record is through before its bucket
\* leaves the window.
LEMMA RingInvStep == IInv /\ RingInv /\ [ANext]_allVars => RingInv'
<1> SUFFICES ASSUME IInv, RingInv, [ANext]_allVars
             PROVE  RingInv'
  OBVIOUS
<1>0. TypeOK
  BY DEF IInv, MapInv
<1>1. ASSUME UNCHANGED <<clock, stats, events, pc, now>>
      PROVE  RingInv'
  <2>1. InTime'
    BY <1>1 DEF RingInv, InTime
  <2> QED
    BY <1>1, <2>1, RingKept
<1>2. ASSUME NEW q \in Requests, Serve(q)
      PROVE  RingInv'
  <2>1. \A p \in Requests : p # q => pc'[p] = pc[p] /\ now'[p] = now[p]
    BY <1>0, <1>2 DEF Serve, Goto, TypeOK
  <2>2. now'[q] = clock /\ UNCHANGED <<clock, stats, events>>
    BY <1>0, <1>2 DEF Serve, TypeOK
  <2>3. clock \in Nat
    BY <1>0, TimeAssumption DEF TypeOK, Time
  <2>4. InTime'
    BY <2>1, <2>2, <2>3, BucketsAssumption DEF RingInv, InTime
  <2> QED
    BY <2>2, <2>4, RingKept
<1>3. ASSUME NEW q \in Requests, Lookup(q) \/ Scan(q) \/ Evict(q) \/ Create(q)
      PROVE  RingInv'
  <2>1. UNCHANGED <<clock, stats, events, now>> /\ pc[q] \in Busy
    BY <1>3 DEF Lookup, Scan, Evict, Create, history, Busy
  <2>2. \A p \in Requests : p # q => pc'[p] = pc[p]
    BY <1>0, <1>3 DEF Lookup, Scan, Evict, Create, Goto, TypeOK
  <2>3. InTime'
    BY <2>1, <2>2 DEF RingInv, InTime
  <2> QED
    BY <2>1, <2>3, RingKept
<1>4. ASSUME NEW q \in Requests, RecordEvent(q)
      PROVE  RingInv'
  <2>1. object[q] \in Requests
    BY <1>4 DEF RecordEvent, IInv, ObjectsBelong
  <2> QED
    BY <1>0, <1>4, <2>1, RecordEventRing
<1>5. ASSUME NEW h \in Hosts, Forget(h)
      PROVE  RingInv'
  BY <1>1, <1>5 DEF Forget, locals
<1>6. ASSUME Tick
      PROVE  RingInv'
  <2>1. clock' = clock + 1 /\ UNCHANGED <<stats, events, pc, now>>
    BY <1>6 DEF Tick, locals, history
  <2>2. clock \in Nat /\ Buckets \in Nat /\ \A p \in Requests : now[p] \in Nat
    BY <1>0, TimeAssumption, BucketsAssumption DEF TypeOK, Time
  <2>3. InTime'
    BY <1>6, <2>1, <2>2 DEF RingInv, InTime, Tick, Busy
  <2>4. SlotsCount'
    <3> SUFFICES ASSUME NEW o \in Requests, NEW s \in 0..Buckets - 1
                 PROVE  LET b == stats[o].buckets[s]
                        IN  IF b.idx = -1 THEN b.requests = 0 /\ b.errors = 0
                            ELSE /\ b.idx \in 0..clock + 1 /\ Slot(b.idx) = s
                                 /\ b.requests = events[o][b.idx] /\ b.errors <= b.requests
      BY <2>1 DEF SlotsCount
    <3> QED
      BY <2>2 DEF RingInv, SlotsCount
  <2>5. SlotsKeep'
    <3> SUFFICES ASSUME NEW o \in Requests, NEW t \in Time, t > (clock + 1) - Buckets,
                        stats[o].buckets[Slot(t)].idx # t
                 PROVE  events[o][t] = 0
      BY <2>1 DEF SlotsKeep
    <3>1. t \in Nat
      BY TimeAssumption DEF Time
    <3>2. t > clock - Buckets
      BY <2>2, <3>1
    <3> QED
      BY <3>2 DEF RingInv, SlotsKeep
  <2>6. TotalsCount'
    BY <2>1 DEF RingInv, TotalsCount
  <2> QED
    BY <2>3, <2>4, <2>5, <2>6 DEF RingInv
<1>7. CASE Next
  BY <1>2, <1>3, <1>4, <1>5, <1>6, <1>7 DEF Next, Record
<1>8. CASE UNCHANGED vars
  BY <1>1, <1>8 DEF vars, locals, history
<1>9. ASSUME NEW q \in Requests, LogRequest(q)
      PROVE  RingInv'
  BY <1>1, <1>9 DEF LogRequest, history
<1> QED
  BY <1>7, <1>8, <1>9 DEF ANext, allVars, LogNote, AddEntry

\* The window shown for a route counts exactly the requests recorded in it that
\* finished in its last statsBuckets buckets, and never more than its total: a slot is
\* zeroed by the first Record of a new bucket, and snapshot skips those that are not
\* (slotFor, record and snapshot).
THEOREM RingIsTheWindow == ASpec => []WindowIsExact
<1>1. AInit => RingInv
  BY RingInvInit DEF AInit
<1>2. IInv /\ RingInv => WindowIsExact
  BY WindowOfRing DEF IInv, MapInv
<1> QED
  BY <1>1, <1>2, RingInvStep, StatsInvariant, PTL DEF ASpec

-----------------------------------------------------------------------------
(* The statistics and the log.                                             *)

\* Who has logged, and which requests of a host have.
Logged      == {l \in Loggers : logPc[l] = "logged"}
LoggedOf(h) == {q \in Requests : host[q] = h /\ logPc[q] = "logged"}

\* The requests of a host that failed and are not in the buffer yet.
ErrsToLog(h) ==
    {q \in Requests : host[q] = h /\
       \/ pc[q] = "done" /\ logPc[q] = "silent" /\ IsErr(statusCode[q])
       \/ logPc[q] = "stamped" /\ IsErrorLogEntry(entry[q])}

\* The entries of the requests of a host, and those of them that are errors.
RequestsIn(b, h) == Select(b, LAMBDA e : e.isRequest /\ h \in e.hosts)
ErrorsIn(s)      == Select(s, IsErrorLogEntry)

\* A request is logged once it is recorded, under its host and no other; nothing
\* else is an entry of a request.
EntriesTell ==
    /\ \A q \in Requests :
         /\ logPc[q] # "silent" => pc[q] = "done"
         /\ logPc[q] = "stamped" => /\ entry[q].isRequest /\ entry[q].hosts = {host[q]}
                                    /\ entry[q].level = "info"
    /\ \A n \in Notes : logPc[n] = "stamped" => ~ entry[n].isRequest

\* An object that nobody counts in yet has no errors.
FreshErrors == \A o \in Requests : pc[o] \in Early => stats[o].errors = 0

\* As long as the buffer has everything, it has an entry of each request that was
\* logged, and an error that is counted is in it or on its way.
BufferAgrees ==
    Cardinality(Logged) <= Capacity =>
      /\ Len(buffer) = Cardinality(Logged)
      /\ \A h \in Hosts : Len(RequestsIn(buffer, h)) = Cardinality(LoggedOf(h))
      /\ \A h \in Hosts \ dropped : routes[h] # None =>
           stats[routes[h]].errors
             = Cardinality(ErrsToLog(h)) + Len(ErrorsIn(RequestsIn(buffer, h)))

\* What is counted and what is logged, in every state.
LogInv == IsFiniteSet(Logged) /\ EntriesTell /\ FreshErrors /\ BufferAgrees

\* What a new entry does to the entries of requests.
LEMMA RequestsInAppend ==
  ASSUME NEW B, NEW b \in Seq(B), NEW e \in B, NEW h
  PROVE  RequestsIn(Append(b, e), h) =
           IF e.isRequest /\ h \in e.hosts THEN Append(RequestsIn(b, h), e) ELSE RequestsIn(b, h)
<1> DEFINE c == Append(b, e)
           I == {i \in DOMAIN b : b[i].isRequest /\ h \in b[i].hosts}
           J == {i \in DOMAIN c : c[i].isRequest /\ h \in c[i].hosts}
<1>1. /\ DOMAIN c = 1..Len(b) + 1 /\ DOMAIN b = 1..Len(b) /\ Len(b) \in Nat
      /\ c[Len(b) + 1] = e /\ \A i \in 1..Len(b) : c[i] = b[i]
  OBVIOUS
<1>2. \A i \in 1..Len(b) : i \in I <=> i \in J
  <2> HIDE DEF c
  <2> QED
    BY <1>1
<1>3. Len(b) + 1 \in J <=> e.isRequest /\ h \in e.hosts
  <2> HIDE DEF c
  <2> QED
    BY <1>1
<1>4. RequestsIn(c, h) = At(c, J) /\ RequestsIn(b, h) = At(b, I)
  BY DEF RequestsIn, Select
<1> HIDE DEF I, J
<1>5. At(c, J) = IF Len(b) + 1 \in J THEN Append(At(b, I), e) ELSE At(b, I)
  BY <1>2, AtAppend
<1> QED
  BY <1>3, <1>4, <1>5

\* What a new entry does to the errors.
LEMMA ErrorsInAppend ==
  ASSUME NEW B, NEW b \in Seq(B), NEW e \in B
  PROVE  ErrorsIn(Append(b, e)) =
           IF IsErrorLogEntry(e) THEN Append(ErrorsIn(b), e) ELSE ErrorsIn(b)
<1> DEFINE c == Append(b, e)
           I == {i \in DOMAIN b : IsErrorLogEntry(b[i])}
           J == {i \in DOMAIN c : IsErrorLogEntry(c[i])}
<1>1. /\ DOMAIN c = 1..Len(b) + 1 /\ DOMAIN b = 1..Len(b) /\ Len(b) \in Nat
      /\ c[Len(b) + 1] = e /\ \A i \in 1..Len(b) : c[i] = b[i]
  OBVIOUS
<1>2. \A i \in 1..Len(b) : i \in I <=> i \in J
  <2> HIDE DEF c
  <2> QED
    BY <1>1
<1>3. Len(b) + 1 \in J <=> IsErrorLogEntry(e)
  <2> HIDE DEF c
  <2> QED
    BY <1>1
<1>4. ErrorsIn(c) = At(c, J) /\ ErrorsIn(b) = At(b, I)
  BY DEF ErrorsIn, Select
<1> HIDE DEF I, J
<1>5. At(c, J) = IF Len(b) + 1 \in J THEN Append(At(b, I), e) ELSE At(b, I)
  BY <1>2, AtAppend
<1> QED
  BY <1>3, <1>4, <1>5

\* Selections from the log are logs.
LEMMA LogSelections ==
  ASSUME NEW B, NEW b \in Seq(B), NEW h
  PROVE  /\ RequestsIn(b, h) \in Seq(B) /\ Len(RequestsIn(b, h)) \in Nat
         /\ ErrorsIn(b) \in Seq(B) /\ Len(ErrorsIn(b)) \in Nat
<1> DEFINE I == {i \in DOMAIN b : b[i].isRequest /\ h \in b[i].hosts}
           J == {i \in DOMAIN b : IsErrorLogEntry(b[i])}
<1>1. RequestsIn(b, h) = At(b, I) /\ ErrorsIn(b) = At(b, J)
  BY DEF RequestsIn, ErrorsIn, Select
<1>2. At(b, I) \in Seq(B) /\ At(b, J) \in Seq(B)
  <2> HIDE DEF I, J
  <2> QED
    BY AtType
<1> QED
  BY <1>1, <1>2

\* There is no error where there is no entry.
LEMMA NoErrorsInNothing == ErrorsIn(<<>>) = <<>>
  BY AtEmpty DEF ErrorsIn, Select

\* The sets of requests that are counted are finite.
LEMMA CountedFinite ==
  ASSUME NEW h
  PROVE  /\ IsFiniteSet(ErrsToLog(h)) /\ Cardinality(ErrsToLog(h)) \in Nat
         /\ IsFiniteSet(LoggedOf(h)) /\ Cardinality(LoggedOf(h)) \in Nat
<1>1. ErrsToLog(h) \in SUBSET Requests /\ LoggedOf(h) \in SUBSET Requests
  BY DEF ErrsToLog, LoggedOf
<1> QED
  BY <1>1, FS_Subset, FS_CardinalityType, FiniteAssumption

\* Nothing is logged at first.
LEMMA LogInvInit == AInit => LogInv
<1> SUFFICES ASSUME AInit
             PROVE  LogInv
  OBVIOUS
<1> USE DEF AInit, Init
<1>1. \A l \in Loggers : logPc[l] = "silent"
  OBVIOUS
<1>2. Logged = {} /\ \A h : LoggedOf(h) = {}
  <2>1. \A q \in Requests : q \in Loggers
    BY DEF Loggers
  <2> QED
    BY <1>1, <2>1 DEF Logged, LoggedOf
<1>3. EntriesTell
  <2>1. \A q \in Requests : logPc[q] = "silent"
    BY <1>1 DEF Loggers
  <2>2. \A n \in Notes : logPc[n] = "silent"
    BY <1>1 DEF Loggers
  <2> QED
    BY <2>1, <2>2 DEF EntriesTell
<1>4. FreshErrors
  BY DEF FreshErrors, NewStats
<1>5. Cardinality({}) = 0 /\ IsFiniteSet({})
  BY FS_EmptySet
<1>6. buffer = <<>> /\ Len(<<>>) = 0
  BY DEF InitBuffer
<1>7. \A h \in Hosts : RequestsIn(buffer, h) = <<>>
  BY <1>6, AtEmpty DEF RequestsIn, Select
<1>8. BufferAgrees
  BY <1>2, <1>5, <1>6, <1>7 DEF BufferAgrees
<1> QED
  BY <1>2, <1>3, <1>4, <1>5, <1>8 DEF LogInv

\* What is logged and what is to be logged only depend on requests that are done.
LEMMA SameToLog ==
  ASSUME EntriesTell, UNCHANGED <<logPc, entry, host>>,
         \A q \in Requests : /\ pc[q] = "done" <=> pc'[q] = "done"
                             /\ pc[q] = "done" => statusCode'[q] = statusCode[q]
  PROVE  /\ Logged' = Logged /\ EntriesTell'
         /\ \A h \in Hosts : LoggedOf(h)' = LoggedOf(h) /\ ErrsToLog(h)' = ErrsToLog(h)
<1>1. Logged' = Logged /\ \A h \in Hosts : LoggedOf(h)' = LoggedOf(h)
  BY DEF Logged, LoggedOf
<1>2. \A h \in Hosts : ErrsToLog(h)' = ErrsToLog(h)
  BY DEF ErrsToLog, IsErr, IsErrorLogEntry
<1>3. EntriesTell'
  BY DEF EntriesTell
<1> QED
  BY <1>1, <1>2, <1>3

\* A step of the statistics that counts nothing and creates nothing.
LEMMA QuietKeepsLog ==
  ASSUME LogInv, UNCHANGED logs, UNCHANGED <<host, stats>>,
         \A q \in Requests : /\ pc[q] = "done" <=> pc'[q] = "done"
                             /\ pc[q] = "done" => statusCode'[q] = statusCode[q]
                             /\ pc'[q] \in Early => pc[q] \in Early,
         \A h \in Hosts \ dropped' : h \notin dropped /\ routes'[h] \in {routes[h], None}
  PROVE  LogInv'
<1>1. /\ Logged' = Logged /\ EntriesTell'
      /\ \A h \in Hosts : LoggedOf(h)' = LoggedOf(h) /\ ErrsToLog(h)' = ErrsToLog(h)
  BY SameToLog DEF LogInv, logs
<1>2. FreshErrors'
  BY DEF LogInv, FreshErrors
<1>3. BufferAgrees'
  <2>1. buffer' = buffer
    BY DEF logs
  <2> QED
    BY <1>1, <2>1 DEF LogInv, BufferAgrees
<1> QED
  BY <1>1, <1>2, <1>3 DEF LogInv

\* A new object has no errors, and there was no request of its host before.
LEMMA CreateKeepsLog ==
  ASSUME IInv, LogTypeOK, LogInv, NEW q \in Requests, Create(q), UNCHANGED logs
  PROVE  LogInv'
<1>1. /\ pc[q] = "creating" /\ routes' = [routes EXCEPT ![host[q]] = q]
      /\ pc' = [pc EXCEPT ![q] = "found"] /\ UNCHANGED <<stats, host, statusCode, dropped>>
  BY DEF Create, Goto, history
<1>2. host[q] \in Hosts /\ pc \in [Requests -> PCs] /\ routes \in [Hosts -> Requests \cup {None}]
  BY DEF LogTypeOK, TypeOK
<1>3. /\ Logged' = Logged /\ EntriesTell'
      /\ \A h \in Hosts : LoggedOf(h)' = LoggedOf(h) /\ ErrsToLog(h)' = ErrsToLog(h)
  <2>1. \A p \in Requests : pc[p] = "done" <=> pc'[p] = "done"
    BY <1>1, <1>2
  <2> QED
    BY <1>1, <2>1, SameToLog DEF LogInv, logs
<1>4. FreshErrors'
  <2>1. \A p \in Requests : pc'[p] \in Early => pc[p] \in Early
    BY <1>1, <1>2 DEF Early
  <2> QED
    BY <1>1, <2>1 DEF LogInv, FreshErrors
<1>5. ASSUME Cardinality(Logged) <= Capacity, NEW h \in Hosts \ dropped, routes'[h] # None
      PROVE  stats[routes'[h]].errors
               = Cardinality(ErrsToLog(h)) + Len(ErrorsIn(RequestsIn(buffer, h)))
  <2>1. CASE h # host[q]
    <3>1. routes'[h] = routes[h]
      BY <1>1, <1>2, <2>1
    <3> QED
      BY <1>5, <3>1 DEF LogInv, BufferAgrees
  <2>2. CASE h = host[q]
    <3>1. routes'[h] = q
      BY <1>1, <1>2, <2>2
    <3>2. routes[h] = None
      BY <1>1, <2>2 DEF IInv, MapInv, HolderKnows
    <3>3. \A p \in Requests : host[p] = h => pc[p] # "done"
      BY <3>2, <1>5 DEF IInv, NoRequestLost
    <3>4. \A p \in Requests : host[p] = h => logPc[p] = "silent"
      <4>1. \A p \in Requests : logPc[p] # "silent" => pc[p] = "done"
        BY DEF LogInv, EntriesTell
      <4> QED
        BY <3>3, <4>1
    <3>5. ErrsToLog(h) = {} /\ LoggedOf(h) = {}
      BY <3>3, <3>4 DEF ErrsToLog, LoggedOf
    <3>6. stats[q].errors = 0
      BY <1>1 DEF LogInv, FreshErrors, Early
    <3>7. Cardinality({}) = 0
      BY FS_EmptySet
    <3>8. Len(RequestsIn(buffer, h)) = 0
      BY <1>5, <3>5, <3>7 DEF LogInv, BufferAgrees
    <3>9. RequestsIn(buffer, h) = <<>>
      <4>1. RequestsIn(buffer, h) \in Seq(Entries)
        BY LogSelections DEF LogTypeOK
      <4> HIDE DEF Entries
      <4> QED
        BY <3>8, <4>1
    <3>10. Len(ErrorsIn(RequestsIn(buffer, h))) = 0
      BY <3>9, NoErrorsInNothing
    <3> QED
      BY <3>1, <3>5, <3>6, <3>7, <3>10
  <2> QED
    BY <2>1, <2>2
<1>6. BufferAgrees'
  <2>1. UNCHANGED <<buffer, stats, dropped>>
    BY <1>1 DEF logs
  <2> QED
    BY <1>3, <1>5, <2>1 DEF LogInv, BufferAgrees
<1> QED
  BY <1>3, <1>4, <1>6 DEF LogInv

\* A request that is counted as an error has still to be logged as one.
LEMMA RecordEventKeepsLog ==
  ASSUME IInv, LogTypeOK, LogInv, NEW q \in Requests, RecordEvent(q), UNCHANGED logs
  PROVE  LogInv'
<1>1. /\ pc[q] = "found" /\ pc' = [pc EXCEPT ![q] = "done"]
      /\ UNCHANGED <<host, statusCode, routes, dropped>>
  BY DEF RecordEvent, Goto
<1> PICK k \in Hosts, o \in Requests : k = host[q] /\ o = object[q]
  BY <1>1 DEF LogTypeOK, TypeOK, IInv, ObjectsBelong
<1>2. host[o] = k /\ pc \in [Requests -> PCs] /\ stats \in [Requests -> Counters]
  BY <1>1 DEF LogTypeOK, TypeOK, IInv, ObjectsBelong
<1>3. /\ stats'[o].errors = stats[o].errors + ErrorCount(q)
      /\ \A p \in Requests : p # o => stats'[p] = stats[p]
  BY <1>2 DEF RecordEvent
<1>4. logPc[q] = "silent" /\ q \in Loggers
  BY <1>1 DEF LogInv, EntriesTell, LogTypeOK, Loggers
<1>5. /\ UNCHANGED <<buffer, logPc, entry>>
      /\ Logged' = Logged /\ \A h \in Hosts : LoggedOf(h)' = LoggedOf(h)
  BY <1>1 DEF logs, Logged, LoggedOf
<1>6. /\ \A h \in Hosts : h # k => ErrsToLog(h)' = ErrsToLog(h)
      /\ ErrsToLog(k)' = IF IsErr(statusCode[q]) THEN ErrsToLog(k) \cup {q} ELSE ErrsToLog(k)
      /\ q \notin ErrsToLog(k)
  <2>1. \A p \in Requests : p # q => pc'[p] = pc[p]
    BY <1>1, <1>2
  <2>2. pc'[q] = "done" /\ host[q] = k
    BY <1>1, <1>2
  <2>3. \A h \in Hosts : h # k => ErrsToLog(h)' = ErrsToLog(h)
    BY <1>1, <1>5, <2>1, <2>2 DEF ErrsToLog, IsErr, IsErrorLogEntry
  <2>4. q \notin ErrsToLog(k)
    BY <1>1, <1>4 DEF ErrsToLog
  <2>5. CASE IsErr(statusCode[q])
    <3>1. ErrsToLog(k)' = ErrsToLog(k) \cup {q}
      BY <1>1, <1>4, <1>5, <2>1, <2>2, <2>5 DEF ErrsToLog, IsErr, IsErrorLogEntry
    <3> QED
      BY <2>3, <2>4, <2>5, <3>1
  <2>6. CASE ~ IsErr(statusCode[q])
    <3>1. ErrsToLog(k)' = ErrsToLog(k)
      BY <1>1, <1>4, <1>5, <2>1, <2>2, <2>6 DEF ErrsToLog, IsErr, IsErrorLogEntry
    <3> QED
      BY <2>3, <2>4, <2>6, <3>1
  <2> QED
    BY <2>5, <2>6
<1>7. EntriesTell'
  <2>1. \A p \in Requests : pc[p] = "done" => pc'[p] = "done"
    BY <1>1, <1>2
  <2> QED
    BY <1>1, <1>5, <2>1 DEF LogInv, EntriesTell
<1>8. FreshErrors'
  <2> SUFFICES ASSUME NEW p \in Requests, pc'[p] \in Early
               PROVE  stats'[p].errors = 0
    BY DEF FreshErrors
  <2>1. p # q /\ pc[p] \in Early
    BY <1>1, <1>2 DEF Early
  <2>2. p # o
    BY <2>1 DEF IInv, FreshObjects
  <2> QED
    BY <1>3, <2>1, <2>2 DEF LogInv, FreshErrors
<1>9. ASSUME Cardinality(Logged) <= Capacity, NEW h \in Hosts \ dropped, routes[h] # None
      PROVE  stats'[routes[h]].errors
               = Cardinality(ErrsToLog(h)') + Len(ErrorsIn(RequestsIn(buffer, h)))
  <2>1. stats[routes[h]].errors = Cardinality(ErrsToLog(h)) + Len(ErrorsIn(RequestsIn(buffer, h)))
    BY <1>9 DEF LogInv, BufferAgrees
  <2>2. routes[h] \in Requests /\ host[routes[h]] = h
    BY <1>9 DEF LogTypeOK, TypeOK, IInv, ObjectsBelong
  <2>3. CASE h # k
    <3>1. routes[h] # o
      BY <2>2, <2>3, <1>2
    <3> QED
      BY <1>3, <1>6, <2>1, <2>2, <2>3, <3>1
  <2>4. CASE h = k
    <3>1. routes[h] = o
      BY <1>1, <1>9, <2>4 DEF IInv, OneObject
    <3>2. /\ stats[o].errors \in Nat /\ Len(ErrorsIn(RequestsIn(buffer, h))) \in Nat
          /\ IsFiniteSet(ErrsToLog(k)) /\ Cardinality(ErrsToLog(k)) \in Nat
      <4>1. RequestsIn(buffer, h) \in Seq(Entries)
        BY LogSelections DEF LogTypeOK
      <4>2. Len(ErrorsIn(RequestsIn(buffer, h))) \in Nat
        BY <4>1, LogSelections
      <4>3. stats[o].errors \in Nat
        BY <1>2 DEF Counters
      <4> QED
        BY <4>2, <4>3, CountedFinite
    <3>3. CASE IsErr(statusCode[q])
      <4>1. stats'[o].errors = stats[o].errors + 1
        BY <1>3, <3>3 DEF ErrorCount
      <4>2. Cardinality(ErrsToLog(k)') = Cardinality(ErrsToLog(k)) + 1
        BY <1>6, <3>2, <3>3, FS_AddElement
      <4> QED
        BY <2>1, <2>4, <3>1, <3>2, <4>1, <4>2
    <3>4. CASE ~ IsErr(statusCode[q])
      <4>1. stats'[o].errors = stats[o].errors
        BY <1>3, <3>2, <3>4 DEF ErrorCount
      <4>2. ErrsToLog(k)' = ErrsToLog(k)
        BY <1>6, <3>4
      <4> QED
        BY <2>1, <2>4, <3>1, <4>1, <4>2
    <3> QED
      BY <3>3, <3>4
  <2> QED
    BY <2>3, <2>4
<1>10. BufferAgrees'
  BY <1>1, <1>5, <1>9 DEF LogInv, BufferAgrees
<1> QED
  BY <1>5, <1>7, <1>8, <1>10 DEF LogInv

\* The entry of a request is an error if the request was counted as one.
LEMMA LogRequestKeepsLog ==
  ASSUME LogTypeOK, LogInv, NEW q \in Requests, LogRequest(q)
  PROVE  LogInv'
<1> DEFINE new == [time |-> clock, level |-> "info", isRequest |-> TRUE,
                   hosts |-> {host[q]}, status |-> statusCode[q]]
<1>1. /\ pc[q] = "done" /\ logPc[q] = "silent"
      /\ entry' = [entry EXCEPT ![q] = new] /\ logPc' = [logPc EXCEPT ![q] = "stamped"]
      /\ statusCode' = [statusCode EXCEPT ![q] = 200]
      /\ UNCHANGED <<pc, host, stats, routes, dropped, buffer>>
  BY DEF LogRequest, Stamp, history
<1>2. /\ q \in Loggers /\ logPc \in [Loggers -> {"silent", "stamped", "logged"}]
      /\ entry \in [Loggers -> Entries] /\ statusCode \in [Requests -> Statuses]
  BY DEF LogTypeOK, TypeOK, Loggers
<1>3. /\ entry'[q] = new /\ logPc'[q] = "stamped"
      /\ \A l \in Loggers : l # q => entry'[l] = entry[l] /\ logPc'[l] = logPc[l]
      /\ \A p \in Requests : p # q => statusCode'[p] = statusCode[p]
  <2> HIDE DEF new
  <2> QED
    BY <1>1, <1>2
<1>4. IsErrorLogEntry(new) <=> IsErr(statusCode[q])
  BY DEF IsErrorLogEntry, IsErr
<1>5. new.isRequest /\ new.hosts = {host[q]} /\ new.level = "info"
  OBVIOUS
<1> HIDE DEF new
<1>6. \A p \in Requests : p \in Loggers
  BY DEF Loggers
<1>7. Logged' = Logged /\ \A h \in Hosts : LoggedOf(h)' = LoggedOf(h)
  <2>1. \A l \in Loggers : logPc'[l] = "logged" <=> logPc[l] = "logged"
    BY <1>1, <1>3
  <2> QED
    BY <1>1, <1>6, <2>1 DEF Logged, LoggedOf
<1>8. ASSUME NEW h \in Hosts
      PROVE  ErrsToLog(h)' = ErrsToLog(h)
  <2> DEFINE Counts(p) == \/ pc[p] = "done" /\ logPc[p] = "silent" /\ IsErr(statusCode[p])
                          \/ logPc[p] = "stamped" /\ IsErrorLogEntry(entry[p])
             Counts2(p) == \/ pc[p] = "done" /\ logPc'[p] = "silent" /\ IsErr(statusCode'[p])
                           \/ logPc'[p] = "stamped" /\ IsErrorLogEntry(entry'[p])
  <2>1. ErrsToLog(h) = {p \in Requests : host[p] = h /\ Counts(p)}
    BY DEF ErrsToLog
  <2>2. ErrsToLog(h)' = {p \in Requests : host[p] = h /\ Counts2(p)}
    BY <1>1 DEF ErrsToLog, IsErr, IsErrorLogEntry
  <2>3. ASSUME NEW p \in Requests
        PROVE  Counts(p) <=> Counts2(p)
    <3>1. CASE p = q
      BY <1>1, <1>3, <1>4, <3>1
    <3>2. CASE p # q
      BY <1>3, <1>6, <3>2
    <3> QED
      BY <3>1, <3>2
  <2> HIDE DEF Counts, Counts2
  <2> QED
    BY <2>1, <2>2, <2>3
<1>9. EntriesTell'
  <2>1. \A p \in Requests : /\ logPc'[p] # "silent" => pc'[p] = "done"
                            /\ logPc'[p] = "stamped" =>
                                 /\ entry'[p].isRequest /\ entry'[p].hosts = {host'[p]}
                                 /\ entry'[p].level = "info"
    BY <1>1, <1>3, <1>5, <1>6 DEF LogInv, EntriesTell
  <2>2. \A n \in Notes : logPc'[n] = "stamped" => ~ entry'[n].isRequest
    <3> TAKE n \in Notes
    <3>1. n \in Loggers /\ n # q
      BY LoggersAssumption DEF Loggers
    <3> QED
      BY <1>3, <3>1 DEF LogInv, EntriesTell
  <2> QED
    BY <2>1, <2>2 DEF EntriesTell
<1>10. FreshErrors'
  BY <1>1 DEF LogInv, FreshErrors
<1>11. BufferAgrees'
  BY <1>1, <1>7, <1>8 DEF LogInv, BufferAgrees
<1> QED
  BY <1>7, <1>9, <1>10, <1>11 DEF LogInv

\* Other entries are not of requests.
LEMMA LogNoteKeepsLog ==
  ASSUME LogTypeOK, LogInv, NEW n \in Notes, LogNote(n)
  PROVE  LogInv'
<1>1. PICK level \in {"info", "error"}, hs \in {{}} \cup {{h} : h \in Hosts} :
        Stamp(n, level, FALSE, hs, 0)
  BY DEF LogNote
<1> DEFINE new == [time |-> clock, level |-> level, isRequest |-> FALSE, hosts |-> hs, status |-> 0]
<1>2. /\ logPc[n] = "silent"
      /\ entry' = [entry EXCEPT ![n] = new] /\ logPc' = [logPc EXCEPT ![n] = "stamped"]
      /\ UNCHANGED <<pc, host, stats, routes, dropped, buffer, statusCode>>
  BY <1>1 DEF LogNote, Stamp, vars, locals, history
<1>3. ~ new.isRequest
  OBVIOUS
<1>4. /\ n \in Loggers /\ logPc \in [Loggers -> {"silent", "stamped", "logged"}]
      /\ entry \in [Loggers -> Entries]
      /\ \A p \in Requests : p \in Loggers /\ p # n
  BY LoggersAssumption DEF LogTypeOK, Loggers
<1> HIDE DEF new
<1>5. /\ entry'[n] = new /\ logPc'[n] = "stamped"
      /\ \A l \in Loggers : l # n => entry'[l] = entry[l] /\ logPc'[l] = logPc[l]
  BY <1>2, <1>4
<1>6. Logged' = Logged /\ \A h \in Hosts : LoggedOf(h)' = LoggedOf(h)
  <2>1. \A l \in Loggers : logPc'[l] = "logged" <=> logPc[l] = "logged"
    BY <1>2, <1>5
  <2> QED
    BY <1>2, <1>4, <2>1 DEF Logged, LoggedOf
<1>7. \A h \in Hosts : ErrsToLog(h)' = ErrsToLog(h)
  BY <1>2, <1>4, <1>5 DEF ErrsToLog, IsErr, IsErrorLogEntry
<1>8. EntriesTell'
  <2>1. \A m \in Notes : logPc'[m] = "stamped" => ~ entry'[m].isRequest
    BY <1>3, <1>5 DEF LogInv, EntriesTell, Loggers
  <2>2. \A p \in Requests : /\ logPc'[p] # "silent" => pc'[p] = "done"
                            /\ logPc'[p] = "stamped" =>
                                 /\ entry'[p].isRequest /\ entry'[p].hosts = {host'[p]}
                                 /\ entry'[p].level = "info"
    BY <1>2, <1>4, <1>5 DEF LogInv, EntriesTell
  <2> QED
    BY <2>1, <2>2 DEF EntriesTell
<1>9. FreshErrors'
  BY <1>2 DEF LogInv, FreshErrors
<1>10. BufferAgrees'
  BY <1>2, <1>6, <1>7 DEF LogInv, BufferAgrees
<1> QED
  BY <1>6, <1>8, <1>9, <1>10 DEF LogInv

\* While the buffer has everything, an entry is added at its end. The entry of a
\* request that is an error is one less to log, and one more that is logged.
LEMMA AddEntryKeepsLog ==
  ASSUME LogTypeOK, LogInv, NEW l \in Loggers, AddEntry(l)
  PROVE  LogInv'
<1> DEFINE e == entry[l]
<1>1. /\ logPc[l] = "stamped" /\ logPc' = [logPc EXCEPT ![l] = "logged"]
      /\ entry' = [entry EXCEPT ![l] = NoEntry]
      /\ buffer' = Append(IF Len(buffer) >= Capacity THEN Tail(buffer) ELSE buffer, e)
      /\ UNCHANGED <<pc, host, stats, routes, dropped, statusCode>>
  BY DEF AddEntry, Add, vars, locals, history
<1>2. /\ logPc \in [Loggers -> {"silent", "stamped", "logged"}]
      /\ entry \in [Loggers -> Entries] /\ buffer \in Seq(Entries) /\ e \in Entries
      /\ \A q \in Requests : q \in Loggers
  BY DEF LogTypeOK, Loggers
<1> PICK x \in Entries : x = e
  BY <1>2
<1> HIDE DEF e
<1>3. /\ logPc'[l] = "logged" /\ \A m \in Loggers : m # l => entry'[m] = entry[m] /\ logPc'[m] = logPc[m]
  BY <1>1, <1>2
<1>4. l \notin Logged /\ Logged' = Logged \cup {l} /\ IsFiniteSet(Logged)
  <2>1. l \notin Logged
    BY <1>1 DEF Logged
  <2>2. Logged' = Logged \cup {l}
    BY <1>3 DEF Logged
  <2> QED
    BY <2>1, <2>2 DEF LogInv
<1>5. /\ IsFiniteSet(Logged') /\ Cardinality(Logged) \in Nat
      /\ Cardinality(Logged') = Cardinality(Logged) + 1
  BY <1>4, FS_AddElement, FS_CardinalityType
<1>6. EntriesTell'
  <2>1. \A q \in Requests : /\ logPc'[q] # "silent" => pc'[q] = "done"
                            /\ logPc'[q] = "stamped" =>
                                 /\ entry'[q].isRequest /\ entry'[q].hosts = {host'[q]}
                                 /\ entry'[q].level = "info"
    BY <1>1, <1>2, <1>3 DEF LogInv, EntriesTell
  <2>2. \A n \in Notes : logPc'[n] = "stamped" => ~ entry'[n].isRequest
    BY <1>1, <1>3 DEF LogInv, EntriesTell, Loggers
  <2> QED
    BY <2>1, <2>2 DEF EntriesTell
<1>7. FreshErrors'
  BY <1>1 DEF LogInv, FreshErrors
<1>8. ASSUME Cardinality(Logged') <= Capacity
      PROVE  /\ Len(buffer') = Cardinality(Logged')
             /\ \A h \in Hosts : Len(RequestsIn(buffer', h)) = Cardinality(LoggedOf(h)')
             /\ \A h \in Hosts \ dropped : routes[h] # None =>
                  stats[routes[h]].errors
                    = Cardinality(ErrsToLog(h)') + Len(ErrorsIn(RequestsIn(buffer', h)))
  <2>1. /\ Cardinality(Logged) < Capacity
        /\ Len(buffer) = Cardinality(Logged)
        /\ \A h \in Hosts : Len(RequestsIn(buffer, h)) = Cardinality(LoggedOf(h))
        /\ \A h \in Hosts \ dropped : routes[h] # None =>
             stats[routes[h]].errors
               = Cardinality(ErrsToLog(h)) + Len(ErrorsIn(RequestsIn(buffer, h)))
    BY <1>5, <1>8, CapacityAssumption DEF LogInv, BufferAgrees
  <2>2. buffer' = Append(buffer, x)
    <3>1. ~ (Len(buffer) >= Capacity)
      BY <2>1, <1>5, CapacityAssumption
    <3> QED
      BY <1>1, <3>1
  <2>3. Len(buffer') = Cardinality(Logged')
    <3>1. Len(buffer') = Len(buffer) + 1
      BY <1>2, <2>2
    <3> QED
      BY <3>1, <2>1, <1>5
  <2>4. ASSUME NEW h \in Hosts
        PROVE  /\ RequestsIn(buffer, h) \in Seq(Entries) /\ Len(RequestsIn(buffer, h)) \in Nat
               /\ Len(ErrorsIn(RequestsIn(buffer, h))) \in Nat
               /\ IsFiniteSet(ErrsToLog(h)) /\ Cardinality(ErrsToLog(h)) \in Nat
               /\ IsFiniteSet(LoggedOf(h)) /\ Cardinality(LoggedOf(h)) \in Nat
    <3>1. RequestsIn(buffer, h) \in Seq(Entries) /\ Len(RequestsIn(buffer, h)) \in Nat
      BY <1>2, LogSelections
    <3>2. Len(ErrorsIn(RequestsIn(buffer, h))) \in Nat
      BY <3>1, LogSelections
    <3> QED
      BY <3>1, <3>2, CountedFinite
  <2>5. ASSUME NEW h \in Hosts
        PROVE  IF l \in Requests /\ host[l] = h
               THEN /\ RequestsIn(buffer', h) = Append(RequestsIn(buffer, h), x)
                    /\ LoggedOf(h)' = LoggedOf(h) \cup {l} /\ l \notin LoggedOf(h)
                    /\ ErrsToLog(h)' = ErrsToLog(h) \ {l}
                    /\ l \in ErrsToLog(h) <=> IsErrorLogEntry(x)
               ELSE /\ RequestsIn(buffer', h) = RequestsIn(buffer, h)
                    /\ LoggedOf(h)' = LoggedOf(h) /\ ErrsToLog(h)' = ErrsToLog(h)
    <3>1. RequestsIn(buffer', h) =
            IF x.isRequest /\ h \in x.hosts
            THEN Append(RequestsIn(buffer, h), x) ELSE RequestsIn(buffer, h)
      BY <1>2, <2>2, RequestsInAppend
    <3>2. l \in Requests => x.isRequest /\ x.hosts = {host[l]}
      BY <1>1 DEF LogInv, EntriesTell, e
    <3>3. l \notin Requests => ~ x.isRequest
      BY <1>1 DEF LogInv, EntriesTell, e, Loggers
    <3>4. CASE l \in Requests /\ host[l] = h
      <4>1. RequestsIn(buffer', h) = Append(RequestsIn(buffer, h), x)
        BY <3>1, <3>2, <3>4
      <4>2. LoggedOf(h)' = LoggedOf(h) \cup {l} /\ l \notin LoggedOf(h)
        BY <1>1, <1>2, <1>3, <3>4 DEF LoggedOf
      <4>3. ErrsToLog(h)' = ErrsToLog(h) \ {l}
        BY <1>1, <1>2, <1>3, <3>4 DEF ErrsToLog, IsErr, IsErrorLogEntry
      <4>4. l \in ErrsToLog(h) <=> IsErrorLogEntry(x)
        BY <1>1, <3>4 DEF ErrsToLog, e
      <4> QED
        BY <3>4, <4>1, <4>2, <4>3, <4>4
    <3>5. CASE ~ (l \in Requests /\ host[l] = h)
      <4>1. RequestsIn(buffer', h) = RequestsIn(buffer, h)
        BY <3>1, <3>2, <3>3, <3>5
      <4>2. LoggedOf(h)' = LoggedOf(h)
        BY <1>1, <1>2, <1>3, <3>5 DEF LoggedOf
      <4>3. ErrsToLog(h)' = ErrsToLog(h)
        BY <1>1, <1>2, <1>3, <3>5 DEF ErrsToLog, IsErr, IsErrorLogEntry
      <4> QED
        BY <3>5, <4>1, <4>2, <4>3
    <3> QED
      BY <3>4, <3>5
  <2>6. ASSUME NEW h \in Hosts
        PROVE  Len(RequestsIn(buffer', h)) = Cardinality(LoggedOf(h)')
    <3>1. CASE l \in Requests /\ host[l] = h
      <4>1. Len(RequestsIn(buffer', h)) = Len(RequestsIn(buffer, h)) + 1
        BY <2>4, <2>5, <3>1
      <4>2. Cardinality(LoggedOf(h)') = Cardinality(LoggedOf(h)) + 1
        BY <2>4, <2>5, <3>1, FS_AddElement
      <4> QED
        BY <2>1, <4>1, <4>2
    <3>2. CASE ~ (l \in Requests /\ host[l] = h)
      BY <2>1, <2>5, <3>2
    <3> QED
      BY <3>1, <3>2
  <2>7. ASSUME NEW h \in Hosts \ dropped, routes[h] # None
        PROVE  stats[routes[h]].errors
                 = Cardinality(ErrsToLog(h)') + Len(ErrorsIn(RequestsIn(buffer', h)))
    <3>1. stats[routes[h]].errors
            = Cardinality(ErrsToLog(h)) + Len(ErrorsIn(RequestsIn(buffer, h)))
      BY <2>1, <2>7
    <3>2. CASE l \in Requests /\ host[l] = h
      <4>1. ErrorsIn(RequestsIn(buffer', h)) =
              IF IsErrorLogEntry(x) THEN Append(ErrorsIn(RequestsIn(buffer, h)), x)
                                    ELSE ErrorsIn(RequestsIn(buffer, h))
        <5> DEFINE r == RequestsIn(buffer, h)
        <5>1. r \in Seq(Entries) /\ RequestsIn(buffer', h) = Append(r, x)
          BY <2>4, <2>5, <3>2
        <5> HIDE DEF r
        <5>2. ErrorsIn(Append(r, x)) = IF IsErrorLogEntry(x) THEN Append(ErrorsIn(r), x)
                                                            ELSE ErrorsIn(r)
          BY <5>1, ErrorsInAppend
        <5> QED
          BY <5>1, <5>2 DEF r
      <4>2. CASE IsErrorLogEntry(x)
        <5>1. ErrorsIn(RequestsIn(buffer, h)) \in Seq(Entries)
          BY <2>4, LogSelections
        <5>2. Len(ErrorsIn(RequestsIn(buffer', h))) = Len(ErrorsIn(RequestsIn(buffer, h))) + 1
          BY <4>1, <4>2, <5>1
        <5>3. Cardinality(ErrsToLog(h)') = Cardinality(ErrsToLog(h)) - 1
          BY <2>4, <2>5, <3>2, <4>2, FS_RemoveElement
        <5> QED
          BY <2>4, <3>1, <5>2, <5>3
      <4>3. CASE ~ IsErrorLogEntry(x)
        <5>1. ErrsToLog(h)' = ErrsToLog(h)
          BY <2>5, <3>2, <4>3
        <5> QED
          BY <3>1, <4>1, <4>3, <5>1
      <4> QED
        BY <4>2, <4>3
    <3>3. CASE ~ (l \in Requests /\ host[l] = h)
      BY <2>5, <3>1, <3>3
    <3> QED
      BY <3>2, <3>3
  <2> QED
    BY <2>3, <2>6, <2>7
<1>9. BufferAgrees'
  BY <1>1, <1>8 DEF BufferAgrees
<1> QED
  BY <1>5, <1>6, <1>7, <1>9 DEF LogInv

\* The statistics, while the log stands still.
LEMMA NextKeepsLog ==
  ASSUME IInv, LogTypeOK, LogInv, Next, UNCHANGED logs
  PROVE  LogInv'
<1>0. TypeOK
  BY DEF LogTypeOK
<1>1. ASSUME NEW q \in Requests, Serve(q)
      PROVE  LogInv'
  <2>1. /\ pc[q] = "serving" /\ UNCHANGED <<host, stats, routes, dropped>>
        /\ pc' = [pc EXCEPT ![q] = "stamped"]
    BY <1>1 DEF Serve, Goto
  <2>2. \A p \in Requests : p # q => statusCode'[p] = statusCode[p]
    BY <1>0, <1>1 DEF Serve, TypeOK
  <2>3. \A p \in Requests : /\ pc[p] = "done" <=> pc'[p] = "done"
                            /\ pc[p] = "done" => statusCode'[p] = statusCode[p]
                            /\ pc'[p] \in Early => pc[p] \in Early
    BY <1>0, <2>1, <2>2 DEF TypeOK, Early
  <2> QED
    BY <2>1, <2>3, QuietKeepsLog
<1>2. ASSUME NEW q \in Requests, Lookup(q) \/ Scan(q)
      PROVE  LogInv'
  <2>1. UNCHANGED <<host, statusCode, stats, routes, dropped>>
    BY <1>2 DEF Lookup, Scan, history
  <2>2. \A p \in Requests : /\ pc[p] = "done" <=> pc'[p] = "done"
                            /\ pc'[p] \in Early => pc[p] \in Early
    BY <1>0, <1>2 DEF Lookup, Scan, Goto, TypeOK, Early
  <2> QED
    BY <2>1, <2>2, QuietKeepsLog
<1>3. ASSUME NEW q \in Requests, Evict(q)
      PROVE  LogInv'
  <2>1. /\ UNCHANGED <<host, statusCode, stats>> /\ pc[q] = "evicting"
        /\ routes' = [routes EXCEPT ![scan[q].oldest] = None]
        /\ dropped' = dropped \cup {scan[q].oldest}
        /\ pc' = [pc EXCEPT ![q] = "creating"]
    BY <1>3 DEF Evict, Goto
  <2>2. \A p \in Requests : /\ pc[p] = "done" <=> pc'[p] = "done"
                            /\ pc'[p] \in Early => pc[p] \in Early
    BY <1>0, <2>1 DEF TypeOK, Early
  <2>3. \A h \in Hosts \ dropped' : h \notin dropped /\ routes'[h] = routes[h]
    BY <1>0, <2>1 DEF TypeOK
  <2> QED
    BY <2>1, <2>2, <2>3, QuietKeepsLog
<1>4. ASSUME NEW q \in Requests, Create(q)
      PROVE  LogInv'
  BY <1>4, CreateKeepsLog
<1>5. ASSUME NEW q \in Requests, RecordEvent(q)
      PROVE  LogInv'
  BY <1>5, RecordEventKeepsLog
<1>6. ASSUME NEW h \in Hosts, Forget(h)
      PROVE  LogInv'
  <2>1. /\ UNCHANGED <<host, statusCode, stats, pc>>
        /\ routes' = [routes EXCEPT ![h] = None] /\ dropped' = dropped \cup {h}
    BY <1>6 DEF Forget, locals
  <2>2. \A g \in Hosts \ dropped' : g \notin dropped /\ routes'[g] = routes[g]
    BY <1>0, <2>1 DEF TypeOK
  <2> QED
    BY <2>1, <2>2, QuietKeepsLog
<1>7. ASSUME Tick
      PROVE  LogInv'
  <2>1. UNCHANGED <<host, statusCode, stats, pc, routes, dropped>>
    BY <1>7 DEF Tick, locals, history
  <2> QED
    BY <2>1, QuietKeepsLog
<1> QED
  BY <1>1, <1>2, <1>3, <1>4, <1>5, <1>6, <1>7 DEF Next, Record

\* Every step keeps the invariant of the log.
LEMMA ANextKeepsLog == IInv /\ LogTypeOK /\ LogInv /\ [ANext]_allVars => LogInv'
<1> SUFFICES ASSUME IInv, LogTypeOK, LogInv, [ANext]_allVars
             PROVE  LogInv'
  OBVIOUS
<1>1. CASE Next /\ UNCHANGED logs
  BY <1>1, NextKeepsLog
<1>2. ASSUME NEW q \in Requests, LogRequest(q)
      PROVE  LogInv'
  BY <1>2, LogRequestKeepsLog
<1>3. ASSUME NEW n \in Notes, LogNote(n)
      PROVE  LogInv'
  BY <1>3, LogNoteKeepsLog
<1>4. ASSUME NEW l \in Loggers, AddEntry(l)
      PROVE  LogInv'
  BY <1>4, AddEntryKeepsLog
<1>5. CASE UNCHANGED allVars
  <2>1. UNCHANGED <<host, statusCode, stats, pc, routes, dropped>> /\ UNCHANGED logs
    BY <1>5 DEF allVars, vars, locals, history
  <2> QED
    BY <2>1, QuietKeepsLog
<1> QED
  BY <1>1, <1>2, <1>3, <1>4, <1>5 DEF ANext

\* Where all of a host's requests are logged, what is counted is what is logged.
LEMMA AllIsLogged ==
  ASSUME IInv, LogTypeOK, LogInv
  PROVE  LogAgreesWithStats
<1> SUFFICES ASSUME Cardinality(Logged) <= Capacity, NEW h \in Hosts \ dropped, routes[h] # None,
                    \A q \in {p \in Requests : host[p] = h} : pc[q] = "done" => logPc[q] = "logged"
             PROVE  /\ stats[routes[h]].total = Len(RequestsIn(buffer, h))
                    /\ stats[routes[h]].errors = Len(ErrorsIn(RequestsIn(buffer, h)))
  BY Zenon DEF LogAgreesWithStats, Logged, RequestsIn, ErrorsIn
<1>1. \A q \in Requests : logPc[q] # "silent" => pc[q] = "done"
  BY DEF LogInv, EntriesTell
<1>2. {q \in Requests : host[q] = h /\ pc[q] = "done"} = LoggedOf(h)
  BY <1>1 DEF LoggedOf
<1>3. ErrsToLog(h) = {}
  BY <1>1 DEF ErrsToLog
<1>4. stats[routes[h]].total = Cardinality(LoggedOf(h))
  BY <1>2 DEF IInv, NoRequestLost
<1>5. Len(RequestsIn(buffer, h)) = Cardinality(LoggedOf(h))
  BY DEF LogInv, BufferAgrees
<1>6. stats[routes[h]].errors = Cardinality(ErrsToLog(h)) + Len(ErrorsIn(RequestsIn(buffer, h)))
  BY DEF LogInv, BufferAgrees
<1>7. Len(ErrorsIn(RequestsIn(buffer, h))) \in Nat /\ Cardinality({}) = 0
  <2>1. RequestsIn(buffer, h) \in Seq(Entries)
    BY LogSelections DEF LogTypeOK
  <2> QED
    BY <2>1, LogSelections, FS_EmptySet
<1> QED
  BY <1>3, <1>4, <1>5, <1>6, <1>7

\* The dashboard tells one story: the requests and errors that the statistics count
\* for a host are those that its log shows, once they are logged and as long as the
\* buffer has not let go of any entry (Record and the "request" entry of ServeHTTP,
\* isErr and isErrorLogEntry).
THEOREM OneStory == ASpec => []LogAgreesWithStats
<1>1. AInit => LogInv
  BY LogInvInit
<1>2. IInv /\ LogTypeOK /\ LogInv => LogAgreesWithStats
  BY AllIsLogged
<1> QED
  BY <1>1, <1>2, ANextKeepsLog, StatsInvariant, TypeCorrect, PTL DEF ASpec
=============================================================================
