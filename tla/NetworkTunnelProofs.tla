------------------------- MODULE NetworkTunnelProofs ------------------------
(***************************************************************************)
(* Proofs about NetworkTunnel, for any finite set of targets, any callers  *)
(* and any capacity of the cache.                                          *)
(***************************************************************************)
EXTENDS NetworkTunnel, FiniteSetTheorems, TLAPS

Leading == {"leading", "starting", "probing", "probed", "returning"}

\* The probe group only knows calls that are still running.
FlightsAreLed ==
    \A k \in Keys : flight[k] # None =>
        pc[flight[k]] \in Leading /\ key[flight[k]] = k

IInv == TypeOK /\ FlightsAreLed /\ FollowersAreLed

-----------------------------------------------------------------------------
(* Types.                                                                  *)

LEMMA NoneIsNothing ==
    None \notin Callers /\ None \notin Keys /\ None \notin BOOLEAN /\ None \notin Nat
  BY NoneAssumption

LEMMA GenType == ASSUME TypeOK, NEW k \in Keys PROVE Gen(k) \in Nat
  BY DEF TypeOK, Gen

\* A hit hands out the result and the age of a cached entry.
LEMMA TakeType ==
  ASSUME TypeOK, NEW c \in Callers, NEW k \in Keys, Hit(k), Take(c, k)
  PROVE  /\ answer' \in [Callers -> BOOLEAN \cup {None}]
         /\ answer'[c] \in BOOLEAN
         /\ \A d \in Callers : d # c => answer'[d] = answer[d]
         /\ probedAt' \in [Callers -> Nat]
<1>1. cache[k] \in Entry  BY DEF TypeOK, Hit
<1>2. cache[k].reachable \in BOOLEAN /\ cache[k].asOf \in Nat
  BY <1>1 DEF Entry
<1> QED  BY <1>2 DEF TypeOK, Take


LEMMA CallType ==
  ASSUME TypeOK, NEW c \in Callers, NEW k \in Keys, Call(c, k)
  PROVE  TypeOK'
<1> USE DEF TypeOK, Goto, PCs
<1>1. key' \in [Callers -> Keys \cup {None}]
      /\ \A d \in Callers : pc'[d] # "idle" => key'[d] \in Keys
  BY DEF Call
<1>2. needs' \in [Callers -> Int]  BY DEF Call
<1>3. UNCHANGED <<gens, flight, leader, startGen, clearing, cleared, pruned>>
  BY DEF Call
<1>4. CASE Hit(k)
  <2>1. Take(c, k) /\ Goto(c, "answered") /\ UNCHANGED cache  BY <1>4 DEF Call
  <2>2. /\ answer' \in [Callers -> BOOLEAN \cup {None}]
        /\ answer'[c] \in BOOLEAN
        /\ \A d \in Callers : d # c => answer'[d] = answer[d]
        /\ probedAt' \in [Callers -> Nat]
    BY <1>4, <2>1, TakeType
  <2>3. pc' \in [Callers -> PCs] /\ \A d \in Callers : d # c => pc'[d] = pc[d]
    BY <2>1
  <2>4. \A d \in Callers : pc'[d] \in {"probed", "returning", "answered"} =>
                             answer'[d] \in BOOLEAN
    BY <2>2, <2>3
  <2> QED  BY <1>1, <1>2, <1>3, <2>1, <2>2, <2>3, <2>4
<1>5. CASE ~Hit(k)
  <2>1. /\ cache' = [cache EXCEPT ![k] = None] /\ Goto(c, "missed")
        /\ UNCHANGED <<answer, probedAt>>
    BY <1>5 DEF Call
  <2> QED  BY <1>1, <1>2, <1>3, <2>1
<1> QED  BY <1>4, <1>5

\* evictLocked drops cached keys only.
LEMMA EvictionsAreCached ==
  ASSUME NEW evicted \in Evictions
  PROVE  evicted \subseteq Cached /\ Cached \subseteq Keys
BY DEF Evictions, Stale, Oldest, Cached

LEMMA StoreType ==
  ASSUME TypeOK, NEW c \in Callers, StoreResult(c)
  PROVE  TypeOK'
<1> USE DEF TypeOK, Goto, PCs
<1> DEFINE k == key[c]
           e == [reachable |-> answer[c], age |-> 0, asOf |-> probedAt[c]]
<1>1. pc[c] = "probed" /\ k \in Keys /\ answer[c] \in BOOLEAN /\ probedAt[c] \in Nat
  BY DEF StoreResult
<1>2. e \in Entry  BY <1>1 DEF Entry, ReachableTTL
<1>3. CASE Gen(k) = startGen[c]
  <2> HIDE DEF e
  <2>1. PICK evicted \in Evictions :
          /\ cache' = [j \in Keys |-> IF j = k THEN e
                                      ELSE IF j \in evicted THEN None ELSE cache[j]]
          /\ gens' = [j \in Keys |-> IF j \in evicted THEN None ELSE gens[j]]
          /\ pruned' = pruned \cup {j \in evicted : gens[j] # None}
    BY <1>3 DEF StoreResult, e
  <2>2. cache' \in [Keys -> Entry \cup {None}]  BY <1>2, <2>1
  <2>3. gens' \in [Keys -> Nat \cup {None}]  BY <2>1
  <2>4. pruned' \in SUBSET Keys  BY <2>1, EvictionsAreCached
  <2> QED  BY <1>1, <2>2, <2>3, <2>4 DEF StoreResult
<1>4. CASE Gen(k) # startGen[c]
  BY <1>1, <1>4 DEF StoreResult
<1> QED  BY <1>3, <1>4

LEMMA ProceedType ==
  ASSUME TypeOK, NEW c \in Callers, Proceed(c)
  PROVE  TypeOK'
<1> USE DEF TypeOK, Goto, PCs, history, maps
<1>1. CASE Do(c)  BY <1>1 DEF Do
<1>2. CASE LookAgain(c)
  <2>1. key[c] \in Keys  BY <1>2 DEF LookAgain
  <2>2. CASE Hit(key[c])
    <3>1. Take(c, key[c]) /\ Goto(c, "returning") /\ UNCHANGED cache
      BY <1>2, <2>2 DEF LookAgain
    <3>2. /\ answer' \in [Callers -> BOOLEAN \cup {None}]
          /\ answer'[c] \in BOOLEAN
          /\ \A d \in Callers : d # c => answer'[d] = answer[d]
          /\ probedAt' \in [Callers -> Nat]
      BY <2>1, <2>2, <3>1, TakeType
    <3>3. pc' \in [Callers -> PCs] /\ \A d \in Callers : d # c => pc'[d] = pc[d]
      BY <3>1
    <3>4. \A d \in Callers : pc'[d] \in {"probed", "returning", "answered"} =>
                               answer'[d] \in BOOLEAN
      BY <3>2, <3>3
    <3>5. \A d \in Callers : pc'[d] # "idle" => key[d] \in Keys
      BY <1>2, <2>1, <3>3
    <3> QED  BY <1>2, <3>1, <3>2, <3>3, <3>4, <3>5 DEF LookAgain
  <2>3. CASE ~Hit(key[c])
    BY <1>2, <2>1, <2>3 DEF LookAgain
  <2> QED  BY <2>2, <2>3
<1>3. CASE StartProbe(c)
  <2>1. key[c] \in Keys  BY <1>3 DEF StartProbe
  <2>2. Gen(key[c]) \in Nat  BY <2>1, GenType
  <2> QED  BY <1>3, <2>1, <2>2 DEF StartProbe
<1>4. CASE ProbeEnds(c)  BY <1>4 DEF ProbeEnds
<1>5. CASE ProbePanics(c)  BY <1>5 DEF ProbePanics
<1>6. CASE StoreResult(c)  BY <1>6, StoreType
<1>7. CASE Return(c)
  <2>1. answer[c] \in BOOLEAN /\ key[c] \in Keys  BY <1>7 DEF Return
  <2>2. answer' \in [Callers -> BOOLEAN \cup {None}]  BY <1>7 DEF Return
  <2>3. pc' \in [Callers -> PCs]  BY <1>7 DEF Return
  <2>4. \A d \in Callers : pc'[d] \in {"probed", "returning", "answered"} =>
                             answer'[d] \in BOOLEAN
    BY <1>7, <2>1 DEF Return
  <2>5. \A d \in Callers : pc'[d] # "idle" => key'[d] \in Keys
    BY <1>7, <2>1 DEF Return
  <2>6. probedAt' \in [Callers -> Nat]  BY <1>7 DEF Return
  <2>7. flight' \in [Keys -> Callers \cup {None}]  BY <1>7 DEF Return
  <2> QED
    BY <1>7, <2>2, <2>3, <2>4, <2>5, <2>6, <2>7 DEF Return
<1>8. CASE Leave(c)  BY <1>8 DEF Leave
<1> QED  BY <1>1, <1>2, <1>3, <1>4, <1>5, <1>6, <1>7, <1>8 DEF Proceed

LEMMA InvalidateType ==
  ASSUME TypeOK, NEW k \in Keys, Clear(k) \/ Forget(k)
  PROVE  TypeOK'
<1>1. Gen(k) + 1 \in Nat  BY GenType
<1>2. CASE Clear(k)  BY <1>1, <1>2 DEF Clear, TypeOK
<1>3. CASE Forget(k)  BY <1>3 DEF Forget, TypeOK, history
<1> QED  BY <1>2, <1>3

LEMMA TickType == ASSUME TypeOK, Tick PROVE TypeOK'
<1>1. ASSUME NEW k \in Keys PROVE cache'[k] \in Entry \cup {None}
  <2>1. CASE k \in Cached /\ cache[k].age < ReachableTTL
    <3>1. cache[k] \in Entry  BY <2>1 DEF TypeOK, Cached
    <3>2. [cache[k] EXCEPT !.age = cache[k].age + 1] \in Entry
      BY <2>1, <3>1 DEF Entry, ReachableTTL
    <3> QED  BY <2>1, <3>2 DEF Tick
  <2>2. CASE ~(k \in Cached /\ cache[k].age < ReachableTTL)
    BY <2>2 DEF Tick, TypeOK
  <2> QED  BY <2>1, <2>2
<1>2. cache' \in [Keys -> Entry \cup {None}]  BY <1>1 DEF Tick
<1> QED  BY <1>2 DEF Tick, TypeOK, history

LEMMA InitTypeOK == Init => TypeOK
  BY DEF Init, TypeOK, PCs

LEMMA TypeInductive == ASSUME TypeOK, [Next]_vars PROVE TypeOK'
<1>1. CASE \E c \in Callers : IsReachable(c)
  BY <1>1, CallType, ProceedType DEF IsReachable
<1>2. CASE \E k \in Invalidated : Clear(k) \/ Forget(k)
  BY <1>2, InvalidateType, InvalidationsAssumption
<1>3. CASE Tick  BY <1>3, TickType
<1>4. CASE UNCHANGED vars  BY <1>4 DEF TypeOK, vars, maps, history
<1> QED  BY <1>1, <1>2, <1>3, <1>4 DEF Next

\* Type correctness of the tunnel's cache.
THEOREM TypeCorrect == Spec => []TypeOK
BY InitTypeOK, TypeInductive, PTL DEF Spec

-----------------------------------------------------------------------------
(* The capacity of the cache.                                              *)

LEMMA CachedFinite ==
  ASSUME NEW S \in SUBSET Keys
  PROVE  IsFiniteSet(S) /\ Cardinality(S) \in Nat
  BY KeysAssumption, FS_Subset, FS_CardinalityType

\* After eviction there is room for one more entry.
LEMMA EvictionMakesRoom ==
  ASSUME NEW evicted \in Evictions, CacheBounded
  PROVE  Cardinality(Cached \ evicted) < CacheMax
<1> USE CacheMaxAssumption
<1>0. Cached \in SUBSET Keys  BY DEF Cached
<1>1. CASE Cardinality(Cached) < CacheMax
  <2>1. evicted = {}  BY <1>1 DEF Evictions
  <2> QED  BY <1>1, <2>1
<1>2. CASE ~(Cardinality(Cached) < CacheMax) /\ Cardinality(Cached \ Stale) < CacheMax
  BY <1>2 DEF Evictions
<1>3. CASE /\ ~(Cardinality(Cached) < CacheMax)
           /\ ~(Cardinality(Cached \ Stale) < CacheMax)
  <2>1. PICK k \in Oldest : evicted = Stale \cup {k}
    BY <1>3 DEF Evictions
  <2>2. k \in Cached \ Stale  BY DEF Oldest
  <2>3. IsFiniteSet(Cached \ Stale) /\ Cardinality(Cached \ Stale) \in Nat
    BY <1>0, CachedFinite
  <2>4. Cardinality((Cached \ Stale) \ {k}) = Cardinality(Cached \ Stale) - 1
    BY <2>2, <2>3, FS_RemoveElement
  <2>5. Cached \ evicted = (Cached \ Stale) \ {k}  BY <2>1
  <2>6. Cardinality(Cached \ Stale) <= Cardinality(Cached)
    BY <1>0, CachedFinite, FS_Subset
  <2>7. Cardinality(Cached) \in Nat  BY <1>0, CachedFinite
  <2> QED  BY SMTT(20), <2>3, <2>4, <2>5, <2>6, <2>7 DEF CacheBounded
<1> QED  BY <1>1, <1>2, <1>3

LEMMA StoreKeepsBound ==
  ASSUME TypeOK, CacheBounded, NEW c \in Callers, StoreResult(c)
  PROVE  CacheBounded'
<1> USE CacheMaxAssumption
<1>1. key[c] \in Keys  BY DEF TypeOK, StoreResult
<1>2. CASE UNCHANGED cache  BY <1>2 DEF CacheBounded, Cached
<1>3. CASE ~UNCHANGED cache
  <2>1. PICK evicted \in Evictions :
          \A j \in Keys : j # key[c] =>
             cache'[j] = IF j \in evicted THEN None ELSE cache[j]
    BY <1>3 DEF StoreResult
  <2>2. Cached' \subseteq (Cached \ evicted) \cup {key[c]}
    BY <2>1 DEF Cached
  <2>3. Cached \ evicted \in SUBSET Keys  BY DEF Cached
  <2>4. /\ IsFiniteSet(Cached \ evicted)
        /\ Cardinality(Cached \ evicted) \in Nat
        /\ Cardinality(Cached \ evicted) < CacheMax
    BY <2>3, CachedFinite, EvictionMakesRoom
  <2>5. /\ IsFiniteSet((Cached \ evicted) \cup {key[c]})
        /\ Cardinality((Cached \ evicted) \cup {key[c]})
             <= Cardinality(Cached \ evicted) + 1
    <3> DEFINE S == Cached \ evicted
    <3>1. IsFiniteSet(S) /\ Cardinality(S) \in Nat  BY <2>4
    <3> HIDE DEF S
    <3>2. /\ IsFiniteSet(S \cup {key[c]})
          /\ \/ Cardinality(S \cup {key[c]}) = Cardinality(S)
             \/ Cardinality(S \cup {key[c]}) = Cardinality(S) + 1
      BY <3>1, FS_AddElement, Zenon
    <3>3. Cardinality(S \cup {key[c]}) <= Cardinality(S) + 1  BY <3>1, <3>2
    <3> QED  BY <3>2, <3>3 DEF S
  <2>6. Cardinality(Cached') <= Cardinality((Cached \ evicted) \cup {key[c]})
    BY <2>2, <2>5, FS_Subset
  <2>7. /\ Cardinality(Cached') \in Nat
        /\ Cardinality((Cached \ evicted) \cup {key[c]}) \in Nat
    BY <2>2, <2>3, <2>5, <1>1, CachedFinite, FS_CardinalityType
  <2> QED  BY <2>4, <2>5, <2>6, <2>7 DEF CacheBounded
<1> QED  BY <1>2, <1>3

\* Every other step only removes entries or lets them age.
LEMMA NoNewEntry ==
  ASSUME TypeOK, CacheBounded, Cached' \subseteq Cached
  PROVE  CacheBounded'
<1>1. IsFiniteSet(Cached) /\ Cardinality(Cached) \in Nat
  BY CachedFinite DEF Cached
<1>2. Cardinality(Cached') <= Cardinality(Cached)  BY <1>1, FS_Subset
<1>3. Cardinality(Cached') \in Nat  BY <1>1, FS_Subset, FS_CardinalityType
<1> QED  BY <1>1, <1>2, <1>3, CacheMaxAssumption DEF CacheBounded

LEMMA OthersAddNothing ==
  ASSUME TypeOK, [Next]_vars, ~(\E c \in Callers : StoreResult(c))
  PROVE  Cached' \subseteq Cached
<1> USE DEF TypeOK, Cached
<1>1. ASSUME NEW c \in Callers, NEW k \in Keys, Call(c, k) PROVE Cached' \subseteq Cached
  BY <1>1 DEF Call
<1>2. ASSUME NEW c \in Callers, LookAgain(c) PROVE Cached' \subseteq Cached
  BY <1>2 DEF LookAgain
<1>3. ASSUME NEW c \in Callers,
             \/ Do(c) \/ StartProbe(c) \/ ProbeEnds(c) \/ ProbePanics(c)
             \/ Return(c) \/ Leave(c)
      PROVE  Cached' \subseteq Cached
  BY <1>3 DEF Do, StartProbe, ProbeEnds, ProbePanics, Return, Leave, maps
<1>4. ASSUME NEW k \in Keys, Clear(k) \/ Forget(k) PROVE Cached' \subseteq Cached
  BY <1>4 DEF Clear, Forget
<1>5. CASE Tick  BY <1>5 DEF Tick
<1>6. CASE UNCHANGED vars  BY <1>6 DEF vars, maps
<1> QED  BY <1>1, <1>2, <1>3, <1>4, <1>5, <1>6, InvalidationsAssumption
     DEF Next, IsReachable, Proceed

\* The cache never holds more than reachabilityCacheMax entries.
THEOREM NeverOverfull == Spec => []CacheBounded
<1>1. Init => CacheBounded
  <2> SUFFICES ASSUME Init PROVE CacheBounded  OBVIOUS
  <2>1. Cached = {}  BY DEF Init, Cached
  <2>2. Cardinality(Cached) = 0  BY <2>1, FS_EmptySet
  <2> QED  BY <2>2, CacheMaxAssumption DEF CacheBounded
<1>2. TypeOK /\ CacheBounded /\ [Next]_vars => CacheBounded'
  BY StoreKeepsBound, NoNewEntry, OthersAddNothing
<1> QED  BY <1>1, <1>2, TypeCorrect, PTL DEF Spec

-----------------------------------------------------------------------------
(* The probe group.                                                        *)

LEMMA InitIInv == Init => IInv
  BY InitTypeOK DEF Init, IInv, FlightsAreLed, FollowersAreLed

\* Steps outside the group that keep leaders leading.
LEMMA GroupUntouched ==
  ASSUME IInv, TypeOK', UNCHANGED <<flight, leader>>,
         \A c \in Callers : pc[c] \in Leading \/ pc'[c] = "waiting" =>
             key'[c] = key[c],
         \A c \in Callers : pc[c] \in Leading => pc'[c] \in Leading,
         \A c \in Callers : pc'[c] = "waiting" => pc[c] = "waiting"
  PROVE  IInv'
<1> USE DEF IInv, TypeOK
<1>1. FlightsAreLed'
  <2> SUFFICES ASSUME NEW k \in Keys, flight[k] # None
               PROVE  pc'[flight[k]] \in Leading /\ key'[flight[k]] = k
    BY DEF FlightsAreLed
  <2>1. flight[k] \in Callers  OBVIOUS
  <2>2. pc[flight[k]] \in Leading /\ key[flight[k]] = k  BY DEF FlightsAreLed
  <2> QED  BY <2>1, <2>2
<1>2. FollowersAreLed'
  BY DEF FollowersAreLed, Leading
<1> QED  BY <1>1, <1>2

LEMMA DoKeepsIInv ==
  ASSUME IInv, NEW c \in Callers, Do(c)
  PROVE  IInv'
<1> USE DEF IInv, TypeOK
<1>1. TypeOK'  BY ProceedType DEF Proceed
<1>2. pc[c] = "missed" /\ key[c] \in Keys /\ UNCHANGED key  BY DEF Do
<1>3. \A d \in Callers : d # c => pc'[d] = pc[d]  BY DEF Do, Goto
<1>4. CASE flight[key[c]] = None
  <2>1. /\ flight' = [flight EXCEPT ![key[c]] = c]
        /\ pc'[c] = "leading" /\ UNCHANGED leader
    BY <1>4 DEF Do, Goto
  <2>2. FlightsAreLed'  BY <1>2, <1>3, <2>1 DEF FlightsAreLed, Leading
  <2>3. FollowersAreLed'  BY <1>2, <1>3, <2>1 DEF FollowersAreLed
  <2> QED  BY <1>1, <2>2, <2>3
<1>5. CASE flight[key[c]] # None
  <2>1. /\ leader' = [leader EXCEPT ![c] = flight[key[c]]]
        /\ pc'[c] = "waiting" /\ UNCHANGED flight
    BY <1>5 DEF Do, Goto
  <2>2. /\ flight[key[c]] \in Callers /\ pc[flight[key[c]]] \in Leading
        /\ key[flight[key[c]]] = key[c]
    BY <1>2, <1>5 DEF FlightsAreLed
  <2>3. FlightsAreLed'  BY <1>2, <1>3, <2>1 DEF FlightsAreLed, Leading
  <2>4. FollowersAreLed'
    BY <1>2, <1>3, <2>1, <2>2 DEF FollowersAreLed, Leading
  <2> QED  BY <1>1, <2>3, <2>4
<1> QED  BY <1>4, <1>5

LEMMA ReturnKeepsIInv ==
  ASSUME IInv, NEW c \in Callers, Return(c)
  PROVE  IInv'
<1> USE DEF IInv, TypeOK
<1>1. TypeOK'  BY ProceedType DEF Proceed
<1> DEFINE followers == {d \in Callers : pc[d] = "waiting" /\ leader[d] = c}
<1>2. /\ pc[c] = "returning" /\ key[c] \in Keys /\ UNCHANGED <<key, leader>>
      /\ \A d \in Callers : pc'[d] = IF d \in followers \cup {c} THEN "answered"
                                                                 ELSE pc[d]
      /\ flight' = [flight EXCEPT ![key[c]] = IF @ = c THEN None ELSE @]
  BY DEF Return
<1>3. FlightsAreLed'
  <2> SUFFICES ASSUME NEW k \in Keys, flight'[k] # None
               PROVE  pc'[flight'[k]] \in Leading /\ key[flight'[k]] = k
    BY <1>2 DEF FlightsAreLed
  <2>1. flight'[k] = flight[k] /\ flight[k] \in Callers  BY <1>2
  <2>2. pc[flight[k]] \in Leading /\ key[flight[k]] = k
    BY <2>1 DEF FlightsAreLed
  <2>3. flight[k] # c  BY <1>2, <2>1, <2>2, NoneIsNothing
  <2> QED  BY <1>2, <2>1, <2>2, <2>3 DEF Leading
<1>4. FollowersAreLed'
  <2> SUFFICES ASSUME NEW d \in Callers, pc'[d] = "waiting"
               PROVE  /\ leader[d] \in Callers /\ pc'[leader[d]] \in Leading
                      /\ key[leader[d]] = key[d]
    BY <1>2 DEF FollowersAreLed, Leading
  <2>1. pc[d] = "waiting" /\ leader[d] # c  BY <1>2
  <2>2. /\ leader[d] \in Callers /\ pc[leader[d]] \in Leading
        /\ key[leader[d]] = key[d]
    BY <2>1 DEF FollowersAreLed, Leading
  <2> QED  BY <1>2, <2>1, <2>2 DEF Leading
<1> QED  BY <1>1, <1>3, <1>4

LEMMA IInvInductive == ASSUME IInv, [Next]_vars PROVE IInv'
<1> USE DEF IInv
<1>1. TypeOK'  BY TypeInductive
<1>2. ASSUME NEW c \in Callers, NEW k \in Keys, Call(c, k) PROVE IInv'
  <2>1. /\ pc[c] = "idle" /\ pc'[c] \in {"answered", "missed"}
        /\ \A d \in Callers : d # c => pc'[d] = pc[d] /\ key'[d] = key[d]
        /\ UNCHANGED <<flight, leader>>
    BY <1>2 DEF Call, Goto, TypeOK
  <2> QED  BY <1>1, <2>1, GroupUntouched DEF Leading
<1>3. ASSUME NEW c \in Callers,
             \/ LookAgain(c) \/ StartProbe(c) \/ ProbeEnds(c)
             \/ ProbePanics(c) \/ StoreResult(c)
      PROVE  IInv'
  <2>1. /\ pc[c] \in Leading /\ pc'[c] \in Leading
        /\ \A d \in Callers : d # c => pc'[d] = pc[d]
        /\ UNCHANGED <<flight, leader, key>>
    BY <1>3 DEF LookAgain, StartProbe, ProbeEnds, ProbePanics, StoreResult,
       Goto, TypeOK, Leading, maps
  <2> QED  BY <1>1, <2>1, GroupUntouched DEF Leading
<1>4. ASSUME NEW c \in Callers, Leave(c) PROVE IInv'
  <2>1. /\ pc[c] = "answered" /\ pc'[c] = "idle" /\ UNCHANGED flight
        /\ \A d \in Callers : d # c => /\ pc'[d] = pc[d] /\ key'[d] = key[d]
                                       /\ leader'[d] = leader[d]
    BY <1>4 DEF Leave, Goto, TypeOK, maps
  <2>2. FlightsAreLed'
    <3> SUFFICES ASSUME NEW k \in Keys, flight[k] # None
                 PROVE  pc'[flight[k]] \in Leading /\ key'[flight[k]] = k
      BY <2>1 DEF FlightsAreLed
    <3>1. flight[k] \in Callers  BY DEF TypeOK
    <3>2. pc[flight[k]] \in Leading /\ key[flight[k]] = k  BY DEF FlightsAreLed
    <3> QED  BY <2>1, <3>1, <3>2 DEF Leading
  <2>3. FollowersAreLed'
    <3> SUFFICES ASSUME NEW d \in Callers, pc'[d] = "waiting"
                 PROVE  /\ leader'[d] \in Callers /\ pc'[leader'[d]] \in Leading
                        /\ key'[leader'[d]] = key'[d]
      BY DEF FollowersAreLed, Leading
    <3>1. d # c /\ pc[d] = "waiting"  BY <2>1
    <3>2. /\ leader[d] \in Callers /\ pc[leader[d]] \in Leading
          /\ key[leader[d]] = key[d]
      BY <3>1 DEF FollowersAreLed, Leading
    <3>3. leader[d] # c  BY <2>1, <3>2 DEF Leading
    <3> QED  BY <2>1, <3>1, <3>2, <3>3
  <2> QED  BY <1>1, <2>2, <2>3
<1>5. ASSUME NEW k \in Keys, Clear(k) PROVE IInv'
  <2>1. UNCHANGED <<flight, leader, pc, key>>  BY <1>5 DEF Clear
  <2> QED  BY <1>1, <2>1, GroupUntouched
<1>6. ASSUME NEW k \in Keys, Forget(k) PROVE IInv'
  <2>1. /\ UNCHANGED <<leader, pc, key>>
        /\ \A j \in Keys : flight'[j] # None => flight'[j] = flight[j]
    BY <1>6 DEF Forget, TypeOK
  <2> QED  BY <1>1, <2>1 DEF FlightsAreLed, FollowersAreLed
<1>7. CASE Tick
  <2>1. UNCHANGED <<flight, leader, pc, key>>  BY <1>7 DEF Tick
  <2> QED  BY <1>1, <2>1, GroupUntouched
<1>8. CASE UNCHANGED vars
  <2>1. UNCHANGED <<flight, leader, pc, key>>  BY <1>8 DEF vars, maps
  <2> QED  BY <1>1, <2>1, GroupUntouched
<1> QED
  BY <1>2, <1>3, <1>4, <1>5, <1>6, <1>7, <1>8, DoKeepsIInv, ReturnKeepsIInv,
     InvalidationsAssumption
     DEF Next, IsReachable, Proceed

\* A call of IsReachable never waits for a probe that nobody runs, also when
\* InvalidateReachability made the group forget it.
THEOREM NobodyWaitsAlone == Spec => []FollowersAreLed
<1>1. IInv => FollowersAreLed  BY DEF IInv
<1> QED  BY <1>1, InitIInv, IInvInductive, PTL DEF Spec

-----------------------------------------------------------------------------
(* The generation counters.                                                *)

\* A counter that was never pruned counts the invalidations of its key.
CountersCount == \A k \in Keys : k \notin pruned => Gen(k) = cleared[k]

\* What a probe read before it began is how often its key was invalidated then.
ProbesReadTheCounter ==
    \A c \in Callers :
        pc[c] \in {"probing", "probed"} /\ key[c] \notin pruned
        => startGen[c] = probedAt[c]

GInv == TypeOK /\ CountersCount /\ ProbesReadTheCounter

LEMMA InitGInv == Init => GInv
  BY InitTypeOK DEF Init, GInv, CountersCount, ProbesReadTheCounter, Gen

\* Steps that touch no counter and no probe.
LEMMA CountersUntouched ==
  ASSUME GInv, TypeOK', UNCHANGED <<gens, cleared, pruned>>,
         \A c \in Callers : pc'[c] \in {"probing", "probed"} =>
             /\ pc[c] \in {"probing", "probed"}
             /\ key'[c] = key[c] /\ startGen'[c] = startGen[c]
             /\ probedAt'[c] = probedAt[c]
  PROVE  GInv'
<1>1. CountersCount'  BY DEF GInv, CountersCount, Gen
<1>2. ProbesReadTheCounter'  BY DEF GInv, ProbesReadTheCounter
<1> QED  BY <1>1, <1>2 DEF GInv

LEMMA StoreKeepsGInv ==
  ASSUME GInv, NEW c \in Callers, StoreResult(c)
  PROVE  GInv'
<1> USE DEF GInv
<1>1. TypeOK'  BY StoreType
<1>2. /\ pruned \subseteq pruned'
      /\ \A k \in Keys : k \notin pruned' =>
             gens'[k] = gens[k] \/ (gens[k] = None /\ gens'[k] = None)
      /\ UNCHANGED <<key, startGen, probedAt, cleared>>
      /\ \A d \in Callers : pc'[d] \in {"probing", "probed"} => pc'[d] = pc[d]
  BY DEF StoreResult, Goto, TypeOK
<1>3. CountersCount'  BY <1>2 DEF CountersCount, Gen
<1>4. ProbesReadTheCounter'  BY <1>2 DEF ProbesReadTheCounter
<1> QED  BY <1>1, <1>3, <1>4

LEMMA GInvInductive == ASSUME GInv, [Next]_vars PROVE GInv'
<1> USE DEF GInv
<1>1. TypeOK'  BY TypeInductive
<1>2. ASSUME NEW c \in Callers, NEW k \in Keys, Call(c, k) PROVE GInv'
  <2>1. /\ UNCHANGED <<gens, cleared, pruned, startGen>>
        /\ pc'[c] \in {"answered", "missed"}
        /\ \A d \in Callers : d # c => /\ pc'[d] = pc[d] /\ key'[d] = key[d]
                                       /\ probedAt'[d] = probedAt[d]
    BY <1>2 DEF Call, Take, Goto, TypeOK
  <2> QED  BY <1>1, <2>1, CountersUntouched
<1>3. ASSUME NEW c \in Callers,
             Do(c) \/ LookAgain(c) \/ ProbeEnds(c) \/ ProbePanics(c) \/ Leave(c)
      PROVE  GInv'
  <2>1. /\ UNCHANGED <<gens, cleared, pruned>>
        /\ pc'[c] \in {"probing", "probed"} =>
              /\ pc[c] = "probing" /\ key'[c] = key[c]
              /\ startGen'[c] = startGen[c] /\ probedAt'[c] = probedAt[c]
        /\ \A d \in Callers : d # c =>
              /\ pc'[d] = pc[d] /\ key'[d] = key[d]
              /\ startGen'[d] = startGen[d] /\ probedAt'[d] = probedAt[d]
    BY <1>3 DEF Do, LookAgain, Take, ProbeEnds, ProbePanics, Leave, Goto,
       TypeOK, maps, history
  <2> QED  BY <1>1, <2>1, CountersUntouched
<1>4. ASSUME NEW c \in Callers, StartProbe(c) PROVE GInv'
  <2>1. /\ UNCHANGED <<gens, cleared, pruned, key>> /\ key[c] \in Keys
        /\ startGen'[c] = Gen(key[c]) /\ probedAt'[c] = cleared[key[c]]
        /\ \A d \in Callers : d # c => /\ pc'[d] = pc[d]
                                       /\ startGen'[d] = startGen[d]
                                       /\ probedAt'[d] = probedAt[d]
    BY <1>4 DEF StartProbe, Goto, TypeOK, maps
  <2>2. CountersCount'  BY <2>1 DEF CountersCount, Gen
  <2>3. ProbesReadTheCounter'
    BY <2>1 DEF CountersCount, ProbesReadTheCounter
  <2> QED  BY <1>1, <2>2, <2>3
<1>5. ASSUME NEW c \in Callers, Return(c) PROVE GInv'
  <2>1. /\ UNCHANGED <<gens, cleared, pruned, key, startGen>>
        /\ \A d \in Callers :
              \/ pc'[d] = "answered"
              \/ pc'[d] = pc[d] /\ probedAt'[d] = probedAt[d]
    BY <1>5 DEF Return, TypeOK
  <2> QED  BY <1>1, <2>1, CountersUntouched
<1>6. ASSUME NEW k \in Keys, Clear(k) PROVE GInv'
  <2>1. /\ UNCHANGED <<pc, key, startGen, probedAt, pruned>>
        /\ gens' = [gens EXCEPT ![k] = Gen(k) + 1]
        /\ cleared' = [cleared EXCEPT ![k] = cleared[k] + 1]
    BY <1>6 DEF Clear
  <2>2. CountersCount'
    <3> SUFFICES ASSUME NEW j \in Keys, j \notin pruned
                 PROVE  (IF gens'[j] = None THEN 0 ELSE gens'[j]) = cleared'[j]
      BY <2>1 DEF CountersCount, Gen
    <3>1. Gen(j) = cleared[j] /\ Gen(j) \in Nat  BY GenType DEF CountersCount
    <3>2. CASE j = k
      <4>1. gens'[j] = cleared[j] + 1 /\ cleared'[j] = cleared[j] + 1
        BY <2>1, <3>1, <3>2 DEF TypeOK
      <4>2. gens'[j] \in Nat  BY <3>1, <4>1
      <4> QED  BY <4>1, <4>2, NoneIsNothing
    <3>3. CASE j # k  BY <2>1, <3>1, <3>3 DEF TypeOK, Gen
    <3> QED  BY <3>2, <3>3
  <2>3. ProbesReadTheCounter'  BY <2>1 DEF ProbesReadTheCounter
  <2> QED  BY <1>1, <2>2, <2>3
<1>7. ASSUME NEW k \in Keys, Forget(k) PROVE GInv'
  <2>1. UNCHANGED <<gens, cleared, pruned, pc, key, startGen, probedAt>>
    BY <1>7 DEF Forget, history
  <2> QED  BY <1>1, <2>1, CountersUntouched
<1>8. CASE Tick \/ UNCHANGED vars
  <2>1. UNCHANGED <<gens, cleared, pruned, pc, key, startGen, probedAt>>
    BY <1>8 DEF Tick, vars, maps, history
  <2> QED  BY <1>1, <2>1, CountersUntouched
<1> QED
  BY <1>2, <1>3, <1>4, <1>5, <1>6, <1>7, <1>8, StoreKeepsGInv,
     InvalidationsAssumption DEF Next, IsReachable, Proceed

\* Only a probe writes an entry, and only if the counter is as it read it.
LEMMA WritesMatchTheCounter ==
  ASSUME GInv, [Next]_vars, NEW c \in Callers, StaleWrite(c)
  PROVE  key[c] \in pruned
<1> USE DEF GInv
<1>1. pc[c] = "probed" /\ pc'[c] = "returning" /\ key[c] \in Keys
  BY DEF StaleWrite, TypeOK
<1>2. CASE Gen(key[c]) = startGen[c]
  <2> SUFFICES ASSUME key[c] \notin pruned PROVE FALSE  OBVIOUS
  <2>1. Gen(key[c]) = cleared[key[c]]  BY <1>1 DEF CountersCount
  <2>2. startGen[c] = probedAt[c]  BY <1>1 DEF ProbesReadTheCounter
  <2>3. probedAt[c] < cleared[key[c]]  BY DEF StaleWrite
  <2>4. cleared[key[c]] \in Nat /\ probedAt[c] \in Nat  BY <1>1 DEF TypeOK
  <2>5. probedAt[c] = cleared[key[c]]  BY <1>2, <2>1, <2>2
  <2> QED  BY <2>3, <2>4, <2>5
<1>3. CASE Gen(key[c]) # startGen[c]
  <2>1. StoreResult(c)
    <3>1. \A d \in Callers, k \in Keys : ~Call(d, k)
      BY <1>1 DEF Call, Goto, TypeOK
    <3>2. \A d \in Callers :
             ~(Do(d) \/ LookAgain(d) \/ StartProbe(d) \/ ProbeEnds(d)
               \/ ProbePanics(d) \/ Return(d) \/ Leave(d))
      BY <1>1 DEF Do, LookAgain, StartProbe, ProbeEnds, ProbePanics, Return,
         Leave, Goto, TypeOK
    <3>3. \A d \in Callers : d # c => ~StoreResult(d)
      BY <1>1 DEF StoreResult, Goto, TypeOK
    <3>4. ~Tick /\ ~UNCHANGED vars /\ \A k \in Keys : ~Clear(k) /\ ~Forget(k)
      BY <1>1 DEF Tick, vars, Clear, Forget
    <3> QED  BY <3>1, <3>2, <3>3, <3>4, InvalidationsAssumption
             DEF Next, IsReachable, Proceed
  <2>2. UNCHANGED cache  BY <1>3, <2>1 DEF StoreResult
  <2> QED  BY <2>2 DEF StaleWrite
<1> QED  BY <1>2, <1>3

\* storeCacheIfGen keeps every probe from before an invalidation from writing,
\* for any number of callers, as long as the counter was never pruned.
THEOREM StaleWritesNeedPruning == Spec => CounterKeepsStaleOut
<1>1. GInv /\ [Next]_vars => \A c \in Callers : StaleWrite(c) => key[c] \in pruned
  BY WritesMatchTheCounter
<1>2. GInv /\ [Next]_vars => [\A c \in Callers : StaleWrite(c) => key[c] \in pruned]_vars
  BY <1>1
<1> QED
  BY <1>2, InitGInv, GInvInductive, PTL DEF Spec, CounterKeepsStaleOut

-----------------------------------------------------------------------------
(* What an answer after an invalidation rests on.                          *)

\* How many invalidations of k have returned.
Returned(k) == IF clearing = k THEN cleared[k] - 1 ELSE cleared[k]

\* What is cached was seen after the last invalidation.
EntriesAreCurrent ==
    \A k \in Keys : k \notin pruned /\ cache[k] # None => cache[k].asOf = cleared[k]

CallsNeedReturned ==
    \A c \in Callers : pc[c] # "idle" => needs[c] <= Returned(key[c])

\* A call the group still knows has seen every invalidation that returned: who
\* joins it may use its answer.
Seen == {"probing", "probed", "returning"}
FlightsAreCurrent ==
    \A k \in Keys :
        k \notin pruned /\ flight[k] # None /\ pc[flight[k]] \in Seen
        => probedAt[flight[k]] >= Returned(k)

\* A leader's answer will do for itself and for all who wait for it, forgotten
\* or not.
AnswersSuffice ==
    \A c, d \in Callers :
        /\ pc[c] \in Seen /\ key[c] \notin pruned
        /\ d = c \/ (pc[d] = "waiting" /\ leader[d] = c)
        => probedAt[c] >= needs[d]

FInv == /\ IInv
        /\ GInv
        /\ EntriesAreCurrent
        /\ CallsNeedReturned
        /\ FlightsAreCurrent
        /\ AnswersSuffice
        /\ FreshAfterInvalidate

LEMMA InitFInv == Init => FInv
<1> SUFFICES ASSUME Init PROVE FInv  OBVIOUS
<1>1. IInv /\ GInv  BY InitIInv, InitGInv
<1> QED
  BY <1>1 DEF FInv, Init, EntriesAreCurrent, CallsNeedReturned, FlightsAreCurrent,
     AnswersSuffice, FreshAfterInvalidate, Seen

\* A hit, before the group or in it, is current.
LEMMA HitIsCurrent ==
  ASSUME FInv, NEW c \in Callers, NEW k \in Keys, Hit(k), Take(c, k)
  PROVE  /\ k \notin pruned => probedAt'[c] = cleared[k]
         /\ \A d \in Callers : d # c => probedAt'[d] = probedAt[d]
BY DEF FInv, IInv, TypeOK, Hit, Take, EntriesAreCurrent

LEMMA CallKeepsFInv ==
  ASSUME FInv, IInv', GInv', NEW c \in Callers, NEW k \in Keys, Call(c, k)
  PROVE  FInv'
<1> USE DEF FInv, IInv, TypeOK
<1>1. /\ pc[c] = "idle" /\ key'[c] = k /\ needs'[c] = Returned(k)
      /\ pc'[c] \in {"answered", "missed"}
      /\ \A d \in Callers : d # c => /\ pc'[d] = pc[d] /\ key'[d] = key[d]
                                     /\ needs'[d] = needs[d]
      /\ UNCHANGED <<flight, leader, clearing, cleared, pruned>>
  BY DEF Call, Goto, Returned
<1>2. /\ pc'[c] = "answered" => (k \notin pruned => probedAt'[c] = cleared[k])
      /\ \A d \in Callers : d # c => probedAt'[d] = probedAt[d]
      /\ \A j \in Keys : cache'[j] = cache[j] \/ cache'[j] = None
  <2>1. CASE Hit(k)  BY <2>1, HitIsCurrent DEF Call
  <2>2. CASE ~Hit(k)  BY <2>2 DEF Call, Goto
  <2> QED  BY <2>1, <2>2
<1>3. Returned(k) <= cleared[k] /\ Returned(k) \in Int  BY DEF Returned
<1>4. EntriesAreCurrent'  BY <1>1, <1>2 DEF EntriesAreCurrent
<1>5. CallsNeedReturned'  BY <1>1, <1>3 DEF CallsNeedReturned, Returned
<1>6. FlightsAreCurrent'
  BY <1>1, <1>2 DEF FlightsAreCurrent, Seen, Returned, FlightsAreLed, Leading
<1>7. AnswersSuffice'  BY <1>1, <1>2 DEF AnswersSuffice, Seen
<1>8. FreshAfterInvalidate'  BY <1>1, <1>2, <1>3 DEF FreshAfterInvalidate
<1> QED  BY <1>4, <1>5, <1>6, <1>7, <1>8

LEMMA DoKeepsFInv ==
  ASSUME FInv, IInv', GInv', NEW c \in Callers, Do(c)
  PROVE  FInv'
<1> USE DEF FInv, IInv, TypeOK
<1>1. /\ pc[c] = "missed" /\ pc'[c] \in {"leading", "waiting"}
      /\ \A d \in Callers : d # c => pc'[d] = pc[d] /\ leader'[d] = leader[d]
      /\ pc'[c] = "waiting" => /\ flight[key[c]] # None
                               /\ leader'[c] = flight[key[c]]
      /\ \A k \in Keys : flight'[k] = flight[k] \/ (flight'[k] = c /\ pc'[c] = "leading")
      /\ UNCHANGED <<cache, key, clearing, cleared, pruned, probedAt, needs>>
  BY DEF Do, Goto, history
<1>2. EntriesAreCurrent'  BY <1>1 DEF EntriesAreCurrent
<1>3. CallsNeedReturned'  BY <1>1 DEF CallsNeedReturned, Returned
<1>4. FlightsAreCurrent'  BY <1>1 DEF FlightsAreCurrent, Seen, Returned
<1>5. AnswersSuffice'
  <2> SUFFICES ASSUME NEW b \in Callers, NEW d \in Callers,
                      pc'[b] \in Seen, key[b] \notin pruned,
                      d = b \/ (pc'[d] = "waiting" /\ leader'[d] = b)
               PROVE  probedAt[b] >= needs[d]
    BY <1>1 DEF AnswersSuffice
  <2>1. CASE d # c \/ d = b  BY <1>1, <2>1 DEF AnswersSuffice, Seen
  <2>2. CASE d = c /\ d # b
    <3>1. b = flight[key[c]] /\ flight[key[c]] # None /\ key[c] \in Keys
      BY <1>1, <2>2
    <3>2. pc[b] \in Seen /\ key[b] = key[c]
      BY <1>1, <2>2, <3>1 DEF FlightsAreLed
    <3>3. probedAt[b] >= Returned(key[c])
      BY <3>1, <3>2 DEF FlightsAreCurrent
    <3>4. needs[c] <= Returned(key[c])  BY <1>1 DEF CallsNeedReturned
    <3>5. Returned(key[c]) \in Int  BY <3>1 DEF Returned
    <3> QED  BY <2>2, <3>3, <3>4, <3>5
  <2> QED  BY <2>1, <2>2
<1>6. FreshAfterInvalidate'  BY <1>1 DEF FreshAfterInvalidate
<1> QED  BY <1>2, <1>3, <1>4, <1>5, <1>6

\* The leader begins to see, from the cache or by a probe.
LEMMA LookKeepsFInv ==
  ASSUME FInv, IInv', GInv', NEW c \in Callers, LookAgain(c) \/ StartProbe(c)
  PROVE  FInv'
<1> USE DEF FInv, IInv, TypeOK
<1>1. /\ pc[c] \in {"leading", "starting"}
      /\ pc'[c] \in {"starting", "probing", "returning"}
      /\ \A d \in Callers : d # c => pc'[d] = pc[d]
      /\ UNCHANGED <<flight, key, leader, clearing, cleared, pruned, needs>>
  BY DEF LookAgain, StartProbe, Goto, maps
<1>2. /\ pc'[c] \in Seen /\ key[c] \notin pruned => probedAt'[c] = cleared[key[c]]
      /\ \A d \in Callers : d # c => probedAt'[d] = probedAt[d]
      /\ \A j \in Keys : cache'[j] = cache[j] \/ cache'[j] = None
  <2>1. CASE StartProbe(c)  BY <2>1 DEF StartProbe, maps
  <2>2. CASE LookAgain(c) /\ Hit(key[c])
    BY <2>2, HitIsCurrent DEF LookAgain
  <2>3. CASE LookAgain(c) /\ ~Hit(key[c])
    BY <2>3 DEF LookAgain, Goto, Seen
  <2> QED  BY <2>1, <2>2, <2>3
<1>3. \A k \in Keys : Returned(k) <= cleared[k] /\ Returned(k) \in Int
  BY DEF Returned
<1>4. EntriesAreCurrent'  BY <1>1, <1>2 DEF EntriesAreCurrent
<1>5. CallsNeedReturned'  BY <1>1 DEF CallsNeedReturned, Returned
<1>6. FlightsAreCurrent'
  <2> SUFFICES ASSUME NEW k \in Keys, k \notin pruned, flight[k] # None,
                      pc'[flight[k]] \in Seen
               PROVE  probedAt'[flight[k]] >= Returned(k)
    BY <1>1 DEF FlightsAreCurrent, Returned
  <2>1. CASE flight[k] # c  BY <1>1, <1>2, <2>1 DEF FlightsAreCurrent
  <2>2. CASE flight[k] = c
    <3>1. key[c] = k  BY <2>2 DEF FlightsAreLed
    <3> QED  BY <1>2, <1>3, <2>2, <3>1
  <2> QED  BY <2>1, <2>2
<1>7. AnswersSuffice'
  <2> SUFFICES ASSUME NEW b \in Callers, NEW d \in Callers,
                      pc'[b] \in Seen, key[b] \notin pruned,
                      d = b \/ (pc'[d] = "waiting" /\ leader[d] = b)
               PROVE  probedAt'[b] >= needs[d]
    BY <1>1 DEF AnswersSuffice
  <2>1. CASE b # c  BY <1>1, <1>2, <2>1 DEF AnswersSuffice
  <2>2. CASE b = c
    <3>1. key[d] = key[c] /\ key[c] \in Keys /\ pc[d] # "idle"
      BY <1>1, <2>2 DEF FollowersAreLed
    <3>2. needs[d] <= Returned(key[c])  BY <3>1 DEF CallsNeedReturned
    <3> QED  BY <1>2, <1>3, <2>2, <3>1, <3>2
  <2> QED  BY <2>1, <2>2
<1>8. FreshAfterInvalidate'  BY <1>1, <1>2 DEF FreshAfterInvalidate
<1> QED  BY <1>4, <1>5, <1>6, <1>7, <1>8

LEMMA StoreKeepsFInv ==
  ASSUME FInv, IInv', GInv', NEW c \in Callers, StoreResult(c)
  PROVE  FInv'
<1> USE DEF FInv, IInv, TypeOK
<1>1. /\ pc[c] = "probed" /\ pc'[c] = "returning" /\ key[c] \in Keys
      /\ \A d \in Callers : d # c => pc'[d] = pc[d]
      /\ pruned \subseteq pruned'
      /\ UNCHANGED <<flight, key, leader, clearing, cleared, probedAt, needs>>
  BY DEF StoreResult, Goto
<1>2. \A k \in Keys : \/ cache'[k] = cache[k] \/ cache'[k] = None
                      \/ k = key[c] /\ Gen(k) = startGen[c]
                         /\ cache'[k].asOf = probedAt[c]
  <2>1. CASE Gen(key[c]) = startGen[c]  BY <2>1 DEF StoreResult
  <2>2. CASE Gen(key[c]) # startGen[c]  BY <2>2 DEF StoreResult
  <2> QED  BY <2>1, <2>2
<1>3. EntriesAreCurrent'
  <2> SUFFICES ASSUME NEW k \in Keys, k \notin pruned', cache'[k] # None
               PROVE  cache'[k].asOf = cleared[k]
    BY <1>1 DEF EntriesAreCurrent
  <2>1. k \notin pruned  BY <1>1
  <2>2. CASE cache'[k] = cache[k]  BY <2>1, <2>2 DEF EntriesAreCurrent
  <2>3. CASE k = key[c] /\ Gen(k) = startGen[c] /\ cache'[k].asOf = probedAt[c]
    <3>1. Gen(k) = cleared[k]  BY <2>1 DEF GInv, CountersCount
    <3>2. startGen[c] = probedAt[c]
      BY <1>1, <2>1, <2>3 DEF GInv, ProbesReadTheCounter
    <3> QED  BY <2>3, <3>1, <3>2
  <2> QED  BY <1>2, <2>2, <2>3
<1>4. CallsNeedReturned'  BY <1>1 DEF CallsNeedReturned, Returned
<1>5. FlightsAreCurrent'  BY <1>1 DEF FlightsAreCurrent, Seen, Returned
<1>6. AnswersSuffice'  BY <1>1 DEF AnswersSuffice, Seen
<1>7. FreshAfterInvalidate'  BY <1>1 DEF FreshAfterInvalidate
<1> QED  BY <1>3, <1>4, <1>5, <1>6, <1>7

LEMMA ReturnKeepsFInv ==
  ASSUME FInv, IInv', GInv', NEW c \in Callers, Return(c)
  PROVE  FInv'
<1> USE DEF FInv, IInv, TypeOK
<1> DEFINE followers == {d \in Callers : pc[d] = "waiting" /\ leader[d] = c}
<1>1. /\ pc[c] = "returning"
      /\ \A d \in Callers :
           /\ pc'[d] = IF d \in followers \cup {c} THEN "answered" ELSE pc[d]
           /\ probedAt'[d] = IF d \in followers THEN probedAt[c] ELSE probedAt[d]
      /\ \A k \in Keys : flight'[k] = None \/ flight'[k] = flight[k]
      /\ UNCHANGED <<cache, key, leader, clearing, cleared, pruned, needs>>
  BY DEF Return
<1>2. EntriesAreCurrent'  BY <1>1 DEF EntriesAreCurrent
<1>3. CallsNeedReturned'  BY <1>1 DEF CallsNeedReturned, Returned
<1>4. FlightsAreCurrent'  BY <1>1 DEF FlightsAreCurrent, Seen, Returned
<1>5. AnswersSuffice'  BY <1>1 DEF AnswersSuffice, Seen
<1>6. FreshAfterInvalidate'
  <2> SUFFICES ASSUME NEW d \in Callers, pc'[d] = "answered", key[d] \notin pruned
               PROVE  probedAt'[d] >= needs[d]
    BY <1>1 DEF FreshAfterInvalidate
  <2>1. CASE d \in followers
    <3>1. key[c] = key[d]  BY <2>1 DEF FollowersAreLed
    <3> QED  BY <1>1, <2>1, <3>1 DEF AnswersSuffice, Seen
  <2>2. CASE d = c
    <3>1. c \notin followers  BY <1>1
    <3> QED  BY <1>1, <2>2, <3>1 DEF AnswersSuffice, Seen
  <2>3. CASE d \notin followers \cup {c}
    BY <1>1, <2>3 DEF FreshAfterInvalidate
  <2> QED  BY <2>1, <2>2, <2>3
<1> QED  BY <1>2, <1>3, <1>4, <1>5, <1>6

\* The two halves of InvalidateReachability: only the second counts as returned,
\* and then the group knows no call of the key.
LEMMA InvalidateKeepsFInv ==
  ASSUME FInv, IInv', GInv', NEW k \in Keys, Clear(k) \/ Forget(k)
  PROVE  FInv'
<1> USE DEF FInv, IInv, TypeOK
<1>1. UNCHANGED <<pc, key, leader, probedAt, needs, pruned>>
  BY DEF Clear, Forget, history
<1>2. \A j \in Keys : Returned(j) <= Returned(j)' /\ Returned(j) \in Int /\ Returned(j)' \in Int
  <2>1. CASE Clear(k)  BY <2>1, NoneIsNothing DEF Clear, Returned
  <2>2. CASE Forget(k)  BY <2>2, NoneIsNothing DEF Forget, Returned, history
  <2> QED  BY <2>1, <2>2
<1>3. \A j \in Keys : \/ flight'[j] = None
                      \/ flight'[j] = flight[j] /\ Returned(j)' = Returned(j)
  <2>1. CASE Clear(k)  BY <2>1, NoneIsNothing DEF Clear, Returned
  <2>2. CASE Forget(k)  BY <2>2, NoneIsNothing DEF Forget, Returned, history
  <2> QED  BY <2>1, <2>2
<1>4. EntriesAreCurrent'
  BY <1>1 DEF EntriesAreCurrent, Clear, Forget, history
<1>5. CallsNeedReturned'
  <2> SUFFICES ASSUME NEW c \in Callers, pc[c] # "idle"
               PROVE  needs[c] <= Returned(key[c])'
    BY <1>1 DEF CallsNeedReturned
  <2>1. key[c] \in Keys /\ key'[c] = key[c] /\ needs[c] \in Int
    BY <1>1
  <2>2. needs[c] <= Returned(key[c])  BY DEF CallsNeedReturned
  <2>3. Returned(key[c]) <= Returned(key[c])'
    BY <1>1, <1>2, <2>1
  <2> QED  BY <1>1, <1>2, <2>1, <2>2, <2>3
<1>6. FlightsAreCurrent'
  <2> SUFFICES ASSUME NEW j \in Keys, j \notin pruned, flight'[j] # None,
                      pc[flight'[j]] \in Seen
               PROVE  probedAt[flight'[j]] >= Returned(j)'
    BY <1>1 DEF FlightsAreCurrent
  <2>1. flight'[j] = flight[j] /\ Returned(j)' = Returned(j)  BY <1>3
  <2>2. probedAt[flight[j]] >= Returned(j)  BY <2>1 DEF FlightsAreCurrent
  <2> QED  BY <2>1, <2>2
<1>7. AnswersSuffice'  BY <1>1 DEF AnswersSuffice
<1>8. FreshAfterInvalidate'  BY <1>1 DEF FreshAfterInvalidate
<1> QED  BY <1>4, <1>5, <1>6, <1>7, <1>8

\* The end of a probe, of a request, and time.
LEMMA RestKeepsFInv ==
  ASSUME FInv, IInv', GInv',
         \/ \E c \in Callers : ProbeEnds(c) \/ ProbePanics(c) \/ Leave(c)
         \/ Tick
         \/ UNCHANGED vars
  PROVE  FInv'
<1> USE DEF FInv, IInv, TypeOK
<1>1. /\ UNCHANGED <<flight, clearing, cleared, pruned>>
      /\ \A d \in Callers :
           \/ /\ pc'[d] = pc[d] \/ {pc[d], pc'[d]} \subseteq Seen
              /\ key'[d] = key[d] /\ leader'[d] = leader[d]
              /\ probedAt'[d] = probedAt[d] /\ needs'[d] = needs[d]
           \/ pc[d] = "answered" /\ pc'[d] = "idle"
  <2>1. ASSUME NEW c \in Callers, ProbeEnds(c) \/ ProbePanics(c) PROVE <1>1!1 /\ <1>1!2
    BY <2>1 DEF ProbeEnds, ProbePanics, Goto, maps, history, Seen
  <2>2. ASSUME NEW c \in Callers, Leave(c) PROVE <1>1!1 /\ <1>1!2
    BY <2>2 DEF Leave, Goto, maps
  <2>3. CASE Tick \/ UNCHANGED vars
    BY <2>3 DEF Tick, vars, maps, history
  <2> QED  BY <2>1, <2>2, <2>3
<1>2. \A k \in Keys : cache'[k] = cache[k]
          \/ (cache[k] # None /\ cache'[k].asOf = cache[k].asOf)
  <2>1. CASE Tick  BY <2>1 DEF Tick, Cached, Entry
  <2>2. CASE UNCHANGED cache  BY <2>2
  <2> QED  BY <2>1, <2>2 DEF ProbeEnds, ProbePanics, Leave, vars, maps
<1>3. EntriesAreCurrent'  BY <1>1, <1>2 DEF EntriesAreCurrent
<1>4. CallsNeedReturned'  BY <1>1 DEF CallsNeedReturned, Returned, Seen
<1>5. FlightsAreCurrent'
  BY <1>1 DEF FlightsAreCurrent, Seen, Returned, FlightsAreLed, Leading
<1>6. AnswersSuffice'  BY <1>1 DEF AnswersSuffice, Seen
<1>7. FreshAfterInvalidate'  BY <1>1 DEF FreshAfterInvalidate, Seen
<1> QED  BY <1>3, <1>4, <1>5, <1>6, <1>7

LEMMA FInvInductive == ASSUME FInv, [Next]_vars PROVE FInv'
<1>1. IInv' /\ GInv'  BY IInvInductive, GInvInductive DEF FInv
<1>2. CASE \E c \in Callers : IsReachable(c)
  BY <1>1, <1>2, CallKeepsFInv, DoKeepsFInv, LookKeepsFInv, StoreKeepsFInv,
     ReturnKeepsFInv, RestKeepsFInv DEF IsReachable, Proceed
<1>3. CASE \E k \in Invalidated : Clear(k) \/ Forget(k)
  BY <1>1, <1>3, InvalidateKeepsFInv, InvalidationsAssumption
<1>4. CASE Tick \/ UNCHANGED vars  BY <1>1, <1>4, RestKeepsFInv
<1> QED  BY <1>2, <1>3, <1>4 DEF Next

\* Whoever calls IsReachable after InvalidateReachability returned gets an answer
\* from after it, from the cache, its own probe or another's.
THEOREM FreshAnswers == Spec => []FreshAfterInvalidate
<1>1. FInv => FreshAfterInvalidate  BY DEF FInv
<1> QED  BY <1>1, InitFInv, FInvInductive, PTL DEF Spec
=============================================================================
