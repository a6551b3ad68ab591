---------------------------- MODULE NetworkTunnel ---------------------------
(***************************************************************************)
(* The reachability cache of llm_resolver/network_tunnel_darwin.go:        *)
(* IsReachable answers from a cache with two times to live, or leads or    *)
(* joins a singleflight probe; InvalidateReachability clears an entry      *)
(* while probes are in flight; the cache evicts when it is full, and       *)
(* prunes the generation counters that keep stale probes out with it.      *)
(*                                                                         *)
(* Every critical section of nt.mu and of the probe group is one step.     *)
(* Time is a tick of unreachableTTL; a probe may take any number of ticks, *)
(* more than reachabilityProbeTimeout allows.                              *)
(***************************************************************************)
EXTENDS Integers, FiniteSets

CONSTANTS
    Keys,              \* "ip:port" targets
    Callers,           \* goroutines that call IsReachable
    CacheMax,          \* reachabilityCacheMax
    Invalidated,       \* bound: targets InvalidateReachability is called for
    MaxInvalidations,  \* bound: how often it is called for each of them
    None               \* no entry, no counter, no flight, no answer

ASSUME KeysAssumption    == IsFiniteSet(Keys)
ASSUME CacheMaxAssumption == CacheMax \in Nat \ {0}
ASSUME InvalidationsAssumption ==
    Invalidated \subseteq Keys /\ MaxInvalidations \in Nat
ASSUME NoneAssumption ==
    None \notin Callers \cup Keys \cup BOOLEAN \cup Nat

UnreachableTTL == 1
ReachableTTL   == 2

VARIABLES
    cache,     \* cache[k]: reachabilityEntry of k, or None
    gens,      \* gens[k]: generation counter of k, or None if not in the map
    flight,    \* flight[k]: the leader the probe group knows for k, or None
    pc,        \* pc[c]: where caller c is in IsReachable
    key,       \* key[c]: the target c asks for
    leader,    \* leader[c]: the caller whose probe c waits for
    startGen,  \* startGen[c]: the counter c read before its probe
    answer,    \* answer[c]: the result for c
    clearing,  \* the key between the two halves of InvalidateReachability
    cleared,   \* history: cleared[k], invalidations of k so far
    probedAt,  \* history: probedAt[c], cleared[k] when the probe that gave c
               \* its answer began
    needs,     \* history: needs[c], invalidations of its key that had
               \* returned when c called
    pruned     \* history: keys whose counter evictLocked has dropped

maps    == <<cache, gens, flight>>
history == <<cleared, probedAt, needs, pruned>>
vars == <<maps, pc, key, leader, startGen, answer, clearing, history>>

Entry == [reachable : BOOLEAN, age : 0..ReachableTTL, asOf : Nat]
PCs   == {"idle", "missed", "leading", "starting", "probing", "probed",
          "returning", "waiting", "answered"}

TypeOK ==
    /\ cache \in [Keys -> Entry \cup {None}]
    /\ gens \in [Keys -> Nat \cup {None}]
    /\ flight \in [Keys -> Callers \cup {None}]
    /\ pc \in [Callers -> PCs]
    /\ key \in [Callers -> Keys \cup {None}]
    /\ \A c \in Callers : pc[c] # "idle" => key[c] \in Keys
    /\ leader \in [Callers -> Callers \cup {None}]
    /\ startGen \in [Callers -> Nat]
    /\ answer \in [Callers -> BOOLEAN \cup {None}]
    /\ \A c \in Callers : pc[c] \in {"probed", "returning", "answered"} =>
                            answer[c] \in BOOLEAN
    /\ clearing \in Keys \cup {None}
    /\ cleared \in [Keys -> Nat]
    /\ probedAt \in [Callers -> Nat]
    /\ needs \in [Callers -> Int]
    /\ pruned \in SUBSET Keys

Init ==
    /\ cache = [k \in Keys |-> None]
    /\ gens = [k \in Keys |-> None]
    /\ flight = [k \in Keys |-> None]
    /\ pc = [c \in Callers |-> "idle"]
    /\ key = [c \in Callers |-> None]
    /\ leader = [c \in Callers |-> None]
    /\ startGen = [c \in Callers |-> 0]
    /\ answer = [c \in Callers |-> None]
    /\ clearing = None
    /\ cleared = [k \in Keys |-> 0]
    /\ probedAt = [c \in Callers |-> 0]
    /\ needs = [c \in Callers |-> 0]
    /\ pruned = {}

Goto(c, l) == pc' = [pc EXCEPT ![c] = l]

Cached == {k \in Keys : cache[k] # None}
Gen(k) == IF gens[k] = None THEN 0 ELSE gens[k]

Expired(e) == e.age >= IF e.reachable THEN ReachableTTL ELSE UnreachableTTL

-----------------------------------------------------------------------------
(* IsReachable.                                                            *)

\* lookupCache(k) by c: an expired entry is deleted (its counter is not).
Hit(k) == cache[k] # None /\ ~Expired(cache[k])

Take(c, k) ==
    /\ answer' = [answer EXCEPT ![c] = cache[k].reachable]
    /\ probedAt' = [probedAt EXCEPT ![c] = cache[k].asOf]

Call(c, k) ==
    /\ pc[c] = "idle"
    /\ key' = [key EXCEPT ![c] = k]
    /\ needs' = [needs EXCEPT ![c] = IF clearing = k THEN cleared[k] - 1
                                                     ELSE cleared[k]]
    /\ \/ Hit(k) /\ Take(c, k) /\ Goto(c, "answered") /\ UNCHANGED cache
       \/ /\ ~Hit(k)
          /\ cache' = [cache EXCEPT ![k] = None]
          /\ Goto(c, "missed")
          /\ UNCHANGED <<answer, probedAt>>
    /\ UNCHANGED <<gens, flight, leader, startGen, clearing, cleared, pruned>>

\* probeGroup.Do
Do(c) ==
    /\ pc[c] = "missed"
    /\ IF flight[key[c]] = None
         THEN /\ flight' = [flight EXCEPT ![key[c]] = c]
              /\ Goto(c, "leading")
              /\ UNCHANGED leader
         ELSE /\ leader' = [leader EXCEPT ![c] = flight[key[c]]]
              /\ Goto(c, "waiting")
              /\ UNCHANGED flight
    /\ UNCHANGED <<cache, gens, key, startGen, answer, clearing, history>>

LookAgain(c) ==
    /\ pc[c] = "leading"
    /\ \/ Hit(key[c]) /\ Take(c, key[c]) /\ Goto(c, "returning") /\ UNCHANGED cache
       \/ /\ ~Hit(key[c])
          /\ cache' = [cache EXCEPT ![key[c]] = None]
          /\ Goto(c, "starting")
          /\ UNCHANGED <<answer, probedAt>>
    /\ UNCHANGED <<gens, flight, key, leader, startGen, clearing, cleared, needs,
                   pruned>>

\* currentGen, and the probe begins.
StartProbe(c) ==
    /\ pc[c] = "starting"
    /\ startGen' = [startGen EXCEPT ![c] = Gen(key[c])]
    /\ probedAt' = [probedAt EXCEPT ![c] = cleared[key[c]]]
    /\ Goto(c, "probing")
    /\ UNCHANGED <<maps, key, leader, answer, clearing, cleared, needs, pruned>>

ProbeEnds(c) ==
    /\ pc[c] = "probing"
    /\ \E ok \in BOOLEAN : answer' = [answer EXCEPT ![c] = ok]
    /\ Goto(c, "probed")
    /\ UNCHANGED <<maps, key, leader, startGen, clearing, history>>

\* The deferred recover: unreachable for everyone waiting, nothing stored.
ProbePanics(c) ==
    /\ pc[c] = "probing"
    /\ answer' = [answer EXCEPT ![c] = FALSE]
    /\ Goto(c, "returning")
    /\ UNCHANGED <<maps, key, leader, startGen, clearing, history>>

\* The keys evictLocked drops: the expired ones and, if the rest still fills
\* the cache, the oldest (several may share a tick).
Stale == {k \in Cached : Expired(cache[k])}
Oldest == {k \in Cached \ Stale : \A j \in Cached \ Stale :
                                      cache[j].age <= cache[k].age}
\* Mutant: evictLocked only sweeps.
EvictionsExpiredOnly == {Stale}

Evictions ==
    IF Cardinality(Cached) < CacheMax THEN {{}}
    ELSE IF Cardinality(Cached \ Stale) < CacheMax THEN {Stale}
    ELSE {Stale \cup {k} : k \in Oldest}

\* Mutant: the result is stored whatever the generation counter says.
StoreResultUnchecked(c) ==
    /\ pc[c] = "probed"
    /\ cache' = [cache EXCEPT ![key[c]] = [reachable |-> answer[c], age |-> 0,
                                           asOf |-> probedAt[c]]]
    /\ Goto(c, "returning")
    /\ UNCHANGED <<gens, flight, key, leader, startGen, answer, clearing, history>>

\* storeCacheIfGen, storeCacheLocked and evictLocked, under one lock.
StoreResult(c) ==
    /\ pc[c] = "probed"
    /\ LET k == key[c]
           e == [reachable |-> answer[c], age |-> 0, asOf |-> probedAt[c]]
       IN \/ /\ Gen(k) = startGen[c]
             /\ \E evicted \in Evictions :
                  /\ cache' = [j \in Keys |-> IF j = k THEN e
                                              ELSE IF j \in evicted THEN None
                                              ELSE cache[j]]
                  /\ gens' = [j \in Keys |-> IF j \in evicted THEN None
                                                              ELSE gens[j]]
                  /\ pruned' = pruned \cup {j \in evicted : gens[j] # None}
          \/ Gen(k) # startGen[c] /\ UNCHANGED <<cache, gens, pruned>>
    /\ Goto(c, "returning")
    /\ UNCHANGED <<flight, key, leader, startGen, answer, clearing, cleared,
                   probedAt, needs>>

\* Mutant: a call the group has forgotten wakes none of its followers.
ReturnForgotten(c) ==
    /\ pc[c] = "returning"
    /\ flight' = [flight EXCEPT ![key[c]] = IF @ = c THEN None ELSE @]
    /\ LET followers == {d \in Callers : /\ pc[d] = "waiting" /\ leader[d] = c
                                         /\ flight[key[c]] = c}
       IN /\ pc' = [d \in Callers |-> IF d \in followers \cup {c} THEN "answered"
                                                                  ELSE pc[d]]
          /\ answer' = [d \in Callers |-> IF d \in followers THEN answer[c]
                                                             ELSE answer[d]]
          /\ probedAt' = [d \in Callers |-> IF d \in followers THEN probedAt[c]
                                                               ELSE probedAt[d]]
    /\ UNCHANGED <<cache, gens, key, leader, startGen, clearing, cleared, needs,
                   pruned>>

\* The call ends: the group drops it, unless it was forgotten, and its
\* followers get the leader's result.
Return(c) ==
    /\ pc[c] = "returning"
    /\ flight' = [flight EXCEPT ![key[c]] = IF @ = c THEN None ELSE @]
    /\ LET followers == {d \in Callers : pc[d] = "waiting" /\ leader[d] = c} IN
         /\ pc' = [d \in Callers |-> IF d \in followers \cup {c} THEN "answered"
                                                                 ELSE pc[d]]
         /\ answer' = [d \in Callers |-> IF d \in followers THEN answer[c]
                                                            ELSE answer[d]]
         /\ probedAt' = [d \in Callers |-> IF d \in followers THEN probedAt[c]
                                                              ELSE probedAt[d]]
    /\ UNCHANGED <<cache, gens, key, leader, startGen, clearing, cleared, needs,
                   pruned>>

\* The caller has its answer and may call again.
Leave(c) ==
    /\ pc[c] = "answered"
    /\ Goto(c, "idle")
    /\ key' = [key EXCEPT ![c] = None]
    /\ leader' = [leader EXCEPT ![c] = None]
    /\ startGen' = [startGen EXCEPT ![c] = 0]
    /\ answer' = [answer EXCEPT ![c] = None]
    /\ probedAt' = [probedAt EXCEPT ![c] = 0]
    /\ needs' = [needs EXCEPT ![c] = 0]
    /\ UNCHANGED <<maps, clearing, cleared, pruned>>

-----------------------------------------------------------------------------
(* InvalidateReachability: a critical section of nt.mu, then Forget.       *)

Clear(k) ==
    /\ clearing = None
    /\ cleared[k] < MaxInvalidations
    /\ gens' = [gens EXCEPT ![k] = Gen(k) + 1]
    /\ cache' = [cache EXCEPT ![k] = None]
    /\ clearing' = k
    /\ cleared' = [cleared EXCEPT ![k] = @ + 1]
    /\ UNCHANGED <<flight, pc, key, leader, startGen, answer, probedAt, needs,
                   pruned>>

\* Mutant: invalidating leaves the call in flight in the group.
ForgetDropped(k) ==
    /\ clearing = k
    /\ clearing' = None
    /\ UNCHANGED <<maps, pc, key, leader, startGen, answer, history>>

Forget(k) ==
    /\ clearing = k
    /\ flight' = [flight EXCEPT ![k] = None]
    /\ clearing' = None
    /\ UNCHANGED <<cache, gens, pc, key, leader, startGen, answer, history>>

Tick ==
    /\ \E k \in Cached : cache[k].age < ReachableTTL
    /\ cache' = [k \in Keys |->
                   IF k \in Cached /\ cache[k].age < ReachableTTL
                     THEN [cache[k] EXCEPT !.age = @ + 1] ELSE cache[k]]
    /\ UNCHANGED <<gens, flight, pc, key, leader, startGen, answer, clearing,
                   history>>

-----------------------------------------------------------------------------
Proceed(c) ==
    \/ Do(c) \/ LookAgain(c) \/ StartProbe(c)
    \/ ProbeEnds(c) \/ ProbePanics(c)
    \/ StoreResult(c) \/ Return(c) \/ Leave(c)

IsReachable(c) == (\E k \in Keys : Call(c, k)) \/ Proceed(c)

Next ==
    \/ \E c \in Callers : IsReachable(c)
    \/ \E k \in Invalidated : Clear(k) \/ Forget(k)
    \/ Tick

Spec == Init /\ [][Next]_vars

\* Callers run and net.DialTimeout returns.
Fairness == \A c \in Callers : WF_vars(Proceed(c))

FairSpec == Spec /\ Fairness

-----------------------------------------------------------------------------
(* Properties.                                                             *)

\* The cache never outgrows reachabilityCacheMax, however many targets are
\* probed ("Keeps the map bounded").
CacheBounded == Cardinality(Cached) <= CacheMax

\* c writes what a probe from before an invalidation saw over the entry the
\* invalidation cleared.
StaleWrite(c) ==
    LET k == key[c] IN
      /\ pc[c] = "probed" /\ pc'[c] = "returning" /\ probedAt[c] < cleared[k]
      /\ cache'[k] # cache[k] /\ cache'[k] # None

\* As long as evictLocked has not pruned the counter of the key, no probe from
\* before an invalidation writes its entry. (It can once it has: the comment on
\* evictLocked overlooks a probe that the group was told to forget.)
CounterKeepsStaleOut ==
    [][\A c \in Callers : StaleWrite(c) => key[c] \in pruned]_vars

\* A call made after InvalidateReachability has returned is answered by a
\* probe that began after it cleared the entry ("the next IsReachable call
\* performs a fresh probe"), from the cache or from a leader, unless the
\* counter was pruned.
FreshAfterInvalidate ==
    \A c \in Callers : pc[c] = "answered" =>
                         probedAt[c] >= needs[c] \/ key[c] \in pruned

\* A caller that waits for a probe has a leader that still runs, even if the
\* call was forgotten by the group.
FollowersAreLed ==
    \A c \in Callers : pc[c] = "waiting" =>
        /\ leader[c] \in Callers
        /\ pc[leader[c]] \in {"leading", "starting", "probing", "probed", "returning"}
        /\ key[leader[c]] = key[c]

\* Every call of IsReachable is answered.
CallsAnswered == \A c \in Callers : (pc[c] # "idle") ~> (pc[c] = "answered")
=============================================================================
