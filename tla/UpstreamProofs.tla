---------------------------- MODULE UpstreamProofs --------------------------
(***************************************************************************)
(* Proofs about Upstream and ProcessCache, for any sets of requests, ports *)
(* and addresses.                                                          *)
(***************************************************************************)
EXTENDS Upstream, TLAPS

\* A container's request never asks for processes.
ProcessesOnly ==
    \A c \in Callers : pc[c] \in CachePCs => mapping.type # "docker"

\* A request has no answer before it is answered.
PendingUntilAnswered ==
    \A c \in Callers : pc[c] # "answered" => answer[c] = Pending

\* What ran knows: what runs, what is on its way into the cache, and what is fresh
\* in it.
RecentLists ==
    /\ running \in ran
    /\ \A c \in Callers : pc[c] = "updating" => list[c] \in ran
    /\ fresh => processes \in ran

\* While the history says so, docker shows the published port.
PublishedMeansNow ==
    \A c \in Callers : published[c] => container.published /\ container.up

\* Where Publish did not find the port.
Unpublished == {"inspecting", "checking", "reprobing"}
PublishedIsFound ==
    \A c \in Callers : pc[c] \in Unpublished => ~published[c] \/ mapping.port = None

IInv == /\ TypeOK
        /\ ProcessesOnly
        /\ PendingUntilAnswered
        /\ RecentLists
        /\ PublishedMeansNow
        /\ PublishedIsFound
        /\ ConfirmedIP
        /\ PublishedSuffices

-----------------------------------------------------------------------------

LEMMA PortOfMapping ==
  ASSUME TypeOK
  PROVE  /\ mapping.type \in {"port", "process", "docker"}
         /\ mapping.port \in Ports \cup {None}
         /\ mapping.type # "docker" => mapping.port \in Ports
BY DEF TypeOK, Mappings

LEMMA AddressesType ==
  ASSUME NEW S \in SUBSET IPs
  PROVE  Addresses(S) \in Lookup \cup {NoIP}
<1>1. CASE S = {}  BY <1>1 DEF Addresses
<1>2. CASE S # {}
  <2>1. (CHOOSE a \in S : TRUE) \in S  BY <1>2
  <2> QED  BY <1>2, <2>1 DEF Addresses, Lookup
<1> QED  BY <1>1, <1>2

LEMMA InspectType ==
  ASSUME TypeOK, NEW c \in Callers, Inspect(c)
  PROVE  ip' \in [Callers -> Lookup \cup {NoIP, InspectErr}]
<1>1. container.ips \in SUBSET IPs  BY DEF TypeOK, Container
<1>2. Addresses(container.ips) \in Lookup \cup {NoIP}  BY <1>1, AddressesType
<1> QED  BY <1>2 DEF Inspect, TypeOK

LEMMA InitIInv == Init => IInv
<1> SUFFICES ASSUME Init PROVE IInv  OBVIOUS
<1>1. TypeOK
  BY DEF Init, TypeOK, CacheInit, CacheTypeOK, PCs, CachePCs, Answers, Lists
<1>2. /\ \A c \in Callers : pc[c] = "idle"
      /\ \A c \in Callers : answer[c] = Pending
      /\ \A c \in Callers : published[c] = FALSE
  BY DEF Init
<1>3. Pending \notin Lookup /\ Pending # Failed  BY IPsAssumption DEF Pending, Failed
<1>4. RecentLists  BY <1>2 DEF Init, CacheInit, RecentLists
<1> QED
  BY <1>1, <1>2, <1>3, <1>4 DEF IInv, ProcessesOnly, CachePCs, PendingUntilAnswered, PublishedMeansNow,
     PublishedIsFound, Unpublished, ConfirmedIP, PublishedSuffices

-----------------------------------------------------------------------------
(* Type correctness.                                                       *)

LEMMA GetType ==
  ASSUME TypeOK, NEW c \in Callers, GetProcesses(c)
  PROVE  TypeOK'
<1> USE DEF TypeOK, CacheTypeOK, PCs, CachePCs, Goto, Lists, GetProcesses,
            tunnelVars, dockerVars
<1>1. CASE Read(c)  BY <1>1 DEF Read
<1>2. CASE Lock(c)  BY <1>2 DEF Lock
<1>3. CASE ReadAgain(c)  BY <1>3 DEF ReadAgain
<1>4. CASE Discover(c)  BY <1>4 DEF Discover
<1>5. CASE DiscoveryFails(c)  BY <1>5 DEF DiscoveryFails, Failing
<1>6. CASE Update(c)  BY <1>6 DEF Update
<1> QED  BY <1>1, <1>2, <1>3, <1>4, <1>5, <1>6 DEF Get

LEMMA ContainerStepsType ==
  ASSUME TypeOK, NEW c \in Callers,
         \/ ReadTunnel(c) \/ InspectFirst(c) \/ Probe(c) \/ Publish(c)
         \/ InspectAgain(c) \/ Check(c) \/ ProbeAgain(c)
  PROVE  TypeOK'
<1> USE DEF CacheTypeOK, PCs, CachePCs, Goto, DockerStep, tunnelVars
<1>1. CASE ReadTunnel(c)  BY <1>1 DEF TypeOK, ReadTunnel
<1>2. CASE InspectFirst(c)
  <2>1. ip' \in [Callers -> Lookup \cup {NoIP, InspectErr}]
    BY <1>2, InspectType DEF InspectFirst
  <2> QED  BY <1>2, <2>1 DEF TypeOK, InspectFirst
<1>3. CASE Probe(c)  BY <1>3 DEF TypeOK, Probe, Answer, Answers, Lookup
<1>4. CASE Publish(c)  BY <1>4 DEF TypeOK, Publish, Answer, Answers
<1>5. CASE InspectAgain(c)
  <2>1. ip' \in [Callers -> Lookup \cup {NoIP, InspectErr}]
    BY <1>5, InspectType DEF InspectAgain
  <2> QED  BY <1>5, <2>1 DEF TypeOK, InspectAgain
<1>6. CASE Check(c)  BY <1>6 DEF TypeOK, Check, Answer, Answers
<1>7. CASE ProbeAgain(c)  BY <1>7 DEF TypeOK, ProbeAgain, Answer, Answers, Lookup
<1> QED  BY <1>1, <1>2, <1>3, <1>4, <1>5, <1>6, <1>7

LEMMA NextType == TypeOK /\ ProcessesOnly /\ [Next]_vars => TypeOK'
<1> SUFFICES ASSUME TypeOK, ProcessesOnly, [Next]_vars PROVE TypeOK'  OBVIOUS
<1> USE DEF CacheTypeOK, PCs, CachePCs, tunnelVars, dockerVars
<1>1. ASSUME NEW c \in Callers, Arrive(c) PROVE TypeOK'
  <2>1. (CASE mapping.type = "process" -> "called"
           [] mapping.type = "port"    -> "got"
           [] mapping.type = "docker"  -> "routing") \in PCs
    BY PortOfMapping
  <2>2. container.published \in BOOLEAN /\ container.up \in BOOLEAN
    BY DEF TypeOK, Container
  <2>3. pc' \in [Callers -> PCs]  BY <1>1, <2>1 DEF Arrive, Goto, TypeOK
  <2>4. published' \in [Callers -> BOOLEAN]  BY <1>1, <2>2 DEF Arrive, TypeOK
  <2> QED  BY <1>1, <2>3, <2>4 DEF Arrive, TypeOK
<1>2. ASSUME NEW c \in Callers, BuildUpstreamURL(c) PROVE TypeOK'
  <2>1. CASE GetProcesses(c)  BY <2>1, GetType
  <2>2. CASE ResolvePort(c)
    <3>1. mapping.port \in Ports
      BY <2>2, PortOfMapping DEF ResolvePort, ProcessesOnly
    <3> QED  BY <2>2, <3>1 DEF ResolvePort, Answer, Answers, Goto, TypeOK
  <2> QED  BY <1>2, <2>1, <2>2, ContainerStepsType DEF BuildUpstreamURL
<1>3. ASSUME NEW c \in Callers, Leave(c) PROVE TypeOK'
  BY <1>3 DEF Leave, TypeOK, Goto, Lists, Answers
<1>4. CASE HealthTick \/ HealthProbe \/ HealthExit \/ Cleanup
  BY <1>4 DEF HealthTick, HealthProbe, HealthExit, Cleanup, LoopStep, TypeOK, cacheVars
<1>5. CASE ProcessChanges
  <2>1. CASE Expire
    <3>1. ran' \in SUBSET Lists  BY <2>1 DEF Expire, TypeOK
    <3> QED  BY <1>5, <2>1, <3>1 DEF ProcessChanges, Expire, TypeOK
  <2>2. ASSUME NEW l \in Lists, Run(l) PROVE TypeOK'
    BY <1>5, <2>2 DEF ProcessChanges, Run, TypeOK
  <2> QED  BY <1>5, <2>1, <2>2 DEF ProcessChanges
<1>6. ASSUME NEW k \in Container, ContainerChanges(k) PROVE TypeOK'
  <2>1. k.published \in BOOLEAN /\ k.up \in BOOLEAN  BY DEF Container
  <2> QED  BY <1>6, <2>1 DEF ContainerChanges, TypeOK, cacheVars
<1>7. CASE UNCHANGED vars  BY <1>7 DEF vars, cacheVars, TypeOK
<1> QED  BY <1>1, <1>2, <1>3, <1>4, <1>5, <1>6, <1>7 DEF Next

-----------------------------------------------------------------------------
(* The rest of the invariant. A step of the health loop, of the process or  *)
(* of Cleanup leaves a request as it is; a step of one request, the others. *)

LEMMA NextProcessesOnly ==
  TypeOK /\ ProcessesOnly /\ [Next]_vars => ProcessesOnly'
<1> SUFFICES ASSUME TypeOK, ProcessesOnly, [Next]_vars PROVE ProcessesOnly'
  OBVIOUS
<1> USE DEF ProcessesOnly, CachePCs, Goto, tunnelVars, dockerVars
<1>1. ASSUME NEW c \in Callers, Arrive(c) PROVE ProcessesOnly'
  <2>1. mapping' = mapping  BY <1>1 DEF Arrive
  <2>2. mapping.type = "docker" => pc'[c] = "routing"
    BY <1>1 DEF Arrive, TypeOK
  <2>3. \A d \in Callers \ {c} : pc'[d] = pc[d]  BY <1>1 DEF Arrive, TypeOK
  <2> QED  BY <2>1, <2>2, <2>3
<1>2. ASSUME NEW c \in Callers, GetProcesses(c) PROVE ProcessesOnly'
  BY <1>2 DEF GetProcesses, Get, Read, Lock, ReadAgain, Discover, DiscoveryFails,
     Failing, Update, TypeOK
<1>3. ASSUME NEW c \in Callers, BuildUpstreamURL(c), ~GetProcesses(c)
      PROVE  ProcessesOnly'
  BY <1>3 DEF BuildUpstreamURL, ResolvePort, ReadTunnel, InspectFirst, Probe,
     Publish, InspectAgain, Check, ProbeAgain, Answer, DockerStep, TypeOK
<1>4. ASSUME NEW c \in Callers, Leave(c) PROVE ProcessesOnly'
  BY <1>4 DEF Leave, TypeOK
<1>5. CASE HealthTick \/ HealthProbe \/ HealthExit \/ Cleanup
  BY <1>5 DEF HealthTick, HealthProbe, HealthExit, Cleanup, LoopStep, cacheVars
<1>6. CASE ProcessChanges  BY <1>6 DEF ProcessChanges, Expire, Run
<1>7. ASSUME NEW k \in Container, ContainerChanges(k) PROVE ProcessesOnly'
  BY <1>7 DEF ContainerChanges, cacheVars
<1>8. CASE UNCHANGED vars  BY <1>8 DEF vars, cacheVars
<1> QED  BY <1>1, <1>2, <1>3, <1>4, <1>5, <1>6, <1>7, <1>8 DEF Next

LEMMA NextRecentLists ==
  TypeOK /\ RecentLists /\ [Next]_vars => RecentLists'
<1> SUFFICES ASSUME TypeOK, RecentLists, [Next]_vars PROVE RecentLists'
  OBVIOUS
<1> USE DEF RecentLists, Goto, tunnelVars, dockerVars
<1>1. ASSUME NEW c \in Callers, Arrive(c) PROVE RecentLists'
  <2>1. pc'[c] \in {"called", "got", "routing"}
    BY <1>1, PortOfMapping DEF Arrive, TypeOK
  <2>2. \A d \in Callers \ {c} : pc'[d] = pc[d]  BY <1>1 DEF Arrive, TypeOK
  <2> QED  BY <1>1, <2>1, <2>2 DEF Arrive
<1>2. ASSUME NEW c \in Callers, GetProcesses(c) PROVE RecentLists'
  <2> USE DEF TypeOK, CacheTypeOK, GetProcesses
  <2>1. CASE Read(c)  BY <2>1 DEF Read
  <2>2. CASE Lock(c)  BY <2>2 DEF Lock
  <2>3. CASE ReadAgain(c)  BY <2>3 DEF ReadAgain
  <2>4. CASE Discover(c)  BY <2>4 DEF Discover
  <2>5. CASE DiscoveryFails(c)  BY <2>5 DEF DiscoveryFails, Failing
  <2>6. CASE Update(c)  BY <2>6 DEF Update
  <2> QED  BY <1>2, <2>1, <2>2, <2>3, <2>4, <2>5, <2>6 DEF Get
<1>3. ASSUME NEW c \in Callers, BuildUpstreamURL(c), ~GetProcesses(c)
      PROVE  RecentLists'
  <2>1. UNCHANGED <<running, processes, fresh, list, ran>>
    BY <1>3 DEF BuildUpstreamURL, ResolvePort, ReadTunnel, InspectFirst, Probe,
       Publish, InspectAgain, Check, ProbeAgain, DockerStep
  <2>2. \A d \in Callers : pc'[d] = "updating" => pc[d] = "updating"
    BY <1>3 DEF BuildUpstreamURL, ResolvePort, ReadTunnel, InspectFirst, Probe,
       Publish, InspectAgain, Check, ProbeAgain, Answer, TypeOK
  <2> QED  BY <2>1, <2>2
<1>4. ASSUME NEW c \in Callers, Leave(c) PROVE RecentLists'
  BY <1>4 DEF Leave, TypeOK, CacheTypeOK
<1>5. CASE HealthTick \/ HealthProbe \/ HealthExit \/ Cleanup
  BY <1>5 DEF HealthTick, HealthProbe, HealthExit, Cleanup, LoopStep, cacheVars
<1>6. CASE ProcessChanges
  <2>1. CASE Expire  BY <2>1 DEF Expire
  <2>2. ASSUME NEW l \in Lists, Run(l) PROVE RecentLists'  BY <2>2 DEF Run
  <2> QED  BY <1>6, <2>1, <2>2 DEF ProcessChanges
<1>7. ASSUME NEW k \in Container, ContainerChanges(k) PROVE RecentLists'
  BY <1>7 DEF ContainerChanges, cacheVars
<1>8. CASE UNCHANGED vars  BY <1>8 DEF vars, cacheVars
<1> QED  BY <1>1, <1>2, <1>3, <1>4, <1>5, <1>6, <1>7, <1>8 DEF Next

LEMMA NextAnswers ==
  TypeOK /\ ProcessesOnly /\ PendingUntilAnswered /\ ConfirmedIP /\ [Next]_vars
    => PendingUntilAnswered' /\ ConfirmedIP'
<1> SUFFICES ASSUME TypeOK, ProcessesOnly, PendingUntilAnswered, ConfirmedIP,
                    [Next]_vars
             PROVE  PendingUntilAnswered' /\ ConfirmedIP'
  OBVIOUS
<1> USE DEF PendingUntilAnswered, ConfirmedIP, Goto, tunnelVars, dockerVars
<1>0. Pending \notin Lookup /\ Failed \notin Lookup /\ Host \notin Lookup
      /\ Ports \cap Lookup = {}
  BY IPsAssumption DEF Lookup
<1>1. ASSUME NEW c \in Callers, Arrive(c)
      PROVE  PendingUntilAnswered' /\ ConfirmedIP'
  BY <1>1 DEF Arrive, TypeOK
<1>2. ASSUME NEW c \in Callers, GetProcesses(c)
      PROVE  PendingUntilAnswered' /\ ConfirmedIP'
  <2>1. UNCHANGED <<mapping, usable, answer, confirmed>>  BY <1>2 DEF GetProcesses
  <2>2. pc[c] # "answered" /\ \A d \in Callers \ {c} : pc'[d] = pc[d]
    BY <1>2 DEF GetProcesses, Get, Read, Lock, ReadAgain, Discover,
       DiscoveryFails, Failing, Update, TypeOK
  <2> QED  BY <2>1, <2>2
<1>3. ASSUME NEW c \in Callers, ResolvePort(c)
      PROVE  PendingUntilAnswered' /\ ConfirmedIP'
  <2>1. mapping.port \in Ports
    BY <1>3, PortOfMapping DEF ResolvePort, ProcessesOnly, CachePCs
  <2>2. answer'[c] \in Ports  BY <1>3, <2>1 DEF ResolvePort, Answer, TypeOK
  <2> QED  BY <1>0, <1>3, <2>2 DEF ResolvePort, Answer, TypeOK
<1>4. ASSUME NEW c \in Callers, ReadTunnel(c)
      PROVE  PendingUntilAnswered' /\ ConfirmedIP'
  BY <1>0, <1>4 DEF ReadTunnel, DockerStep, TypeOK
<1>5. ASSUME NEW c \in Callers, InspectFirst(c) \/ InspectAgain(c)
      PROVE  PendingUntilAnswered' /\ ConfirmedIP'
  BY <1>5 DEF InspectFirst, InspectAgain, DockerStep, TypeOK
<1>6. ASSUME NEW c \in Callers, Publish(c)
      PROVE  PendingUntilAnswered' /\ ConfirmedIP'
  BY <1>0, <1>6 DEF Publish, Answer, DockerStep, TypeOK
<1>7. ASSUME NEW c \in Callers, Probe(c) \/ ProbeAgain(c)
      PROVE  PendingUntilAnswered' /\ ConfirmedIP'
  BY <1>0, <1>7 DEF Probe, ProbeAgain, Answer, DockerStep, TypeOK
<1>8. ASSUME NEW c \in Callers, Check(c)
      PROVE  PendingUntilAnswered' /\ ConfirmedIP'
  BY <1>0, <1>8 DEF Check, Answer, DockerStep, TypeOK
<1>9. ASSUME NEW c \in Callers, Leave(c)
      PROVE  PendingUntilAnswered' /\ ConfirmedIP'
  BY <1>0, <1>9 DEF Leave, TypeOK
<1>10. CASE HealthTick \/ HealthProbe \/ HealthExit \/ Cleanup
  BY <1>10 DEF HealthTick, HealthProbe, HealthExit, Cleanup, LoopStep, cacheVars
<1>11. CASE ProcessChanges  BY <1>11 DEF ProcessChanges, Expire, Run
<1>12. ASSUME NEW k \in Container, ContainerChanges(k)
       PROVE  PendingUntilAnswered' /\ ConfirmedIP'
  BY <1>12 DEF ContainerChanges, cacheVars
<1>13. CASE UNCHANGED vars  BY <1>13 DEF vars, cacheVars
<1> QED
  BY <1>1, <1>2, <1>3, <1>4, <1>5, <1>6, <1>7, <1>8, <1>9, <1>10, <1>11, <1>12,
     <1>13 DEF Next, BuildUpstreamURL

LEMMA NextPublished ==
  IInv /\ [Next]_vars => PublishedMeansNow' /\ PublishedIsFound' /\ PublishedSuffices'
<1> DEFINE P == PublishedMeansNow /\ PublishedIsFound /\ PublishedSuffices
<1> SUFFICES ASSUME IInv, [Next]_vars PROVE P'  OBVIOUS
<1> USE DEF IInv, PublishedMeansNow, PublishedIsFound, PublishedSuffices,
            Unpublished, Goto, tunnelVars, dockerVars
<1>0. /\ Pending # Failed /\ Host # Failed
      /\ Failed \notin Ports /\ Failed \notin Lookup
  BY IPsAssumption DEF Pending, Failed, Host
<1>1. ASSUME NEW c \in Callers, Arrive(c) PROVE P'
  <2>1. pc'[c] \in {"called", "got", "routing"}
    BY <1>1, PortOfMapping DEF Arrive, TypeOK
  <2>2. answer'[c] = Pending  BY <1>1 DEF Arrive, PendingUntilAnswered
  <2>3. \A d \in Callers \ {c} : pc'[d] = pc[d] /\ published'[d] = published[d]
    BY <1>1 DEF Arrive, TypeOK
  <2>4. published'[c] => container.published /\ container.up
    BY <1>1 DEF Arrive, TypeOK
  <2>5. UNCHANGED <<mapping, container, answer>>  BY <1>1 DEF Arrive
  <2> QED  BY <1>0, <2>1, <2>2, <2>3, <2>4, <2>5
<1>2. ASSUME NEW c \in Callers, GetProcesses(c) PROVE P'
  <2>1. UNCHANGED <<mapping, container, answer, published>>
    BY <1>2 DEF GetProcesses
  <2>2. \A d \in Callers : pc'[d] \in Unpublished => pc'[d] = pc[d]
    BY <1>2 DEF GetProcesses, Get, Read, Lock, ReadAgain, Discover,
       DiscoveryFails, Failing, Update, TypeOK
  <2> QED  BY <2>1, <2>2
<1>3. ASSUME NEW c \in Callers, ResolvePort(c) PROVE P'
  <2>1. mapping.port \in Ports
    BY <1>3, PortOfMapping DEF ResolvePort, ProcessesOnly, CachePCs
  <2>2. answer'[c] \in Ports  BY <1>3, <2>1 DEF ResolvePort, Answer, TypeOK
  <2> QED  BY <1>0, <1>3, <2>2 DEF ResolvePort, Answer, TypeOK
<1>4. ASSUME NEW c \in Callers, ReadTunnel(c) PROVE P'
  BY <1>4 DEF ReadTunnel, DockerStep, TypeOK
<1>5. ASSUME NEW c \in Callers, InspectFirst(c) \/ InspectAgain(c) PROVE P'
  BY <1>5 DEF InspectFirst, InspectAgain, DockerStep, TypeOK
<1>6. ASSUME NEW c \in Callers, Publish(c) PROVE P'
  BY <1>0, <1>6 DEF Publish, Answer, DockerStep, TypeOK
<1>7. ASSUME NEW c \in Callers, Probe(c) \/ ProbeAgain(c) PROVE P'
  <2>1. UNCHANGED <<mapping, container, published>>
    BY <1>7 DEF Probe, ProbeAgain, DockerStep
  <2>2. \A d \in Callers \ {c} : pc'[d] = pc[d] /\ answer'[d] = answer[d]
    BY <1>7 DEF Probe, ProbeAgain, Answer, TypeOK
  <2>3. pc'[c] \notin Unpublished
    BY <1>7 DEF Probe, ProbeAgain, Answer, TypeOK
  <2>4. CASE Probe(c)
    <3>1. answer'[c] = answer[c] \/ answer'[c] \in Lookup
      BY <2>4 DEF Probe, Answer, TypeOK, Lookup
    <3> QED  BY <1>0, <2>1, <2>2, <2>3, <3>1
  <2>5. CASE ProbeAgain(c)
    <3>1. ~published[c] \/ mapping.port = None  BY <2>5 DEF ProbeAgain
    <3> QED  BY <2>1, <2>2, <2>3, <3>1
  <2> QED  BY <1>7, <2>4, <2>5
<1>8. ASSUME NEW c \in Callers, Check(c) PROVE P'
  <2>1. ~published[c] \/ mapping.port = None  BY <1>8 DEF Check
  <2> QED  BY <1>8, <2>1 DEF Check, Answer, DockerStep, TypeOK
<1>9. ASSUME NEW c \in Callers, Leave(c) PROVE P'
  BY <1>0, <1>9 DEF Leave, TypeOK
<1>10. CASE HealthTick \/ HealthProbe \/ HealthExit \/ Cleanup
  BY <1>10 DEF HealthTick, HealthProbe, HealthExit, Cleanup, LoopStep, cacheVars
<1>11. CASE ProcessChanges  BY <1>11 DEF ProcessChanges, Expire, Run
<1>12. ASSUME NEW k \in Container, ContainerChanges(k) PROVE P'
  BY <1>12 DEF ContainerChanges, cacheVars, TypeOK, Container
<1>13. CASE UNCHANGED vars  BY <1>13 DEF vars, cacheVars
<1> QED
  BY <1>1, <1>2, <1>3, <1>4, <1>5, <1>6, <1>7, <1>8, <1>9, <1>10, <1>11, <1>12,
     <1>13 DEF Next, BuildUpstreamURL

-----------------------------------------------------------------------------
(* Theorems.                                                               *)

\* The inductive invariant: what a request has been told so far, and what the
\* history records of the process and the container meanwhile, fit together.
THEOREM UpstreamInvariant == Spec => []IInv
<1>1. IInv /\ [Next]_vars => IInv'
  BY NextType, NextProcessesOnly, NextRecentLists, NextAnswers, NextPublished DEF IInv
<1> QED  BY InitIInv, <1>1, PTL DEF Spec

\* With the tunnel in use no unconfirmed address is handed out (buildUpstreamURL),
\* for any number of requests and however often the container changes.
THEOREM OnlyConfirmedIPs == Spec => []ConfirmedIP
<1>1. IInv => ConfirmedIP  BY DEF IInv
<1> QED  BY UpstreamInvariant, <1>1, PTL

\* A port published all along is always found by buildUpstreamURL, whatever
\* docker inspect, the tunnel and IsReachable answer.
THEOREM PublishedPortSuffices == Spec => []PublishedSuffices
<1>1. IInv => PublishedSuffices  BY DEF IInv
<1> QED  BY UpstreamInvariant, <1>1, PTL

\* ProcessCache.Get gives no list older than one time to live, unless its own
\* discovery failed, for any number of callers.
THEOREM ListsAreRecent == Spec => ListIsRecent
<1> DEFINE A == \A c \in Callers :
                  pc[c] \in CachePCs \ {"got"} /\ pc'[c] = "got" /\ ~failed'[c]
                      => list'[c] \in ran'
<1>1. IInv /\ [Next]_vars => A
  <2> SUFFICES ASSUME IInv, [Next]_vars, NEW c \in Callers,
                      pc[c] \in CachePCs \ {"got"}, pc'[c] = "got", ~failed'[c]
               PROVE  list'[c] \in ran'
    OBVIOUS
  <2> USE DEF IInv, TypeOK, CacheTypeOK, RecentLists, Goto, CachePCs
  <2>1. ASSUME NEW d \in Callers, Arrive(d) PROVE FALSE
    <3>1. pc[d] = "idle" /\ \A e \in Callers \ {d} : pc'[e] = pc[e]
      BY <2>1 DEF Arrive
    <3> QED  BY <3>1
  <2>2. ASSUME NEW d \in Callers, GetProcesses(d) PROVE list'[c] \in ran'
    <3>1. CASE d # c
      <4>1. pc'[c] = pc[c]
        BY <2>2, <3>1 DEF GetProcesses, Get, Read, Lock, ReadAgain, Discover,
           DiscoveryFails, Failing, Update
      <4> QED  BY <4>1
    <3>2. CASE d = c
      <4>1. CASE Read(c)  BY <4>1 DEF Read, Usable
      <4>2. CASE Lock(c)  BY <4>2 DEF Lock
      <4>3. CASE ReadAgain(c)  BY <4>3 DEF ReadAgain, Usable
      <4>4. CASE Discover(c)  BY <4>4 DEF Discover
      <4>5. CASE DiscoveryFails(c)  BY <4>5 DEF DiscoveryFails, Failing
      <4>6. CASE Update(c)  BY <4>6 DEF Update
      <4> QED
        BY <2>2, <3>2, <4>1, <4>2, <4>3, <4>4, <4>5, <4>6 DEF GetProcesses, Get
    <3> QED  BY <3>1, <3>2
  <2>3. ASSUME NEW d \in Callers, BuildUpstreamURL(d), ~GetProcesses(d)
        PROVE  FALSE
    BY <2>3 DEF BuildUpstreamURL, ResolvePort, ReadTunnel, InspectFirst, Probe,
       Publish, InspectAgain, Check, ProbeAgain, Answer
  <2>4. ASSUME NEW d \in Callers, Leave(d) PROVE FALSE  BY <2>4 DEF Leave
  <2>5. CASE HealthTick \/ HealthProbe \/ HealthExit \/ Cleanup
    BY <2>5 DEF HealthTick, HealthProbe, HealthExit, Cleanup, LoopStep, cacheVars
  <2>6. CASE ProcessChanges  BY <2>6 DEF ProcessChanges, Expire, Run
  <2>7. ASSUME NEW k \in Container, ContainerChanges(k) PROVE FALSE
    BY <2>7 DEF ContainerChanges, cacheVars
  <2>8. CASE UNCHANGED vars  BY <2>8 DEF vars, cacheVars
  <2> QED  BY <2>1, <2>2, <2>3, <2>4, <2>5, <2>6, <2>7, <2>8 DEF Next
<1>2. IInv /\ [Next]_vars => [A]_vars  BY <1>1
<1> QED  BY UpstreamInvariant, <1>2, PTL DEF Spec, ListIsRecent

\* ProcessCache.Get starts a discovery only when nothing fresh is cached, however
\* many callers wait for the write lock.
THEOREM NoSpareDiscovery == Spec => DiscoversOnlyStale
<1> DEFINE A == \A c \in Callers :
                  pc[c] # "discovering" /\ pc'[c] = "discovering" => ~Usable
<1>1. IInv /\ [Next]_vars => A
  <2> SUFFICES ASSUME IInv, [Next]_vars, NEW c \in Callers,
                      pc[c] # "discovering", pc'[c] = "discovering"
               PROVE  ~Usable
    OBVIOUS
  <2> USE DEF IInv, TypeOK, CacheTypeOK, Goto
  <2>1. ASSUME NEW d \in Callers, Arrive(d) PROVE FALSE
    <3>1. pc'[d] \in {"called", "got", "routing"}
      BY <2>1, PortOfMapping DEF Arrive
    <3> QED  BY <2>1, <3>1 DEF Arrive
  <2>2. ASSUME NEW d \in Callers, GetProcesses(d) PROVE ~Usable
    <3>1. CASE ReadAgain(d)  BY <3>1 DEF ReadAgain
    <3>2. CASE ~ReadAgain(d)
      BY <2>2, <3>2 DEF GetProcesses, Get, Read, Lock, Discover,
         DiscoveryFails, Failing, Update
    <3> QED  BY <3>1, <3>2
  <2>3. ASSUME NEW d \in Callers, BuildUpstreamURL(d), ~GetProcesses(d)
        PROVE  FALSE
    BY <2>3 DEF BuildUpstreamURL, ResolvePort, ReadTunnel, InspectFirst, Probe,
       Publish, InspectAgain, Check, ProbeAgain, Answer
  <2>4. ASSUME NEW d \in Callers, Leave(d) PROVE FALSE  BY <2>4 DEF Leave
  <2>5. CASE HealthTick \/ HealthProbe \/ HealthExit \/ Cleanup
    BY <2>5 DEF HealthTick, HealthProbe, HealthExit, Cleanup, LoopStep, cacheVars
  <2>6. CASE ProcessChanges  BY <2>6 DEF ProcessChanges, Expire, Run
  <2>7. ASSUME NEW k \in Container, ContainerChanges(k) PROVE FALSE
    BY <2>7 DEF ContainerChanges, cacheVars
  <2>8. CASE UNCHANGED vars  BY <2>8 DEF vars, cacheVars
  <2> QED  BY <2>1, <2>2, <2>3, <2>4, <2>5, <2>6, <2>7, <2>8 DEF Next
<1>2. IInv /\ [Next]_vars => [A]_vars  BY <1>1
<1> QED  BY UpstreamInvariant, <1>2, PTL DEF Spec, DiscoversOnlyStale
=============================================================================
