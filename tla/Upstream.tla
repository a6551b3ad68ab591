------------------------------- MODULE Upstream -----------------------------
(***************************************************************************)
(* Where a resolved mapping is proxied to: buildUpstreamURL of             *)
(* llm_resolver/handler.go, for concurrent requests with one mapping, with *)
(* the process cache for a process and, for a container, the tunnel, the   *)
(* container's IP and its published port, all of which change meanwhile.   *)
(*                                                                         *)
(* What IsReachable answers is a choice: NetworkTunnel says how it gets    *)
(* its answer.                                                             *)
(***************************************************************************)
EXTENDS ProcessCache

CONSTANTS
    DockerCallers, \* bound: callers that come when the mapping is a container's,
               \* where requests share nothing they write
    IPs,       \* addresses the container may get, one on each network
    NoIP,      \* no address: a stopped container, or one not asked for yet
    Joined,    \* the addresses on several networks, written one after another
    InspectErr \* docker inspect failed

Lookup == IPs \cup {Joined}

Pending == "pending"
Failed  == "failed"
Host    == "published port"
Answers == Ports \cup Lookup \cup {Pending, Failed, Host}

ASSUME DockerCallersAssumption == DockerCallers \subseteq Callers
ASSUME IPsAssumption ==
    /\ {NoIP, Joined, InspectErr} \cap (IPs \cup Ports) = {}
    /\ NoIP # Joined /\ InspectErr \notin {NoIP, Joined}
    /\ IPs \cap Ports = {}
    /\ {Pending, Failed, Host} \cap (Ports \cup Lookup) = {}

VARIABLES
    mapping,    \* the mapping of all requests; it has a port unless it was
                \* made without one
    container,  \* its IPs, whether its port is published, whether docker answers
    dmnc,       \* docker-mac-net-connect was running when the tunnel started
    healthy,    \* NetworkTunnel.healthy
    loop,       \* where healthLoop is
    stopCh,     \* stopCh is closed
    cleaned,    \* Cleanup has run
    usable,     \* usable[c]: tunnelUsable, read once per request
    ip,         \* ip[c]: containerIP and containerIPErr
    answer,     \* answer[c]: what buildUpstreamURL returns
    confirmed,  \* history: confirmed[c], IPs IsReachable said yes to for c
    published   \* history: published[c], its port was published and docker
                \* answered as long as c ran

tunnelVars == <<dmnc, healthy, loop, stopCh, cleaned>>
dockerVars == <<usable, ip, answer, confirmed>>
vars == <<cacheVars, mapping, container, tunnelVars, dockerVars, published>>

\* A mapping by port, process or container, and a container without a port.
Mappings == [type : {"port", "process"}, port : Ports] \cup
            [type : {"docker"}, port : Ports \cup {None}]

Container == [ips : SUBSET IPs, published : BOOLEAN, up : BOOLEAN]
Gone      == [ips |-> {}, published |-> FALSE, up |-> FALSE]

PCs == CachePCs \cup {"idle", "routing", "direct", "probing", "publishing",
                      "inspecting", "checking", "reprobing", "answered"}

TypeOK ==
    /\ CacheTypeOK
    /\ mapping \in Mappings
    /\ container \in Container
    /\ dmnc \in BOOLEAN /\ healthy \in BOOLEAN
    /\ loop \in {"off", "selecting", "probing", "ended"}
    /\ stopCh \in BOOLEAN /\ cleaned \in BOOLEAN
    /\ pc \in [Callers -> PCs]
    /\ usable \in [Callers -> BOOLEAN]
    /\ ip \in [Callers -> Lookup \cup {NoIP, InspectErr}]
    /\ answer \in [Callers -> Answers]
    /\ confirmed \in [Callers -> SUBSET IPs]
    /\ published \in [Callers -> BOOLEAN]

\* NetworkTunnel.Start probes once before the first request.
Init ==
    /\ CacheInit
    /\ mapping \in Mappings
    /\ container \in Container /\ dmnc \in BOOLEAN
    /\ mapping.type = "docker" \/ (container = Gone /\ ~dmnc)
    /\ healthy \in BOOLEAN /\ (healthy => dmnc)
    /\ loop = IF dmnc THEN "selecting" ELSE "off"
    /\ stopCh = FALSE /\ cleaned = FALSE
    /\ pc = [c \in Callers |-> "idle"]
    /\ usable = [c \in Callers |-> FALSE]
    /\ ip = [c \in Callers |-> NoIP]
    /\ answer = [c \in Callers |-> Pending]
    /\ confirmed = [c \in Callers |-> {}]
    /\ published = [c \in Callers |-> FALSE]

\* A request has its mapping. One made by PUT, by the picker or by the LLM has
\* no ProcessIdentifier: its port is final.
Arrive(c) ==
    /\ pc[c] = "idle"
    /\ mapping.type = "docker" => c \in DockerCallers
    /\ Goto(c, CASE mapping.type = "process" -> "called"
                 [] mapping.type = "port"    -> "got"
                 [] mapping.type = "docker"  -> "routing")
    /\ published' = [published EXCEPT ![c] = container.published /\ container.up]
    /\ UNCHANGED <<running, processes, fresh, mu, list, failed, ran, mapping,
                   container, tunnelVars, dockerVars>>

Answer(c, a) ==
    /\ answer' = [answer EXCEPT ![c] = a]
    /\ Goto(c, "answered")

\* The request is proxied to the answer, or answered with a 502.
Leave(c) ==
    /\ pc[c] = "answered"
    /\ Goto(c, "idle")
    /\ list' = [list EXCEPT ![c] = None]
    /\ failed' = [failed EXCEPT ![c] = FALSE]
    /\ usable' = [usable EXCEPT ![c] = FALSE]
    /\ ip' = [ip EXCEPT ![c] = NoIP]
    /\ answer' = [answer EXCEPT ![c] = Pending]
    /\ confirmed' = [confirmed EXCEPT ![c] = {}]
    /\ published' = [published EXCEPT ![c] = FALSE]
    /\ UNCHANGED <<running, processes, fresh, mu, ran, mapping, container, tunnelVars>>

-----------------------------------------------------------------------------
(* A process: its current port, or the one of the mapping.                 *)

GetProcesses(c) ==
    /\ Get(c)
    /\ UNCHANGED <<mapping, container, tunnelVars, dockerVars, published>>

ResolvePort(c) ==
    /\ pc[c] = "got"
    /\ Answer(c, IF list[c] \in Ports THEN list[c] ELSE mapping.port)
    /\ UNCHANGED <<running, processes, fresh, mu, list, failed, ran, mapping,
                   container, tunnelVars, usable, ip, confirmed, published>>

-----------------------------------------------------------------------------
(* A container.                                                            *)

DockerStep == UNCHANGED <<running, processes, fresh, mu, list, failed, ran, mapping,
                          container, tunnelVars, published>>

ReadTunnel(c) ==
    /\ pc[c] = "routing"
    /\ usable' = [usable EXCEPT ![c] = dmnc /\ healthy]
    /\ Goto(c, IF usable'[c] /\ mapping.port # None THEN "direct" ELSE "publishing")
    /\ UNCHANGED <<ip, answer, confirmed>> /\ DockerStep

\* What GetContainerIP prints: the address of every network, nothing between them.
Addresses(S) == IF S = {} THEN NoIP
                ELSE IF Cardinality(S) = 1 THEN CHOOSE a \in S : TRUE ELSE Joined

\* GetContainerIP; docker inspect may fail on its own, or take too long.
Inspect(c) ==
    \/ container.up /\ ip' = [ip EXCEPT ![c] = Addresses(container.ips)]
    \/ ip' = [ip EXCEPT ![c] = InspectErr]

InspectFirst(c) ==
    /\ pc[c] = "direct"
    /\ Inspect(c)
    /\ Goto(c, IF ip'[c] \in Lookup THEN "probing" ELSE "publishing")
    /\ UNCHANGED <<usable, answer, confirmed>> /\ DockerStep

Probe(c) ==
    /\ pc[c] = "probing"
    /\ \/ /\ ip[c] \in IPs
          /\ confirmed' = [confirmed EXCEPT ![c] = @ \cup {ip[c]}]
          /\ Answer(c, ip[c])
       \/ Goto(c, "publishing") /\ UNCHANGED <<confirmed, answer>>
    /\ UNCHANGED <<usable, ip>> /\ DockerStep

\* Mutant: a failed lookup of the IP ends the request before the published
\* port is tried.
PublishIfInspected(c) ==
    /\ pc[c] = "publishing"
    /\ IF ip[c] = InspectErr
         THEN Answer(c, Failed)
         ELSE IF container.up /\ container.published /\ mapping.port # None
                THEN Answer(c, Host)
                ELSE /\ Goto(c, IF ip[c] = NoIP THEN "inspecting" ELSE "checking")
                     /\ UNCHANGED answer
    /\ UNCHANGED <<usable, ip, confirmed>> /\ DockerStep

\* GetContainerHostAddress; only a container's port can be published.
Publish(c) ==
    /\ pc[c] = "publishing"
    /\ IF container.up /\ container.published /\ mapping.port # None
         THEN Answer(c, Host)
         ELSE /\ Goto(c, IF ip[c] = NoIP THEN "inspecting" ELSE "checking")
              /\ UNCHANGED answer
    /\ UNCHANGED <<usable, ip, confirmed>> /\ DockerStep

InspectAgain(c) ==
    /\ pc[c] = "inspecting"
    /\ Inspect(c)
    /\ Goto(c, "checking")
    /\ UNCHANGED <<usable, answer, confirmed>> /\ DockerStep

\* Mutant: the IP is handed out without asking for its reachability again.
CheckOnce(c) ==
    /\ pc[c] = "checking"
    /\ Answer(c, IF ip[c] \in Lookup THEN ip[c] ELSE Failed)
    /\ UNCHANGED <<usable, ip, confirmed>> /\ DockerStep

Check(c) ==
    /\ pc[c] = "checking"
    /\ IF ip[c] \in Lookup /\ usable[c] /\ mapping.port # None
         THEN Goto(c, "reprobing") /\ UNCHANGED answer
         ELSE Answer(c, IF ip[c] \in Lookup THEN ip[c] ELSE Failed)
    /\ UNCHANGED <<usable, ip, confirmed>> /\ DockerStep

\* The first answer may have expired: the second can differ.
ProbeAgain(c) ==
    /\ pc[c] = "reprobing"
    /\ \/ /\ ip[c] \in IPs
          /\ confirmed' = [confirmed EXCEPT ![c] = @ \cup {ip[c]}]
          /\ Answer(c, ip[c])
       \/ Answer(c, Failed) /\ UNCHANGED confirmed
    /\ UNCHANGED <<usable, ip>> /\ DockerStep

BuildUpstreamURL(c) ==
    \/ GetProcesses(c) \/ ResolvePort(c)
    \/ ReadTunnel(c) \/ InspectFirst(c) \/ Probe(c) \/ Publish(c)
    \/ InspectAgain(c) \/ Check(c) \/ ProbeAgain(c)

-----------------------------------------------------------------------------
(* NetworkTunnel.healthLoop, which Cleanup stops.                          *)

LoopStep == UNCHANGED <<cacheVars, mapping, container, dmnc, cleaned,
                        dockerVars, published>>

\* A tick: the probe runs outside the select.
HealthTick ==
    /\ loop = "selecting"
    /\ loop' = "probing"
    /\ UNCHANGED <<healthy, stopCh>> /\ LoopStep

HealthProbe ==
    /\ loop = "probing"
    /\ healthy' \in BOOLEAN
    /\ loop' = "selecting"
    /\ UNCHANGED stopCh /\ LoopStep

HealthExit ==
    /\ loop = "selecting" /\ stopCh
    /\ loop' = "ended"
    /\ UNCHANGED <<healthy, stopCh>> /\ LoopStep

\* Mutant: Stop sends to the loop, if it is waiting, instead of closing.
StopSends ==
    /\ ~cleaned
    /\ cleaned' = TRUE
    /\ stopCh' = (loop = "selecting")
    /\ UNCHANGED <<cacheVars, mapping, container, dmnc, healthy, loop,
                   dockerVars, published>>

\* LLMResolver.Cleanup, NetworkTunnel.Stop; requests under way go on.
Cleanup ==
    /\ ~cleaned
    /\ cleaned' = TRUE
    /\ stopCh' = TRUE
    /\ UNCHANGED <<cacheVars, mapping, container, dmnc, healthy, loop,
                   dockerVars, published>>

-----------------------------------------------------------------------------
(* What the mapping's process or container does meanwhile.                 *)

ProcessChanges ==
    /\ mapping.type = "process"
    /\ Expire \/ \E l \in Lists : Run(l)
    /\ UNCHANGED <<mapping, container, tunnelVars, dockerVars, published>>

\* It is stopped, started, recreated or connected; docker comes and goes.
ContainerChanges(k) ==
    /\ mapping.type = "docker"
    /\ container # k
    /\ container' = k
    /\ published' = [c \in Callers |-> published[c] /\ k.published /\ k.up]
    /\ UNCHANGED <<cacheVars, mapping, tunnelVars, dockerVars>>

Next ==
    \/ \E c \in Callers : Arrive(c) \/ BuildUpstreamURL(c) \/ Leave(c)
    \/ HealthTick \/ HealthProbe \/ HealthExit \/ Cleanup
    \/ ProcessChanges
    \/ \E k \in Container : ContainerChanges(k)

Spec == Init /\ [][Next]_vars

\* Every request runs; neither lock starves a goroutine; select picks at
\* random among what is ready; a probe times out.
Fairness ==
    /\ \A c \in Callers :
          /\ SF_vars((Read(c) \/ Lock(c)) /\ GetProcesses(c))
          /\ WF_vars(BuildUpstreamURL(c))
    /\ WF_vars(HealthProbe) /\ SF_vars(HealthExit)

FairSpec == Spec /\ Fairness

-----------------------------------------------------------------------------

\* No process is discovered while the list in the cache is fresh: whoever waited
\* for the write lock finds what its predecessor discovered (the double check
\* of ProcessCache.Get).
DiscoversOnlyStale ==
    [][\A c \in Callers : pc[c] # "discovering" /\ pc'[c] = "discovering"
                            => ~Usable]_vars

\* A Get whose discovery did not fail gives a list that could be discovered after
\* the last expiry, but for one that was on its way into the cache then: an old
\* port is proxied to for one time to live at most, however Gets, failures of
\* others and restarts of the process interleave (process_cache.go, "reflecting
\* port changes within a few seconds").
ListIsRecent ==
    [][\A c \in Callers :
          pc[c] \in CachePCs \ {"got"} /\ pc'[c] = "got" /\ ~failed'[c]
              => list'[c] \in ran']_vars

\* With the tunnel in use, an IP is handed to the reverse proxy only when
\* IsReachable has confirmed it for this request (the comment before the last
\* check of buildUpstreamURL), although the container's IP, the tunnel and
\* docker's answers may change between the first look and the last.
ConfirmedIP ==
    \A c \in Callers :
        usable[c] /\ mapping.port # None /\ answer[c] \in Lookup
            => answer[c] \in confirmed[c]

\* A container's port that is published all along suffices: neither an unknown or
\* unreachable IP nor a tunnel that breaks under way fails the request.
PublishedSuffices ==
    \A c \in Callers :
        published[c] /\ mapping.port # None => answer[c] # Failed

\* Every request gets its answer, whoever holds the cache's lock and however
\* often discovery fails.
RequestsAnswered ==
    \A c \in Callers : pc[c] # "idle" ~> pc[c] = "answered"

\* After Cleanup the health loop of the unloaded module ends, even when Stop comes
\* in the middle of a probe.
LoopEnds == cleaned ~> loop \in {"off", "ended"}
=============================================================================
