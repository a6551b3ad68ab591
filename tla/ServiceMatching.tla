--------------------------- MODULE ServiceMatching --------------------------
(***************************************************************************)
(* How a hostname finds its service without the LLM, and how its mapping   *)
(* finds the process again later: DiscoverLocalProcesses (filter, children,*)
(* one port per process; discovery/processes.go), ResolveHeuristically and *)
(* ResolveRelatedHeuristically (heuristic.go), ResolveProcessPort          *)
(* (port_resolver.go), while listeners come and go.                        *)
(*                                                                         *)
(* A directory is the sequence of its names, <<>> an unknown one; a        *)
(* hostname the sequence of its labels without .localhost; a container's   *)
(* name the sequence of what lies between its dots. Names are compared as  *)
(* values: the code compares hostnames and names without case.             *)
(***************************************************************************)
EXTENDS Selection

CONSTANTS
    Listeners,     \* [pid, ppid, port, public, dir, words, ignored]: sockets
    Containers,    \* [name, project, service, dir, ports, published]
    Hostnames,     \* sequences of labels
    Services,      \* names asked for with /_proxy/
    Patterns,      \* CommandPatterns that the LLM names
    MaxListeners,  \* bound: listeners at a time
    MaxContainers, \* bound: containers
    None

ASSUME BoundsAssumption == MaxListeners \in Nat /\ MaxContainers \in Nat

\* ignored: its command, arguments or port are on the lists of what to ignore.
LocalProcess ==
    [pid : Nat \ {0}, ppid : Nat, port : Nat, public : BOOLEAN,
     dir : Seq(STRING), words : SUBSET STRING, ignored : BOOLEAN]

\* Two sockets of a process differ in the address, and what depends on that.
ASSUME ListenersAssumption ==
    /\ IsFiniteSet(Listeners) /\ Listeners \subseteq LocalProcess
    /\ \A k, l \in Listeners : k.pid = l.pid =>
          /\ l = [k EXCEPT !.port = l.port, !.public = l.public, !.ignored = l.ignored]
          /\ k.port = l.port => k.ignored = l.ignored

ASSUME ContainersAssumption == IsFiniteSet(Containers)

ASSUME NoneAssumption ==
    /\ None \notin LocalProcess /\ None \notin Containers /\ None \notin Nat
    /\ None \notin Services /\ None \notin Patterns

VARIABLES
    listeners,  \* the listening sockets
    containers, \* the running containers
    host,       \* the hostname that was resolved, or None
    mapping,    \* its mapping in the cache, or None
    service,    \* the service /_proxy/ asked for, or None
    related,    \* what ResolveRelatedHeuristically returned for it
    port        \* what ResolveProcessPort returned for mapping, or None: no
                \* process, or not asked since the listeners changed

vars == <<listeners, containers, host, mapping, service, related, port>>

-----------------------------------------------------------------------------
(* discovery/processes.go                                                  *)

IgnoredWorkdirs == {<<"app">>, <<"srv">>, <<"root">>}

\* ignoredCommands, the patterns in arguments, ignoredPorts and the workdir / are the
\* listener's "ignored".
Kept(l) == ~l.ignored /\ l.dir \notin IgnoredWorkdirs

\* Only processes whose parent is not in the filtered list.
Roots(seq) ==
    LET kept == Select(seq, Kept)
        pids == {kept[i].pid : i \in DOMAIN kept}
        IsRoot(l) == l.ppid \notin pids
    IN  Select(kept, IsRoot)

\* Mutant: a public port replaces the one that is kept, whatever that is.
PublicReplaces(new, old) == new.public \/ new.port < old.port

\* One port per process: all interfaces rather than localhost, then the lowest.
Replaces(new, old) ==
    \/ new.public /\ ~old.public
    \/ new.public = old.public /\ new.port < old.port

\* The process of a pid that is left of a list of roots.
Deduplicated(roots, pid) ==
    LET OfPid(l) == l.pid = pid
    IN  Best(Select(roots, OfPid), Replaces, None)

\* DiscoverLocalProcesses from the sockets in the order the tool prints them: a
\* set, as the slice is made from a Go map, in no order.
DiscoverLocalProcesses(seq) ==
    LET roots == Roots(seq)
    IN  {Deduplicated(roots, roots[i].pid) : i \in DOMAIN roots}

-----------------------------------------------------------------------------
(* heuristic.go                                                            *)

DockerMapping(c, p) == [type |-> "docker", target |-> c.name, port |-> p, dir |-> <<>>]

ProcessMapping(p) ==
    [type |-> "process", target |-> <<"localhost">>, port |-> p.port, dir |-> p.dir,
     pattern |-> None]

Base(dir)   == IF dir = <<>> THEN "" ELSE Last(dir)
Parent(dir) == IF Len(dir) < 2 THEN "" ELSE dir[Len(dir) - 1]

ProjectOf(h) == Last(h)
ServiceOf(h) == IF Len(h) >= 2 THEN Head(h) ELSE None

\* unambiguousContainerPort: the exposed one, else the published one.
ContainerPorts(c) == IF Cardinality(c.ports) = 1 THEN c.ports ELSE c.published

HasPort(c)       == Cardinality(ContainerPorts(c)) = 1
ContainerPort(c) == CHOOSE p \in ContainerPorts(c) : TRUE

ASSUME MappingAssumption ==
    /\ \A p \in Listeners : None # ProcessMapping(p)
    /\ \A c \in Containers : \A p \in ContainerPorts(c) : None # DockerMapping(c, p)

ContainerMatches(c, h) ==
    LET p == ProjectOf(h)
        s == ServiceOf(h)
    IN  IF s = None THEN c.name = <<p>> \/ c.service = p
        ELSE (c.project = p /\ c.service = s) \/ c.name = <<s, p>>

\* commandMatches: the command, or a field of the arguments.
CommandMatches(p, s) == s \in p.words

ProcessMatches(p, h) ==
    LET pr == ProjectOf(h)
        s  == ServiceOf(h)
    IN  /\ p.dir # <<>>
        /\ IF s = None THEN Base(p.dir) = pr
           ELSE \/ Base(p.dir) = s /\ Parent(p.dir) = pr
                \/ Base(p.dir) = pr /\ CommandMatches(p, s)

Key(m) == <<m.type, m.target, m.port>>

\* dedupeCandidates: the first of those that point at the same target.
DedupeCandidates(seq) == FirstOfEach(seq, Key)

\* Containers first; one without an unambiguous port is none.
Candidates(process, docker) ==
    LET routed == Select(docker, HasPort)
    IN  [i \in DOMAIN routed |-> DockerMapping(routed[i], ContainerPort(routed[i]))]
        \o [i \in DOMAIN process |-> ProcessMapping(process[i])]

\* Mutant: the first candidate wins.
FirstOf(pool) == IF pool # <<>> THEN pool[1] ELSE None

\* Exactly one candidate, or none.
OnlyOf(pool) == IF Len(pool) = 1 THEN pool[1] ELSE None

ResolveHeuristically(h, ps, cs) ==
    LET M(p)  == ProcessMatches(p, h)
        MC(c) == ContainerMatches(c, h)
    IN  OnlyOf(DedupeCandidates(Candidates(Select(ps, M), Select(cs, MC))))

\* originProjectDir
OriginDir(origin, cs) ==
    IF origin.dir # <<>> THEN origin.dir
    ELSE LET IsOrigin(c) == c.name = origin.target
             found == Select(cs, IsOrigin)
         IN  IF origin.type = "docker" /\ found # <<>> THEN found[1].dir ELSE <<>>

\* Mutant: only what the origin is nested under.
AboveDir(a, b) == a # <<>> /\ b # <<>> /\ IsPrefix(b, a)

\* sameProjectDir: equal, or one is nested under the other.
SameProjectDir(a, b) ==
    a # <<>> /\ b # <<>> /\ (IsPrefix(a, b) \/ IsPrefix(b, a))

ResolveRelatedHeuristically(origin, s, ps, cs) ==
    LET dir      == OriginDir(origin, cs)
        M(p)     == p.dir # <<>> /\ Base(p.dir) = s
        MC(c)    == c.service = s \/ c.name = <<s>>
        MSame(p)  == M(p) /\ SameProjectDir(dir, p.dir)
        MCSame(c) == MC(c) /\ SameProjectDir(dir, c.dir)
        Pool(P(_), C(_)) ==
            DedupeCandidates(Candidates(Select(ps, P), Select(cs, C)))
        same     == Pool(MSame, MCSame)
    IN  IF Len(same) = 1 THEN same[1] ELSE OnlyOf(Pool(M, MC))

-----------------------------------------------------------------------------
(* port_resolver.go                                                        *)

MaxParentDistance == 2

rankExact       == 0
rankUnderTarget == 1
rankAboveTarget == 2

\* Mutant: home directories count.
NeverHome(dir) == dir = <<"root">>

IsUserHome(dir) ==
    dir = <<"root">> \/ (Len(dir) = 2 /\ dir[1] \in {"home", "Users"})

NoMatch == [rank |-> -1, distance |-> 0]

MatchWorkdir(dir, target) ==
    IF dir = <<>> \/ target = <<>> THEN NoMatch
    ELSE IF dir = target THEN [rank |-> rankExact, distance |-> 0]
    ELSE IF IsPrefix(target, dir)
         THEN [rank |-> rankUnderTarget, distance |-> Len(dir) - Len(target)]
    ELSE IF IsPrefix(dir, target) /\ Len(target) - Len(dir) <= MaxParentDistance
            /\ ~IsUserHome(dir)
         THEN [rank |-> rankAboveTarget, distance |-> Len(target) - Len(dir)]
    ELSE NoMatch

\* Mutant: the lowest port first.
PortFirst(a, aPort, b, bPort) == aPort < bPort

\* Closer first, and the lowest port only between equally close ones.
BetterMatch(a, aPort, b, bPort) ==
    IF a.rank # b.rank THEN a.rank < b.rank
    ELSE IF a.distance # b.distance THEN a.distance < b.distance
    ELSE aPort < bPort

\* matchesCommand: the expression, or the text of one that does not compile, is
\* found in the command or the arguments.
MatchesCommand(p, pattern) == pattern \in p.words

\* The first, or one that is better, of those that pass both filters.
ResolveProcessPort(target, pattern, ps) ==
    LET Match(p)     == MatchWorkdir(p.dir, target)
        Passes(p)    == Match(p) # NoMatch /\ (pattern = None \/ MatchesCommand(p, pattern))
        Better(p, q) == BetterMatch(Match(p), p.port, Match(q), q.port)
        best         == Best(Select(ps, Passes), Better, None)
    IN  IF best = None THEN None ELSE best.port

-----------------------------------------------------------------------------

Orders(S) == SetToSeqs(S)

\* A discovery of the processes: the tool's order, and that of the Go map.
Discoveries ==
    UNION {Orders(DiscoverLocalProcesses(seq)) : seq \in Orders(listeners)}

Init ==
    /\ listeners \in {S \in SUBSET Listeners : Cardinality(S) <= MaxListeners}
    /\ containers \in {S \in SUBSET Containers : Cardinality(S) <= MaxContainers}
    /\ host = None /\ mapping = None
    /\ service = None /\ related = None /\ port = None

\* A request for a hostname without a mapping: resolveTargetChain discovers, and
\* the heuristic's mapping is saved.
ResolveTarget(h) ==
    /\ mapping = None
    /\ \E ps \in Discoveries, cs \in Orders(containers) :
          mapping' = ResolveHeuristically(h, ps, cs)
    /\ host' = h
    /\ UNCHANGED <<listeners, containers, service, related, port>>

\* The LLM's mapping instead: a listener by its directory and what its command
\* holds.
NameProcess(p) ==
    /\ mapping = None
    /\ Kept(p) /\ p.dir # <<>>
    /\ \E w \in Patterns \cap p.words :
         mapping' = [ProcessMapping(p) EXCEPT !.pattern = w]
    /\ UNCHANGED <<listeners, containers, host, service, related, port>>

\* A request for /_proxy/s under the hostname.
ResolveRelated(s) ==
    /\ mapping # None
    /\ \E ps \in Discoveries, cs \in Orders(containers) :
          related' = ResolveRelatedHeuristically(mapping, s, ps, cs)
    /\ service' = s
    /\ UNCHANGED <<listeners, containers, host, mapping, port>>

\* buildUpstreamURL, for a process mapping.
ResolvePort ==
    /\ mapping # None /\ mapping.type = "process"
    /\ \E ps \in Discoveries :
         port' = ResolveProcessPort(mapping.dir, mapping.pattern, ps)
    /\ UNCHANGED <<listeners, containers, host, mapping, service, related>>

\* A socket is opened or closed; answers given before are forgotten.
ListenersChange ==
    /\ \/ \E l \in Listeners \ listeners :
             /\ Cardinality(listeners) < MaxListeners
             /\ listeners' = listeners \cup {l}
       \/ \E l \in listeners : listeners' = listeners \ {l}
    /\ port' = None /\ service' = None /\ related' = None
    /\ UNCHANGED <<containers, host, mapping>>

Next ==
    \/ \E h \in Hostnames : ResolveTarget(h)
    \/ \E p \in Listeners : NameProcess(p)
    \/ \E s \in Services : ResolveRelated(s)
    \/ ResolvePort
    \/ ListenersChange

Spec == Init /\ [][Next]_vars

-----------------------------------------------------------------------------

\* The listeners a discovery may show: wanted, and not started by one that is.
Visible ==
    {l \in listeners : Kept(l) /\ \A k \in listeners : Kept(k) => k.pid # l.ppid}

\* Whatever order the sockets are listed in, discovery shows every wanted process
\* that no wanted one started, once, on the port a browser would reach it by: a
\* public one if there is any, and the lowest of those ("keep only one port per
\* process", DiscoverLocalProcesses).
OnePortPerProcess ==
    \A seq \in Orders(listeners) :
        DiscoverLocalProcesses(seq) =
            {l \in Visible : \A k \in Visible :
                 k.pid = l.pid /\ k # l =>
                     IF k.public = l.public THEN l.port < k.port ELSE l.public}

DistinctPorts ==
    \A k, l \in listeners : k.port = l.port => k = l

SameTarget(a, b) == a = b \/ (None \notin {a, b} /\ Key(a) = Key(b))

\* A hostname means the same service in whatever order processes and containers are
\* discovered, and none when two services answer to it: "exactly one candidate
\* survives", never the first one (heuristic.go). Two processes on one port number,
\* bound to different addresses, are one candidate to the code: then the answers
\* still agree on target and port, and only the directory may be either's.
OrderNeverDecides ==
    \A h \in Hostnames :
        LET results == {ResolveHeuristically(h, ps, cs) :
                          ps \in Discoveries, cs \in Orders(containers)}
        IN  /\ \A a, b \in results : SameTarget(a, b)
            /\ DistinctPorts => Cardinality(results) = 1

InProject(c, dir) == c.dir # <<>> /\ (IsPrefix(c.dir, dir) \/ IsPrefix(dir, c.dir))

\* When exactly one listed process of the origin's project, and no container, has
\* the requested service's name, /_proxy/ goes to it, whatever services of that
\* name other projects run ("Same-project candidates win").
RelatedStaysInProject ==
    mapping # None /\ mapping.dir # <<>> /\ service # None =>
        LET own == {p \in UNION {DiscoverLocalProcesses(q) : q \in Orders(listeners)} :
                      InProject(p, mapping.dir) /\ Base(p.dir) = service}
            others == {c \in containers : c.service = service \/ c.name = <<service>>}
        IN  Cardinality(own) = 1 /\ others = {}
                => \E p \in own : related = ProcessMapping(p)

\* A process in a user's home directory, or more than two levels above the mapped
\* directory, is never given the mapping's traffic, even when nothing else of the
\* project runs (matchWorkdir: "lets any process running in a home directory hijack
\* every process mapping").
HomeNeverClaims ==
    port # None /\ DistinctPorts =>
        \A l \in listeners, user \in Range(mapping.dir) :
            l.port = port /\ l.dir # mapping.dir /\ IsPrefix(l.dir, mapping.dir)
                => /\ l.dir \notin {<<"root">>, <<"home", user>>, <<"Users", user>>}
                   /\ Len(mapping.dir) - Len(l.dir) <= 2

\* A mapping follows its process: as long as one is listed that runs in the mapped
\* directory itself, with the command the mapping names if it names one, traffic
\* goes to such a one, however many run around it and whatever ports they were
\* restarted on; and never to a process with another command.
ExactDirectoryWins ==
    port # None /\ DistinctPorts =>
        LET listed  == UNION {DiscoverLocalProcesses(q) : q \in Orders(listeners)}
            named   == {p \in listed : mapping.pattern \in {None} \cup p.words}
            inPlace == {p \in named : p.dir = mapping.dir}
        IN  \E p \in IF inPlace = {} THEN named ELSE inPlace : p.port = port

=============================================================================
