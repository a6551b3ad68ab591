------------------------------ MODULE Discovery ------------------------------
(***************************************************************************)
(* One discovery for a hostname without a mapping (resolveTargetChain),    *)
(* call by call: discovery/processes.go asks lsof or netstat and then ps   *)
(* and lsof again (macOS), or ss or /proc and then /proc process by        *)
(* process (Linux); discovery/docker.go asks docker ps and then docker     *)
(* inspect. Sockets, processes and containers come and go between any two  *)
(* calls; ServiceMatching's rules decide on what was found.                *)
(*                                                                         *)
(* A listener is ignored here for its arguments, which a later call tells; *)
(* a process id is not used again within a discovery.                      *)
(***************************************************************************)
EXTENDS ServiceMatching

CONSTANTS
    OwnProject, \* the compose project of the proxy itself
    MaxChanges  \* bound: changes of the world during the discovery

ASSUME ChangesAssumption == MaxChanges \in Nat

VARIABLES
    system,    \* "darwin" or "linux"
    at,        \* the call that comes next
    found,     \* the candidates, with what is known of them
    inodes,    \* the sockets whose owner buildInodePidMap saw
    turn,      \* the candidate whose entries in /proc are read
    part,      \* which of Reads comes next
    ids,       \* what docker ps listed
    described, \* what DiscoverDockerContainers returns
    ended,     \* the processes that have ended
    changes,
    \* History: sockets that were open at some time and all the time, containers
    \* that ran all the time, whether a call told less than it could, and
    \* whether ps told nothing.
    was, stays, runs, less, blind

calls   == <<at, found, inodes, turn, part, ids, described, less, blind>>
world   == <<listeners, containers, ended, changes, was, stays, runs>>
answers == <<host, mapping, service, related, port>>
dvars   == <<system, calls, world, answers>>

DInit ==
    /\ Init
    /\ system \in {"darwin", "linux"}
    /\ at = "list" /\ found = <<>> /\ inodes = {} /\ turn = 1 /\ part = 1
    /\ ids = {} /\ described = {}
    /\ ended = {} /\ changes = 0
    /\ was = listeners /\ stays = listeners /\ runs = containers
    /\ less = FALSE /\ blind = FALSE

-----------------------------------------------------------------------------
(* Which sockets there are.                                                *)

Ports == {l \in listeners : l.port >= 1024}

\* A line of output: nothing is known of the process but its number.
Line(l) ==
    [pid |-> l.pid, ppid |-> 0, port |-> l.port, public |-> l.public,
     dir |-> <<>>, words |-> {}, ignored |-> FALSE]

Lines(seq) == [i \in DOMAIN seq |-> Line(seq[i])]

\* seenPorts: the first line of each port.
FirstPerPort(seq) ==
    LET Port(l) == l.port
    IN  FirstOfEach(seq, Port)

\* lsof, in any order; as a user it may not show all, or fail.
Lsof ==
    /\ system = "darwin" /\ at = "list"
    /\ \E shown \in SUBSET Ports : \E seq \in Orders(shown) :
          /\ found' = Lines(FirstPerPort(seq))
          /\ less' = (shown # Ports)
          /\ at' = IF shown = {} THEN "fallback" ELSE "read"
    /\ UNCHANGED <<system, inodes, turn, part, ids, described, blind, world, answers>>

\* netstat if lsof showed nothing; a line may lack its process, and counts as
\* seen all the same.
Netstat ==
    /\ system = "darwin" /\ at = "fallback"
    /\ \E owned \in SUBSET Ports, seq \in Orders(Ports) :
          LET Owned(l) == l \in owned
          IN  /\ found' = Lines(Select(FirstPerPort(seq), Owned))
              /\ less' = (owned # Ports)
    /\ at' = "read"
    /\ UNCHANGED <<system, inodes, turn, part, ids, described, blind, world, answers>>

\* ss, which does not look for ports it has seen, and shows an ordinary user
\* the processes of that user only.
Ss ==
    /\ system = "linux" /\ at = "list"
    /\ \E owned \in SUBSET Ports : \E seq \in Orders(owned) :
          /\ found' = Lines(seq)
          /\ less' = (owned # Ports)
          /\ at' = IF owned = {} THEN "fallback" ELSE "read"
    /\ UNCHANGED <<system, inodes, turn, part, ids, described, blind, world, answers>>

\* buildInodePidMap if ss showed nothing ...
InodePidMap ==
    /\ system = "linux" /\ at = "fallback"
    /\ \E owned \in SUBSET Ports :
          inodes' = owned /\ less' = (owned # Ports)
    /\ at' = "tables"
    /\ UNCHANGED <<system, found, turn, part, ids, described, blind, world, answers>>

\* ... and then /proc/net/tcp.
TcpFile ==
    /\ at = "tables"
    /\ \E seq \in Orders(Ports) :
          LET Owned(l) == l \in inodes
          IN  found' = Lines(Select(FirstPerPort(seq), Owned))
    /\ inodes' = {}
    /\ at' = "read"
    /\ UNCHANGED <<system, turn, part, ids, described, less, blind, world, answers>>

-----------------------------------------------------------------------------
(* What is known of the processes.                                         *)

Truth(f)  == CHOOSE l \in Listeners : l.pid = f.pid /\ l.port = f.port
Lives(f)  == f.pid \notin ended

\* An orphan is adopted by a process that is not listed.
ParentOf(f) == IF Truth(f).ppid \in ended THEN 0 ELSE Truth(f).ppid

\* Mutant: the directory first.
DirFirst == <<"dir", "args">>

\* What is read of a process, in this order.
Reads == <<"args", "dir">>

\* f with what a call tells of it, if it still runs.
Told(f, what) ==
    IF ~Lives(f) THEN f
    ELSE IF what = "dir" THEN [f EXCEPT !.dir = Truth(f).dir]
    ELSE [f EXCEPT !.words = Truth(f).words, !.ignored = Truth(f).ignored,
                   !.ppid = IF system = "darwin" THEN ParentOf(f) ELSE 0]

AllTold(what) == [i \in DOMAIN found |-> Told(found[i], what)]

\* Mutant: no output counts when one of the processes is gone.
AllOrNone(what) == IF \A i \in DOMAIN found : Lives(found[i])
                     THEN [i \in DOMAIN found |-> Told(found[i], what)]
                     ELSE found

\* What ps and lsof tell of all candidates in one call: their output counts even
\* if they fail because one of the processes is gone.
Batch(what) == AllTold(what)

\* getProcessInfoBatchMac: ps, then lsof. Either may tell nothing.
ReadBatch ==
    /\ system = "darwin" /\ at = "read"
    /\ \/ found' = Batch(Reads[part]) /\ UNCHANGED <<less, blind>>
       \/ /\ less' = TRUE
          /\ blind' = (blind \/ Reads[part] = "args")
          /\ UNCHANGED found
    /\ part' = part + 1
    /\ at' = IF part = Len(Reads) THEN "ps" ELSE "read"
    /\ UNCHANGED <<system, inodes, turn, ids, described, world, answers>>

\* getProcessCommand and getProcessArgs, then getProcessWorkdir, of one
\* candidate after the other. The directory of another user's is not shown.
ReadProcess ==
    /\ system = "linux" /\ at = "read" /\ turn \in DOMAIN found
    /\ \/ /\ found' = [found EXCEPT ![turn] = Told(@, Reads[part])]
          /\ UNCHANGED less
       \/ Reads[part] = "dir" /\ less' = TRUE /\ UNCHANGED found
    /\ IF part < Len(Reads) THEN part' = part + 1 /\ UNCHANGED turn
                            ELSE part' = 1 /\ turn' = turn + 1
    /\ UNCHANGED <<system, at, inodes, ids, described, blind, world, answers>>

\* The filter of DiscoverLocalProcesses.
Filter ==
    /\ system = "linux" /\ at = "read" /\ turn \notin DOMAIN found
    /\ found' = Select(found, Kept)
    /\ turn' = 1
    /\ at' = "parents"
    /\ UNCHANGED <<system, inodes, part, ids, described, less, blind, world, answers>>

\* Mutant: the parents of all but the last.
ParentOfAllButLast ==
    /\ at = "parents" /\ turn \in DOMAIN found
    /\ found' = [found EXCEPT ![turn].ppid =
                    IF Lives(found[turn]) /\ turn < Len(found)
                      THEN ParentOf(found[turn]) ELSE 0]
    /\ turn' = turn + 1
    /\ UNCHANGED <<system, at, inodes, part, ids, described, less, blind, world, answers>>

\* getProcessPPID of what the filter left.
ReadParent ==
    /\ at = "parents" /\ turn \in DOMAIN found
    /\ found' = [found EXCEPT ![turn].ppid =
                    IF Lives(found[turn]) THEN ParentOf(found[turn]) ELSE 0]
    /\ turn' = turn + 1
    /\ UNCHANGED <<system, at, inodes, part, ids, described, less, blind, world, answers>>

ParentsRead ==
    /\ at = "parents" /\ turn \notin DOMAIN found
    /\ at' = "ps"
    /\ UNCHANGED <<system, found, inodes, turn, part, ids, described, less, blind, world, answers>>

-----------------------------------------------------------------------------
(* DiscoverDockerContainers.                                               *)

\* docker ps; without docker there are no containers.
DockerPs ==
    /\ at = "ps"
    /\ \/ ids' = containers /\ UNCHANGED less
       \/ ids' = {} /\ less' = TRUE
    /\ at' = IF ids' = {} THEN "resolve" ELSE "inspect"
    /\ UNCHANGED <<system, found, inodes, turn, part, described, blind, world, answers>>

\* docker inspect of all of them, which fails if one is gone, and tells the others.
DockerInspect ==
    /\ at = "inspect"
    /\ \/ /\ described' = {c \in ids \cap containers : c.project # OwnProject}
          /\ UNCHANGED less
       \/ less' = TRUE /\ UNCHANGED described
    /\ ids' = {}
    /\ at' = "resolve"
    /\ UNCHANGED <<system, found, inodes, turn, part, blind, world, answers>>

Resolve(h) ==
    /\ at = "resolve"
    /\ \E ps \in Orders(DiscoverLocalProcesses(found)), cs \in Orders(described) :
          mapping' = ResolveHeuristically(h, ps, cs)
    /\ host' = h
    /\ at' = "done"
    /\ UNCHANGED <<system, found, inodes, turn, part, ids, described, less, blind, world,
                   service, related, port>>

-----------------------------------------------------------------------------
(* The world.                                                              *)

Change ==
    /\ at # "done" /\ changes < MaxChanges
    /\ changes' = changes + 1
    /\ was' = was \cup listeners' /\ stays' = stays \cap listeners'
    /\ runs' = runs \cap containers'
    /\ UNCHANGED <<system, calls, answers>>

Opens(l) ==
    /\ l \notin listeners /\ l.pid \notin ended
    /\ Cardinality(listeners) < MaxListeners
    /\ listeners' = listeners \cup {l}
    /\ UNCHANGED <<containers, ended>>
    /\ Change

Closes(l) ==
    /\ l \in listeners
    /\ listeners' = listeners \ {l}
    /\ UNCHANGED <<containers, ended>>
    /\ Change

Ends(pid) ==
    /\ \E l \in listeners : l.pid = pid
    /\ listeners' = {l \in listeners : l.pid # pid}
    /\ ended' = ended \cup {pid}
    /\ UNCHANGED containers
    /\ Change

ContainerStarts(c) ==
    /\ c \notin containers /\ Cardinality(containers) < MaxContainers
    /\ containers' = containers \cup {c}
    /\ UNCHANGED <<listeners, ended>>
    /\ Change

ContainerStops(c) ==
    /\ c \in containers
    /\ containers' = containers \ {c}
    /\ UNCHANGED <<listeners, ended>>
    /\ Change

DNext ==
    \/ Lsof \/ Netstat \/ Ss \/ InodePidMap \/ TcpFile
    \/ ReadBatch \/ ReadProcess \/ Filter \/ ReadParent \/ ParentsRead
    \/ DockerPs \/ DockerInspect
    \/ \E h \in Hostnames : Resolve(h)
    \/ \E l \in Listeners : Opens(l) \/ Closes(l) \/ Ends(l.pid)
    \/ \E c \in Containers : ContainerStarts(c) \/ ContainerStops(c)

DSpec == DInit /\ [][DNext]_dvars

-----------------------------------------------------------------------------

Listed == DiscoverLocalProcesses(found)

\* No hostname is mapped to a process that discovery is to ignore for its
\* arguments, or that never listened on that port, however processes end
\* between the calls: arguments are read before the directory, so of a process
\* whose directory is known the arguments are, too, and one without a directory
\* matches nothing. Only a ps that fails altogether lets such a process through.
MapsWhatIsWanted ==
    mapping # None /\ mapping.type = "process" /\ ~blind =>
        \E l \in was : l.port = mapping.port /\ l.dir = mapping.dir /\ ~l.ignored

\* A server, or a container, that was there from the first call to the last is
\* found, with its directory, whatever other ones come or go meanwhile: its
\* ignored parent, for one, or a process that ps and lsof are asked about in the
\* same call. Others on its port, its wanted parent, and a call that is refused
\* may hide it; on macOS also a parent that only its directory excludes, if it
\* ends before lsof is asked for that.
StaysListed ==
    at = "done" /\ ~less =>
        /\ \A l \in stays :
              /\ Kept(l) /\ l.port >= 1024
              /\ \A k \in was :
                    /\ k.port = l.port => k = l
                    /\ k.pid = l.ppid => IF system = "darwin" THEN k.ignored ELSE ~Kept(k)
              => \E p \in Listed : p.pid = l.pid /\ p.dir = l.dir
        /\ {c \in runs : c.project # OwnProject} \subseteq described

\* No process is offered beside its parent, which would make a hostname
\* ambiguous (the filter of child processes, processes.go:169): but for one
\* that has ended by now, whose parent Linux no longer knows.
ChildrenHidden ==
    at = "done" /\ ~blind =>
        \A k, l \in Listed :
            Truth(l).ppid = k.pid /\ l.dir # <<>> =>
                k.pid \in ended \/ (system = "linux" /\ l.pid \in ended)
=============================================================================
