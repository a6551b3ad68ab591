----------------------------- MODULE ProcessCache ---------------------------
(***************************************************************************)
(* llm_resolver/process_cache.go: the list of local processes that every   *)
(* request for a process mapping reads its port from, discovered again     *)
(* after five seconds under a read-write mutex, with a check before and    *)
(* after the write lock.                                                   *)
(*                                                                         *)
(* A list is what ResolveProcessPort makes of it for the one mapping the   *)
(* callers ask for: its process's port, or Others; an empty list is a nil  *)
(* slice.                                                                  *)
(***************************************************************************)
EXTENDS Integers, FiniteSets

CONSTANTS
    Callers,    \* requests, each in a goroutine of its own
    Ports,      \* ports the mapped process may listen on
    Others,     \* a list of processes none of which matches
    None        \* nil list, no holder of the write lock, no result yet

ASSUME OthersAssumption == Others \notin Ports
ASSUME NoneAssumption   == None \notin Callers \cup Ports \cup {Others}

Lists == Ports \cup {Others, None}

VARIABLES
    running,    \* what a discovery would find now
    processes,  \* ProcessCache.processes
    fresh,      \* time.Since(lastUpdate) < ttl
    mu,         \* the caller that holds the write lock, or None
    pc,         \* pc[c]: where caller c is
    list,       \* list[c]: what c discovered, or was given
    failed,     \* failed[c]: the discovery of c failed; with a nil list, Get
                \* returns its error
    ran         \* history: the lists discoverable since the last expiry, or on
                \* their way into the cache at it

cacheVars == <<running, processes, fresh, mu, pc, list, failed, ran>>

CachePCs == {"called", "missed", "locked", "discovering", "updating", "got"}

CacheTypeOK ==
    /\ running \in Lists
    /\ processes \in Lists
    /\ fresh \in BOOLEAN
    /\ mu \in Callers \cup {None}
    /\ list \in [Callers -> Lists]
    /\ failed \in [Callers -> BOOLEAN]
    /\ ran \in SUBSET Lists

CacheInit ==
    /\ running \in Lists
    /\ processes = None
    /\ fresh = FALSE
    /\ mu = None
    /\ list = [c \in Callers |-> None]
    /\ failed = [c \in Callers |-> FALSE]
    /\ ran = {running}

Goto(c, l) == pc' = [pc EXCEPT ![c] = l]

\* What Get may return without a discovery.
Usable == fresh /\ processes # None

\* Under the read lock.
Read(c) ==
    /\ pc[c] = "called"
    /\ mu = None
    /\ IF Usable THEN list' = [list EXCEPT ![c] = processes] /\ Goto(c, "got")
                 ELSE UNCHANGED list /\ Goto(c, "missed")
    /\ UNCHANGED <<running, processes, fresh, mu, failed, ran>>

Lock(c) ==
    /\ pc[c] = "missed"
    /\ mu = None
    /\ mu' = c
    /\ Goto(c, "locked")
    /\ UNCHANGED <<running, processes, fresh, list, failed, ran>>

\* Mutant: no second check.
ReadAgainDropped(c) ==
    /\ pc[c] = "locked"
    /\ Goto(c, "discovering")
    /\ UNCHANGED <<running, processes, fresh, mu, list, failed, ran>>

\* Under the write lock: another caller may have updated the cache.
ReadAgain(c) ==
    /\ pc[c] = "locked"
    /\ IF Usable
         THEN /\ list' = [list EXCEPT ![c] = processes]
              /\ mu' = None
              /\ Goto(c, "got")
         ELSE UNCHANGED <<list, mu>> /\ Goto(c, "discovering")
    /\ UNCHANGED <<running, processes, fresh, failed, ran>>

\* DiscoverLocalProcesses sees what runs at some moment of it.
Discover(c) ==
    /\ pc[c] = "discovering"
    /\ list' = [list EXCEPT ![c] = running]
    /\ Goto(c, "updating")
    /\ UNCHANGED <<running, processes, fresh, mu, failed, ran>>

\* What every failed discovery does: stale data, if there is any, is returned.
Failing(c) ==
    /\ pc[c] = "discovering"
    /\ failed' = [failed EXCEPT ![c] = TRUE]
    /\ list' = [list EXCEPT ![c] = processes]
    /\ Goto(c, "got")
    /\ UNCHANGED <<running, processes, ran>>

\* Mutant: the error is returned before the lock is released.
DiscoveryFailsLocked(c) == Failing(c) /\ UNCHANGED <<fresh, mu>>

\* Mutant: stale data counts as updated.
DiscoveryFailsFresh(c) == Failing(c) /\ mu' = None /\ fresh' = TRUE

\* lsof, ss or /proc fails: the next Get discovers again.
DiscoveryFails(c) == Failing(c) /\ mu' = None /\ UNCHANGED fresh

\* The list is stored, and fresh from now on; a nil one is returned as it is.
Update(c) ==
    /\ pc[c] = "updating"
    /\ processes' = list[c]
    /\ fresh' = TRUE
    /\ mu' = None
    /\ Goto(c, "got")
    /\ UNCHANGED <<running, list, failed, ran>>

\* The time to live runs out, or Invalidate zeroes lastUpdate.
Expire ==
    /\ fresh
    /\ fresh' = FALSE
    /\ ran' = {running} \cup {list[c] : c \in {d \in Callers : pc[d] = "updating"}}
    /\ UNCHANGED <<running, processes, mu, pc, list, failed>>

\* A process is started, stopped, or comes back on another port.
Run(l) ==
    /\ running # l
    /\ running' = l
    /\ ran' = ran \cup {l}
    /\ UNCHANGED <<processes, fresh, mu, pc, list, failed>>

\* One call of Get, from the first lock to its result.
Get(c) ==
    \/ Read(c) \/ Lock(c) \/ ReadAgain(c)
    \/ Discover(c) \/ DiscoveryFails(c) \/ Update(c)
=============================================================================
