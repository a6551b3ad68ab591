---------------------------- MODULE SnapshotStore ---------------------------
(***************************************************************************)
(* What one Cache of llm_resolver/cache.go promises about its file: the    *)
(* disk goes from one snapshot of the memory to another in one step, a     *)
(* saver writes the snapshot it took, at most once, and a restart resumes  *)
(* from the disk, or from nothing when the disk cannot be read.  Snapshots *)
(* of concurrent savers may land in any order.                             *)
(***************************************************************************)
EXTENDS Integers

CONSTANTS Hosts, Writers, MaxOps

Entry     == [at : 0..MaxOps, on : BOOLEAN]
Snapshots == [Hosts -> Entry]

VARIABLES
    mem,      \* the map in memory
    disk,     \* the map a restart would load
    pending   \* <<saver, snapshot>> for each snapshot not yet written

vars == <<mem, disk, pending>>

Nothing == [h \in Hosts |-> [at |-> 0, on |-> FALSE]]

Init ==
    /\ mem = Nothing
    /\ disk = mem
    /\ pending = {}

Mutate(h, e) ==
    /\ e.at > mem[h].at
    /\ mem' = [mem EXCEPT ![h] = e]
    /\ UNCHANGED <<disk, pending>>

Take(w) ==
    /\ \A p \in pending : p[1] # w
    /\ pending' = pending \cup {<<w, mem>>}
    /\ UNCHANGED <<mem, disk>>

Commit(p) ==
    /\ disk' = p[2]
    /\ pending' = pending \ {p}
    /\ UNCHANGED mem

Abandon(p) ==
    /\ pending' = pending \ {p}
    /\ UNCHANGED <<mem, disk>>

Restart ==
    /\ mem' \in {disk, Nothing}
    /\ pending' = {}
    /\ UNCHANGED disk

Next ==
    \/ \E h \in Hosts, e \in Entry : Mutate(h, e)
    \/ \E w \in Writers : Take(w)
    \/ \E p \in pending : Commit(p) \/ Abandon(p)
    \/ Restart

Spec == Init /\ [][Next]_vars
=============================================================================
