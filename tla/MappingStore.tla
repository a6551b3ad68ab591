---------------------------- MODULE MappingStore ----------------------------
(***************************************************************************)
(* The persistent hostname -> target mappings of llm_resolver/cache.go,    *)
(* used by the request handlers of one or more provisioned instances of    *)
(* the Caddy module (module.go).                                           *)
(*                                                                         *)
(* A handler changes the map in memory (Set or Delete) and then calls      *)
(* Save: copy the map under mu.RLock, take saveMu, truncate <file>.tmp,    *)
(* write it, rename it over <file>.  Every one of those is a step here, so *)
(* handlers of one instance interleave in every order the locks allow.     *)
(* During a Caddy hot reload two instances exist in the process: each has  *)
(* its own Cache, hence its own mu and saveMu, over the same two paths.    *)
(*                                                                         *)
(* A new instance loads the file when it is provisioned.  The read may     *)
(* fail although the file is whole (EACCES, EIO, EMFILE): Provision only   *)
(* logs that, and the instance serves and saves from an empty map.         *)
(*                                                                         *)
(* A mapping is abstracted to the stamp of the call that wrote it and      *)
(* whether it is present.  The stamp of an absent entry and the variables  *)
(* marked history are read by no step of the code.                         *)
(***************************************************************************)
EXTENDS Integers, FiniteSets

CONSTANTS
    Hosts,       \* hostnames
    Writers,     \* handler goroutines that mutate and save
    Instances,   \* provisioned LLMResolver modules sharing CacheFile
    MaxOps,      \* bound: number of Set/Delete calls in a behaviour
    MaxCrashes,  \* bound: number of crashes of the process
    NoFile,      \* the path does not exist
    Truncated,   \* the file exists and is empty
    Torn,        \* the file holds bytes that are not one whole snapshot
    Free         \* saveMu is not held

Entry     == [at : Nat, on : BOOLEAN]
Snapshots == [Hosts -> Entry]
EmptyMap  == [h \in Hosts |-> [at |-> 0, on |-> FALSE]]
Unreadable == {NoFile, Truncated, Torn}
NoCall    == [host |-> CHOOSE h \in Hosts : TRUE, at |-> 0]
Contents  == Snapshots \cup Unreadable

ASSUME BoundsAssumption == MaxOps \in Nat /\ MaxCrashes \in Nat
ASSUME HostsAssumption  == Hosts # {}
ASSUME FreeAssumption   == Free \notin Writers
ASSUME UnreadableAssumption ==
    /\ Unreadable \cap Snapshots = {}
    /\ NoFile \notin {Truncated, Torn}

VARIABLES
    mem,      \* mem[i]: c.mappings of instance i
    status,   \* status[i]: where instance i is in Caddy's life cycle
    saveMu,   \* saveMu[i]: the handler in i's critical section of Save, or Free
    pc,       \* pc[w]: where handler w is
    inst,     \* inst[w]: the instance handler w runs in
    op,       \* op[w]: host and stamp of the call handler w is saving
    snap,     \* snap[w]: the copy Save took
    fd,       \* fd[w]: which path the descriptor w opened now refers to
    file,     \* content of CacheFile
    tmp,      \* content of CacheFile + ".tmp"
    clock,    \* history: stamp of the last Set or Delete
    acked,    \* history: acked[h], newest call on h whose Save returned nil
    crashes,  \* history: number of crashes so far
    raced,    \* history: two handlers, or a handler and a hot reload, have
              \* overlapped
    unread,   \* history: unread[i], instance i could not read the file
    wiped     \* history: an instance that had not read the file saved over it

vars == <<mem, status, saveMu, pc, inst, op, snap, fd, file, tmp,
          clock, acked, crashes, raced, unread, wiped>>
disk    == <<file, tmp>>
history == <<clock, acked, crashes, raced, unread, wiped>>

\* The handler holds saveMu exactly at these places.
InSave == {"locked", "opened", "written", "renamed", "failed", "errored"}
PCs    == {"idle", "mutated", "snapped"} \cup InSave

TypeOK ==
    /\ mem \in [Instances -> Snapshots]
    /\ status \in [Instances -> {"off", "loaded", "serving", "draining"}]
    /\ saveMu \in [Instances -> Writers \cup {Free}]
    /\ pc \in [Writers -> PCs]
    /\ inst \in [Writers -> Instances]
    /\ op \in [Writers -> [host : Hosts, at : Nat]]
    /\ snap \in [Writers -> Snapshots]
    /\ fd \in [Writers -> {"none", "tmp", "file", "gone"}]
    /\ file \in Contents
    /\ tmp \in Contents
    /\ clock \in Nat
    /\ acked \in [Hosts -> Nat]
    /\ crashes \in Nat
    /\ raced \in BOOLEAN
    /\ unread \in [Instances -> BOOLEAN]
    /\ wiped \in BOOLEAN

\* What Cache.Load makes of the bytes it reads: json.Unmarshal validates before
\* it stores, so bytes that are no snapshot leave NewCache's fresh map in place.
\* So does a read that fails, which Provision chooses.
Load(c) == IF c \in Unreadable THEN EmptyMap ELSE c

Init ==
    /\ mem = [i \in Instances |-> EmptyMap]
    /\ \E i \in Instances : status = [j \in Instances |->
                                       IF j = i THEN "serving" ELSE "off"]
    /\ saveMu = [i \in Instances |-> Free]
    /\ pc = [w \in Writers |-> "idle"]
    /\ inst \in {[w \in Writers |-> i] : i \in Instances}
    /\ op = [w \in Writers |-> NoCall]
    /\ snap = [w \in Writers |-> EmptyMap]
    /\ fd = [w \in Writers |-> "none"]
    /\ file = NoFile
    /\ tmp = NoFile
    /\ clock = 0
    /\ acked = [h \in Hosts |-> 0]
    /\ crashes = 0
    /\ raced = FALSE
    /\ unread = [i \in Instances |-> FALSE]
    /\ wiped = FALSE

-----------------------------------------------------------------------------
(* The handler: Set or Delete, then Save.                                  *)

Goto(w, l) == pc' = [pc EXCEPT ![w] = l]

\* One of the callers of the cache changes the map: present is TRUE for Set
\* and FALSE for Delete.  A resolution that began before a hot reload does so
\* in the old instance, which no longer takes requests.
Mutate(w, h, present) ==
    /\ pc[w] = "idle"
    /\ clock < MaxOps
    /\ \E i \in Instances :
         /\ status[i] \in {"serving", "draining"}
         /\ mem' = [mem EXCEPT ![i][h] = [at |-> clock + 1, on |-> present]]
         /\ inst' = [inst EXCEPT ![w] = i]
         /\ raced' = (\/ raced
                      \/ status[i] = "draining"
                      \/ \E x \in Writers : pc[x] # "idle"
                      \/ \E j \in Instances : status[j] = "loaded")
    /\ clock' = clock + 1
    /\ op' = [op EXCEPT ![w] = [host |-> h, at |-> clock + 1]]
    /\ Goto(w, "mutated")
    /\ UNCHANGED <<status, saveMu, snap, fd, disk, acked, crashes, unread, wiped>>

Set(w, h)    == Mutate(w, h, TRUE)
Delete(w, h) == Mutate(w, h, FALSE)

\* Mutant: Save marshals only the entry of its caller.
TakeSnapshotOwnEntryOnly(w) ==
    /\ pc[w] = "mutated"
    /\ LET h == op[w].host IN
         snap' = [snap EXCEPT ![w] = [EmptyMap EXCEPT ![h] = mem[inst[w]][h]]]
    /\ Goto(w, "snapped")
    /\ UNCHANGED <<mem, status, saveMu, inst, op, fd, disk, history>>

\* Save copies the map under mu.RLock, before it asks for saveMu.
TakeSnapshot(w) ==
    /\ pc[w] = "mutated"
    /\ snap' = [snap EXCEPT ![w] = mem[inst[w]]]
    /\ Goto(w, "snapped")
    /\ UNCHANGED <<mem, status, saveMu, inst, op, fd, disk, history>>

LockSave(w) ==
    /\ pc[w] = "snapped"
    /\ saveMu[inst[w]] = Free
    /\ saveMu' = [saveMu EXCEPT ![inst[w]] = w]
    /\ Goto(w, "locked")
    /\ UNCHANGED <<mem, status, inst, op, snap, fd, disk, history>>

\* MkdirAll fails: Save returns without touching the paths.
MkdirFails(w) ==
    /\ pc[w] = "locked"
    /\ Goto(w, "errored")
    /\ UNCHANGED <<mem, status, saveMu, inst, op, snap, fd, disk, history>>

\* Mutant: the temporary file is opened without O_TRUNC.
OpenTmpNoTruncate(w) ==
    /\ pc[w] = "locked"
    /\ tmp' = IF tmp = NoFile THEN Truncated ELSE tmp
    /\ fd' = [fd EXCEPT ![w] = "tmp"]
    /\ Goto(w, "opened")
    /\ UNCHANGED <<mem, status, saveMu, inst, op, snap, file, history>>

\* os.WriteFile opens with O_CREATE|O_TRUNC.
OpenTmp(w) ==
    /\ pc[w] = "locked"
    /\ tmp' = Truncated
    /\ fd' = [fd EXCEPT ![w] = "tmp"]
    /\ Goto(w, "opened")
    /\ UNCHANGED <<mem, status, saveMu, inst, op, snap, file, history>>

OpenFails(w) ==
    /\ pc[w] = "locked"
    /\ Goto(w, "failed")
    /\ UNCHANGED <<mem, status, saveMu, inst, op, snap, fd, disk, history>>

\* What a file holds after all of s is written from offset 0 over content c:
\* over an empty file it is s; over other bytes their tail may stay behind.
Overwrite(c, s) == IF c = Truncated THEN {s} ELSE {s, Torn}

\* Bytes go to whatever path the descriptor refers to by now, if any.
WriteTmp(w) ==
    /\ pc[w] = "opened"
    /\ tmp'  \in IF fd[w] = "tmp"  THEN Overwrite(tmp, snap[w])  ELSE {tmp}
    /\ file' \in IF fd[w] = "file" THEN Overwrite(file, snap[w]) ELSE {file}
    /\ fd' = [fd EXCEPT ![w] = "none"]
    /\ Goto(w, "written")
    /\ UNCHANGED <<mem, status, saveMu, inst, op, snap, history>>

\* The write fails part of the way (no space left).
WriteFails(w) ==
    /\ pc[w] = "opened"
    /\ tmp'  \in IF fd[w] = "tmp"  THEN {tmp, Torn}  ELSE {tmp}
    /\ file' \in IF fd[w] = "file" THEN {file, Torn} ELSE {file}
    /\ fd' = [fd EXCEPT ![w] = "none"]
    /\ Goto(w, "failed")
    /\ UNCHANGED <<mem, status, saveMu, inst, op, snap, history>>

\* rename(2) moves the inode: a descriptor open on the temporary path follows
\* it to the cache file, one open on the old cache file is left with no path.
Rename(w) ==
    /\ pc[w] = "written"
    /\ tmp # NoFile
    /\ file' = tmp
    /\ tmp' = NoFile
    /\ fd' = [x \in Writers |-> CASE fd[x] = "tmp"  -> "file"
                                  [] fd[x] = "file" -> "gone"
                                  [] OTHER          -> fd[x]]
    /\ wiped' = (wiped \/ unread[inst[w]])
    /\ Goto(w, "renamed")
    /\ UNCHANGED <<mem, status, saveMu, inst, op, snap,
                   clock, acked, crashes, raced, unread>>

RenameFails(w) ==
    /\ pc[w] = "written"
    /\ Goto(w, "failed")
    /\ UNCHANGED <<mem, status, saveMu, inst, op, snap, fd, disk, history>>

\* Mutant: the cleanup removes filePath instead of the temporary file.
RemoveTmpWrongPath(w) ==
    /\ pc[w] = "failed"
    /\ file' = NoFile
    /\ Goto(w, "errored")
    /\ UNCHANGED <<mem, status, saveMu, inst, op, snap, fd, tmp, history>>

\* Best-effort os.Remove of the temporary file, whose error is ignored.
RemoveTmp(w) ==
    /\ pc[w] = "failed"
    /\ \/ /\ tmp' = NoFile
          /\ fd' = [x \in Writers |-> IF fd[x] = "tmp" THEN "gone" ELSE fd[x]]
       \/ UNCHANGED <<tmp, fd>>
    /\ Goto(w, "errored")
    /\ UNCHANGED <<mem, status, saveMu, inst, op, snap, file, history>>

\* The locals of a handler that is done.
Forget(w) ==
    /\ snap' = [snap EXCEPT ![w] = EmptyMap]
    /\ op' = [op EXCEPT ![w] = NoCall]

\* The deferred Unlock, and the return of Save to a handler that reports it.
ReturnOK(w) ==
    /\ pc[w] = "renamed"
    /\ saveMu' = [saveMu EXCEPT ![inst[w]] = Free]
    /\ acked' = [acked EXCEPT ![op[w].host] =
                   IF op[w].at > @ THEN op[w].at ELSE @]
    /\ Forget(w)
    /\ Goto(w, "idle")
    /\ UNCHANGED <<mem, status, inst, fd, disk, clock, crashes, raced, unread, wiped>>

\* Mutant: the error of os.Rename is dropped and the handler answers 200.
ReturnErrorDropped(w) ==
    /\ pc[w] = "errored"
    /\ saveMu' = [saveMu EXCEPT ![inst[w]] = Free]
    /\ acked' = [acked EXCEPT ![op[w].host] =
                   IF op[w].at > @ THEN op[w].at ELSE @]
    /\ Forget(w)
    /\ Goto(w, "idle")
    /\ UNCHANGED <<mem, status, inst, fd, disk, clock, crashes, raced, unread, wiped>>

\* Mutant: an early return on an error path forgets to unlock saveMu.
ReturnErrorLocked(w) ==
    /\ pc[w] = "errored"
    /\ Forget(w)
    /\ Goto(w, "idle")
    /\ UNCHANGED <<mem, status, saveMu, inst, fd, disk, history>>

ReturnError(w) ==
    /\ pc[w] = "errored"
    /\ saveMu' = [saveMu EXCEPT ![inst[w]] = Free]
    /\ Forget(w)
    /\ Goto(w, "idle")
    /\ UNCHANGED <<mem, status, inst, fd, disk, history>>

-----------------------------------------------------------------------------
(* The life of an instance.                                                *)

\* Mutant: NewCache is not followed by Load.
ProvisionWithoutLoad(i) ==
    /\ status[i] = "off"
    /\ \A j \in Instances : status[j] \notin {"loaded", "draining"}
    /\ mem' = [mem EXCEPT ![i] = EmptyMap]
    /\ unread' = [unread EXCEPT ![i] = FALSE]
    /\ status' = [status EXCEPT ![i] = "loaded"]
    /\ raced' = (raced \/ \E w \in Writers : pc[w] # "idle")
    /\ UNCHANGED <<saveMu, pc, inst, op, snap, fd, disk, clock, acked, crashes, wiped>>

\* Provision calls Cache.Load.  When the file cannot be read it logs "starting
\* fresh" and succeeds.  At most one instance is being replaced.
Provision(i) ==
    /\ status[i] = "off"
    /\ \A j \in Instances : status[j] \notin {"loaded", "draining"}
    /\ \E readFails \in BOOLEAN :
         /\ mem' = [mem EXCEPT ![i] = IF readFails THEN EmptyMap ELSE Load(file)]
         /\ unread' = [unread EXCEPT ![i] = readFails]
    /\ status' = [status EXCEPT ![i] = "loaded"]
    /\ raced' = (raced \/ \E w \in Writers : pc[w] # "idle")
    /\ UNCHANGED <<saveMu, pc, inst, op, snap, fd, disk, clock, acked, crashes, wiped>>

\* Validate, or another module of the configuration, fails: Caddy drops the
\* new instance and the old one, if any, keeps serving.
Reject(i) ==
    /\ status[i] = "loaded"
    /\ status' = [status EXCEPT ![i] = "off"]
    /\ UNCHANGED <<mem, saveMu, pc, inst, op, snap, fd, disk, history>>

\* Caddy starts the new configuration; the old one gets no new request but
\* its handlers run on.
Start(i) ==
    /\ status[i] = "loaded"
    /\ status' = [j \in Instances |->
                    CASE j = i                  -> "serving"
                      [] status[j] = "serving"  -> "draining"
                      [] OTHER                  -> status[j]]
    /\ UNCHANGED <<mem, saveMu, pc, inst, op, snap, fd, disk, history>>

\* Caddy drops the old instance once its server has shut down.
Cleanup(i) ==
    /\ status[i] = "draining"
    /\ \A w \in Writers : inst[w] = i => pc[w] = "idle"
    /\ status' = [status EXCEPT ![i] = "off"]
    /\ UNCHANGED <<mem, saveMu, pc, inst, op, snap, fd, disk, history>>

\* The process dies; the page cache, hence both paths, survives.
Crash ==
    /\ crashes < MaxCrashes
    /\ \E i \in Instances : status[i] # "off"
    /\ status' = [i \in Instances |-> "off"]
    /\ saveMu' = [i \in Instances |-> Free]
    /\ pc' = [w \in Writers |-> "idle"]
    /\ fd' = [w \in Writers |-> "none"]
    /\ snap' = [w \in Writers |-> EmptyMap]
    /\ op' = [w \in Writers |-> NoCall]
    /\ crashes' = crashes + 1
    \* killed inside write(2): any prefix of the bytes may be there
    /\ tmp'  \in IF \E w \in Writers : fd[w] = "tmp"  THEN {tmp, Torn}  ELSE {tmp}
    /\ file' \in IF \E w \in Writers : fd[w] = "file" THEN {file, Torn} ELSE {file}
    /\ UNCHANGED <<mem, inst, clock, acked, raced, unread, wiped>>

-----------------------------------------------------------------------------
Save(w) ==
    \/ TakeSnapshot(w) \/ LockSave(w)
    \/ MkdirFails(w) \/ OpenTmp(w) \/ OpenFails(w)
    \/ WriteTmp(w) \/ WriteFails(w)
    \/ Rename(w) \/ RenameFails(w) \/ RemoveTmp(w)
    \/ ReturnOK(w) \/ ReturnError(w)

Handler(w) == (\E h \in Hosts : Set(w, h) \/ Delete(w, h)) \/ Save(w)

Lifecycle ==
    \/ \E i \in Instances : Provision(i) \/ Reject(i) \/ Start(i) \/ Cleanup(i)
    \/ Crash

Next == (\E w \in Writers : Handler(w)) \/ Lifecycle

Spec == Init /\ [][Next]_vars

\* A running handler goroutine is scheduled, and sync.Mutex hands the lock to
\* the longest waiter (starvation mode), so LockSave is strongly fair.
Fairness == \A w \in Writers : WF_vars(Save(w)) /\ SF_vars(LockSave(w))

FairSpec == Spec /\ Fairness

-----------------------------------------------------------------------------
(* Properties.                                                             *)

\* The cache file is absent or holds one whole snapshot, never a truncated or
\* mixed one ("Save writes mappings to the cache file atomically"): saveMu
\* keeps two Saves of one Cache off the temporary path, and a partial write
\* is never renamed.
FileWhole == file \notin {Torn, Truncated}

\* When a Save renames, the file holds the caller's own Set or Delete, and nothing
\* on the disk that is older than it gives way to something still older: of the
\* calls that came before its own, a Save loses none that had been saved, unless
\* its instance could not read the file when it was provisioned.
SaveKeepsOlderSaves ==
    [][\A w \in Writers : pc[w] = "written" /\ pc'[w] = "renamed" =>
         /\ Load(file)'[op[w].host].at >= op[w].at
         /\ \A h \in Hosts :
              Load(file)[h].at <= op[w].at /\ ~unread[inst[w]]
                => Load(file)'[h].at >= Load(file)[h].at]_vars

\* A Set or Delete whose Save returned nil is in the file, so it survives a
\* crash ("The mapping is saved and used for all future requests").
AckedDurable == \A h \in Hosts : Load(file)[h].at >= acked[h]

\* The instance that serves requests, if it could read the file, knows every
\* acknowledged call, across crashes and restarts and hot reloads.
AckedServed ==
    \A i \in Instances, h \in Hosts :
        status[i] = "serving" /\ ~unread[i] => mem[i][h].at >= acked[h]

\* As long as no two handlers overlap, and none overlaps a hot reload, both
\* hold: through failed saves, crashes, restarts and reloads.  A file that could
\* not be read loses nothing by itself, only the first Save after that does.
QuietKeepsAcked == ~raced /\ ~wiped => AckedDurable /\ AckedServed

\* When Save is about to return nil to the only handler, disk and the memory
\* of its instance agree, whatever reload is in progress.
SavedIsServed ==
    \A w \in Writers : pc[w] = "renamed" => file = mem[inst[w]]

\* Every handler that changed the map gets back from Save: the error paths
\* release saveMu too, and nobody waits for it for ever.
SaveReturns == \A w \in Writers : (pc[w] # "idle") ~> (pc[w] = "idle")

\* Seen through its snapshots, a Cache is the SnapshotStore.
Store == INSTANCE SnapshotStore WITH
    mem     <- IF \E i \in Instances : status[i] # "off"
                 THEN mem[CHOOSE i \in Instances : status[i] # "off"]
                 ELSE Load(file),
    disk    <- Load(file),
    pending <- {<<w, snap[w]>> : w \in {x \in Writers :
                  pc[x] \in {"snapped", "locked", "opened", "written", "failed"}}}

\* Crashes, failed writes, the temporary file and saveMu are invisible in it:
\* the file only ever goes from one snapshot taken by a live handler to
\* another, and a restart continues from the last one or from nothing.
StoreSpec == Store!Spec
=============================================================================
