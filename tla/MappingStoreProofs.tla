------------------------- MODULE MappingStoreProofs -------------------------
(***************************************************************************)
(* Proofs about MappingStore, for any number of handlers, calls, failures  *)
(* and crashes.  The file is whole, no older change is saved over, and the *)
(* cache is a SnapshotStore while one instance at a time uses the cache    *)
(* file, which is what saveMu can protect; the file and the serving        *)
(* instance keep what was acknowledged as long as handlers do not overlap, *)
(* through hot reloads too.                                                *)
(***************************************************************************)
EXTENDS MappingStore, TLAPS

\* One LLMResolver owns the file: no hot reload is in progress.
OneInstance == \A i, j \in Instances : i = j

\* Only the holder of saveMu is inside Save's critical section.
HoldsSaveMu == \A w \in Writers : pc[w] \in InSave => saveMu[inst[w]] = w

\* The temporary file is what the handler inside Save last did to it.
TmpFollowsSaver ==
    \A w \in Writers :
        /\ pc[w] = "opened" => fd[w] = "tmp" /\ tmp = Truncated
        /\ pc[w] = "written" => tmp = snap[w]
        /\ pc[w] # "opened" => fd[w] = "none"

IInv == TypeOK /\ HoldsSaveMu /\ TmpFollowsSaver /\ FileWhole

-----------------------------------------------------------------------------

LEMMA EmptyMapType == EmptyMap \in Snapshots
  BY DEF EmptyMap, Snapshots, Entry

LEMMA LoadType == ASSUME NEW c \in Contents PROVE Load(c) \in Snapshots
  BY EmptyMapType DEF Load, Contents

LEMMA NoCallType == NoCall \in [host : Hosts, at : Nat] /\ NoCall.at = 0
  BY HostsAssumption DEF NoCall

LEMMA InitTypeOK == Init => TypeOK
<1> SUFFICES ASSUME Init PROVE TypeOK  OBVIOUS
<1>1. file \in Contents /\ tmp \in Contents  BY DEF Init, Contents, Unreadable
<1>2. raced \in BOOLEAN  BY DEF Init
<1>3. /\ inst \in [Writers -> Instances]
      /\ op \in [Writers -> [host : Hosts, at : Nat]]
      /\ status \in [Instances -> {"off", "loaded", "serving", "draining"}]
  BY NoCallType DEF Init
<1> QED  BY <1>1, <1>2, <1>3, EmptyMapType DEF Init, TypeOK, PCs

LEMMA MutateType ==
  ASSUME TypeOK, NEW w \in Writers, NEW h \in Hosts, NEW b \in BOOLEAN,
         Mutate(w, h, b)
  PROVE  TypeOK'
<1>1. clock + 1 \in Nat  BY DEF TypeOK
<1>2. [at |-> clock + 1, on |-> b] \in Entry  BY <1>1 DEF Entry
<1>3. PICK i \in Instances :
        /\ mem' = [mem EXCEPT ![i][h] = [at |-> clock + 1, on |-> b]]
        /\ inst' = [inst EXCEPT ![w] = i]
  BY DEF Mutate
<1>4. mem' \in [Instances -> Snapshots]
  <2>1. mem[i] \in Snapshots  BY DEF TypeOK
  <2>2. [mem[i] EXCEPT ![h] = [at |-> clock + 1, on |-> b]] \in Snapshots
    BY <2>1, <1>2 DEF Snapshots
  <2>3. mem' = [mem EXCEPT ![i] =
                 [mem[i] EXCEPT ![h] = [at |-> clock + 1, on |-> b]]]
    BY <1>3 DEF TypeOK
  <2> QED  BY <2>2, <2>3 DEF TypeOK
<1>5. inst' \in [Writers -> Instances]  BY <1>3 DEF TypeOK
<1>6. op' \in [Writers -> [host : Hosts, at : Nat]]
  BY <1>1 DEF TypeOK, Mutate
<1>7. pc' \in [Writers -> PCs]  BY DEF TypeOK, Mutate, Goto, PCs
<1>8. raced' \in BOOLEAN  BY DEF Mutate
<1>9. UNCHANGED <<status, saveMu, snap, fd, file, tmp, acked, crashes, unread, wiped>>
  BY DEF Mutate, disk
<1>10. clock' \in Nat  BY <1>1 DEF Mutate
<1> QED  BY <1>4, <1>5, <1>6, <1>7, <1>8, <1>9, <1>10 DEF TypeOK

LEMMA SaveType ==
  ASSUME TypeOK, NEW w \in Writers, Save(w)
  PROVE  TypeOK'
<1> USE DEF TypeOK, Goto, PCs, InSave, Forget, disk, history
<1>1. CASE TakeSnapshot(w)  BY <1>1 DEF TakeSnapshot
<1>2. CASE LockSave(w)      BY <1>2 DEF LockSave
<1>3. CASE MkdirFails(w)    BY <1>3 DEF MkdirFails
<1>4. CASE OpenTmp(w)       BY <1>4 DEF OpenTmp, Contents, Unreadable
<1>5. CASE OpenFails(w)     BY <1>5 DEF OpenFails
<1>6. CASE WriteTmp(w)
  <2>1. tmp' \in Contents /\ file' \in Contents
    BY <1>6 DEF WriteTmp, Overwrite, Contents, Unreadable
  <2> QED  BY <2>1, <1>6 DEF WriteTmp
<1>7. CASE WriteFails(w)
  <2>1. tmp' \in Contents /\ file' \in Contents
    BY <1>7 DEF WriteFails, Contents, Unreadable
  <2> QED  BY <2>1, <1>7 DEF WriteFails
<1>8. CASE Rename(w)
  <2>1. tmp' \in Contents /\ file' \in Contents
    BY <1>8 DEF Rename, Contents, Unreadable
  <2>2. fd' \in [Writers -> {"none", "tmp", "file", "gone"}]
    BY <1>8 DEF Rename
  <2>3. wiped' \in BOOLEAN  BY <1>8 DEF Rename
  <2> QED  BY <2>1, <2>2, <2>3, <1>8 DEF Rename
<1>9. CASE RenameFails(w)   BY <1>9 DEF RenameFails
<1>10. CASE RemoveTmp(w)
  <2>1. tmp' \in Contents  BY <1>10 DEF RemoveTmp, Contents, Unreadable
  <2>2. fd' \in [Writers -> {"none", "tmp", "file", "gone"}]
    BY <1>10 DEF RemoveTmp
  <2> QED  BY <2>1, <2>2, <1>10 DEF RemoveTmp
<1>11. CASE ReturnOK(w)     BY <1>11, EmptyMapType, NoCallType DEF ReturnOK
<1>12. CASE ReturnError(w)  BY <1>12, EmptyMapType, NoCallType DEF ReturnError
<1> QED
  BY <1>1, <1>2, <1>3, <1>4, <1>5, <1>6, <1>7, <1>8, <1>9, <1>10, <1>11,
     <1>12 DEF Save

LEMMA LifecycleType == ASSUME TypeOK, Lifecycle PROVE TypeOK'
<1> USE DEF TypeOK, PCs, disk, history
<1>1. CASE \E i \in Instances : Provision(i)
  <2>1. raced' \in BOOLEAN  BY <1>1 DEF Provision
  <2>2. PICK i \in Instances, readFails \in BOOLEAN :
          /\ mem' = [mem EXCEPT ![i] = IF readFails THEN EmptyMap ELSE Load(file)]
          /\ unread' = [unread EXCEPT ![i] = readFails]
          /\ status' = [status EXCEPT ![i] = "loaded"]
    BY <1>1 DEF Provision
  <2>3. mem' \in [Instances -> Snapshots]  BY <2>2, LoadType, EmptyMapType
  <2> QED  BY <1>1, <2>1, <2>2, <2>3 DEF Provision
<1>2. CASE \E i \in Instances : Start(i)
  BY <1>2 DEF Start
<1>3. CASE \E i \in Instances : Cleanup(i) \/ Reject(i)
  BY <1>3 DEF Cleanup, Reject
<1>4. CASE Crash
  <2>1. tmp' \in Contents /\ file' \in Contents
    BY <1>4 DEF Crash, Contents, Unreadable
  <2> QED  BY <2>1, <1>4, EmptyMapType, NoCallType DEF Crash
<1> QED  BY <1>1, <1>2, <1>3, <1>4 DEF Lifecycle

\* Type correctness of the store, for any number of instances and handlers.
THEOREM TypeCorrect == Spec => []TypeOK
<1>1. ASSUME TypeOK, [Next]_vars PROVE TypeOK'
  <2>1. CASE \E w \in Writers : Handler(w)
    <3>1. PICK w \in Writers : Handler(w)  BY <2>1
    <3>2. CASE Save(w)  BY <1>1, <3>2, SaveType
    <3>3. CASE \E h \in Hosts : Set(w, h) \/ Delete(w, h)
      BY <1>1, <3>3, MutateType DEF Set, Delete
    <3> QED  BY <3>1, <3>2, <3>3 DEF Handler
  <2>2. CASE Lifecycle  BY <1>1, <2>2, LifecycleType
  <2>3. CASE UNCHANGED vars  BY <1>1, <2>3 DEF TypeOK, vars
  <2> QED  BY <1>1, <2>1, <2>2, <2>3 DEF Next
<1> QED  BY InitTypeOK, <1>1, PTL DEF Spec

-----------------------------------------------------------------------------
(* The temporary file and saveMu.                                          *)

LEMMA InitIInv == Init => IInv
<1> SUFFICES ASSUME Init PROVE IInv  OBVIOUS
<1>1. TypeOK  BY InitTypeOK
<1>2. \A w \in Writers : pc[w] = "idle" /\ fd[w] = "none"  BY DEF Init
<1>3. FileWhole  BY UnreadableAssumption DEF Init, FileWhole
<1> QED  BY <1>1, <1>2, <1>3 DEF IInv, HoldsSaveMu, TmpFollowsSaver, InSave

\* A handler outside the critical section changes neither path.
LEMMA MutateKeepsIInv ==
  ASSUME IInv, OneInstance, NEW w \in Writers, NEW h \in Hosts,
         NEW b \in BOOLEAN, Mutate(w, h, b)
  PROVE  IInv'
<1>1. TypeOK'  BY MutateType DEF IInv
<1>2. \A x \in Writers : pc'[x] \in InSave => x # w /\ pc'[x] = pc[x]
  BY DEF IInv, TypeOK, Mutate, Goto, InSave
<1>3. \A x \in Writers : inst'[x] = inst[x]
  BY <1>1 DEF OneInstance, IInv, TypeOK
<1>4. HoldsSaveMu'
  BY <1>2, <1>3 DEF IInv, HoldsSaveMu, Mutate
<1>5. TmpFollowsSaver'
  BY DEF IInv, TypeOK, TmpFollowsSaver, Mutate, Goto, disk
<1>6. FileWhole'  BY DEF IInv, FileWhole, Mutate, disk
<1> QED  BY <1>1, <1>4, <1>5, <1>6 DEF IInv

\* With one instance, two handlers are never inside Save together.
LEMMA Alone ==
  ASSUME IInv, OneInstance, NEW w \in Writers, NEW x \in Writers,
         pc[w] \in InSave, pc[x] \in InSave
  PROVE  x = w
  BY DEF IInv, TypeOK, HoldsSaveMu, OneInstance

LEMMA SaveKeepsIInv ==
  ASSUME IInv, OneInstance, NEW w \in Writers, Save(w)
  PROVE  IInv'
<1>1. TypeOK'  BY SaveType DEF IInv
<1>2. \A x \in Writers : x # w => pc'[x] = pc[x]
  BY DEF IInv, TypeOK, Save, TakeSnapshot, LockSave, MkdirFails, OpenTmp,
         OpenFails, WriteTmp, WriteFails, Rename, RenameFails, RemoveTmp,
         ReturnOK, ReturnError, Goto
<1>3. inst' = inst
  BY DEF Save, TakeSnapshot, LockSave, MkdirFails, OpenTmp, OpenFails, WriteTmp,
         WriteFails, Rename, RenameFails, RemoveTmp, ReturnOK, ReturnError
<1>4. CASE pc[w] \in InSave
  <2>1. \A x \in Writers : x # w => pc[x] \notin InSave
    BY <1>4, Alone
  <2>2. \A x \in Writers : x # w => pc[x] \notin {"opened", "written"} /\ fd[x] = "none"
    BY <2>1 DEF IInv, TmpFollowsSaver, InSave
  <2>3. HoldsSaveMu'
    <3>1. pc'[w] \in InSave => saveMu'[inst[w]] = w
      BY <1>4 DEF IInv, TypeOK, HoldsSaveMu, Save, TakeSnapshot, LockSave,
         MkdirFails, OpenTmp, OpenFails, WriteTmp, WriteFails, Rename,
         RenameFails, RemoveTmp, ReturnOK, ReturnError, Goto, InSave
    <3> QED  BY <3>1, <2>1, <1>2, <1>3 DEF HoldsSaveMu
  <2>4. \A x \in Writers : x # w => fd'[x] = "none" /\ pc'[x] \notin {"opened", "written"}
    BY <2>2, <1>2 DEF IInv, TypeOK, Save, TakeSnapshot, LockSave, MkdirFails,
         OpenTmp, OpenFails, WriteTmp, WriteFails, Rename, RenameFails,
         RemoveTmp, ReturnOK, ReturnError
  <2>5. /\ pc'[w] = "opened" => fd'[w] = "tmp" /\ tmp' = Truncated
        /\ pc'[w] = "written" => tmp' = snap'[w]
        /\ pc'[w] # "opened" => fd'[w] = "none"
    <3>1. CASE OpenTmp(w)   BY <3>1 DEF IInv, TypeOK, OpenTmp, Goto
    <3>2. CASE WriteTmp(w)
      BY <3>2 DEF IInv, TypeOK, TmpFollowsSaver, WriteTmp, Overwrite, Goto
    <3>3. CASE ~OpenTmp(w) /\ ~WriteTmp(w)
      BY <3>3, <1>4 DEF IInv, TypeOK, TmpFollowsSaver, Save, TakeSnapshot,
         LockSave, MkdirFails, OpenFails, WriteFails, Rename, RenameFails,
         RemoveTmp, ReturnOK, ReturnError, Goto, InSave
    <3> QED  BY <3>1, <3>2, <3>3
  <2>6. TmpFollowsSaver'  BY <2>4, <2>5 DEF TmpFollowsSaver
  <2>7. FileWhole'
    <3>1. CASE Rename(w)
      <4>1. file' = snap[w]  BY <3>1 DEF IInv, TmpFollowsSaver, Rename
      <4>2. snap[w] \in Snapshots  BY DEF IInv, TypeOK
      <4> QED  BY <4>1, <4>2, UnreadableAssumption DEF FileWhole, Unreadable
    <3>2. CASE ~Rename(w)
      <4>1. fd[w] # "file"
        BY DEF IInv, TmpFollowsSaver
      <4>2. file' = file
        BY <3>2, <4>1, <1>4 DEF Save, TakeSnapshot, LockSave, MkdirFails, OpenTmp,
           OpenFails, WriteTmp, WriteFails, RenameFails, RemoveTmp, ReturnOK,
           ReturnError, disk
      <4> QED  BY <4>2 DEF IInv, FileWhole
    <3> QED  BY <3>1, <3>2
  <2> QED  BY <1>1, <2>3, <2>6, <2>7 DEF IInv
<1>5. CASE pc[w] \notin InSave
  <2>1. TakeSnapshot(w) \/ LockSave(w)
    BY <1>5 DEF Save, MkdirFails, OpenTmp, OpenFails, WriteTmp, WriteFails,
       Rename, RenameFails, RemoveTmp, ReturnOK, ReturnError, InSave
  <2>2. UNCHANGED <<fd, disk>>  BY <2>1 DEF TakeSnapshot, LockSave
  <2>3. pc'[w] \in {"snapped", "locked"}
    BY <2>1 DEF IInv, TypeOK, TakeSnapshot, LockSave, Goto
  <2>4. \A x \in Writers : x # w => snap'[x] = snap[x]
    BY <2>1 DEF IInv, TypeOK, TakeSnapshot, LockSave
  <2>5. TmpFollowsSaver'
    BY <1>2, <1>5, <2>2, <2>3, <2>4 DEF IInv, TmpFollowsSaver, InSave, disk
  <2>6. HoldsSaveMu'
    <3>1. CASE TakeSnapshot(w)
      BY <3>1, <1>2, <1>3 DEF IInv, TypeOK, HoldsSaveMu, TakeSnapshot, Goto, InSave
    <3>2. CASE LockSave(w)
      <4>1. \A x \in Writers : pc[x] \notin InSave
        BY <3>2, FreeAssumption DEF IInv, TypeOK, HoldsSaveMu, OneInstance, LockSave
      <4> QED
        BY <3>2, <4>1, <1>2, <1>3 DEF IInv, TypeOK, HoldsSaveMu, LockSave
    <3> QED  BY <2>1, <3>1, <3>2
  <2>7. FileWhole'  BY <2>2 DEF IInv, FileWhole, disk
  <2> QED  BY <1>1, <2>5, <2>6, <2>7 DEF IInv
<1> QED  BY <1>4, <1>5

LEMMA LifecycleKeepsIInv == ASSUME IInv, Lifecycle PROVE IInv'
<1>1. TypeOK'  BY LifecycleType DEF IInv
<1>2. CASE UNCHANGED <<saveMu, pc, inst, snap, fd, disk>>
  BY <1>1, <1>2 DEF IInv, HoldsSaveMu, TmpFollowsSaver, FileWhole, disk
<1>3. CASE Crash
  <2>1. \A w \in Writers : pc'[w] = "idle" /\ fd'[w] = "none"  BY <1>3 DEF Crash
  <2>2. file' = file
    BY <1>3 DEF IInv, TmpFollowsSaver, Crash
  <2> QED
    BY <1>1, <2>1, <2>2 DEF IInv, HoldsSaveMu, TmpFollowsSaver, FileWhole, InSave
<1> QED  BY <1>2, <1>3 DEF Lifecycle, Provision, Reject, Start, Cleanup

\* The strengthening of FileWhole is inductive.
LEMMA IInvInductive ==
  ASSUME OneInstance, IInv, [Next]_vars
  PROVE  IInv'
<1>1. CASE \E w \in Writers : Handler(w)
  <2>1. PICK w \in Writers : Handler(w)  BY <1>1
  <2>2. CASE Save(w)  BY <2>2, SaveKeepsIInv
  <2>3. CASE \E h \in Hosts : Set(w, h) \/ Delete(w, h)
    BY <2>3, MutateKeepsIInv DEF Set, Delete
  <2> QED  BY <2>1, <2>2, <2>3 DEF Handler
<1>2. CASE Lifecycle  BY <1>2, LifecycleKeepsIInv
<1>3. CASE UNCHANGED vars
  BY <1>3 DEF IInv, TypeOK, HoldsSaveMu, TmpFollowsSaver, FileWhole, vars
<1> QED  BY <1>1, <1>2, <1>3 DEF Next

\* While one instance owns the cache file, a reader of the file never sees a
\* truncated or mixed one, for any number of handlers, crashes and I/O errors.
THEOREM FileAlwaysWhole == OneInstance => (Spec => []FileWhole)
<1>1. OneInstance /\ Init => IInv  BY InitIInv
<1>2. OneInstance /\ IInv /\ [Next]_vars => IInv'  BY IInvInductive
<1>3. IInv => FileWhole  BY DEF IInv
<1>4. OneInstance => []OneInstance  OBVIOUS
<1> QED  BY <1>1, <1>2, <1>3, <1>4, PTL DEF Spec

-----------------------------------------------------------------------------
(* Handlers that do not overlap.                                           *)

\* One handler changes mappings.
OneWriter == \A w, x \in Writers : w = x

\* No two handlers have been active together.
Apart == OneWriter \/ ~raced

\* The handler is between its change and the end of its Save.
Active(w) == pc[w] # "idle"

\* One handler at a time, and one instance that takes requests.
OneActive  == Apart => \A w, x \in Writers : Active(w) /\ Active(x) => w = x
OneServing ==
    \A i, j \in Instances : status[i] = "serving" /\ status[j] = "serving" => i = j

\* Caddy keeps an instance until its handlers are through.
ActiveRuns ==
    \A w \in Writers : Active(w) => status[inst[w]] \in {"serving", "draining"}

\* A descriptor is open only while its handler writes.
Descriptors == \A w \in Writers : fd[w] # "none" => pc[w] = "opened"

\* A handler that is alone saves what its instance holds now: nobody changes
\* the map, or the temporary file, under it.
SavesItsMap ==
    Apart => \A w \in Writers :
        /\ pc[w] = "opened" => fd[w] = "tmp" /\ tmp = Truncated
        /\ pc[w] \in {"snapped", "locked", "opened", "written"} =>
             snap[w] = mem[inst[w]]
        /\ pc[w] = "written" => tmp = snap[w]
        /\ pc[w] = "renamed" => file = mem[inst[w]]

\* The inductive invariant of a handler alone.
WInv == /\ TypeOK
        /\ OneActive /\ OneServing /\ ActiveRuns /\ Descriptors
        /\ SavesItsMap

\* What is acknowledged or being saved was stamped by the clock.
StampsKnown ==
    /\ \A h \in Hosts : acked[h] <= clock
    /\ \A w \in Writers : op[w].at <= clock

\* An active handler has the serving instance to itself, its own change in it.
Undisturbed ==
    ~raced => \A w \in Writers : Active(w) =>
        /\ status[inst[w]] = "serving"
        /\ \A i \in Instances : status[i] # "loaded"
        /\ mem[inst[w]][op[w].host].at >= op[w].at

\* The file has what was acknowledged, and so do the instances that serve, or
\* will, if they have read it.
KeepsAcked ==
    ~raced /\ ~wiped => \A h \in Hosts :
        /\ Load(file)[h].at >= acked[h]
        /\ \A i \in Instances :
             status[i] \in {"loaded", "serving"} /\ ~unread[i] =>
               mem[i][h].at >= acked[h]

\* The inductive invariant of handlers that never overlap.
DInv == WInv /\ StampsKnown /\ Undisturbed /\ KeepsAcked

-----------------------------------------------------------------------------
(* A handler alone.                                                        *)

LEMMA InitDInv == Init => DInv
<1> SUFFICES ASSUME Init PROVE DInv  OBVIOUS
<1>1. TypeOK  BY InitTypeOK
<1>2. \A w \in Writers : pc[w] = "idle" /\ fd[w] = "none"  BY DEF Init
<1>3. OneServing  BY DEF Init, OneServing
<1>4. WInv
  BY <1>1, <1>2, <1>3 DEF WInv, OneActive, Active, ActiveRuns, Descriptors, SavesItsMap
<1>5. StampsKnown  BY NoCallType DEF Init, StampsKnown
<1>6. \A h \in Hosts : EmptyMap[h].at = 0  BY DEF EmptyMap
<1>7. file \in Unreadable  BY DEF Init, Unreadable
<1>8. Load(file) = EmptyMap  BY <1>7 DEF Load
<1>9. KeepsAcked  BY <1>6, <1>8 DEF Init, KeepsAcked
<1> QED  BY <1>2, <1>4, <1>5, <1>9 DEF DInv, Undisturbed, Active

LEMMA MutateKeepsWInv ==
  ASSUME WInv, NEW w \in Writers, NEW h \in Hosts, NEW b \in BOOLEAN, Mutate(w, h, b)
  PROVE  WInv'
<1> USE DEF WInv, Active, Apart
<1>1. TypeOK'  BY MutateType
<1>2. PICK i \in Instances :
        /\ status[i] \in {"serving", "draining"}
        /\ mem' = [mem EXCEPT ![i][h] = [at |-> clock + 1, on |-> b]]
        /\ inst' = [inst EXCEPT ![w] = i]
  BY DEF Mutate
<1>3. /\ pc' = [pc EXCEPT ![w] = "mutated"] /\ pc[w] = "idle"
      /\ UNCHANGED <<status, snap, fd, file, tmp>>
  BY DEF Mutate, Goto, disk
<1>4. Apart' => Apart /\ \A x \in Writers : x # w => pc[x] = "idle"
  BY <1>3 DEF Mutate, OneWriter
<1>5. pc'[w] = "mutated" /\ \A x \in Writers : x # w => pc'[x] = pc[x]
  BY <1>3 DEF TypeOK
<1>6. OneActive'  BY <1>4, <1>5 DEF OneActive
<1>7. OneServing'  BY <1>3 DEF OneServing
<1>8. ActiveRuns'
  <2>1. inst'[w] = i /\ \A x \in Writers : x # w => inst'[x] = inst[x]
    BY <1>2 DEF TypeOK
  <2> QED  BY <1>2, <1>3, <1>5, <2>1 DEF ActiveRuns
<1>9. Descriptors'  BY <1>3, <1>5 DEF Descriptors
<1>10. SavesItsMap'  BY <1>4, <1>5 DEF SavesItsMap
<1> QED  BY <1>1, <1>6, <1>7, <1>8, <1>9, <1>10

\* What no step of Save changes.
LEMMA SaveFrame ==
  ASSUME TypeOK, NEW w \in Writers, Save(w)
  PROVE  /\ UNCHANGED <<mem, status, inst, raced, unread>>
         /\ wiped' = wiped \/ (wiped' = (wiped \/ unread[inst[w]]) /\ Rename(w))
         /\ pc[w] # "idle"
         /\ \A x \in Writers : x # w => pc'[x] = pc[x]
<1> USE DEF TypeOK, Goto, Forget, disk, history
<1>1. CASE TakeSnapshot(w)  BY <1>1 DEF TakeSnapshot
<1>2. CASE LockSave(w)      BY <1>2 DEF LockSave
<1>3. CASE MkdirFails(w)    BY <1>3 DEF MkdirFails
<1>4. CASE OpenTmp(w)       BY <1>4 DEF OpenTmp
<1>5. CASE OpenFails(w)     BY <1>5 DEF OpenFails
<1>6. CASE WriteTmp(w)      BY <1>6 DEF WriteTmp
<1>7. CASE WriteFails(w)    BY <1>7 DEF WriteFails
<1>8. CASE Rename(w)        BY <1>8 DEF Rename
<1>9. CASE RenameFails(w)   BY <1>9 DEF RenameFails
<1>10. CASE RemoveTmp(w)    BY <1>10 DEF RemoveTmp
<1>11. CASE ReturnOK(w)     BY <1>11 DEF ReturnOK
<1>12. CASE ReturnError(w)  BY <1>12 DEF ReturnError
<1> QED
  BY <1>1, <1>2, <1>3, <1>4, <1>5, <1>6, <1>7, <1>8, <1>9, <1>10, <1>11,
     <1>12 DEF Save

\* What SavesItsMap says of the handler that makes a step of Save.
LEMMA SaveSavesItsMap ==
  ASSUME WInv, NEW w \in Writers, Save(w), Apart
  PROVE  /\ pc'[w] = "opened" => fd'[w] = "tmp" /\ tmp' = Truncated
         /\ pc'[w] \in {"snapped", "locked", "opened", "written"} =>
              snap'[w] = mem[inst[w]]
         /\ pc'[w] = "written" => tmp' = snap'[w]
         /\ pc'[w] = "renamed" => file' = mem[inst[w]]
<1> USE DEF WInv, TypeOK, SavesItsMap, Descriptors, Goto, Forget, disk, history
<1>1. CASE TakeSnapshot(w)  BY <1>1 DEF TakeSnapshot
<1>2. CASE LockSave(w)      BY <1>2 DEF LockSave
<1>3. CASE MkdirFails(w)    BY <1>3 DEF MkdirFails
<1>4. CASE OpenTmp(w)       BY <1>4 DEF OpenTmp
<1>5. CASE OpenFails(w)     BY <1>5 DEF OpenFails
<1>6. CASE WriteTmp(w)      BY <1>6 DEF WriteTmp, Overwrite
<1>7. CASE WriteFails(w)    BY <1>7 DEF WriteFails
<1>8. CASE Rename(w)        BY <1>8 DEF Rename
<1>9. CASE RenameFails(w)   BY <1>9 DEF RenameFails
<1>10. CASE RemoveTmp(w)    BY <1>10 DEF RemoveTmp
<1>11. CASE ReturnOK(w)     BY <1>11 DEF ReturnOK
<1>12. CASE ReturnError(w)  BY <1>12 DEF ReturnError
<1> QED
  BY <1>1, <1>2, <1>3, <1>4, <1>5, <1>6, <1>7, <1>8, <1>9, <1>10, <1>11,
     <1>12 DEF Save

LEMMA SaveKeepsDescriptors ==
  ASSUME TypeOK, Descriptors, NEW w \in Writers, Save(w)
  PROVE  Descriptors'
<1> USE DEF TypeOK, Descriptors, Goto, Forget, disk, history
<1>1. CASE OpenTmp(w)    BY <1>1 DEF OpenTmp
<1>2. CASE WriteTmp(w)   BY <1>2 DEF WriteTmp
<1>3. CASE WriteFails(w) BY <1>3 DEF WriteFails
<1>4. CASE Rename(w)
  <2>1. \A x \in Writers : fd'[x] # "none" => fd[x] # "none"  BY <1>4 DEF Rename
  <2> QED  BY <1>4, <2>1 DEF Rename
<1>5. CASE RemoveTmp(w)
  <2>1. \A x \in Writers : fd'[x] # "none" => fd[x] # "none"  BY <1>5 DEF RemoveTmp
  <2> QED  BY <1>5, <2>1 DEF RemoveTmp
<1>6. CASE TakeSnapshot(w) \/ LockSave(w) \/ MkdirFails(w) \/ OpenFails(w)
           \/ RenameFails(w) \/ ReturnOK(w) \/ ReturnError(w)
  <2>1. fd' = fd /\ pc[w] # "opened"
    BY <1>6 DEF TakeSnapshot, LockSave, MkdirFails, OpenFails, RenameFails, ReturnOK,
       ReturnError
  <2>2. \A x \in Writers : x # w => pc'[x] = pc[x]  BY SaveFrame
  <2> QED  BY <2>1, <2>2
<1> QED  BY <1>1, <1>2, <1>3, <1>4, <1>5, <1>6 DEF Save

LEMMA SaveKeepsWInv == ASSUME WInv, NEW w \in Writers, Save(w) PROVE WInv'
<1> USE DEF Active, Apart
<1>1. TypeOK'  BY SaveType DEF WInv
<1>2. /\ UNCHANGED <<mem, status, inst, raced>>
      /\ pc[w] # "idle"
      /\ \A x \in Writers : x # w => pc'[x] = pc[x]
  BY SaveFrame DEF WInv
<1>3. OneActive'  BY <1>2 DEF WInv, OneActive
<1>4. OneServing'  BY <1>2 DEF WInv, OneServing
<1>5. ActiveRuns'  BY <1>2 DEF WInv, ActiveRuns
<1>6. Descriptors'  BY SaveKeepsDescriptors DEF WInv
<1>7. SavesItsMap'
  <2>1. SUFFICES ASSUME Apart PROVE SavesItsMap'  BY <1>2 DEF SavesItsMap
  <2>2. \A x \in Writers : x # w => pc'[x] = "idle"
    BY <1>2, <2>1 DEF WInv, OneActive
  <2> QED  BY <1>2, <2>1, <2>2, SaveSavesItsMap DEF SavesItsMap
<1> QED  BY <1>1, <1>3, <1>4, <1>5, <1>6, <1>7 DEF WInv

LEMMA LifecycleKeepsWInv == ASSUME WInv, Lifecycle PROVE WInv'
<1> USE DEF Active, Apart, OneWriter
<1>1. TypeOK'  BY LifecycleType DEF WInv
<1>2. ASSUME NEW i \in Instances, Provision(i) PROVE WInv'
  <2>1. /\ UNCHANGED <<pc, inst, snap, fd, file, tmp>>
        /\ status[i] = "off" /\ status' = [status EXCEPT ![i] = "loaded"]
        /\ \A j \in Instances : j # i => mem'[j] = mem[j]
        /\ raced => raced'
    BY <1>2 DEF Provision, disk, WInv, TypeOK
  <2>2. \A w \in Writers : pc[w] # "idle" => inst[w] # i /\ inst[w] \in Instances
    BY <2>1 DEF WInv, ActiveRuns, TypeOK
  <2>3. ActiveRuns'  BY <2>1, <2>2 DEF WInv, ActiveRuns, TypeOK
  <2>4. OneServing'  BY <2>1 DEF WInv, OneServing, TypeOK
  <2>5. \A w \in Writers : pc[w] # "idle" => mem'[inst'[w]] = mem[inst[w]]
    BY <2>1, <2>2 DEF WInv, TypeOK
  <2>6. SavesItsMap'  BY <2>1, <2>5 DEF WInv, SavesItsMap
  <2> QED  BY <1>1, <2>1, <2>3, <2>4, <2>6 DEF WInv, OneActive, Descriptors
<1>3. ASSUME NEW i \in Instances, Start(i) PROVE WInv'
  <2>1. UNCHANGED <<mem, pc, inst, snap, fd, file, tmp, raced>>
    BY <1>3 DEF Start, disk, history
  <2>2. \A j \in Instances :
          status'[j] = IF j = i THEN "serving"
                       ELSE IF status[j] = "serving" THEN "draining" ELSE status[j]
    BY <1>3 DEF Start
  <2>3. OneServing'  BY <2>2 DEF OneServing
  <2>4. ActiveRuns'  BY <2>1, <2>2 DEF WInv, ActiveRuns, TypeOK
  <2> QED
    BY <1>1, <2>1, <2>3, <2>4 DEF WInv, OneActive, Descriptors, SavesItsMap
<1>4. ASSUME NEW i \in Instances, Cleanup(i) \/ Reject(i) PROVE WInv'
  <2>1. UNCHANGED <<mem, pc, inst, snap, fd, file, tmp, raced>>
    BY <1>4 DEF Cleanup, Reject, disk, history
  <2>2. /\ status' = [status EXCEPT ![i] = "off"]
        /\ \A w \in Writers : inst[w] = i => pc[w] = "idle"
    BY <1>4 DEF Cleanup, Reject, WInv, ActiveRuns
  <2>3. OneServing'  BY <2>2 DEF WInv, OneServing, TypeOK
  <2>4. ActiveRuns'  BY <2>1, <2>2 DEF WInv, ActiveRuns, TypeOK
  <2> QED
    BY <1>1, <2>1, <2>3, <2>4 DEF WInv, OneActive, Descriptors, SavesItsMap
<1>5. CASE Crash
  <2>1. /\ \A w \in Writers : pc'[w] = "idle" /\ fd'[w] = "none"
        /\ \A i \in Instances : status'[i] = "off"
    BY <1>5 DEF Crash
  <2> QED
    BY <1>1, <2>1 DEF WInv, OneActive, OneServing, ActiveRuns, Descriptors, SavesItsMap
<1> QED  BY <1>2, <1>3, <1>4, <1>5 DEF Lifecycle

LEMMA WInvInductive == WInv /\ [Next]_vars => WInv'
<1> SUFFICES ASSUME WInv, [Next]_vars PROVE WInv'  OBVIOUS
<1>1. ASSUME NEW w \in Writers, Handler(w) PROVE WInv'
  <2>1. CASE Save(w)  BY <2>1, SaveKeepsWInv
  <2>2. CASE \E h \in Hosts : Set(w, h) \/ Delete(w, h)
    BY <2>2, MutateKeepsWInv DEF Set, Delete
  <2> QED  BY <1>1, <2>1, <2>2 DEF Handler
<1>2. CASE Lifecycle  BY <1>2, LifecycleKeepsWInv
<1>3. CASE UNCHANGED vars
  BY <1>3 DEF vars, WInv, TypeOK, OneActive, OneServing, ActiveRuns, Descriptors,
     SavesItsMap, Active, Apart
<1> QED  BY <1>1, <1>2, <1>3 DEF Next

\* With one handler, the file is what its instance holds whenever Save is about to
\* report success, through hot reloads, failed saves and crashes.
THEOREM OneHandlerSavesAll == OneWriter => (Spec => []SavedIsServed)
<1>1. OneWriter /\ WInv => SavedIsServed
  BY DEF WInv, SavesItsMap, Apart, SavedIsServed
<1>2. Init => WInv  BY InitDInv DEF DInv
<1>3. OneWriter => []OneWriter  BY DEF OneWriter
<1> QED  BY <1>1, <1>2, <1>3, WInvInductive, PTL DEF Spec

-----------------------------------------------------------------------------
(* Handlers that never overlap.                                            *)

\* A snapshot that is read back is the map it was taken of.
LEMMA LoadSnapshot == ASSUME NEW s \in Snapshots PROVE Load(s) = s
  BY UnreadableAssumption DEF Load

LEMMA MutateKeepsDInv ==
  ASSUME DInv, NEW w \in Writers, NEW h \in Hosts, NEW b \in BOOLEAN, Mutate(w, h, b)
  PROVE  DInv'
<1> USE DEF Active
<1>1. WInv'  BY MutateKeepsWInv DEF DInv
<1>2. TypeOK  BY DEF DInv, WInv
<1>3. PICK i \in Instances :
        /\ ~raced' => status[i] = "serving"
        /\ mem' = [mem EXCEPT ![i][h] = [at |-> clock + 1, on |-> b]]
        /\ inst' = [inst EXCEPT ![w] = i]
  BY DEF Mutate
<1>4. /\ pc' = [pc EXCEPT ![w] = "mutated"]
      /\ op' = [op EXCEPT ![w] = [host |-> h, at |-> clock + 1]]
      /\ clock' = clock + 1
      /\ UNCHANGED <<status, file, acked, unread, wiped>>
  BY DEF Mutate, Goto, disk
<1>5. ~raced' => /\ ~raced
                 /\ \A x \in Writers : pc[x] = "idle"
                 /\ \A j \in Instances : status[j] # "loaded"
  BY DEF Mutate
<1>6. /\ \A j \in Instances, g \in Hosts :
           mem'[j][g].at = IF j = i /\ g = h THEN clock + 1 ELSE mem[j][g].at
  <2>1. \A j \in Instances : mem[j] \in Snapshots  BY <1>2 DEF TypeOK
  <2>2. \A j \in Instances : j # i => mem'[j] = mem[j]  BY <1>2, <1>3 DEF TypeOK
  <2>3. mem'[i] = [mem[i] EXCEPT ![h] = [at |-> clock + 1, on |-> b]]
    BY <1>2, <1>3 DEF TypeOK
  <2>4. \A g \in Hosts : mem'[i][g] = IF g = h THEN [at |-> clock + 1, on |-> b]
                                      ELSE mem[i][g]
    BY <2>1, <2>3 DEF Snapshots
  <2> QED  BY <2>2, <2>4
<1>7. \A g \in Hosts : acked[g] \in Nat /\ acked[g] <= clock /\ clock \in Nat
  BY <1>2 DEF DInv, StampsKnown, TypeOK
<1>8. StampsKnown'
  <2>1. \A x \in Writers : op[x].at \in Nat /\ op[x].at <= clock
    BY <1>2 DEF DInv, StampsKnown, TypeOK
  <2>2. \A x \in Writers : op'[x].at = IF x = w THEN clock + 1 ELSE op[x].at
    BY <1>2, <1>4 DEF TypeOK
  <2>3. clock \in Nat  BY <1>2 DEF TypeOK
  <2> QED  BY <1>4, <1>7, <2>1, <2>2, <2>3 DEF StampsKnown
<1>9. Undisturbed'
  <2>1. SUFFICES ASSUME ~raced' PROVE Undisturbed'  BY DEF Undisturbed
  <2>2. \A x \in Writers : pc'[x] # "idle" => x = w
    BY <1>2, <1>4, <1>5, <2>1 DEF TypeOK
  <2>3. inst'[w] = i /\ op'[w] = [host |-> h, at |-> clock + 1]
    BY <1>2, <1>3, <1>4 DEF TypeOK
  <2>4. mem'[i][h].at >= clock + 1  BY <1>6, <1>7
  <2> QED  BY <1>3, <1>4, <1>5, <2>1, <2>2, <2>3, <2>4 DEF Undisturbed
<1>10. KeepsAcked'
  <2>1. SUFFICES ASSUME ~raced', ~wiped, NEW g \in Hosts
                 PROVE  /\ Load(file)[g].at >= acked[g]
                        /\ \A j \in Instances :
                             status[j] \in {"loaded", "serving"} /\ ~unread[j] =>
                               mem'[j][g].at >= acked[g]
    BY <1>4 DEF KeepsAcked, Load
  <2>2. /\ Load(file)[g].at >= acked[g]
        /\ \A j \in Instances :
             status[j] \in {"loaded", "serving"} /\ ~unread[j] =>
               mem[j][g].at >= acked[g]
    BY <1>5, <2>1 DEF DInv, KeepsAcked
  <2>3. clock + 1 >= acked[g]  BY <1>7
  <2> QED  BY <1>6, <2>2, <2>3
<1> QED  BY <1>1, <1>8, <1>9, <1>10 DEF DInv

\* Save acknowledges the stamp of its caller, and no other.
LEMMA SaveAcks ==
  ASSUME TypeOK, NEW w \in Writers, Save(w)
  PROVE  /\ clock' = clock
         /\ \/ acked' = acked
            \/ /\ pc[w] = "renamed" /\ pc'[w] = "idle" /\ file' = file
               /\ acked' = [acked EXCEPT ![op[w].host] =
                              IF op[w].at > @ THEN op[w].at ELSE @]
         /\ pc'[w] = "idle" \/ op' = op
         /\ \A x \in Writers : op'[x].at \in {op[x].at, 0}
         /\ \A x \in Writers : x # w => op'[x] = op[x]
<1> USE DEF TypeOK, Goto, Forget, disk, history
<1>1. CASE TakeSnapshot(w)  BY <1>1 DEF TakeSnapshot
<1>2. CASE LockSave(w)      BY <1>2 DEF LockSave
<1>3. CASE MkdirFails(w)    BY <1>3 DEF MkdirFails
<1>4. CASE OpenTmp(w)       BY <1>4 DEF OpenTmp
<1>5. CASE OpenFails(w)     BY <1>5 DEF OpenFails
<1>6. CASE WriteTmp(w)      BY <1>6 DEF WriteTmp
<1>7. CASE WriteFails(w)    BY <1>7 DEF WriteFails
<1>8. CASE Rename(w)        BY <1>8 DEF Rename
<1>9. CASE RenameFails(w)   BY <1>9 DEF RenameFails
<1>10. CASE RemoveTmp(w)    BY <1>10 DEF RemoveTmp
<1>11. CASE ReturnOK(w)     BY <1>11, NoCallType DEF ReturnOK
<1>12. CASE ReturnError(w)  BY <1>12, NoCallType DEF ReturnError
<1> QED
  BY <1>1, <1>2, <1>3, <1>4, <1>5, <1>6, <1>7, <1>8, <1>9, <1>10, <1>11,
     <1>12 DEF Save

\* Only a rename changes the file, if its handler is alone.
LEMMA SaveKeepsFile ==
  ASSUME WInv, Apart, NEW w \in Writers, Save(w)
  PROVE  \/ file' = file
         \/ file' = mem[inst[w]] /\ (~wiped' => ~unread[inst[w]])
<1> USE DEF WInv, TypeOK, SavesItsMap, disk
<1>1. CASE Rename(w)
  BY <1>1 DEF Rename
<1>2. CASE WriteTmp(w) \/ WriteFails(w)
  BY <1>2 DEF WriteTmp, WriteFails
<1>3. CASE ~Rename(w) /\ ~WriteTmp(w) /\ ~WriteFails(w)
  BY <1>3 DEF Save, TakeSnapshot, LockSave, MkdirFails, OpenTmp, OpenFails,
     RenameFails, RemoveTmp, ReturnOK, ReturnError
<1> QED  BY <1>1, <1>2, <1>3

LEMMA SaveKeepsDInv == ASSUME DInv, NEW w \in Writers, Save(w) PROVE DInv'
<1> USE DEF Active, Apart
<1>1. WInv /\ WInv' /\ TypeOK  BY SaveKeepsWInv DEF DInv, WInv
<1>2. /\ UNCHANGED <<mem, status, inst, raced, unread>>
      /\ wiped => wiped'
      /\ pc[w] # "idle"
      /\ \A x \in Writers : x # w => pc'[x] = pc[x]
  BY <1>1, SaveFrame
<1>3. /\ \A h \in Hosts : acked[h] \in Nat /\ acked[h] <= clock
      /\ \A x \in Writers : op[x].at \in Nat /\ op[x].at <= clock /\ op[x].host \in Hosts
      /\ clock \in Nat
  BY <1>1 DEF DInv, StampsKnown, TypeOK
<1>4. \A h \in Hosts :
        \/ acked'[h] = acked[h]
        \/ /\ acked'[h] = op[w].at /\ h = op[w].host
           /\ pc[w] = "renamed" /\ pc'[w] = "idle" /\ file' = file
  BY <1>1, SaveAcks DEF TypeOK
<1>5. StampsKnown'
  <2>1. clock' = clock /\ \A x \in Writers : op'[x].at \in {op[x].at, 0}
    BY <1>1, SaveAcks
  <2> QED  BY <1>3, <1>4, <2>1 DEF StampsKnown
<1>6. Undisturbed'
  <2>1. SUFFICES ASSUME ~raced, NEW x \in Writers, pc'[x] # "idle"
                 PROVE  /\ status[inst[x]] = "serving"
                        /\ \A i \in Instances : status[i] # "loaded"
                        /\ mem[inst[x]][op'[x].host].at >= op'[x].at
    BY <1>2 DEF Undisturbed
  <2>2. x = w  BY <1>1, <1>2, <2>1 DEF WInv, OneActive
  <2>3. op' = op  BY <1>1, <2>1, <2>2, SaveAcks
  <2> QED  BY <1>2, <2>1, <2>2, <2>3 DEF DInv, Undisturbed
<1>7. KeepsAcked'
  <2>1. SUFFICES ASSUME ~raced, ~wiped', NEW h \in Hosts
                 PROVE  /\ Load(file')[h].at >= acked'[h]
                        /\ \A i \in Instances :
                             status[i] \in {"loaded", "serving"} /\ ~unread[i] =>
                               mem[i][h].at >= acked'[h]
    BY <1>2 DEF KeepsAcked, Load
  <2> DEFINE m == mem[inst[w]]
  <2>2. /\ Load(file)[h].at >= acked[h]
        /\ \A i \in Instances :
             status[i] \in {"loaded", "serving"} /\ ~unread[i] =>
               mem[i][h].at >= acked[h]
    BY <1>2, <2>1 DEF DInv, KeepsAcked
  <2>3. /\ inst[w] \in Instances /\ status[inst[w]] = "serving"
        /\ \A i \in Instances : status[i] \in {"loaded", "serving"} => i = inst[w]
        /\ m[op[w].host].at >= op[w].at
    BY <1>1, <1>2, <2>1 DEF DInv, WInv, Undisturbed, OneServing, TypeOK
  <2>4. Load(m) = m  BY <1>1, <2>3, LoadSnapshot DEF TypeOK
  <2>5. CASE acked'[h] = acked[h]
    <3>1. file' = file \/ (file' = m /\ ~unread[inst[w]])
      BY <1>1, <2>1, SaveKeepsFile
    <3> QED  BY <2>2, <2>3, <2>4, <2>5, <3>1
  <2>6. CASE acked'[h] # acked[h]
    <3>1. /\ acked'[h] = op[w].at /\ h = op[w].host
          /\ pc[w] = "renamed" /\ file' = file
      BY <1>4, <2>6
    <3>2. file = m  BY <1>1, <2>1, <3>1 DEF WInv, SavesItsMap
    <3> QED  BY <2>3, <2>4, <3>1, <3>2
  <2> QED  BY <2>5, <2>6
<1> QED  BY <1>1, <1>5, <1>6, <1>7 DEF DInv

LEMMA LifecycleKeepsDInv == ASSUME DInv, Lifecycle PROVE DInv'
<1> USE DEF Active, Apart
<1>1. WInv /\ WInv' /\ TypeOK  BY LifecycleKeepsWInv DEF DInv, WInv
<1>2. UNCHANGED <<acked, clock, wiped>>
  BY DEF Lifecycle, Provision, Reject, Start, Cleanup, Crash, disk, history
<1>3. StampsKnown'
  <2>1. op' = op \/ \A w \in Writers : op'[w].at = 0
    BY NoCallType DEF Lifecycle, Provision, Reject, Start, Cleanup, Crash
  <2> QED  BY <1>1, <1>2, <2>1 DEF DInv, StampsKnown, TypeOK
<1>4. ASSUME NEW i \in Instances, Provision(i) PROVE DInv'
  <2>r. PICK readFails \in BOOLEAN :
          /\ mem' = [mem EXCEPT ![i] = IF readFails THEN EmptyMap ELSE Load(file)]
          /\ unread' = [unread EXCEPT ![i] = readFails]
    BY <1>4 DEF Provision
  <2>m. /\ mem'[i] = IF readFails THEN EmptyMap ELSE Load(file)
        /\ unread'[i] = readFails
        /\ \A j \in Instances :
             j # i => mem'[j] = mem[j] /\ unread'[j] = unread[j]
    BY <1>1, <2>r DEF TypeOK
  <2>1. /\ UNCHANGED <<pc, inst, op, file>>
        /\ status' = [status EXCEPT ![i] = "loaded"]
        /\ ~unread'[i] => mem'[i] = Load(file)
        /\ ~raced' => ~raced /\ \A w \in Writers : pc[w] = "idle"
    BY <1>4, <2>m DEF Provision, disk
  <2>2. Undisturbed'  BY <2>1 DEF Undisturbed
  <2>3. KeepsAcked'
    <3>1. SUFFICES ASSUME ~raced', ~wiped, NEW h \in Hosts
                   PROVE  /\ Load(file)[h].at >= acked[h]
                          /\ \A j \in Instances :
                               status'[j] \in {"loaded", "serving"} /\ ~unread'[j] =>
                                 mem'[j][h].at >= acked[h]
      BY <1>2, <2>1 DEF KeepsAcked, Load
    <3>2. Load(file)[h].at >= acked[h]
      BY <2>1, <3>1 DEF DInv, KeepsAcked
    <3>3. \A j \in Instances :
            status[j] \in {"loaded", "serving"} /\ ~unread[j] =>
              mem[j][h].at >= acked[h]
      BY <2>1, <3>1 DEF DInv, KeepsAcked
    <3>4. \A j \in Instances : j # i => status'[j] = status[j]
      BY <1>1, <2>1 DEF TypeOK
    <3> QED  BY <2>1, <2>m, <3>2, <3>3, <3>4
  <2> QED  BY <1>1, <1>3, <2>2, <2>3 DEF DInv
<1>5. ASSUME NEW i \in Instances, Start(i) PROVE DInv'
  <2>1. /\ UNCHANGED <<mem, pc, inst, op, file, raced, unread>> /\ status[i] = "loaded"
        /\ \A j \in Instances :
             status'[j] = IF j = i THEN "serving"
                          ELSE IF status[j] = "serving" THEN "draining" ELSE status[j]
    BY <1>5 DEF Start, disk, history
  <2>2. Undisturbed'  BY <2>1 DEF DInv, Undisturbed
  <2>3. KeepsAcked'  BY <1>2, <2>1 DEF DInv, KeepsAcked
  <2> QED  BY <1>1, <1>3, <2>2, <2>3 DEF DInv
<1>6. ASSUME NEW i \in Instances, Cleanup(i) \/ Reject(i) PROVE DInv'
  <2>1. /\ UNCHANGED <<mem, pc, inst, op, file, raced, unread>>
        /\ status[i] \in {"draining", "loaded"}
        /\ status' = [status EXCEPT ![i] = "off"]
    BY <1>6 DEF Cleanup, Reject, disk, history
  <2>2. Undisturbed'
    BY <1>1, <1>2, <2>1 DEF DInv, Undisturbed, TypeOK
  <2>3. KeepsAcked'  BY <1>1, <1>2, <2>1 DEF DInv, KeepsAcked, TypeOK
  <2> QED  BY <1>1, <1>3, <2>2, <2>3 DEF DInv
<1>7. CASE Crash
  <2>1. /\ \A w \in Writers : pc'[w] = "idle"
        /\ \A i \in Instances : status'[i] = "off"
        /\ raced' = raced
    BY <1>7 DEF Crash
  <2>2. ~raced => file' = file
    BY <1>1, <1>7 DEF Crash, WInv, SavesItsMap, Descriptors
  <2>3. KeepsAcked'  BY <1>2, <2>1, <2>2 DEF DInv, KeepsAcked, Load
  <2> QED  BY <1>1, <1>3, <2>1, <2>3 DEF DInv, Undisturbed
<1> QED  BY <1>4, <1>5, <1>6, <1>7 DEF Lifecycle

LEMMA DInvInductive == DInv /\ [Next]_vars => DInv'
<1> SUFFICES ASSUME DInv, [Next]_vars PROVE DInv'  OBVIOUS
<1>1. ASSUME NEW w \in Writers, Handler(w) PROVE DInv'
  <2>1. CASE Save(w)  BY <2>1, SaveKeepsDInv
  <2>2. CASE \E h \in Hosts : Set(w, h) \/ Delete(w, h)
    BY <2>2, MutateKeepsDInv DEF Set, Delete
  <2> QED  BY <1>1, <2>1, <2>2 DEF Handler
<1>2. CASE Lifecycle  BY <1>2, LifecycleKeepsDInv
<1>3. CASE UNCHANGED vars
  <2>1. WInv'  BY <1>3, WInvInductive DEF DInv
  <2> QED
    BY <1>3, <2>1 DEF vars, DInv, StampsKnown, Undisturbed, KeepsAcked, Active
<1> QED  BY <1>1, <1>2, <1>3 DEF Next

\* As long as no two handlers overlapped, and none a hot reload, and no instance
\* that could not read the file saved over it, a Set or Delete whose Save returned
\* nil is on disk, and in the instance that serves if that one could read the file:
\* for any number of handlers, instances, failed saves, reloads and crashes.
THEOREM QuietSavesLast == Spec => []QuietKeepsAcked
<1>1. DInv => QuietKeepsAcked
  BY DEF DInv, KeepsAcked, QuietKeepsAcked, AckedDurable, AckedServed
<1> QED  BY <1>1, InitDInv, DInvInductive, PTL DEF Spec

-----------------------------------------------------------------------------
(* The refinement: one Cache is a SnapshotStore.                           *)

\* Where a handler has a snapshot that it may still write.
Saving == {"snapped", "locked", "opened", "written", "failed"}

\* What the refinement mapping gives the abstract store.
AbsMem     == IF \E i \in Instances : status[i] # "off"
                THEN mem[CHOOSE i \in Instances : status[i] # "off"]
                ELSE Load(file)
AbsPending == {<<w, snap[w]>> : w \in {x \in Writers : pc[x] \in Saving}}

\* And so was every entry of a map.
Stamped(m) == \A h \in Hosts : m[h].at <= clock
AllStamped ==
    /\ \A i \in Instances : Stamped(mem[i])
    /\ \A w \in Writers : Stamped(snap[w])
    /\ Stamped(Load(file))

\* What the refinement rests on.
RInv == IInv /\ WInv /\ AllStamped

LEMMA EmptyStamped == TypeOK => Stamped(EmptyMap)
  BY DEF TypeOK, Stamped, EmptyMap

LEMMA MutateStamps ==
  ASSUME RInv, NEW w \in Writers, NEW h \in Hosts, NEW b \in BOOLEAN, Mutate(w, h, b),
         TypeOK'
  PROVE  AllStamped'
<1>1. TypeOK /\ clock \in Nat /\ clock' = clock + 1 /\ UNCHANGED <<snap, file>>
  BY DEF RInv, WInv, TypeOK, Mutate, disk
<1>2. PICK i \in Instances :
        mem' = [mem EXCEPT ![i][h] = [at |-> clock + 1, on |-> b]]
  BY DEF Mutate
<1>3. ASSUME NEW m \in Snapshots, Stamped(m) PROVE \A g \in Hosts : m[g].at <= clock + 1
  BY <1>1, <1>3 DEF Stamped, Snapshots, Entry
<1>4. ASSUME NEW j \in Instances, NEW g \in Hosts PROVE mem'[j][g].at <= clock + 1
  <2>1. mem[j] \in Snapshots /\ mem[j][g].at <= clock + 1
    BY <1>1, <1>3 DEF RInv, AllStamped, TypeOK
  <2>2. CASE j # i  BY <1>1, <1>2, <2>1, <2>2 DEF TypeOK
  <2>3. CASE j = i
    <3>1. mem'[i] = [mem[i] EXCEPT ![h] = [at |-> clock + 1, on |-> b]]
      BY <1>1, <1>2 DEF TypeOK
    <3>2. mem'[i][g] = IF g = h THEN [at |-> clock + 1, on |-> b] ELSE mem[i][g]
      BY <2>1, <2>3, <3>1 DEF Snapshots
    <3> QED  BY <1>1, <2>1, <2>3, <3>2
  <2> QED  BY <2>2, <2>3
<1>5. \A x \in Writers, g \in Hosts : snap[x][g].at <= clock + 1
  BY <1>1, <1>3 DEF RInv, AllStamped, TypeOK
<1>6. Load(file) \in Snapshots  BY <1>1, LoadType DEF TypeOK
<1>7. \A g \in Hosts : Load(file)[g].at <= clock + 1
  BY <1>3, <1>6 DEF RInv, AllStamped
<1> QED  BY <1>1, <1>4, <1>5, <1>7 DEF AllStamped, Stamped

\* What Save does to snapshots, in one instance or with any other.
LEMMA SaveSnaps ==
  ASSUME IInv, NEW w \in Writers, Save(w)
  PROVE  /\ \A x \in Writers : x # w => snap'[x] = snap[x]
         /\ \/ TakeSnapshot(w) /\ pc[w] = "mutated" /\ pc'[w] = "snapped"
               /\ snap'[w] = mem[inst[w]] /\ file' = file
            \/ pc[w] \in Saving /\ pc'[w] \in Saving /\ snap'[w] = snap[w] /\ file' = file
            \/ pc[w] \in Saving /\ pc'[w] \notin Saving /\ snap'[w] = snap[w]
               /\ file' = file
            \/ pc[w] = "written" /\ pc'[w] = "renamed" /\ snap'[w] = snap[w]
               /\ file' = snap[w]
            \/ pc[w] \notin Saving /\ pc'[w] = "idle" /\ snap'[w] = EmptyMap
               /\ file' = file
<1> USE DEF IInv, TypeOK, TmpFollowsSaver, Saving, Goto, Forget, disk, history
<1>1. CASE TakeSnapshot(w)  BY <1>1 DEF TakeSnapshot
<1>2. CASE LockSave(w)      BY <1>2 DEF LockSave
<1>3. CASE MkdirFails(w)    BY <1>3 DEF MkdirFails
<1>4. CASE OpenTmp(w)       BY <1>4 DEF OpenTmp
<1>5. CASE OpenFails(w)     BY <1>5 DEF OpenFails
<1>6. CASE WriteTmp(w)      BY <1>6 DEF WriteTmp
<1>7. CASE WriteFails(w)    BY <1>7 DEF WriteFails
<1>8. CASE Rename(w)        BY <1>8 DEF Rename
<1>9. CASE RenameFails(w)   BY <1>9 DEF RenameFails
<1>10. CASE RemoveTmp(w)    BY <1>10 DEF RemoveTmp
<1>11. CASE ReturnOK(w)     BY <1>11 DEF ReturnOK
<1>12. CASE ReturnError(w)  BY <1>12 DEF ReturnError
<1> QED
  BY <1>1, <1>2, <1>3, <1>4, <1>5, <1>6, <1>7, <1>8, <1>9, <1>10, <1>11,
     <1>12 DEF Save

LEMMA SaveStamps ==
  ASSUME RInv, NEW w \in Writers, Save(w)
  PROVE  AllStamped'
<1>1. TypeOK /\ clock' = clock /\ mem' = mem
  BY SaveAcks, SaveFrame DEF RInv, WInv
<1>2. \A i \in Instances : Stamped(mem[i])'
  BY <1>1 DEF RInv, AllStamped, Stamped
<1>3. \A x \in Writers : Stamped(snap[x]) /\ Stamped(EmptyMap) /\ Stamped(mem[inst[x]])
  BY <1>1, EmptyStamped DEF RInv, AllStamped, TypeOK
<1>4. ASSUME NEW x \in Writers PROVE Stamped(snap[x])'
  <2>1. snap'[x] \in {snap[x], mem[inst[x]], EmptyMap}  BY SaveSnaps DEF RInv
  <2> QED  BY <1>1, <1>3, <2>1 DEF Stamped
<1>5. Stamped(Load(file))'
  <2>1. file' = file \/ file' = snap[w]  BY SaveSnaps DEF RInv
  <2>2. Load(snap[w]) = snap[w]  BY <1>1, LoadSnapshot DEF TypeOK
  <2> QED  BY <1>1, <1>3, <2>1, <2>2 DEF RInv, AllStamped, Stamped
<1> QED  BY <1>2, <1>4, <1>5 DEF AllStamped

LEMMA LifecycleStamps == ASSUME RInv, Lifecycle PROVE AllStamped'
<1>1. TypeOK /\ clock' = clock /\ Stamped(EmptyMap)
  BY EmptyStamped DEF RInv, WInv, Lifecycle, Provision, Reject, Start, Cleanup, Crash,
     history
<1>2. file' = file
  BY DEF RInv, IInv, TmpFollowsSaver, Lifecycle, Provision, Reject, Start, Cleanup,
     Crash, disk
<1>3. \A i \in Instances : mem'[i] \in {mem[i], Load(file), EmptyMap}
  BY <1>1 DEF Lifecycle, Provision, Reject, Start, Cleanup, Crash, TypeOK
<1>4. \A w \in Writers : snap'[w] = snap[w] \/ snap'[w] = EmptyMap
  BY DEF Lifecycle, Provision, Reject, Start, Cleanup, Crash
<1> QED  BY <1>1, <1>2, <1>3, <1>4 DEF RInv, AllStamped, Stamped

LEMMA RInvInductive == OneInstance /\ RInv /\ [Next]_vars => RInv'
<1> SUFFICES ASSUME OneInstance, RInv, [Next]_vars PROVE RInv'  OBVIOUS
<1>1. IInv' /\ WInv'  BY IInvInductive, WInvInductive DEF RInv
<1>2. ASSUME NEW w \in Writers, Handler(w) PROVE AllStamped'
  <2>1. CASE Save(w)  BY <2>1, SaveStamps
  <2>2. CASE \E h \in Hosts : Set(w, h) \/ Delete(w, h)
    BY <1>1, <2>2, MutateStamps DEF Set, Delete, IInv
  <2> QED  BY <1>2, <2>1, <2>2 DEF Handler
<1>3. CASE Lifecycle  BY <1>1, <1>3, LifecycleStamps DEF RInv
<1>4. CASE UNCHANGED vars
  <2>1. AllStamped'  BY <1>4 DEF vars, RInv, AllStamped, Stamped, Load
  <2> QED  BY <1>1, <2>1 DEF RInv
<1> QED  BY <1>1, <1>2, <1>3, <1>4 DEF Next, RInv

LEMMA InitRInv == Init => RInv
<1> SUFFICES ASSUME Init PROVE RInv  OBVIOUS
<1>1. IInv /\ WInv  BY InitIInv, InitDInv DEF DInv
<1>2. Load(file) = EmptyMap  BY DEF Init, Load, Unreadable
<1>3. Stamped(EmptyMap)  BY <1>1, EmptyStamped DEF IInv
<1> QED  BY <1>1, <1>2, <1>3 DEF Init, RInv, AllStamped

\* With one instance the abstract memory is its map while it runs.
LEMMA MemOf ==
  ASSUME OneInstance, NEW i \in Instances
  PROVE  /\ AbsMem = IF status[i] # "off" THEN mem[i] ELSE Load(file)
         /\ AbsMem' = IF status'[i] # "off" THEN mem'[i] ELSE Load(file')
<1>1. \A j \in Instances : j = i  BY DEF OneInstance
<1>2. AbsMem = IF status[i] # "off" THEN mem[i] ELSE Load(file)
  <2>1. status[i] # "off" => (CHOOSE j \in Instances : status[j] # "off") = i
    BY <1>1
  <2> QED  BY <1>1, <2>1 DEF AbsMem
<1>3. AbsMem' = IF status'[i] # "off" THEN mem'[i] ELSE Load(file')
  <2>1. status'[i] # "off" => (CHOOSE j \in Instances : status'[j] # "off") = i
    BY <1>1
  <2> QED  BY <1>1, <2>1 DEF AbsMem
<1> QED  BY <1>2, <1>3

\* How the pending snapshots follow the place of the one handler that moves.
LEMMA PendingFollows ==
  ASSUME NEW w \in Writers,
         \A x \in Writers : x # w => pc'[x] = pc[x] /\ snap'[x] = snap[x]
  PROVE  /\ (pc[w] \in Saving <=> pc'[w] \in Saving)
              /\ (pc[w] \in Saving => snap'[w] = snap[w])
              => AbsPending' = AbsPending
         /\ pc[w] \notin Saving /\ pc'[w] \in Saving
              => AbsPending' = AbsPending \cup {<<w, snap'[w]>>}
         /\ pc[w] \in Saving /\ pc'[w] \notin Saving
              => AbsPending' = AbsPending \ {<<w, snap[w]>>}
         /\ pc[w] \in Saving => <<w, snap[w]>> \in AbsPending
         /\ pc[w] \notin Saving => \A p \in AbsPending : p[1] # w
<1> USE DEF AbsPending
<1>1. ASSUME (pc[w] \in Saving <=> pc'[w] \in Saving),
             pc[w] \in Saving => snap'[w] = snap[w]
      PROVE  AbsPending' = AbsPending
  BY <1>1
<1>2. ASSUME pc[w] \notin Saving, pc'[w] \in Saving
      PROVE  AbsPending' = AbsPending \cup {<<w, snap'[w]>>}
  BY <1>2
<1>3. ASSUME pc[w] \in Saving, pc'[w] \notin Saving
      PROVE  AbsPending' = AbsPending \ {<<w, snap[w]>>}
  BY <1>3
<1> QED  BY <1>1, <1>2, <1>3

LEMMA StoreInit == Init => Store!Init
<1> SUFFICES ASSUME Init PROVE Store!Init  OBVIOUS
<1>1. Load(file) = EmptyMap  BY DEF Init, Load, Unreadable
<1>2. AbsMem = EmptyMap  BY <1>1 DEF Init, AbsMem
<1>3. AbsPending = {}  BY DEF Init, AbsPending, Saving
<1> QED  BY <1>1, <1>2, <1>3 DEF Store!Init, Store!Nothing, AbsMem, AbsPending, Saving,
     EmptyMap

\* A change of the map is one of the abstract memory.
LEMMA MutateImplements ==
  ASSUME OneInstance, RInv, NEW w \in Writers, NEW h \in Hosts, NEW b \in BOOLEAN,
         Mutate(w, h, b)
  PROVE  Store!Next
<1>1. PICK i \in Instances :
        /\ status[i] # "off"
        /\ mem' = [mem EXCEPT ![i][h] = [at |-> clock + 1, on |-> b]]
  BY DEF Mutate
<1>2. TypeOK /\ clock \in Nat /\ clock + 1 \in 0..MaxOps
  BY BoundsAssumption DEF RInv, WInv, TypeOK, Mutate
<1>3. UNCHANGED <<status, snap, file>>  BY DEF Mutate, disk
<1>e. PICK e \in Store!Entry : e = [at |-> clock + 1, on |-> b]
  BY <1>2 DEF Store!Entry
<1>4. AbsMem = mem[i] /\ AbsMem' = mem'[i]  BY <1>1, <1>3, MemOf
<1>5. AbsMem' = [AbsMem EXCEPT ![h] = e]  BY <1>1, <1>2, <1>4, <1>e DEF TypeOK
<1>6. e.at > AbsMem[h].at
  <2>1. AbsMem[h].at \in Nat /\ AbsMem[h].at <= clock
    BY <1>2, <1>4 DEF RInv, AllStamped, Stamped, TypeOK, Snapshots, Entry
  <2> QED  BY <1>2, <1>e, <2>1
<1>7. AbsPending' = AbsPending
  <2>1. pc[w] \notin Saving /\ pc'[w] \notin Saving /\ \A x \in Writers : x # w =>
          pc'[x] = pc[x] /\ snap'[x] = snap[x]
    BY <1>2, <1>3 DEF Mutate, Goto, TypeOK, Saving
  <2> QED  BY <2>1, PendingFollows
<1>8. Store!Mutate(h, e)
  BY <1>3, <1>5, <1>6, <1>7 DEF Store!Mutate, AbsMem, AbsPending, Saving
<1> QED  BY <1>8 DEF Store!Next

\* A step of Save takes, commits or abandons a snapshot, or is not seen.
LEMMA SaveImplements ==
  ASSUME OneInstance, RInv, NEW w \in Writers, Save(w)
  PROVE  Store!Next \/ UNCHANGED Store!vars
<1>1. IInv /\ TypeOK /\ UNCHANGED <<mem, status, inst>> /\ pc[w] # "idle"
        /\ \A x \in Writers : x # w => pc'[x] = pc[x] /\ snap'[x] = snap[x]
  BY SaveFrame, SaveSnaps DEF RInv, WInv
<1>2. status[inst[w]] # "off"  BY <1>1 DEF RInv, WInv, ActiveRuns, Active
<1>3. AbsMem = mem[inst[w]] /\ AbsMem' = AbsMem  BY <1>1, <1>2, MemOf DEF TypeOK
<1>4. CASE TakeSnapshot(w) /\ pc[w] = "mutated" /\ pc'[w] = "snapped"
             /\ snap'[w] = mem[inst[w]] /\ file' = file
  <2>1. pc[w] \notin Saving /\ pc'[w] \in Saving  BY <1>4 DEF Saving
  <2>2. AbsPending' = AbsPending \cup {<<w, AbsMem>>} /\ \A p \in AbsPending : p[1] # w
    BY <1>1, <1>3, <1>4, <2>1, PendingFollows
  <2>3. Store!Take(w)
    BY <1>3, <1>4, <2>2 DEF Store!Take, AbsMem, AbsPending, Saving
  <2> QED  BY <2>3 DEF Store!Next
<1>5. ASSUME (pc[w] \in Saving <=> pc'[w] \in Saving),
             pc[w] \in Saving => snap'[w] = snap[w], file' = file
      PROVE  UNCHANGED Store!vars
  <2>1. AbsPending' = AbsPending  BY <1>1, <1>5, PendingFollows
  <2> QED  BY <1>3, <1>5, <2>1 DEF Store!vars, AbsMem, AbsPending, Saving
<1>6. CASE pc[w] \in Saving /\ pc'[w] \notin Saving /\ snap'[w] = snap[w]
             /\ file' = file
  <2>1. PICK p \in AbsPending : AbsPending' = AbsPending \ {p}
    BY <1>1, <1>6, PendingFollows
  <2>2. Store!Abandon(p)
    BY <1>3, <1>6, <2>1 DEF Store!Abandon, AbsMem, AbsPending, Saving
  <2> QED  BY <2>1, <2>2 DEF Store!Next, AbsPending, Saving
<1>7. CASE pc[w] = "written" /\ pc'[w] = "renamed" /\ snap'[w] = snap[w]
             /\ file' = snap[w]
  <2>1. PICK p \in AbsPending :
          p = <<w, snap[w]>> /\ AbsPending' = AbsPending \ {p}
    BY <1>1, <1>7, PendingFollows DEF Saving
  <2>2. Load(file') = p[2]  BY <1>1, <1>7, <2>1, LoadSnapshot DEF TypeOK
  <2>3. Store!Commit(p)
    BY <1>3, <2>1, <2>2 DEF Store!Commit, AbsMem, AbsPending, Saving
  <2> QED  BY <2>1, <2>3 DEF Store!Next, AbsPending, Saving
<1>8. CASE pc[w] \notin Saving /\ pc'[w] = "idle" /\ file' = file
  BY <1>5, <1>8 DEF Saving
<1>9. CASE pc[w] \in Saving /\ pc'[w] \in Saving /\ snap'[w] = snap[w] /\ file' = file
  BY <1>5, <1>9
<1> QED  BY <1>1, <1>4, <1>6, <1>7, <1>8, <1>9, SaveSnaps

\* Starting an instance, or loading the file, is not seen; a file that cannot be
\* read, or the end of an instance, is a restart.
LEMMA LifecycleImplements ==
  ASSUME OneInstance, RInv, Lifecycle
  PROVE  Store!Next \/ UNCHANGED Store!vars
<1>1. TypeOK  BY DEF RInv, WInv
<1>2. file' = file
  BY DEF RInv, IInv, TmpFollowsSaver, Lifecycle, Provision, Reject, Start, Cleanup,
     Crash, disk
<1>3. ASSUME AbsMem' \in {Load(file), EmptyMap}, AbsPending' = {}
      PROVE  Store!Next
  <2>1. Store!Restart
    BY <1>2, <1>3
    DEF Store!Restart, Store!Nothing, EmptyMap, AbsMem, AbsPending, Saving
  <2> QED  BY <2>1 DEF Store!Next
<1>4. ASSUME AbsMem' = AbsMem, UNCHANGED <<pc, snap>> PROVE UNCHANGED Store!vars
  <2>1. AbsPending' = AbsPending  BY <1>4 DEF AbsPending
  <2> QED  BY <1>2, <1>4, <2>1 DEF Store!vars, AbsMem, AbsPending, Saving
<1>5. ASSUME NEW i \in Instances, Provision(i)
      PROVE  Store!Next \/ UNCHANGED Store!vars
  <2>1. /\ status[i] = "off" /\ status'[i] # "off" /\ UNCHANGED <<pc, snap>>
        /\ mem'[i] \in {Load(file), EmptyMap}
    BY <1>1, <1>5 DEF Provision, TypeOK
  <2>2. CASE mem'[i] = Load(file)
    <3>1. AbsMem' = AbsMem  BY <2>1, <2>2, MemOf
    <3> QED  BY <1>4, <2>1, <3>1
  <2>3. CASE mem'[i] = EmptyMap
    <3>1. \A w \in Writers : pc'[w] = "idle"
      BY <1>1, <2>1 DEF RInv, WInv, ActiveRuns, Active, TypeOK, OneInstance
    <3>2. AbsPending' = {}  BY <3>1 DEF AbsPending, Saving
    <3>3. AbsMem' = EmptyMap  BY <2>1, <2>3, MemOf
    <3> QED  BY <1>3, <3>2, <3>3
  <2> QED  BY <2>1, <2>2, <2>3
<1>6. ASSUME NEW i \in Instances, Start(i) PROVE UNCHANGED Store!vars
  <2>1. /\ status[i] # "off" /\ status'[i] # "off"
        /\ UNCHANGED <<mem, pc, snap>>
    BY <1>6 DEF Start
  <2>2. AbsMem' = AbsMem  BY <2>1, MemOf
  <2> QED  BY <1>4, <2>1, <2>2
<1>7. ASSUME NEW i \in Instances, Cleanup(i) \/ Reject(i) PROVE Store!Next
  <2>1. status'[i] = "off"  BY <1>1, <1>7 DEF Cleanup, Reject, TypeOK
  <2>2. \A w \in Writers : pc'[w] = "idle"
    BY <1>1, <1>7
    DEF Cleanup, Reject, RInv, WInv, ActiveRuns, Active, TypeOK, OneInstance
  <2>3. AbsPending' = {}  BY <2>2 DEF AbsPending, Saving
  <2>4. AbsMem' = Load(file)  BY <1>2, <2>1, MemOf
  <2> QED  BY <1>3, <2>3, <2>4
<1>8. CASE Crash
  <2>1. PICK i \in Instances : status'[i] = "off"  BY <1>8 DEF Crash
  <2>2. AbsPending' = {}  BY <1>8 DEF Crash, AbsPending, Saving
  <2>3. AbsMem' = Load(file)  BY <1>2, <2>1, MemOf
  <2> QED  BY <1>3, <2>2, <2>3
<1> QED  BY <1>5, <1>6, <1>7, <1>8 DEF Lifecycle

\* Without a hot reload in progress the Cache, with its temporary file, its lock,
\* its failed reads and writes and its crashes, is the snapshot store: for any
\* number of handlers, hosts, calls and crashes.
THEOREM CacheIsSnapshotStore == OneInstance => (Spec => StoreSpec)
<1>1. OneInstance /\ RInv /\ [Next]_vars => Store!Next \/ UNCHANGED Store!vars
  <2> SUFFICES ASSUME OneInstance, RInv, [Next]_vars
               PROVE  Store!Next \/ UNCHANGED Store!vars
    OBVIOUS
  <2>1. ASSUME NEW w \in Writers, Handler(w)
        PROVE  Store!Next \/ UNCHANGED Store!vars
    BY <2>1, MutateImplements, SaveImplements DEF Handler, Set, Delete
  <2>2. CASE UNCHANGED vars
    BY <2>2 DEF vars, Store!vars, Load
  <2> QED  BY <2>1, <2>2, LifecycleImplements DEF Next
<1>2. OneInstance => []OneInstance  BY DEF OneInstance
<1> QED
  BY <1>1, <1>2, InitRInv, RInvInductive, StoreInit, PTL DEF Spec, StoreSpec, Store!Spec

-----------------------------------------------------------------------------
(* What a Save writes over.                                                *)

\* At each host, map m has something newer than w's change or no newer than w's
\* snapshot.
NothingOlder(w, m) == \A h \in Hosts : m[h].at > op[w].at \/ m[h].at <= snap[w][h].at

\* The map in memory is the newest there is, but for what a file that could not
\* be read has.
MemoryIsNewest ==
    \A i \in Instances : status[i] # "off" =>
        /\ ~unread[i] => \A h \in Hosts : Load(file)[h].at <= mem[i][h].at
        /\ \A w \in Writers, h \in Hosts :
             pc[w] \in Saving => snap[w][h].at <= mem[i][h].at
        /\ \A w \in Writers :
             Active(w) => mem[i][op[w].host].at >= op[w].at

\* A snapshot has its handler's change, and whatever came before it.
SnapshotsMissNothing ==
    \A w \in Writers : pc[w] \in Saving =>
        /\ snap[w][op[w].host].at >= op[w].at
        /\ NothingOlder(w, mem[inst[w]])
        /\ ~unread[inst[w]] => NothingOlder(w, Load(file))
        /\ \A x \in Writers : pc[x] \in Saving => NothingOlder(w, snap[x])

\* The inductive invariant of the order in which snapshots land.
OInv == RInv /\ DInv /\ MemoryIsNewest /\ SnapshotsMissNothing

LEMMA StampsAreNumbers ==
  ASSUME TypeOK
  PROVE  /\ \A i \in Instances, h \in Hosts : mem[i][h].at \in Nat
         /\ \A w \in Writers, h \in Hosts : snap[w][h].at \in Nat
         /\ \A h \in Hosts : Load(file)[h].at \in Nat
         /\ \A w \in Writers : op[w].at \in Nat /\ op[w].host \in Hosts
BY LoadType DEF TypeOK, Snapshots, Entry

LEMMA MutateKeepsOrder ==
  ASSUME OInv, OneInstance, NEW u \in Writers, NEW g \in Hosts, NEW b \in BOOLEAN,
         Mutate(u, g, b), TypeOK'
  PROVE  MemoryIsNewest' /\ SnapshotsMissNothing'
<1>1. TypeOK /\ IInv /\ AllStamped /\ StampsKnown /\ clock \in Nat
  BY DEF OInv, RInv, DInv, WInv, TypeOK
<1>2. UNCHANGED <<status, snap, file, unread>>  BY DEF Mutate, disk
<1>3. PICK i \in Instances :
        /\ status[i] # "off"
        /\ mem' = [mem EXCEPT ![i][g] = [at |-> clock + 1, on |-> b]]
  BY DEF Mutate
<1>4. \A j \in Instances : j = i  BY DEF OneInstance
<1>5. \A h \in Hosts : mem'[i][h].at = IF h = g THEN clock + 1 ELSE mem[i][h].at
  BY <1>1, <1>3 DEF TypeOK, Snapshots
<1>6. \A h \in Hosts : mem[i][h].at <= mem'[i][h].at
  BY <1>1, <1>5, StampsAreNumbers DEF AllStamped, Stamped
<1>7. /\ pc[u] = "idle" /\ pc'[u] = "mutated"
      /\ op'[u].host = g /\ op'[u].at = clock + 1
      /\ \A w \in Writers : w # u => pc'[w] = pc[w] /\ op'[w] = op[w]
  BY <1>1 DEF Mutate, Goto, TypeOK
<1>8. \A w \in Writers : pc'[w] \in Saving => w # u /\ pc[w] \in Saving
  BY <1>7 DEF Saving
<1>9. \A j \in Instances, h \in Hosts : mem'[j][h].at \in Nat
  BY StampsAreNumbers, <1>1, <1>4, <1>5
<1>10. /\ ~unread[i] => \A h \in Hosts : Load(file)[h].at <= mem[i][h].at
       /\ \A w \in Writers, h \in Hosts :
            pc[w] \in Saving => snap[w][h].at <= mem[i][h].at
       /\ \A w \in Writers :
            Active(w) => mem[i][op[w].host].at >= op[w].at
  BY <1>3 DEF OInv, MemoryIsNewest
<1>11. MemoryIsNewest'
  <2>1. ~unread[i] => \A h \in Hosts : Load(file)[h].at <= mem'[i][h].at
    BY <1>1, <1>6, <1>9, <1>10, StampsAreNumbers
  <2>2. ASSUME NEW w \in Writers, NEW h \in Hosts, pc'[w] \in Saving
        PROVE  snap[w][h].at <= mem'[i][h].at
    BY <1>1, <1>6, <1>8, <1>9, <1>10, <2>2, StampsAreNumbers
  <2>3. ASSUME NEW w \in Writers, pc'[w] # "idle"
        PROVE  mem'[i][op'[w].host].at >= op'[w].at
    <3>1. CASE w = u  BY <1>1, <1>5, <1>7, <3>1
    <3>2. CASE w # u
      BY <1>1, <1>6, <1>7, <1>9, <1>10, <2>3, <3>2, StampsAreNumbers DEF Active
    <3> QED  BY <3>1, <3>2
  <2> QED  BY <1>2, <1>4, <2>1, <2>2, <2>3 DEF MemoryIsNewest, Active
<1>12. ASSUME NEW w \in Writers, pc'[w] \in Saving
       PROVE  /\ snap[w][op[w].host].at >= op[w].at
              /\ ~unread[i] => NothingOlder(w, Load(file))
              /\ \A x \in Writers : pc'[x] \in Saving => NothingOlder(w, snap[x])
              /\ op'[w] = op[w]
              /\ \A h \in Hosts : mem'[i][h].at > op[w].at
                                    \/ mem'[i][h].at <= snap[w][h].at
  <2>1. w # u /\ pc[w] \in Saving  BY <1>8, <1>12
  <2>2. \A h \in Hosts : mem[i][h].at > op[w].at \/ mem[i][h].at <= snap[w][h].at
    BY <1>1, <1>4, <2>1 DEF OInv, SnapshotsMissNothing, NothingOlder, TypeOK
  <2>3. op[w].at <= clock  BY <1>1 DEF StampsKnown
  <2>4. \A h \in Hosts : mem'[i][h].at > op[w].at \/ mem'[i][h].at <= snap[w][h].at
    BY <1>1, <1>5, <2>2, <2>3, StampsAreNumbers
  <2>5. inst[w] = i  BY <1>1, <1>4 DEF TypeOK
  <2> QED  BY <1>7, <1>8, <2>1, <2>4, <2>5 DEF OInv, SnapshotsMissNothing
<1>13. \A w \in Writers : inst'[w] = i  BY <1>4 DEF TypeOK
<1> QED  BY <1>2, <1>11, <1>12, <1>13 DEF SnapshotsMissNothing, NothingOlder, Load

LEMMA SaveKeepsOrder ==
  ASSUME OInv, OneInstance, NEW u \in Writers, Save(u)
  PROVE  MemoryIsNewest' /\ SnapshotsMissNothing'
<1>1. /\ TypeOK /\ IInv /\ UNCHANGED <<mem, status, inst, unread>> /\ pc[u] # "idle"
      /\ \A x \in Writers : x # u =>
           pc'[x] = pc[x] /\ snap'[x] = snap[x] /\ op'[x] = op[x]
      /\ pc'[u] = "idle" \/ op' = op
  BY SaveFrame, SaveSnaps, SaveAcks DEF OInv, RInv, WInv
<1>2. PICK i \in Instances : status[i] # "off"
  BY <1>1 DEF OInv, RInv, WInv, ActiveRuns, Active, TypeOK
<1>3. \A j \in Instances : j = i  BY DEF OneInstance
<1>4. \A w \in Writers : inst[w] = i  BY <1>1, <1>3 DEF TypeOK
<1>5. /\ ~unread[i] => \A h \in Hosts : Load(file)[h].at <= mem[i][h].at
      /\ \A w \in Writers, h \in Hosts :
           pc[w] \in Saving => snap[w][h].at <= mem[i][h].at
      /\ \A w \in Writers :
           Active(w) => mem[i][op[w].host].at >= op[w].at
  BY <1>2 DEF OInv, MemoryIsNewest
<1>6. \/ pc'[u] = "snapped" /\ snap'[u] = mem[i] /\ file' = file
      \/ pc[u] \in Saving /\ snap'[u] = snap[u] /\ file' = file
      \/ pc[u] = "written" /\ pc'[u] \notin Saving /\ file' = snap[u]
      \/ pc'[u] \notin Saving /\ file' = file
  BY <1>1, <1>4, SaveSnaps DEF Saving
<1>7. Load(snap[u]) = snap[u]  BY <1>1, LoadSnapshot DEF TypeOK
<1>8. MemoryIsNewest'
  <2>1. ~unread[i] => \A h \in Hosts : Load(file')[h].at <= mem[i][h].at
    BY <1>5, <1>6, <1>7 DEF Saving
  <2>2. ASSUME NEW w \in Writers, NEW h \in Hosts, pc'[w] \in Saving
        PROVE  snap'[w][h].at <= mem[i][h].at
    BY <1>1, <1>2, <1>5, <1>6, <2>2, StampsAreNumbers DEF Saving
  <2>3. ASSUME NEW w \in Writers, pc'[w] # "idle"
        PROVE  mem[i][op'[w].host].at >= op'[w].at
    BY <1>1, <1>5, <2>3 DEF Active
  <2> QED  BY <1>1, <1>3, <2>1, <2>2, <2>3 DEF MemoryIsNewest, Active
<1>9. \A w \in Writers : pc[w] \in Saving =>
        /\ snap[w][op[w].host].at >= op[w].at
        /\ NothingOlder(w, mem[i])
        /\ ~unread[i] => NothingOlder(w, Load(file))
        /\ \A x \in Writers : pc[x] \in Saving => NothingOlder(w, snap[x])
  BY <1>4 DEF OInv, SnapshotsMissNothing
<1>10. ASSUME NEW w \in Writers, pc'[w] \in Saving
       PROVE  /\ op'[w] = op[w]
              /\ snap'[w][op[w].host].at >= op[w].at
              /\ NothingOlder(w, mem[i])'
              /\ ~unread[i] => NothingOlder(w, Load(file))'
              /\ \A x \in Writers : pc'[x] \in Saving => NothingOlder(w, snap[x])'
  <2>1. op'[w] = op[w]  BY <1>1, <1>10 DEF Saving
  <2>2. CASE w = u /\ pc'[u] = "snapped" /\ snap'[u] = mem[i] /\ file' = file
    <3>1. Active(u)  BY <1>1 DEF Active
    <3>2. \A x \in Writers, h \in Hosts : pc'[x] \in Saving =>
            snap'[x][h].at <= mem[i][h].at
      BY <1>1, <1>2, <1>5, <2>2, StampsAreNumbers
    <3>3. \A h \in Hosts : mem[i][h].at <= mem[i][h].at
      BY <1>1, <1>2, StampsAreNumbers
    <3> QED  BY <1>1, <1>5, <2>1, <2>2, <3>1, <3>2, <3>3 DEF NothingOlder
  <2>3. CASE ~(w = u /\ pc'[u] = "snapped" /\ snap'[u] = mem[i] /\ file' = file)
    <3>1. pc[w] \in Saving /\ snap'[w] = snap[w]
      BY <1>1, <1>6, <1>10, <2>3
    <3>2. file' = file \/ (file' = snap[u] /\ pc[u] \in Saving)
      BY <1>6 DEF Saving
    <3>3. ~unread[i] => NothingOlder(w, Load(file))'
      BY <1>7, <1>9, <2>1, <3>1, <3>2 DEF NothingOlder
    <3>4. ASSUME NEW x \in Writers, pc'[x] \in Saving
          PROVE  NothingOlder(w, snap[x])'
      <4>1. (pc[x] \in Saving /\ snap'[x] = snap[x]) \/ snap'[x] = mem[i]
        BY <1>1, <1>6, <3>4
      <4> QED  BY <1>9, <2>1, <3>1, <4>1 DEF NothingOlder
    <3> QED  BY <1>1, <1>9, <2>1, <3>1, <3>3, <3>4 DEF NothingOlder
  <2> QED  BY <2>2, <2>3
<1>11. SnapshotsMissNothing'
  BY <1>1, <1>4, <1>10 DEF SnapshotsMissNothing, NothingOlder
<1> QED  BY <1>8, <1>11

LEMMA LifecycleKeepsOrder ==
  ASSUME OInv, OneInstance, Lifecycle
  PROVE  MemoryIsNewest' /\ SnapshotsMissNothing'
<1>1. TypeOK /\ file' = file
  BY DEF OInv, RInv, WInv, IInv, TmpFollowsSaver, Lifecycle, Provision, Reject, Start,
     Cleanup, Crash, disk
<1>2. CASE \E i \in Instances : Provision(i)
  <2>1. PICK i \in Instances : Provision(i)  BY <1>2
  <2>2. \A j \in Instances : j = i  BY DEF OneInstance
  <2>3. /\ status[i] = "off" /\ (~unread'[i] => mem'[i] = Load(file))
        /\ UNCHANGED <<pc, inst, op, snap>>
    BY <1>1, <2>1 DEF Provision, TypeOK
  <2>4. \A w \in Writers : pc'[w] = "idle"
    BY <1>1, <2>2, <2>3 DEF OInv, RInv, WInv, ActiveRuns, Active, TypeOK
  <2> QED
    BY <1>1, <2>2, <2>3, <2>4, StampsAreNumbers
    DEF MemoryIsNewest, SnapshotsMissNothing, Saving, Active
<1>3. CASE \E i \in Instances : Start(i)
  <2>1. PICK i \in Instances : Start(i)  BY <1>3
  <2>2. \A j \in Instances : j = i  BY DEF OneInstance
  <2>3. status[i] # "off" /\ UNCHANGED <<mem, pc, inst, op, snap, unread>>
    BY <2>1 DEF Start, history
  <2> QED
    BY <1>1, <2>2, <2>3
    DEF OInv, MemoryIsNewest, SnapshotsMissNothing, NothingOlder, Active, Load
<1>4. CASE \E i \in Instances : Cleanup(i) \/ Reject(i)
  <2>1. PICK i \in Instances : Cleanup(i) \/ Reject(i)  BY <1>4
  <2>2. \A j \in Instances : j = i  BY DEF OneInstance
  <2>3. status'[i] = "off"  BY <1>1, <2>1 DEF Cleanup, Reject, TypeOK
  <2>4. \A w \in Writers : pc'[w] = "idle"
    BY <1>1, <2>1, <2>2
    DEF Cleanup, Reject, OInv, RInv, WInv, ActiveRuns, Active, TypeOK
  <2> QED
    BY <2>2, <2>3, <2>4 DEF MemoryIsNewest, SnapshotsMissNothing, Saving
<1>5. CASE Crash
  BY <1>5 DEF Crash, MemoryIsNewest, SnapshotsMissNothing, Saving
<1> QED  BY <1>2, <1>3, <1>4, <1>5 DEF Lifecycle

LEMMA OInvInductive == OneInstance /\ OInv /\ [Next]_vars => OInv'
<1> SUFFICES ASSUME OneInstance, OInv, [Next]_vars PROVE OInv'  OBVIOUS
<1>1. RInv' /\ DInv' /\ TypeOK'
  BY RInvInductive, DInvInductive DEF OInv, RInv, IInv
<1>2. ASSUME NEW w \in Writers, Handler(w)
      PROVE  MemoryIsNewest' /\ SnapshotsMissNothing'
  BY <1>1, <1>2, MutateKeepsOrder, SaveKeepsOrder DEF Handler, Set, Delete
<1>3. ASSUME UNCHANGED vars PROVE MemoryIsNewest' /\ SnapshotsMissNothing'
  BY <1>3 DEF vars, OInv, MemoryIsNewest, SnapshotsMissNothing, NothingOlder,
     Active, Load
<1> QED
  BY <1>1, <1>2, <1>3, LifecycleKeepsOrder DEF Next, OInv

LEMMA InitOInv == Init => OInv
<1> SUFFICES ASSUME Init PROVE OInv  OBVIOUS
<1>1. Load(file) = EmptyMap /\ (\A h \in Hosts : EmptyMap[h].at = 0)
  BY DEF Init, Load, Unreadable, EmptyMap
<1> QED
  BY <1>1, InitRInv, InitDInv
  DEF Init, OInv, MemoryIsNewest, SnapshotsMissNothing, Saving, Active

\* While one instance owns the file, a Save writes its caller's change and, unless
\* its instance could not read the file at its start, loses no older one from the
\* disk, although snapshots are taken before saveMu and land in any order: for any
\* number of handlers, calls, failures and crashes.
THEOREM SavesLoseNothingOlder == OneInstance => (Spec => SaveKeepsOlderSaves)
<1> DEFINE A == \A w \in Writers : pc[w] = "written" /\ pc'[w] = "renamed" =>
                  /\ Load(file)'[op[w].host].at >= op[w].at
                  /\ \A h \in Hosts :
                       Load(file)[h].at <= op[w].at /\ ~unread[inst[w]]
                         => Load(file)'[h].at >= Load(file)[h].at
<1>1. OInv /\ [Next]_vars => A
  <2> SUFFICES ASSUME OInv, [Next]_vars, NEW w \in Writers,
                      pc[w] = "written", pc'[w] = "renamed"
               PROVE  /\ Load(file')[op[w].host].at >= op[w].at
                      /\ \A h \in Hosts :
                           Load(file)[h].at <= op[w].at /\ ~unread[inst[w]]
                             => Load(file')[h].at >= Load(file)[h].at
    <3>1. Load(file)' = Load(file')  BY DEF Load
    <3> QED  BY <3>1
  <2>1. TypeOK /\ IInv  BY DEF OInv, RInv, WInv
  <2>2. Save(w)
    <3>1. ASSUME NEW x \in Writers, Handler(x), x # w PROVE pc'[w] = pc[w]
      <4>1. CASE Save(x)  BY <2>1, <3>1, <4>1, SaveFrame
      <4>2. CASE \E h \in Hosts : Set(x, h) \/ Delete(x, h)
        BY <2>1, <3>1, <4>2 DEF Set, Delete, Mutate, Goto, TypeOK
      <4> QED  BY <3>1, <4>1, <4>2 DEF Handler
    <3>2. ~(\E h \in Hosts : Set(w, h) \/ Delete(w, h))
      BY DEF Set, Delete, Mutate
    <3>3. ~Lifecycle  BY DEF Lifecycle, Provision, Reject, Start, Cleanup, Crash
    <3>4. ~(UNCHANGED vars)  BY DEF vars
    <3> QED  BY <3>1, <3>2, <3>3, <3>4 DEF Next, Handler
  <2>3. file' = snap[w] /\ Load(snap[w]) = snap[w]
    <3>1. Rename(w)
      BY <2>1, <2>2 DEF Save, TakeSnapshot, LockSave, MkdirFails, OpenTmp, OpenFails,
         WriteTmp, WriteFails, RenameFails, RemoveTmp, ReturnOK, ReturnError, Goto,
         TypeOK
    <3> QED  BY <2>1, <3>1, LoadSnapshot DEF Rename, IInv, TmpFollowsSaver, TypeOK
  <2>4. /\ snap[w][op[w].host].at >= op[w].at
        /\ ~unread[inst[w]] => NothingOlder(w, Load(file))
    BY DEF OInv, SnapshotsMissNothing, Saving
  <2> QED  BY <2>1, <2>3, <2>4, StampsAreNumbers DEF NothingOlder
<1>2. OInv /\ [Next]_vars => [A]_vars  BY <1>1
<1>3. OneInstance => []OneInstance  BY DEF OneInstance
<1> QED
  BY <1>2, <1>3, InitOInv, OInvInductive, PTL DEF Spec, SaveKeepsOlderSaves
=============================================================================
